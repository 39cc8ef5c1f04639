SPECIFICATION Spec
CONSTANTS
    Slab = {s1, s2}
    Extent = {e1}
    Copies = 2
    Writer = {w1}
    Flusher = {f1}
    Budgets <- RefusedBudgets
SYMMETRY Symmetry
INVARIANTS TrustedLegsAreCurrent
CHECK_DEADLOCK FALSE
