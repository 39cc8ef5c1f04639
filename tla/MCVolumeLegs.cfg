SPECIFICATION Spec
CONSTANTS
    Slab = {s1, s2, s3}
    Extent = {e1, e2}
    Copies = 2
    Writer = {w1, w2}
    Flusher = {f1, f2}
    Budgets <- LegsBudgets
SYMMETRY Symmetry
INVARIANTS FlushReachesMedia FlushSurvivesFaults CurrentUnlessForced
CHECK_DEADLOCK FALSE
