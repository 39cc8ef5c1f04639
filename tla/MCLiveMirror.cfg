SPECIFICATION Spec
CONSTANTS
    g1 = g1  g2 = g2
    m1 = m1  m2 = m2
    t1 = t1  t2 = t2
    c1 = c1  c2 = c2
    None = None
    Extents = 2
    Target = {g1, g2}
    Mirror = {m1, m2}
    Task = {t1, t2}
    Caller = {c1, c2}
    Budgets <- Setups
SYMMETRY Sym
INVARIANTS SyncedMeansSame SwitchedHasEverything SkippedFlushIsDone NeverVanishes
