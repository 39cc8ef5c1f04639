SPECIFICATION MCSpec
CONSTANTS
    s1 = s1  s2 = s2
    k1 = k1  k2 = k2  k3 = k3  k4 = k4
    t1 = t1  t2 = t2
    None = None
    Width = 2
    Stripe = {s1, s2}
    Slab = {k1, k2, k3, k4}
    Task = {t1, t2}
    Budgets <- AbsenceOnce
SYMMETRY Sym
PROPERTY FailedStaysFailed
CHECK_DEADLOCK FALSE
