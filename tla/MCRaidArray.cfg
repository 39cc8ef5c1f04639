SPECIFICATION Spec
CONSTANTS
    d1 = d1
    d2 = d2
    d3 = d3
    t1 = t1
    t2 = t2
    None = None
    Slots = 2
    Units = 2
    Drive = {d1, d2, d3}
    Home <- Homes
    Task = {t1, t2}
    Budgets <- Setups
SYMMETRY TaskSymmetry
INVARIANTS HoldersAgree FlushedSurvives RestartTrustsOnlyCurrent WriteUnderItsBit
CHECK_DEADLOCK FALSE
