SPECIFICATION Spec
CONSTANTS
    k1 = k1
    k2 = k2
    Key = {k1, k2}
    Pages = 6
    LogLen = 8
    None = None
    Torn = Torn
    Setups <- MetaSetups
CHECK_DEADLOCK FALSE
INVARIANTS AnsweredSurvives PagesAccountedFor
