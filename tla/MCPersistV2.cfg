SPECIFICATION FairSpec
CONSTANTS
    t1 = t1
    t2 = t2
    t3 = t3
    k1 = k1
    k2 = k2
    Task = {t1, t2, t3}
    Key = {k1, k2}
    None = None
    Errors = {"sync", "write"}
    Drops = TRUE
    MaxChanges = 2
    MaxErrors = 2
CHECK_DEADLOCK FALSE
INVARIANTS AnsweredIsCovered QuietMeansWritten NoChangeForgotten
PROPERTIES NeverOlder EveryPersistEnds
