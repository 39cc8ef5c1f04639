SPECIFICATION FairSpec
CONSTANTS
    c1 = c1
    c2 = c2
    c3 = c3
    Caller = {c1, c2, c3}
    None = None
    MaxWrites = 2
    MaxAsks = 3
CHECK_DEADLOCK FALSE
INVARIANTS IInv
PROPERTIES SharesFlush EveryCallReturns ServiceSpec
