SPECIFICATION Spec
CONSTANTS
    p1 = p1
    p2 = p2
    Syncer = {p1, p2}
    None = None
    NSlots = 1
    Retries = 1
    Setups <- PublishSetups
CHECK_DEADLOCK FALSE
INVARIANT EntryAfterData
