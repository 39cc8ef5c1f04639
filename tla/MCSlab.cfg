SPECIFICATION Spec
CONSTANTS
    p1 = p1
    p2 = p2
    Syncer = {p1, p2}
    None = None
    NSlots = 2
    Retries = 1
    Setups <- SlabSetups
CHECK_DEADLOCK FALSE
SYMMETRY Perms
INVARIANTS EverySlotAccountedFor NoSlotHandedOutTwice EntriesNameTheirData SyncIsDurable
PROPERTY ErasedBeforeReuse
