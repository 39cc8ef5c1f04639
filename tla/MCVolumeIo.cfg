SPECIFICATION Spec
CONSTANTS
    p1 = p1
    p2 = p2
    p3 = p3
    d1 = d1
    d2 = d2
    None = None
    Volume = {"v1", "v2", "v3"}
    Root = "v1"
    Block = {1, 2}
    Slab = {d1, d2}
    Slot = {1, 2, 3}
    SlabOf <- MCSlabOf
    Task = {p1, p2, p3}
    Loads <- IoLoads
CHECK_DEADLOCK FALSE
SYMMETRY Perms
INVARIANTS TypeOK Exclusion NoLostWrite CountsCoverMaps AloneMeansAlone NothingLeaks
PROPERTIES ReadsAreFresh
