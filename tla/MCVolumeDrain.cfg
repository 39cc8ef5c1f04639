SPECIFICATION Spec
CONSTANTS
    p1 = p1
    p2 = p2
    p3 = p3
    d1 = d1
    d2 = d2
    None = None
    Volume = {"v1"}
    Root = "v1"
    Block = {1, 2}
    Slab = {d1, d2}
    Slot = {1, 2, 3}
    SlabOf <- MCSlabOf
    Task = {p1, p2, p3}
    Loads <- DrainLoads
CHECK_DEADLOCK FALSE
INVARIANT NoLostWrite
