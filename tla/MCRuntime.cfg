\* Two runtimes share the root, one after the other or at once; a second release built twice, archives of two chunks.
SPECIFICATION Spec
CONSTANTS
    Slot = {p1, p2}
    Setting0 = {s}
    Release = {1, 2}
    CutWrites = FALSE
    Newest = 3
    Rebuilt = {2}
    Chunks = 2
    None = None
INVARIANTS
    BootsItsOwn
    ReleaseIsWhole
PROPERTIES
    ReservationHolds
    StopEnds
CHECK_DEADLOCK FALSE
