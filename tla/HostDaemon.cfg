\* Starts do not overlap: every ownership promise holds.
SPECIFICATION FairSpec
CONSTANTS
    Pid = {p1, p2, p3}
    NoPid = NoPid
    SerialStarts = TRUE
    ProbeMayTimeout = FALSE
INVARIANTS
    OneOwner
    FoundWhileServing
PROPERTIES
    ImplementsRole
    RoleRecovered
\* Every process may have ended.
CHECK_DEADLOCK FALSE
