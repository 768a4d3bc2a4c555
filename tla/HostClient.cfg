\* One client drives the state root; v3 speaks another protocol.
SPECIFICATION FairClientSpec
CONSTANTS
    Pid = {p1, p2}
    NoPid = NoPid
    SerialStarts = TRUE
    ProbeMayTimeout = FALSE
    Client = {c1}
    Version = {v1, v2, v3}
    NewProtocol = {v3}
INVARIANTS
    ReplacesCleanly
PROPERTIES
    CallsEndInOrder
\* Every process may have ended.
CHECK_DEADLOCK FALSE
