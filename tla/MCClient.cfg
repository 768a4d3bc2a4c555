\* Code of a plugin may hang inside activate(), not while it is imported.
SPECIFICATION Spec
CONSTANTS
    Plugin = {1, 2}
    Hangs = {"activate"}
    Newest = 3
    TTL = 1
    Quits = 2
    Release = {1, 2}
    Node = {n1, n2}
    Chunks = 2
    Attempts = 6
    Process = {p}
    Request = {r1, r2}
    Lines = 3
    None = None
INVARIANTS
    InstallsWhatWasChecked
    OnceEach
PROPERTIES
    NothingForgotten
    StartEnds
CHECK_DEADLOCK FALSE
