SPECIFICATION Spec
CONSTANTS
    NoProc = NoProc
    Proc = {p1, p2}
    Request = {r1}
    Widths = {50, 84, 120}
    MaxDrag = 21
    Patient = TRUE
SYMMETRY Symmetric
INVARIANTS
    KeysFollowTheFrame
    HoldAnswered
    NoneLeftBehind
PROPERTIES
    ProgramKept
CHECK_DEADLOCK FALSE
