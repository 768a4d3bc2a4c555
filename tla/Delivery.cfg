\* Two Sessions, two prompts, prompts and cancels that fail at any moment.
SPECIFICATION FairSpec
CONSTANTS
    Session = {s1, s2}
    NoSession = NoSession
    MaxLines = 2
    Dequeuer = {d1}
    Faults = {"prompt"}
INVARIANTS
    
    DraftsInOrder
PROPERTIES
    CancelClears
\* A user may stop.
CHECK_DEADLOCK FALSE
