\* Two packages, none of which need to let go of the event loop.
INIT CheckInit
NEXT CheckNext
CONSTANTS
    Seats = 2
INVARIANTS
    EveryEndNamesThePlugin
\* The check ends.
CHECK_DEADLOCK FALSE
