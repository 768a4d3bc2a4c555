\* Notices come between attempts.
SPECIFICATION Spec
CONSTANTS
    MaxChunks = 2
    MaxCalls = 2
    MaxAttempts = 2
    MaxUsers = 1
    MaxTurns = 2
    MaxEvents = 7
    MaxNotices = 1
    QuietNotices = TRUE

    
PROPERTIES
    HistoryStands
\* A Session may fall silent.
CHECK_DEADLOCK FALSE
