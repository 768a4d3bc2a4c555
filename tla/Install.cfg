\* Two terminals, three versions, any number of commands.
SPECIFICATION Spec
CONSTANTS
    Process = {p1, p2}
    Version = {v1, v2, v3}
    None = None
SYMMETRY Alike
INVARIANTS
    
    CommandWorks
PROPERTIES
    CommandsReportTruly
CHECK_DEADLOCK FALSE
