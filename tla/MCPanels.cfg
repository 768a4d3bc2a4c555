SPECIFICATION PanelsSpec
CONSTANTS
    Rows = 5
    Heights = {15, 17}
    Efforts = 2
    Session = {1, 2, 3, 4}
    Here = {2, 3}
    Blank = {2}
    Text = {"a"}
    Limit = 2
    Options = 2
    Questions = 2
    DraftLimit = 3
    Clock = 2
    Reads = 1
    RailHere = {1, 2}
    RailElsewhere = {3}
    PageSize = 1
    PageMax = 2
    Areas = {2, 3}
    Window = {w1, w2}
    Revisions = 1
    File = {"f", "g"}
    Changes = 3
    Package = {1, 2}
    ScreenColumns = 2
    ScreenRows = 2
    Tokens = 4
    History = 2
INVARIANTS
    AnswersAreTheUsers
    
    EditorIsItsPackages
PROPERTIES
    EnterOpensTheHighlighted
    NobodyOverwritten
CHECK_DEADLOCK FALSE
