\* A line of two tokens and four requests, two windows, two terminals with two versions
\* and two Hosts, a workspace of depth two with two requests, three days in two months.
\* Careless = FALSE: no completion is accepted while a directory is read, and no
\* selection, focus change or deployment comes while another one awaits.
SPECIFICATION Spec
CONSTANTS
    Bin = {"a", "b"}
    Base = {"b"}
    Default = "a"
    Profile = {"bashrc", "profile"}
    Moves = FALSE
    None = None
    Slash = {"/", "/q"}
    Path = {"./a"}
    Word = {"x"}
    Command = {"/q"}
    MaxTokens = 2
    MaxRequests = 4
    Careless = FALSE
    Call = {1, 2}
    Name = {"a", "b"}
    Inner = {"b"}
    Text = {"t", "u"}
    Terminal = {1, 2}
    Launchers = {1}
    Versions = 4
    Floor = 24
    Nodes = {22, 24}
    Model = {"m", "n", "o"}
    Efforts <- MCEfforts
    DefaultEffort <- MCDefaultEffort
    Op = {1}
    Writes = 2
    Width = 3
    Pen = {"p", "q"}
    Colourless = FALSE
    Windows = 2
    Window = {1, 2}
    Choices = 2
    Seats = 2
    Branch = {"a", "b"}
    Odd = {"c#"}
    Upstream = {"b"}
    Version = {1, 2}
    Hosts = 2
    Request = {1, 2}
    Days = 3
    DaysAMonth = 2
    DAILY_READ_LIMIT = 2
    MONTHLY_READ_LIMIT = 3
    Size = 3
    Newest = 3
    Widths = {80, 100}
    Points = {5, 30, 60, 90}
    MaxKeys = 2
    Flaws = {"mislabels", "loses"}
INVARIANTS
    
    LeftForTheNext
    ReportsWhatIsSo
    ReadsAreMetered
PROPERTIES
    KeysMeanTheSame
    
CHECK_DEADLOCK FALSE
