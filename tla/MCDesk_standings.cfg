SPECIFICATION ExampleSpec
CONSTANTS
    p1 = p1
    guest = guest
    Name = {f1, f2}
    Hash = {h1, h2}
    Nick = {k1}
    Session = {s1}
    MaxOpenRequests = 1
    MaxWants = 1
    AwayHolds = {h1}
    NoHash = NoHash
    Area = {"up", "loc"}
    Federated = {"up"}
    FileName = {"n"}
    Content = {"x"}
    Truncate <- Cut
    Text = {"t"}
    NoText = ""
    Board = {"here", "peer"}
    Here = "here"
    Uploader = {"ann"}
    MayFederate = {"ann"}
    Caller = {1, 2}
    MaxRows = 1
    MaxLog = 2
    MaxNumber = 2
    MaxClock = 2
    AreaName = {n1, n2}
    ReservedName = {}
    Starters = {n1}
    Kind = {"message", "door"}
    Fraction = {60}
    Command = {c1}
    Author = {u1}
    Subjects = {1}
    SubjectLimit = 1
    MaxRecords = 1
    MeshEnabled = TRUE
    TelnetEnabled = TRUE
    WebEnabled = TRUE
    Seat = {1}
    Player = {p1}
    Guest = guest
    Fighter = {1}
    Granted <- Levels
    MaxTracked = 2
    Page = 2
    Unreadable = {"table"}
    MaxTries = 1
    MaxLeague = 2
    MaxRuns = 2
    Process = {1, 2}
    Place = {"roster", "general"}
    Roster = "roster"
    Latest = 1
    Whole = FALSE
    MaxPosts = 1
    MaxSeq <- Numbers
    MaxRestores = 1
    Dir = {"home", "a"}
    Home = "home"
    Spelling = {"a"}
    ExpandPath <- Expand
    Touched = {"mesh", "mode", "telnet", "telnet_port", "web", "environment"}
    Ports = {"", "2323"}
    ThemeFiles = {"own"}
    BrokenThemes = {}
    MaxEdits = 1
    MaxCommands = 2
    Shelf = {"hello", "arena"}
    Offer <- Registered
    Admin = {1}
    Asker = {1}
    Guests = {}
    Able <- AbleNow
    ServerEnv = {"COLUMNS", "SECRET", "OTHER"}
    Names <- Texts
    Enforced = {"cpu"}
    LeagueArea = "league"
    MaxSaves = 2
    MaxLaunches = 1
    NodeID <- IDs
    Ourselves <- Us
    Checksum <- Sum4
    Petname = {pnw}
    DisplayNames = {"a"}
    MaxIncarnation = 1
INVARIANTS ReadIsCounted
CHECK_DEADLOCK FALSE
