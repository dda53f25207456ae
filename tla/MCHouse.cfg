SPECIFICATION Spec
CONSTANTS
    Inv = {1, 2}
    Nicks = {n1, guest}
    Guest = guest
    Grants <- Given
    PerHour = 1
    Hour = 2
    End = 3
    StateKeys = {k1}
    Sizes = {1, 2}
    s1 = s1
    s2 = s2
    s3 = s3
    s4 = s4
    Call = {s1, s2, s4}
    IdOf <- Tabs
    FrontOf <- Fronts
    KindOf <- Kinds
    AccountOf <- Accounts
    Limit = 1
    Warnings = {}
    MaxTelnet = 1
    MaxWeb = 1
    MaxPerUser = 1
    IdleMax = 1
    UnlockedIdle = 0
    Ttl = 0
    Talker = {s1, s2, s4}
    TalkerId <- TabsThatTalk
    Browsing = {s2, s4}
    MaxLines = 3
    Channel = {1, 2, 3}
    sk = sk
    Nicknames = {"n1"}
    Visitor = {v1}
    SSHKeyOf <- SSHKeys
    NoSSHKey = NoSSHKey
    OpenSignup = TRUE
    GuestEnabled = TRUE
    PasskeyHolders = {}
    MaxKeyPairs = 2
    MaxLetters = 1
    MaxJobs = 2
    Member = {m1}
    Barred = {}
    Origins <- Proxied
    Proxies = {"p"}
    Garbage = {}
    Everyone = "all"
    PerHourAllowed = 2
    GlobalFactor = 2
    HourLength = 2
    MaxBuckets = 1
    CodeTTL = 1
    CeremonyTTL = 2
    LastTick = 2
    MaxCodes = 2
    MaxCeremonies = 2
    MaxRequests = 4
    AtFirst <- First
    Arriving <- Coming
    Rights = {"member", "sysop", "unlocked"}
    Mine = {11}
    MaxCommands = 3
    MaxArrivals = 1
    MaxBorrows = 2
    MaxKeys = 3
    Session = {e1, e2}
    Group = {g1}
    MaxQueued = 1
    BatchMax = 2
    Window = 1
    MaxAge = 2
    PageLimit = 2
    MaxEvents = 3
    MaxPeer = 1
    MaxFaults = 1
INVARIANTS EventsSurvive ApiHolds CallersHold NothingStrandedQuietly SignInIsSound ScreensHold LineIsSound
CHECK_DEADLOCK FALSE
