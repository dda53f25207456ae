SPECIFICATION Spec
CONSTANTS
    s1 = s1
    s2 = s2
    s3 = s3
    n1 = n1
    n2 = n2
    Name = {f1}
    Hash = {h1, h2, h3}
    Nick = {k1}
    Session = {}
    MaxOpenRequests = 3
    MaxWants = 1
    AwayHolds = {h1, h2}
    NoHash = NoHash
    Sess = {s1, s2, s3}
    NodeOf <- Nodes
    MaxConcurrent = 2
    NodeLock = TRUE
    ApiConn = {1}
    Call = {s2, s3}
    FrontOf <- Fronts
    KindOf <- Kinds
    IdOf <- OwnIds
    AccountOf <- OwnIds
    Limit = 3
    Warnings = {1, 2}
    MaxTelnet = 1
    MaxWeb = 1
    MaxPerUser = 1
    IdleMax = 2
    UnlockedIdle = 1
    Ttl = 2
    Receiver = {r1}
    Bundle = {b1}
    Caller = {c1}
    K = 2
    RepairMask <- Masks
    Repairs = {1}
    MaxSymbols = 5
    MaxOpen = 1
    TTL = 1
    MaxAir = 2
    MaxLost = 1
    MaxDamage = 0
    MaxCrash = 0
    Station = {n1, n2}
    Topic = {"a"}
    Carries <- All
    Writers = {n1}
    Dict <- Older2
    Timeout = 4
    BaseInterval = 2
    PeerDivisor = 5
    DigestCost = 0
    LongestInterval = 2
    Jitter = 0
    MaxLoss = 0
INVARIANTS AloneOnNode
PROPERTIES RunsEnd TimeIsUp Answered Delivered CatchesUp
CHECK_DEADLOCK FALSE
