SPECIFICATION Spec
CONSTANTS
    Receiver = {r1}
    Bundle = {b1, b2}
    Caller = {c1}
    K = 2
    RepairMask <- Masks
    Repairs = {1, 2}
    MaxSymbols = 3
    MaxOpen = 1
    TTL = 1
    MaxAir = 1
    MaxLost = 0
    MaxDamage = 1
    MaxCrash = 1
    Area = {a1}
    Sizes = {3}
    Shares = {0, 100}
    Ceiling = 4
    Instances = {1, 2}
    R0 = 1
    MinSample = 2
    Hour = 2
    DutyLimit = 9
    Quiet = {2}
    Channels = {"clear", "silent"}
    MaxPenalty = 2
    MaxTime = 2
    MaxR = 2
    Sources = 3
    MaxIndex = 5
    Payloads <- Bytes
    MaxFrame = 2
    MaxWire = 9
    MaxItems = 4
    Node = {a, b}
    MaxSeq = 2
    BundleRecords = 1
    MaxBundles = 2
    MaxCarrierBytes = 3
    MaxBlobBytes = 4
    FileSets <- NoFiles
    MaxWritten = 2
    MaxUpgraded = 1
    Prolific = {a}
    Id = {i1, i2, i3}
    NoId = NoId
    MaxChain = 3
    Window = 1
    Horizon = 2
    Incs = {1}
    User = {u1, u2}
    MaxProfiles = 2
    Probe = 2
    Baseline = 2
    Load = 4
    Settle = 1
    MinSamples = 1
    TxEvery = 2
    TxRetries = 1
    Hops = 1
    Levels = {0, 2}
    MaxAmbient = 1
    AbortRise = 0
    PacketCost = 1
    Setups <- Radios
    Ours = "b"
    Override = FALSE
    Self = 1
    Peer = {2}
    Packets <- Heard
    Quota = 1
    QuotaWindow = 1
    Room = 1
    MaxLine = 2
    MaxAsks = 2
    MaxReboots = 1
    MaxHeard = 3
    Samples <- OfEach
    MaxLabel = 2
    MaxTags = 2
    MaxEvents = 2
    MaxPayload = 1
    MaxBody = 12
    MaxVarint = 6
    MaxRecs = 3
    MaxOrigin = 3
    MaxEdits = 2
    MaxBatch = 20
    MaxUnpacked = 60
    Dictionaries = {0, 1}
    MaxPaste = 11
    Station = {1, 2}
    Signable <- Signed
    Trusts <- Everyone
    Latency = {1}
    Jitter <- Earlier
    InboxSize = 1
    MaxSlot = 2
    MaxScheduled = 2
    MaxInstant = 2
INVARIANTS BundlesHold AirtimeIsKept DecodesWhenDetermined SerialHolds TripIsEnough DirectoriesHold OneWireForm HarnessIsHonest
CHECK_DEADLOCK FALSE
