SPECIFICATION DeskSpec
CONSTANTS
    Channels <- MCChannels
    Total <- MCTotal
    MinLocalBps = 5000
    Move = 1
    RouteFees = {0, 1}
    MaxTraffic = 2
    Own = "own"
    Others = {"other"}
    MaxWire = 3
    Registry <- MCRegistry
    Graph <- MCGraph
    PageSize = 2
    MaxNodes = 4
    Infos <- MCInfos
    Ask <- MCAsk
    RequireLsp = FALSE
    Norm <- MCNorm
    ProofCalls = {"p1", "p2", "p3"}
    Proc <- MCProc
    Backend <- MCBackend
    Wanted <- MCWanted
    WantCache = TRUE
    MaxFaults = 1
    MaxProverCrashes = 1
    Deployments <- MCDeployments
    Orders = {"o1", "o2"}
    MaxStarts = 2
    MaxFlaps = 2
    Topologies <- MCTopologies
    Asked = {0, 1}
    HostedPeriods = 1
    MaxCheckouts = 2
    MaxBills = 2
    MaxResets = 1
    MaxExits = 1
    Intents = {"i1"}
    Calls = {1, 2}
    HashModes = {"same-hash", "linked"}
    MaxFails = 1
    MaxRestarted = 1
    Passes = {"loop", "hand"}
    Loop = "loop"
    Capacity = 2
    RateBps = 5000
    Grace = 1
    Attempts = 1
    Funds = 1
    Inbound = 1
    MaxPeriods = 3
    MaxSales = 1
CHECK_DEADLOCK FALSE
INVARIANTS
    OwnPreimageOnly
    BestIsCheapest
    FailsWithProver
    AnsweredIsKept
    RecordTrue
    BooksTrue
    RentAccounted
PROPERTIES
    DonorKeepsFloor
    LapseIsDue
