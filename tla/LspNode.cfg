SPECIFICATION LspNodeSpec
CONSTANTS
    p1 = p1
    f1 = f1
    s1 = s1
    s2 = s2
    Orders = {p1, f1}
    Prepays = {p1}
    Calls = {s1}
    MaxCrashes = 1
    Faults = {"crash", "rpc", "expiry"}
    Nodes = {"C", "H", "M"}
    Assets = {"R"}
    Bills <- MCBills
    Meets <- MCMeets
    Opens <- MCOpens
    Observed <- MCObserved
    Fundings = {1}
    MaxChannels = 2
    MaxCalls = 2
CHECK_DEADLOCK FALSE
INVARIANTS
    FeeBeforeChannel
    OneChannel
    MoneyFollowsPayments
    RecordsAgree
PROPERTIES
    EndIsFinal
    OpeningEnds
