SPECIFICATION MerchantSpec
CONSTANTS
    Sales = {"s1", "s2"}
    Monitor = "monitor"
    Amount = 2
    Floor = 1
    Goal = 2
    FirstInbound = 1
    MaxReadFails = 1
    MaxSpent = 1
    w1 = w1
    w2 = w2
    Watches = {w1, w2}
    MaxCrashes = 2
    Faults = {"crash", "rpc", "post", "giveUp"}
    c1 = c1
    c2 = c2
    c3 = c3
    c4 = c4
    merchant1 = merchant1
    merchant2 = merchant2
    NoCall = NoCall
    Runs = {c1, c2, c3, c4}
    Keys = {merchant1, merchant2}
    Key <- MCKey
CHECK_DEADLOCK FALSE
INVARIANTS
    GateHolds
    OneEvent
    ReceiptIsTrue
    NothingKept
PROPERTIES
    FloorRestored
    SettlementSeen
    MutexKept
    EveryCallEnds
