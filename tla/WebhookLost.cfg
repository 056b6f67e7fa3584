SPECIFICATION FairSpec
CONSTANTS
    w1 = w1
    w2 = w2
    Watches = {w1}
    MaxCrashes = 1
    Faults = {"crash"}
CHECK_DEADLOCK FALSE
PROPERTY
    SettlementNotified
