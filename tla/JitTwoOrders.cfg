SPECIFICATION FairSpec
CONSTANTS
    merchant1 = merchant1
    o1 = o1
    o2 = o2
    Orders = {o1, o2}
    Forged = {o2}
    Target <- MCTarget
    PreimageReads = {"preimage"}
    MaxCrashes = 0
    Faults = {"reveal"}
CHECK_DEADLOCK FALSE
INVARIANT
    CommitmentKept
PROPERTIES
    EscrowKept
    EveryOrderEnds
    ForgedIsRefunded
