SPECIFICATION Spec
CONSTANTS
    merchant1 = merchant1
    o1 = o1
    o2 = o2
    Orders = {o1}
    Forged = {}
    Target <- MCTarget
    PreimageReads = {"nothing"}
    MaxCrashes = 0
    Faults = {"cancel"}
CHECK_DEADLOCK FALSE
INVARIANT
    CommitmentKept
