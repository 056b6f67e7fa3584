SPECIFICATION FairSpec
CONSTANTS
    merchant1 = merchant1
    o1 = o1
    o2 = o2
    Orders = {o1}
    Forged = {}
    Target <- MCTarget
    PreimageReads = {"nothing"}
    MaxCrashes = 2
    Faults = {"crash", "reveal", "misses"}
CHECK_DEADLOCK FALSE
INVARIANTS
    OpensPerStart
    RefundedIsReleased
PROPERTIES
    NeverRefundCommitted
    EndsOrAwaitsReveal
