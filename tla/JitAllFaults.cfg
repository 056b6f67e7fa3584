SPECIFICATION Spec
CONSTANTS
    merchant1 = merchant1
    o1 = o1
    o2 = o2
    Orders = {o1}
    Forged = {}
    Target <- MCTarget
    PreimageReads = {"preimage", "nothing"}
    MaxCrashes = 2
    Faults = {"cancel", "reveal", "crash", "rpc", "queued", "slow", "misses"}
CHECK_DEADLOCK FALSE
INVARIANT
    EffectsInOrder
