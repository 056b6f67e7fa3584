SPECIFICATION ProverSpec
CONSTANTS
    ProofCalls = {"p1", "p2"}
    Proc <- MCProc
    Backend <- MCBackend
    Wanted <- MCWanted
    WantCache = TRUE
    MaxFaults = 0
    MaxProverCrashes = 0
CHECK_DEADLOCK FALSE
INVARIANT
    ServedAnyway
