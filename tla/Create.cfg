SPECIFICATION MCSpec
CONSTANTS
    m1 = m1
    m2 = m2
    h1 = h1
    r1 = r1
    r2 = r2
    c1 = c1
    c2 = c2
    s1 = s1
    j1 = j1
    j2 = j2
    j3 = j3
    ckb = ckb
    udt = udt
    Merchants = {m1, m2}
    Challenges = {h1}
    Reqs = {r1, r2}
    Ttl = 1
    InvoiceLife = 2
    Quotas = {1}
    MaxClock = 2
    MaxVersions = 1
    MaxRestarts = 1
    MaxOpen = 2
    Checkouts = {c1}
    Requests = {c2}
    Secrets = {s1}
    Secret <- MCSecret
    HasVerifier = TRUE
    HasPayNode = TRUE
    FeeBps = 2000
    FeeBase = 1
    MinPayment = 2
    MinCapacity = 1
    MaxCapacity = 8
    Multiplier = 2
    OpenBudget = 2
    SettleMargin = 1
    MaxExpiry = 6
    DefaultExpiry = 3
    Buffer = 1
    Amounts = {2, 4}
    Asks = {0, 7}
    Sizes = {0, 9}
    Lives = {6}
    MaxNow = 2
    MaxCrashes = 1
    Openers = {j1, j2, j3}
    Locked = {j1, j2, j3}
    Abandons = {j1, j2, j3}
    Asset <- MCTwoAssets
    Tries = 2
    Faults = {"rpc", "features"}
SYMMETRY Symmetry
CHECK_DEADLOCK FALSE
INVARIANTS
    OneTokenPerChallenge
    QuotaKept
    AckedPolicyKept
    NoTwoActive
    Feasible
    CheckoutFits
    OwnChannel
PROPERTY
    AbandonsOwn
