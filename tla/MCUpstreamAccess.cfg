CONSTANTS
    KeyTtl = 2
    MaxClock = 3
    MaxRotations = 1
    Calls = {c1, c2}
    Nonces = {n1, n2}
    NoNonce = NoNonce
    Leeway = 0
    MaxLifetime = 3
    Window = 2
    Minute = 2
    PerMinute = 1
    MaxRestarts = 1
    NoCaller = NoCaller
    Ttl = 3
    Skew = 1
    VaultTimeout = 1
    Loads <- MCLoads
    MaxCalls = 2
    MaxResends = 1
SPECIFICATION AccessSpec
SYMMETRY AccessSymmetry
INVARIANTS
    DenialHasCause
    SubmitsPerWindow
PROPERTY
    SubmissionAcceptedOnce
    RefreshesPaced
CHECK_DEADLOCK FALSE
