CONSTANTS
    Writers = {w1, w2}
    Events = {e1}
    NoWriter = NoWriter
    MaxTries = 2
    MaxCalls = 2
    MaxClock = 1
    MaxKeyVersion = 2
SPECIFICATION ChainFairSpec
INVARIANTS
    ChainIntact
    TimestampsMonotone
    ExhaustionMeansContention
PROPERTIES
    ImplementsAuditLog
    EveryCallEnds
CHECK_DEADLOCK FALSE
