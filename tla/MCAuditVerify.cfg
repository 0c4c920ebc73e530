CONSTANTS
    Writers = {w1}
    Events = {e1}
    NoWriter = NoWriter
    MaxTries = 1
    MaxCalls = 2
    MaxClock = 0
    MaxKeyVersion = 2
    Verifiers = {v1, v2}
    MaxDamage = 1
SPECIFICATION VerifySpec
INVARIANTS
    ErrorMeansVaultOrDamage
    ValidMeansUndamaged
    BrokenMeansDamagedThere
PROPERTY
    VerificationEnds
