CONSTANTS
    P = 37
    M16 = 4
    M32 = 8
    M64 = 16
    N = 2
    MaxAmount = 3
    MaxReserves = 15
    MaxAge = 7
    MaxCountry = 2
    MaxScore = 3
    MaxDebtRatio = 7
    ScoreScale = 5
    Scale = 2
    Values <- MCValues
SPECIFICATION Spec
INVARIANTS
    AcceptedScalarIsProvable
    AcceptedBatchIsProvable
    ScalarDecided
    BatchDecided
CHECK_DEADLOCK FALSE
