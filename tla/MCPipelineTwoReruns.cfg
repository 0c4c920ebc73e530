CONSTANTS
    Runs = {a}
    Reruns = {r1, r2}
    NoRun = NoRun
    MaxAttempts = 2
    Workers = {w1}
    MaxLost = 0
    MaxKilled = 0
    MaxErrors = 0
    MaxRedelivered = 0
    MaxWiped = 0
    Requeues = {q1, q2}
    MaxApiErrors = 0
SPECIFICATION PipeSpec
SYMMETRY PipeSymmetry
INVARIANT OneRerunPerDeadLetter
CHECK_DEADLOCK FALSE
