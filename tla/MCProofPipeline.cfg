CONSTANTS
    Runs = {a}
    Reruns = {r1}
    NoRun = NoRun
    MaxAttempts = 1
    Workers = {w1, w2}
    MaxLost = 2
    MaxKilled = 1
    MaxErrors = 1
    MaxRedelivered = 1
    MaxWiped = 1
    Requeues = {q1}
    MaxApiErrors = 1
SPECIFICATION PipeFairSpec
INVARIANTS
    PipeTypeOK
    TablesAreBacked
    PayloadAtHand
    RestingRunsAgree
    AttemptsBounded
PROPERTY
    DeadLetterKeepsPayload
    TerminalOutlivesWorker
    AcceptedRunEnds
CHECK_DEADLOCK FALSE
