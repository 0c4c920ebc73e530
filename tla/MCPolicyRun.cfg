\* One run, two deliveries, a deployment, a second setup run.
CONSTANTS
    Evidence <- MCEvidence
    Passes <- MCPasses
    Attempts = {1, 2}
    MaxSetups = 2
    MaxFaults = 1
    Loads <- MCLoads
SPECIFICATION Spec
INVARIANTS
    PassIsProved
    FailureHasCause
    AttestationDescribesRun
    AttestationsAgree
PROPERTY AnswersFollowKeys
CHECK_DEADLOCK FALSE
