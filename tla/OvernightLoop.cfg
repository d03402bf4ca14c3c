SPECIFICATION Spec
CONSTANTS
    Tasks <- MCTasks
    MaxRetries = 1
    InfraMaxRetries = 2
    MaxInvocations = 2
    MaxReplays = 1
INVARIANTS
    CompleteIsEarned
    FailureHasCause
PROPERTY OwnServerAnswers
CHECK_DEADLOCK FALSE
