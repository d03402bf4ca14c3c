\* Three invocations of a sweep of three children, the third in the first one's directory.
SPECIFICATION FairSpec
CONSTANTS
    d1 = d1
    d2 = d2
    ChildCount = 3
    RunDirs = {d1, d2}
    RunDirOf <- MCRunDirOf
    IdOf <- MCRunDirOf
    MaxInvocations = 3
INVARIANTS
    SkippedIsFinished
    SweepVerdictSound
    AttemptIsOnRecord
PROPERTIES
    FinishedIsKept
    AttemptsCountOn
    InvocationEnds
\* After the last invocation nothing is left to do.
CHECK_DEADLOCK FALSE
