\* An interrupted child with the summary of an earlier attempt is skipped by --resume.
SPECIFICATION Spec
CONSTANTS
    d1 = d1
    d2 = d2
    ChildCount = 3
    RunDirs = {d1, d2}
    RunDirOf <- MCRunDirOf
    IdOf <- MCRunDirOf
    MaxInvocations = 3
INVARIANTS
    InterruptedIsRecovered
CHECK_DEADLOCK FALSE
