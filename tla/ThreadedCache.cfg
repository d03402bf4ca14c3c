SPECIFICATION Spec
CONSTANTS
    NoBudget = NoBudget
    keyA = keyA
    keyB = keyB
    keyC = keyC
    RequestCount = 3
    Runs <- MCRuns
    Configs <- MCConfigs
INVARIANTS
    BudgetOverrunExplained
    ReuseIsEarned
\* The run ends when every request is over.
CHECK_DEADLOCK FALSE
