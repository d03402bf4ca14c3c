\* Two commands, doctor or run, over the shapes of the shipped configurations.
SPECIFICATION PlanSpec
CONSTANTS
    Unset = Unset
    Files <- MCFiles
    Overlays <- MCOverlays
    Budgets <- MCBudgets
    Environments <- MCEnvironments
    CloudFlags <- MCCloudFlags
    MaxCommands = 2
INVARIANTS
    NamesIdentifyRuns
    DirectoryHoldsName
    DoctorForeseesRun
    EveryValueIsRun
\* After the last command nothing is left to do.
CHECK_DEADLOCK FALSE
