\* Every cache model and condition over three observed requests.
SPECIFICATION Spec
CONSTANTS
    NoBudget = NoBudget
    Configs <- MCConfigs
    Requests <- MCRequests
    Markers = {"@qa", "@json"}
    BlockSize = 2
    DeltaPercent = 15
    MaxObservations = 3
INVARIANTS
    BudgetRespected
    EstimateMatchesHistory
    FootprintAccounted
    LastPromptReusable
\* The bound on observations stops the model.
CHECK_DEADLOCK FALSE
