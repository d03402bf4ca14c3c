\* Twelve workloads of five requests, with every policy.
SPECIFICATION Spec
CONSTANTS
    Shapes <- MCShapes
    Count = 5
    Docs = 2
    Sessions = 2
    Tenants = 2
    BurstLengths = {2, 3}
    Rows <- MCRows
    SharedTokens = 48
    DocTokens = 64
    Configs <- MCConfigs
    Loads <- MCLoads
    Weights <- MCWeights
    BlockSize = 16
CONSTRAINT
    MCZipfianDocs
INVARIANTS
    RegimeStructure
    DecisionsAreServed
    StickyIsSemantic
    UntrainedOnlyForCache
\* The run ends with its last request.
CHECK_DEADLOCK FALSE
