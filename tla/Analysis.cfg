SPECIFICATION Spec
CONSTANTS
    None = None
    Torn = Torn
    NoStamp = NoStamp
    MaxBundledRuns = 2
    Unknown = Unknown
    Metrics <- MCMetrics
    Suites <- MCSuites
INVARIANTS
    ParetoIsFrontier
    RegretIsSound
    DeltasArePaired
    EvidenceIsBacked
