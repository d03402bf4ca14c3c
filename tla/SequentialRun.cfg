\* Four requests on two adapters, with failures and interrupts anywhere.
SPECIFICATION SequentialFairSpec
CONSTANTS
    a1 = a1
    a2 = a2
    Adapters = {a1, a2}
    RequestCount = 4
INVARIANTS
    RoutedUnloaded
    CountersMatchRows
PROPERTIES
    SequentialRunEnds
    SequentialImplementsLedger
