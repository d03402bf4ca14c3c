\* max_concurrency = 0 in the config still admits one request at a time.
SPECIFICATION Spec
CONSTANTS
    r1 = r1
    r2 = r2
    r3 = r3
    s1 = s1
    s2 = s2
    a1 = a1
    a2 = a2
    Requests = {r1, r2, r3}
    Adapters = {a1, a2}
    Sessions = {s1, s2}
    SessionOf <- MCSessionOf
    MaxConcurrency = 0
    NoAdapter = NoAdapter
INVARIANTS
    SerialEstimatesExact
