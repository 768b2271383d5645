SPECIFICATION Spec
CONSTANTS
    p1 = p1
    p2 = p2
    q1 = q1
    Payments = {p1}
    Probes = {q1}
    AdapterSeq <- OneAdapter
    Threshold = 2
    Reset = 2
    MaxAttempts = 2
    Fresh <- StaleLedger
    NoRoute = none
INVARIANT ReadyMeansFresh
