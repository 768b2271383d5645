SPECIFICATION FairSpec
CONSTANTS
    p1 = p1
    p2 = p2
    q1 = q1
    Payments = {p1, p2}
    Probes = {q1}
    AdapterSeq <- TwoAdapters
    Threshold = 2
    Reset = 1
    MaxAttempts = 2
    Fresh <- AllFresh
    NoRoute = none
INVARIANT BreakerExact
PROPERTY PaymentsSettle
 
