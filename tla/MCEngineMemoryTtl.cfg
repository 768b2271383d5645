SPECIFICATION FairSpec
CONSTANTS
    r1 = r1
    r2 = r2
    f1 = f1
    f2 = f2
    n1 = n1
    n2 = n2
    None = None
    Requests = {r1, r2}
    Fingerprints = {f1, f2}
    InvalidFingerprints <- BadBody
    Keys = {"k"}
    Nodes = {n1}
    Skew <- EqualClocks
    Lease = 1
    TTL = 3
    Durable = FALSE
    MaxAttempts = 2
PROPERTY KeysAreFreed
CHECK_DEADLOCK FALSE
