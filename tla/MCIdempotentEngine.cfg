SPECIFICATION FairSpec
CONSTANTS
    r1 = r1
    r2 = r2
    f1 = f1
    f2 = f2
    n1 = n1
    n2 = n2
    None = None
    Requests = {r1, r2}
    Fingerprints = {f1, f2}
    InvalidFingerprints <- BadBody
    Keys = {"k"}
    Nodes = {n1, n2}
    Skew <- SkewedClocks
    Lease = 1
    TTL = 3
    Durable = TRUE
    MaxAttempts = 2
INVARIANT AtMostOneSubmitter
INVARIANT AnswersAgree
INVARIANT AnswerCoversSubmission
INVARIANT IInv
PROPERTY ClaimsMoveForward
PROPERTY ImplementsPromise
PROPERTY KeysAreFreed
PROPERTY RequestsEnd
CHECK_DEADLOCK FALSE
