SPECIFICATION Spec
CONSTANTS
    Calls = {c1, c2}
    Submits = {s1, s2}
    Reviews = {v1}
    Deadlines = {1, 2}
    ResourceFees <- Fees
    BaseFee = 1
    Ceiling = 3
    FeeWidth = 16
    MaxPolls = 2
    MaxClock = 2
    Foreign <- ForeignTxs
    Others <- OtherAccounts
    None = None
SYMMETRY Interchangeable
INVARIANT SelfCheckAgrees
INVARIANT SpentIsStale
INVARIANT ReportIsFate
PROPERTY EffectWithinTerms
CHECK_DEADLOCK FALSE
