SPECIFICATION ServiceSpec
CONSTANTS
    MaxBatch = 3
    MaxItems = 4
    Settings = {0, 1}
    None = None
INVARIANT ResponseTruthful
INVARIANT ResponseComplete
INVARIANT MainnetGuarded
INVARIANT ReadyIsSafe
INVARIANT PrivateNoncesOnlyByOutage
PROPERTY BatchEnds
CHECK_DEADLOCK FALSE
