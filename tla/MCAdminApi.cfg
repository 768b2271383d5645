SPECIFICATION AdminSpec
CONSTANTS
    Keys = {"w1:admin", "w2:admin"}
    Limit <- Budgets
    Window = 2
    None = None
    Reqs = {r1, r2}
    Ids = {h1}
    MaxDrops = 2
SYMMETRY Symmetry
INVARIANT BurstBounded
INVARIANT RefusalDeserved
INVARIANT IdleGauge
INVARIANT RevivedOnlyByRace
INVARIANT TogglesCount
