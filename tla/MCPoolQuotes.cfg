SPECIFICATION Spec
CONSTANTS
    FeeNumerator = 997
    FeeDenominator = 1000
    MinimumLiquidity = 2
    MaxU = 100000
    Amounts <- SmallAmounts
    MaxReserve = 20
    None = None
    Token0 <- Native
    Token1 <- Wrapped1
    Assets <- AllAssets
    Slippages = {0, 50, 9999, 10000, 10001}
INVARIANT SupplyBacked
INVARIANT RootExact
INVARIANT QuotesRoundTrip
INVARIANT FloorReachable
INVARIANT UsedAmountsMint
PROPERTY SharesNeverDiluted
CHECK_DEADLOCK FALSE
