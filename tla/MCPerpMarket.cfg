SPECIFICATION Spec
CONSTANTS
    Unit = 10
    Config <- MCConfig
    Adjustment = 10
    UsdToAmountDivisor = 1
    PureChoices = {FALSE, TRUE}
    PositionKinds <- MCKinds
    PriceSets <- MCPriceSets
    FirstPrices <- MCFirstPrices
    Steps = {1}
    Lags = {0, 1}
    Deposits <- MCDeposits
    Amounts = {10}
    Burns = {20}
    Sizes = {20}
    SwapTypes = {"NoSwap", "PnlTokenToCollateralToken"}
    AdlMaxStaleness = 0
    FirstDeposit <- MCFirstDeposit
    MaxTrades = 3
    MaxOthers = 1
    MaxTime = 2
INVARIANTS AlwaysSettleable PoolsMatchPositions Solvent
PROPERTY NoDilution
CHECK_DEADLOCK FALSE
