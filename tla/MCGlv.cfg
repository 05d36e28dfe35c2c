SPECIFICATION GlvSpec
CONSTANTS
    Unit = 10
    Config <- MCConfig
    Adjustment = 10
    UsdToAmountDivisor = 1
    Markets = {"a", "b", "c"}
    Opening <- MCOpening
    FirstMarkets = {"a", "b"}
    PriceSet <- MCPriceSet
    FirstPrice <- Low
    GlvDeposits <- MCGlvDeposits
    GlvBurns = {20}
    ShiftAmounts = {15}
    Caps <- MCCaps
    Params <- MCParams
    Expiration = 1
    Slots = {1}
    MaxMarkets = 3
    Donated = 7
    MaxRequests = 3
    MaxChanges = 2
    LastTime = 2
INVARIANTS RecordedIsInVault SharedVaultExact FirstDepositLocked
PROPERTY NoGlvDilution
CHECK_DEADLOCK FALSE
