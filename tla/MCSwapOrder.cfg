CONSTANTS
    Cells = {poolCell, otherCell}
    Fields = {amount, count}
    Values = {0, 1}
    Other = otherCell
    TradeCount = count
    MaxTradeCount = 2
    MaxRev = 3
    ma = ma
    mb = mb
    mc = mc
    tx = tx
    ty = ty
    Tokens = {tx, ty}
    LongToken <- MCLong
    ShortToken <- MCShort
    Current = mc
    InitialPool <- MCPool
    Collateral <- MCCollateral
    Amounts = {0, 1, 2}
    Markets = {ma, mc}
    Callers = {"swapOrder"}
    MaxLength = 2
SPECIFICATION MCSpec
INVARIANT
    PayingMarketsCovered
CHECK_DEADLOCK FALSE
