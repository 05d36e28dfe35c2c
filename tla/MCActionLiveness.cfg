CONSTANTS
    n = n
    x = x
    y = y
    Tokens = {n, x, y}
    NativeToken = n
    Shapes <- MCShapes
    Amounts = {0, 1}
    Fees = {2}
    MinFee = 2
    Rewards = {0, 3}
    RewardFactor = 2
    FactorUnit = 3
    Watched <- MCWatchedTwo
    AtaChanges = {}
    Toggles = {}
    RestartAdmin = FALSE
    MayRestart = FALSE
SPECIFICATION LiveSpec
PROPERTY EventuallyClosed
CHECK_DEADLOCK FALSE
