CONSTANTS
    n = n
    x = x
    y = y
    Tokens = {n, x, y}
    NativeToken = n
    Shapes <- MCShapes
    Amounts = {0, 1}
    Fees = {2, 3}
    MinFee = 2
    Rewards = {0, 3}
    RewardFactor = 2
    FactorUnit = 3
    Watched <- MCWatched
    AtaChanges = {"missing", "own", "foreign"}
    Toggles = {"execute", "cancel"}
    RestartAdmin = TRUE
    MayRestart = TRUE
SPECIFICATION Spec
INVARIANTS
    FundsFollowOutcome
    NothingStranded
    ReferralPaidOnce
    KeeperPaidWithinBudget
    OwnerCanLeave
CHECK_DEADLOCK FALSE
