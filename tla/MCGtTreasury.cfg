SPECIFICATION FairTreasurySpec
CONSTANTS
  ann = ann
  bob = bob
  p = p
  q = q
  usd = usd
  NoUser = NoUser
  Users = {ann, bob}
  Referrer <- MCReferrer
  Fees = {1}
  InitialCost = 1
  GrowFactor = 2
  GrowStep = 9
  Ranks = {}
  RewardFactor <- MCRewardFactor
  Unit = 2
  TimeWindow = 1
  MaxAmount = 2
  MaxValue = 1
  MaxTime = 1
  Tokens = {usd}
  Treasuries = {p, q}
  FirstTreasury = p
  FirstTokens = {usd}
  FirstGtFactor = 2
  FirstBuybackFactor = 2
  Factors = {1, 3}
  Revenue = {2}
  Prices = {1, 2}
  MaxTokens = 2
  MaxRevenue = 2
  MaxChanges = 1
INVARIANTS RecordedIsHeld ReservePaidOut
PROPERTIES ShareRespected BuybackCapped ExchangesSettled
CHECK_DEADLOCK FALSE
