SPECIFICATION Spec
CONSTANTS
  ann = ann
  bob = bob
  NoUser = NoUser
  Users = {ann, bob}
  Referrer <- MCReferrer
  Fees = {3, 8}
  InitialCost = 2
  GrowFactor = 3
  GrowStep = 2
  Ranks = {1, 3}
  RewardFactor <- MCRewardFactor
  Unit = 2
  TimeWindow = 2
  MaxAmount = 5
  MaxValue = 12
  MaxTime = 2
INVARIANTS GtConserved VaultCoversExchanges CostFollowsTotalMinted FeesMintedOnce
CHECK_DEADLOCK FALSE
