SPECIFICATION Spec
CONSTANTS
  pat = pat
  quinn = quinn
  chainlink = chainlink
  pyth = pyth
  People = {pat, quinn}
  Providers = {chainlink, pyth}
  BaseRoles <- MCBaseRoles
  Nobody = Nobody
  Deployer = quinn
  MaxDelay = 1
  Buffers = {b1}
  Ops <- MCOps
  AccountSize = 33
  MaxTime = 2
  MayRestart = FALSE
INVARIANT KeeperCanPropose
CHECK_DEADLOCK FALSE
