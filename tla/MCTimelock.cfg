SPECIFICATION Spec
CONSTANTS
  pat = pat
  quinn = quinn
  chainlink = chainlink
  pyth = pyth
  People = {pat, quinn}
  Providers = {chainlink, pyth}
  BaseRoles <- MCBaseRoles
  Nobody = Nobody
  Deployer = quinn
  MaxDelay = 2
  Buffers = {b1}
  Ops <- MCOps
  AccountSize = 1
  MaxTime = 3
  MayRestart = TRUE
PROPERTIES RevokedApproverPowerless PowerIsAnnounced ProtectedRolesKept
CHECK_DEADLOCK FALSE
