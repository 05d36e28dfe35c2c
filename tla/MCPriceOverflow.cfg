SPECIFICATION Spec
CONSTANTS
  ann = ann
  bob = bob
  cid = cid
  c1 = c1
  c2 = c2
  c3 = c3
  Users = {1, 2, 3}
  Roles = {"RESTART_ADMIN", "ORDER_KEEPER"}
  KeyOf <- MCKeyOf
  FirstAuthority = 2
  MaxRoles = 2
  MaxMembers = 3
  MaxSlot = 1
  MaxOffers = 1
  NoCall = NoCall
  People = {ann, bob, cid}
  Codes = {c1, c2, c3}
  Legacy <- MCLegacy
  Nobody = Nobody
  NoCode = NoCode
  btc = btc
  usd = usd
  fa = fa
  fb = fb
  Tokens = {btc, usd}
  CustomFeeds = {fa}
  Providers = {"ChainlinkDataStreams", "Pyth"}
  IndexToken = btc
  PoolTokens = {usd}
  IsLong = TRUE
  Kinds = {"MarketIncrease", "LimitDecrease"}
  InitialConfig <- MCConfig
  InitialTokens <- MCInitialTokens
  InitialAmounts <- MCAmounts
  AmountChoices = {0}
  FeedChoices <- MCFeedChoices
  TokenLists = {{}, {btc}}
  ConfigChoices <- MCConfigChoices
  Quote <- MCQuote
  Triggers = {11000}
  TokenLimit = 3
  SlotsPerSecond = 2
  MaxSlots = 4
  MaxChanges = 1
  NoFeed = NoFeed
  NoRequest = NoRequest
  NoUse = NoUse
  MaxDecimals = 3
  ValueLimit = 100
  PriceLimit = 1000
  Managers = {"kim", "lee"}
  FirstKeepers = {"kim"}
  Listings <- MCListings
  Mints = {btc, usd}
  Synthetic = {btc}
  ConfigKeys = {"reserve_factor", "max_pool_amount"}
  KeyNames = {"reserve_factor", "max_pool_amount", "no_such_key"}
  FlagNames = {"skip_borrowing_fee_for_smaller_side"}
  Factors = {1}
  DefaultConfig <- MCDefaultConfig
  Lifetimes = {1}
  Transferred = {1}
  MaxEntries = 2
  MaxMarketTime = 1
  MaxEdits = 2
  NoListing = NoListing
  NoBuffer = NoBuffer
  Claimants = {"owner", "fund"}
  FirstHolding = "fund"
  FirstWindow = 1
  FirstRecent = 1
  WindowSizes = {0, 2}
  RecentSizes = {0}
  Leftovers = {0, 1}
  Approvals = {0, 2}
  MaxClaimTime = 1
  MaxClaims = 2
  MaxResets = 1
  NoAccount = NoAccount
  OrderSlots = {"o1", "o2"}
  PositionKeys = {"long"}
  OrderParams <- MCOrderParams
  SizeUpdates = {0}
  CutSizes = {1, 2}
  ExecutionFees = {0, 3}
  IsPure = TRUE
  PositionRent = 5
  OrderRent = 7
  EscrowRent = 3
  MinExecutionLamports = 2
  MaxSize = 2
  MaxCreated = 4
  NoOrder = NoOrder
  NoPositionAccount = NoPositionAccount
INVARIANTS PricesKept
SYMMETRY PeopleSymmetry
CHECK_DEADLOCK FALSE
