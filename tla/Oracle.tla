------------------------------ MODULE Oracle ------------------------------
(***************************************************************************)
(* The oracle account of a store and what feeds it: the price feeds the     *)
(* keepers publish reports to, the feeds of other programs, the token map   *)
(* that says which feed a token uses, and the instructions that load prices *)
(* for one transaction: the execution of a request of a user, the cut of a  *)
(* position, the update of the ADL state, and the oracle controller.        *)
(*                                                                         *)
(* The clock counts slots, SlotsPerSecond of which have the same timestamp. *)
(* One market, one request and one position stand for all.                  *)
(***************************************************************************)
EXTENDS PriceDecimal, TLC

CONSTANTS Tokens, Providers,
          CustomFeeds,      \* feeds the keepers keep a price feed for
          IndexToken, PoolTokens,       \* of the market
          IsLong,           \* the side of the position
          Kinds,            \* of the requests of users
          InitialConfig,    \* of each token in the token map
          InitialTokens,    \* sets of tokens the map may start with
          InitialAmounts,   \* the amounts of the store
          AmountChoices,    \* values the configuration keepers set
          ConfigChoices,    \* configurations a token is pushed with
          FeedChoices,      \* feeds, with their adjustment, a token is given
          TokenLists,       \* tokens the oracle controller asks the prices of
          Quote,            \* the market: of each feed, at each second
          Triggers,         \* trigger prices of limit orders
          TokenLimit,       \* the space of the token map, 255 in the code
          SlotsPerSecond, MaxSlots, MaxChanges,
          NoFeed, NoRequest, NoUse

VARIABLES clockSlot,
          tokenMap,         \* TokenMapHeader and the configs behind it
          amounts,          \* of the store
          priceFeeds,       \* accounts of kind PriceFeed
          oracle,           \* the account: prices, minTs, maxTs, minSlot, cleared
          controllerHolds,  \* history: the controller set prices and has not cleared them
          request, position, adl,
          used,             \* history: the last prices an instruction ran with
          changes

feedState == <<tokenMap, amounts, changes>>
oracleVars == <<clockSlot, feedState, priceFeeds, oracle, controllerHolds,
                request, position, adl, used>>

MarketTokens == {IndexToken} \union PoolTokens
LimitKinds == {"LimitSwap", "LimitIncrease", "LimitDecrease", "StopLossDecrease"}
IncreaseKinds == {"MarketIncrease", "LimitIncrease"}
DecreaseKinds == {"MarketDecrease", "LimitDecrease", "StopLossDecrease"}
CutKinds == {"Liquidation", "AutoDeleveraging"}
OtherUses == {"UpdateAdlState", "SetPricesFromPriceFeed", "WithOraclePrices"}

ASSUME OracleAssumption ==
    /\ SlotsPerSecond \in Nat \ {0}
    /\ IsFiniteSet(Tokens)
    /\ MarketTokens \subseteq Tokens /\ TokenLists \subseteq SUBSET Tokens
    /\ Kinds \intersect (CutKinds \union OtherUses) = {}
    /\ IsLong \in BOOLEAN

\* What is configured: times and amounts are unsigned numbers in the code.
FeedConfigs == [feed : DOMAIN Quote \union {NoFeed}, adjustment : Nat]
TokenConfigs == [enabled : BOOLEAN, synthetic : BOOLEAN, provider : Providers,
                 feeds : [Providers -> FeedConfigs],
                 decimals : Nat, precision : Nat, heartbeat : Nat]
Amounts == [request_expiration : Nat, oracle_max_age : Nat, oracle_max_timestamp_range : Nat,
            oracle_max_future_timestamp_excess : Nat, adl_prices_max_staleness : Nat]

ASSUME ConfigurationAssumption ==
    /\ InitialConfig \in [Tokens -> TokenConfigs] /\ InitialTokens \subseteq SUBSET Tokens
    /\ ConfigChoices \subseteq TokenConfigs
    /\ FeedChoices \subseteq FeedConfigs
    /\ InitialAmounts \in Amounts /\ AmountChoices \subseteq Nat
    /\ \A f \in CustomFeeds : DOMAIN Quote[f] \subseteq Nat

Now == clockSlot \div SlotsPerSecond

\* Oracle::clear_all_prices.
ClearedOracle == [prices |-> <<>>, minTs |-> 0, maxTs |-> 0, minSlot |-> 0, cleared |-> TRUE]
NoFeedAccount == [exists |-> FALSE, open |-> FALSE, ts |-> 0, slot |-> 0, publishedAt |-> 0]
NoPosition == [open |-> FALSE, increasedAt |-> 0, decreasedAt |-> 0]

OracleInit ==
    /\ clockSlot = 0
    /\ \E known \in InitialTokens : tokenMap = [t \in known |-> InitialConfig[t]]
    /\ amounts = InitialAmounts
    /\ priceFeeds = [f \in CustomFeeds |-> NoFeedAccount]
    /\ oracle = ClearedOracle
    /\ controllerHolds = FALSE
    /\ request = NoRequest
    /\ position = NoPosition
    /\ adl = [enabled |-> FALSE, at |-> 0]
    /\ used = NoUse
    /\ changes = 0

Tick ==
    /\ clockSlot < MaxSlots
    /\ clockSlot' = clockSlot + 1
    /\ used' = NoUse
    /\ UNCHANGED <<feedState, priceFeeds, oracle, controllerHolds, request, position, adl>>
-----------------------------------------------------------------------------
(* The token map and the amounts of the store.                               *)

Configure(map, newAmounts) ==
    /\ changes < MaxChanges
    /\ changes' = changes + 1
    /\ tokenMap' = map
    /\ amounts' = newAmounts
    /\ used' = NoUse
    /\ UNCHANGED <<clockSlot, priceFeeds, oracle, controllerHolds, request, position, adl>>

\* The space for one more config is made sure of even when none is added.
SpaceAfterPush == Cardinality(DOMAIN tokenMap) + 1 <= TokenLimit
PushWith(t, config, new) ==
    /\ SpaceAfterPush
    /\ IF new THEN t \notin DOMAIN tokenMap
              ELSE t \in DOMAIN tokenMap /\ tokenMap[t].decimals = config.decimals
    /\ Configure([u \in DOMAIN tokenMap \union {t} |-> IF u = t THEN config ELSE tokenMap[u]],
                 amounts)

PushToTokenMap(t, config, new) ==
    /\ ~config.synthetic
    /\ PushWith(t, config, new)
PushToTokenMapSynthetic(t, config, new) ==
    /\ config.synthetic
    /\ PushWith(t, config, new)

ToggleTokenConfig(t, enable) ==
    /\ t \in DOMAIN tokenMap
    /\ Configure([tokenMap EXCEPT ![t].enabled = enable], amounts)

SetExpectedProviderOf(t, provider) ==
    /\ t \in DOMAIN tokenMap
    /\ tokenMap[t].provider # provider
    /\ Configure([tokenMap EXCEPT ![t].provider = provider], amounts)

SetFeedConfig(t, provider, feedConfig) ==
    /\ t \in DOMAIN tokenMap
    /\ Configure([tokenMap EXCEPT ![t].feeds[provider] = feedConfig], amounts)

InsertAmount(key, value) == Configure(tokenMap, [amounts EXCEPT ![key] = value])

RequestExpirationAt(start) == start + amounts.request_expiration
-----------------------------------------------------------------------------
(* Price feeds.                                                              *)

SetFeedAccount(f, account) ==
    /\ priceFeeds' = [priceFeeds EXCEPT ![f] = account]
    /\ used' = NoUse
    /\ UNCHANGED <<clockSlot, feedState, oracle, controllerHolds, request, position, adl>>

InitializePriceFeed(f) ==
    /\ ~priceFeeds[f].exists
    /\ SetFeedAccount(f, [NoFeedAccount EXCEPT !.exists = TRUE])

\* PriceFeed::update with a report observed at ts.
UpdatePriceFeed(f, ts) ==
    /\ priceFeeds[f].exists
    /\ ValidReport(Quote[f][ts])
    /\ clockSlot >= priceFeeds[f].slot
    /\ Now >= priceFeeds[f].publishedAt
    /\ ts >= priceFeeds[f].ts
    /\ Now + amounts.oracle_max_future_timestamp_excess >= ts
    /\ SetFeedAccount(f, [exists |-> TRUE, open |-> TRUE, ts |-> ts, slot |-> clockSlot,
                          publishedAt |-> Now])

\* What the account of a feed shows: a price feed of the store, or an account
\* of another program, whose time and slot the store does not control.
PriceFeedObservations(f) == IF f \in CustomFeeds /\ priceFeeds[f].open
                            THEN {[ts |-> priceFeeds[f].ts, slot |-> priceFeeds[f].slot]} ELSE {}
ExternalObservations == {o \in [ts : 0..Now, slot : 0..clockSlot] :
                             o.slot \div SlotsPerSecond >= o.ts}
Observations(f, provider) ==
    IF provider = "ChainlinkDataStreams" THEN PriceFeedObservations(f) ELSE ExternalObservations

\* The quote a provider's account holds, as try_from_price receives it.
QuoteOf(provider, quote) ==
    CASE provider = "ChainlinkDataStreams" -> FromChainlinkReport(quote)
      [] provider = "Pyth" -> FromPyth(quote.price, quote.ask - quote.price, -quote.decimals)
      [] provider = "Chainlink" -> FromRound(quote.price, quote.decimals)
      [] provider = "Switchboard" -> [min |-> quote.bid, max |-> quote.ask,
                                      decimals |-> quote.decimals]
-----------------------------------------------------------------------------
(* Loading prices: OraclePrice::parse_from_feed_account, PriceValidator and  *)
(* Oracle::set_prices_from_remaining_accounts.                               *)

ExpectedFeed(t) == tokenMap[t].feeds[tokenMap[t].provider]
HasFeed(t) == t \in DOMAIN tokenMap /\ tokenMap[t].enabled /\ ExpectedFeed(t).feed # NoFeed
Beats(t, o) == Now - o.ts <= tokenMap[t].heartbeat
ObservedPrice(t, o) == ToPrice(QuoteOf(tokenMap[t].provider, Quote[ExpectedFeed(t).feed][o.ts]),
                               tokenMap[t].decimals, tokenMap[t].precision)
AdjustedTs(t, o) == o.ts - ExpectedFeed(t).adjustment

\* PriceValidator::validate_one.
ValidateOne(t, o) ==
    /\ AdjustedTs(t, o) + amounts.oracle_max_age >= Now
    /\ Now + amounts.oracle_max_future_timestamp_excess >= o.ts

\* merge_range over the tokens.
MinTsMergedAsMax(observed) == Max({AdjustedTs(t, observed[t]) : t \in DOMAIN observed})
MinTs(observed) == Min({AdjustedTs(t, observed[t]) : t \in DOMAIN observed})
MaxTs(observed) == Max({AdjustedTs(t, observed[t]) : t \in DOMAIN observed})
MinSlot(observed) == Min({observed[t].slot : t \in DOMAIN observed})
InRange(observed) == MaxTs(observed) - MinTs(observed) <= amounts.oracle_max_timestamp_range

LoadedPrices(observed) ==
    [t \in DOMAIN observed |-> SmallPrices(ObservedPrice(t, observed[t]), tokenMap[t].synthetic)]
LoadedOracle(observed) ==
    [prices |-> LoadedPrices(observed), minTs |-> MinTs(observed), maxTs |-> MaxTs(observed),
     minSlot |-> MinSlot(observed), cleared |-> FALSE]

\* What the feed account of a token may show for its price to be accepted.
AcceptablePrices(t) ==
    {o \in Observations(ExpectedFeed(t).feed, tokenMap[t].provider) :
        Beats(t, o) /\ FitsPriceMap(ObservedPrice(t, o)) /\ ValidateOne(t, o)}

\* Every choice of feed accounts for the tokens that the checks let through.
\* (No token at all is refused: the range of no timestamps overflows.)
Loadable(tokens) ==
    IF /\ tokens # {}
       /\ oracle.cleared /\ oracle.prices = <<>>
       /\ \A t \in tokens : HasFeed(t)
    THEN LET accepted == [t \in tokens |-> AcceptablePrices(t)]
         IN {observed \in [tokens -> UNION {accepted[t] : t \in tokens}] :
                (\A t \in tokens : observed[t] \in accepted[t]) /\ InRange(observed)}
    ELSE {}

\* Oracle::get_primary_price: the tokens of the pools may not be synthetic.
MarketPrices(loaded) == \A t \in PoolTokens : ~loaded.prices[t].synthetic
-----------------------------------------------------------------------------
(* Oracle::validate_time for the requests of users and for the cuts.         *)

Latest(times) == Max(times)
OracleUpdatedAfter(kind) ==
    CASE kind = "Liquidation" -> Latest({position.increasedAt, position.decreasedAt})
      [] kind = "MarketDecrease" -> Latest({request.updatedAt, position.increasedAt})
      [] kind \in {"LimitDecrease", "StopLossDecrease"} ->
             Latest({request.updatedAt, position.increasedAt, request.validFrom})
      [] kind \in {"LimitSwap", "LimitIncrease"} ->
             Latest({request.updatedAt, request.validFrom})
      [] OTHER -> request.updatedAt
NotTooEarly(kind, loaded) ==
    /\ kind \notin CutKinds => loaded.minSlot >= request.slot
    /\ kind # "AutoDeleveraging" => loaded.minTs >= OracleUpdatedAfter(kind)
Expires(kind) == kind \notin LimitKinds \union CutKinds
NotExpired(kind, loaded) ==
    Expires(kind) => loaded.maxTs <= RequestExpirationAt(request.updatedAt)

ValidateValidFromTs(kind) == kind \in LimitKinds => Now >= request.validFrom

\* Order::validate_trigger_price.
ValidateTriggerPrice(kind, loaded) ==
    LET min == SmallUnitPrice(loaded.prices[IndexToken], "min")
        max == SmallUnitPrice(loaded.prices[IndexToken], "max")
    IN CASE kind = "LimitIncrease" -> IF IsLong THEN request.trigger >= max ELSE min >= request.trigger
         [] kind = "LimitDecrease" -> IF IsLong THEN min >= request.trigger ELSE request.trigger >= max
         [] kind = "StopLossDecrease" -> IF IsLong THEN request.trigger >= min ELSE max >= request.trigger
         [] OTHER -> TRUE

\* Adl::validate_adl.
ValidateAdl(loaded) ==
    /\ adl.enabled
    /\ loaded.maxTs + amounts.adl_prices_max_staleness >= adl.at
-----------------------------------------------------------------------------
(* Requests of users.                                                        *)

SetRequest(value) ==
    /\ request' = value
    /\ used' = NoUse
    /\ UNCHANGED <<clockSlot, feedState, priceFeeds, oracle, controllerHolds, position, adl>>

CreateRequest(kind, validFrom, trigger) ==
    /\ request = NoRequest
    /\ IF kind \in LimitKinds THEN trigger # 0 ELSE validFrom = 0 /\ trigger = 0
    /\ SetRequest([kind |-> kind, updatedAt |-> Now, slot |-> clockSlot,
                   validFrom |-> validFrom, trigger |-> trigger])

\* Order::update: only limit orders; the header takes the time of the update.
UpdateOrder(validFrom, trigger) ==
    /\ request # NoRequest
    /\ request.kind \in LimitKinds
    /\ trigger # 0
    /\ SetRequest([request EXCEPT !.updatedAt = Now, !.slot = clockSlot,
                                  !.validFrom = validFrom, !.trigger = trigger])

CancelRequest ==
    /\ request # NoRequest
    /\ SetRequest(NoRequest)
-----------------------------------------------------------------------------
(* Instructions that run with prices (Oracle::with_prices): the prices are    *)
(* set, the instruction runs, and the oracle is cleared whatever came of it;  *)
(* an error reverts the transaction.                                          *)

AfterPrices == ClearedOracle
Use(kind, observed) ==
    [kind |-> kind, observed |-> observed, prices |-> LoadedPrices(observed),
     request |-> request, position |-> position]

\* ExecutionOperation::execute of an order, a deposit, a withdrawal or a shift:
\* positions take the time of their last change.
OnIncreased == [position EXCEPT !.open = TRUE, !.increasedAt = Now]
OnDecreased == [position EXCEPT !.decreasedAt = Now]
PositionsAfter(kind) ==
    CASE kind \in IncreaseKinds -> {OnIncreased}
      [] kind \in DecreaseKinds -> IF position.open THEN {OnDecreased, NoPosition} ELSE {}
      [] OTHER -> {position}

ExecuteRequest(observed) ==
    LET loaded == LoadedOracle(observed)
        kind == request.kind
    IN /\ ValidateValidFromTs(kind)
       /\ NotTooEarly(kind, loaded)
       /\ NotExpired(kind, loaded)
       /\ MarketPrices(loaded)
       /\ ValidateTriggerPrice(kind, loaded)
       /\ position' \in PositionsAfter(kind)
       /\ used' = Use(kind, observed)
       /\ request' = NoRequest
       /\ oracle' = AfterPrices
       /\ UNCHANGED <<clockSlot, feedState, priceFeeds, controllerHolds, adl>>

\* The execution is given up (throw_on_execution_error is off): the request has
\* expired, or its execution failed for a reason of its own.
GiveUpRequestUncleared(observed) ==
    /\ ValidateValidFromTs(request.kind)
    /\ NotTooEarly(request.kind, LoadedOracle(observed))
    /\ request' = NoRequest
    /\ used' = NoUse
    /\ oracle' = LoadedOracle(observed)
    /\ UNCHANGED <<clockSlot, feedState, priceFeeds, controllerHolds, position, adl>>
GiveUpRequest(observed) ==
    LET loaded == LoadedOracle(observed)
        kind == request.kind
    IN /\ ValidateValidFromTs(kind)
       /\ NotTooEarly(kind, loaded)
       /\ NotExpired(kind, loaded) =>
              MarketPrices(loaded) /\ ValidateTriggerPrice(kind, loaded)
       /\ request' = NoRequest
       /\ used' = NoUse
       /\ oracle' = AfterPrices
       /\ UNCHANGED <<clockSlot, feedState, priceFeeds, controllerHolds, position, adl>>

\* The keeper creates the order that cuts the position and executes it at once.
PositionCut(kind, observed) ==
    LET loaded == LoadedOracle(observed)
    IN /\ position.open
       /\ NotTooEarly(kind, loaded)
       /\ kind = "AutoDeleveraging" => ValidateAdl(loaded)
       /\ MarketPrices(loaded)
       /\ position' \in IF kind = "Liquidation" THEN {NoPosition} ELSE {OnDecreased, NoPosition}
       /\ used' = Use(kind, observed)
       /\ oracle' = AfterPrices
       /\ UNCHANGED <<clockSlot, feedState, priceFeeds, controllerHolds, request, adl>>

\* Whether the profit of the side exceeds its limit is left open here.
UpdateAdl(observed, exceeded) ==
    LET loaded == LoadedOracle(observed)
    IN /\ loaded.maxTs >= adl.at
       /\ MarketPrices(loaded)
       /\ adl' = [enabled |-> exceeded, at |-> Now]
       /\ used' = Use("UpdateAdlState", observed)
       /\ oracle' = AfterPrices
       /\ UNCHANGED <<clockSlot, feedState, priceFeeds, controllerHolds, request, position>>
-----------------------------------------------------------------------------
(* The controller of the oracle.                                             *)

SetPricesFromPriceFeed(observed) ==
    /\ oracle' = LoadedOracle(observed)
    /\ controllerHolds' = TRUE
    /\ used' = Use("SetPricesFromPriceFeed", observed)
    /\ UNCHANGED <<clockSlot, feedState, priceFeeds, request, position, adl>>

ClearAllPrices ==
    /\ ~oracle.cleared
    /\ oracle' = ClearedOracle
    /\ controllerHolds' = FALSE
    /\ used' = NoUse
    /\ UNCHANGED <<clockSlot, feedState, priceFeeds, request, position, adl>>

\* Set, used and cleared by calls of one instruction of another program.
WithOraclePrices(observed) ==
    /\ oracle' = ClearedOracle
    /\ controllerHolds' = FALSE
    /\ used' = Use("WithOraclePrices", observed)
    /\ UNCHANGED <<clockSlot, feedState, priceFeeds, request, position, adl>>

ConfigureTokens ==
    \E t \in Tokens :
       \/ \E config \in ConfigChoices, new \in BOOLEAN :
             \/ PushToTokenMap(t, config, new)
             \/ PushToTokenMapSynthetic(t, config, new)
       \/ \E enable \in BOOLEAN : ToggleTokenConfig(t, enable)
       \/ \E provider \in Providers :
             \/ SetExpectedProviderOf(t, provider)
             \/ \E feedConfig \in FeedChoices : SetFeedConfig(t, provider, feedConfig)

RunWithPrices ==
    \/ /\ request # NoRequest
       /\ \E observed \in Loadable(MarketTokens) :
             ExecuteRequest(observed) \/ GiveUpRequest(observed)
    \/ \E observed \in Loadable(MarketTokens) :
          \/ \E kind \in CutKinds : PositionCut(kind, observed)
          \/ \E exceeded \in BOOLEAN : UpdateAdl(observed, exceeded)

ControlOracle ==
    \/ \E tokens \in TokenLists : \E observed \in Loadable(tokens) :
          SetPricesFromPriceFeed(observed) \/ WithOraclePrices(observed)
    \/ ClearAllPrices

OracleNext ==
    \/ Tick
    \/ ConfigureTokens
    \/ \E key \in DOMAIN amounts, value \in AmountChoices : InsertAmount(key, value)
    \/ \E f \in CustomFeeds : \/ InitializePriceFeed(f)
                               \/ \E ts \in DOMAIN Quote[f] : UpdatePriceFeed(f, ts)
    \/ \E from \in {0, Now + 1}, trigger \in Triggers \union {0} :
          \/ \E kind \in Kinds : CreateRequest(kind, from, trigger)
          \/ UpdateOrder(from, trigger)
    \/ CancelRequest
    \/ RunWithPrices
    \/ ControlOracle

OracleSpec == OracleInit /\ [][OracleNext]_oracleVars
-----------------------------------------------------------------------------
(* Properties.                                                               *)

\* The price of every token an instruction ran with was observed and put on
\* chain after the last word of the user on the request, and after the last
\* change of the position it decreases; it was not older than the store allows
\* nor from further in the future; no two of the prices are further apart than
\* the allowed range; and a market request was not filled with prices from
\* after its expiration.  The code checks a window merged over all the tokens
\* and shifted by the adjustment of each feed (validator.rs, time.rs).
Fresh(o) == /\ Now - o.ts <= amounts.oracle_max_age
            /\ o.ts - Now <= amounts.oracle_max_future_timestamp_excess
CloseTogether(t, u) == AdjustedTs(t, used.observed[t]) - AdjustedTs(u, used.observed[u])
                          <= amounts.oracle_max_timestamp_range
AfterRequest(o) == /\ o.ts >= used.request.updatedAt
                   /\ o.slot >= used.request.slot
                   /\ used.kind \in LimitKinds => o.ts >= used.request.validFrom
AfterPosition(o) == /\ o.ts >= used.position.increasedAt
                    /\ used.kind = "Liquidation" => o.ts >= used.position.decreasedAt
BeforeExpiration(t) == AdjustedTs(t, used.observed[t])
                          <= used.request.updatedAt + amounts.request_expiration
ExecutedOnFreshPrices ==
    used # NoUse =>
       \A t \in DOMAIN used.observed :
          /\ Fresh(used.observed[t])
          /\ \A u \in DOMAIN used.observed : CloseTogether(t, u)
          /\ used.kind \in Kinds => AfterRequest(used.observed[t])
          /\ used.kind \in Kinds \ LimitKinds => BeforeExpiration(t)
          /\ used.kind \in DecreaseKinds \union {"Liquidation"} => AfterPosition(used.observed[t])

\* Prices stay in the oracle after an instruction only while its controller
\* keeps them there, and nobody else's instruction runs meanwhile: whatever
\* executes, executes with the prices of its own feed accounts.
PricesNotLeftBehind ==
    /\ IF controllerHolds THEN ~oracle.cleared ELSE oracle = ClearedOracle
    /\ controllerHolds /\ used # NoUse => used.kind = "SetPricesFromPriceFeed"

\* The price of a unit that an instruction reads is the quote of the provider
\* cut to the precision of the token: it never lies above the quote, and less
\* than one step of the precision below it (Decimal::try_from_price).
ProviderQuote(t, ts) ==
    LET quote == Quote[ExpectedFeed(t).feed][ts]
    IN IF tokenMap[t].provider = "ChainlinkDataStreams"
       THEN [min |-> quote.bid, max |-> quote.ask, decimals |-> quote.decimals]
       ELSE QuoteOf(tokenMap[t].provider, quote)
PricesKept ==
    used # NoUse =>
       \A t \in DOMAIN used.prices, side \in {"min", "max"} :
          LET quote == ProviderQuote(t, used.observed[t].ts)
          IN QuoteAbove(SmallUnitPrice(used.prices[t], side), quote[side], quote.decimals,
                        tokenMap[t].decimals, tokenMap[t].precision)
=============================================================================
