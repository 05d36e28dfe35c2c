---------------------------- MODULE MarketModel ------------------------------
(***************************************************************************)
(* One market and its arithmetic (crates/gmsol-model: market/, params/,    *)
(* pool/ and the swap, deposit, withdrawal and state-update actions; the   *)
(* market itself is programs/gmsol-store states/market).                   *)
(*                                                                         *)
(* An operation is a function from a market to a market.  The field ok     *)
(* becomes FALSE when a step of the program returns an error; the program  *)
(* then drops its revertible copy, so callers keep a market only when ok   *)
(* is TRUE.  TRUE stands for the long side or the long token, FALSE for    *)
(* the short one.  The argument o holds what an instruction reads from     *)
(* outside: the prices of the three tokens and the time o.now.             *)
(***************************************************************************)
EXTENDS MarketMath

CONSTANTS Config,               \* the market configuration
          Adjustment,           \* FUNDING_AMOUNT_PER_SIZE_ADJUSTMENT
          UsdToAmountDivisor    \* MARKET_USD_TO_AMOUNT_DIVISOR

(* PoolKind: the pools kept per position side carry that side.             *)
PoolKinds ==
    ({"Primary", "SwapImpact", "ClaimableFee", "PositionImpact",
      "BorrowingFactor", "TotalBorrowing"} \X {TRUE})
      \cup
    ({"OpenInterest", "OpenInterestInTokens", "FundingAmountPerSize",
      "ClaimableFundingAmountPerSize", "CollateralSum"} \X BOOLEAN)

Primary == <<"Primary", TRUE>>
SwapImpact == <<"SwapImpact", TRUE>>
ClaimableFee == <<"ClaimableFee", TRUE>>
PositionImpact == <<"PositionImpact", TRUE>>
BorrowingFactor == <<"BorrowingFactor", TRUE>>
TotalBorrowing == <<"TotalBorrowing", TRUE>>

ClockKinds == {"PriceImpactDistribution", "Borrowing", "Funding"}

PnlFactorKinds == {"MaxAfterDeposit", "MaxAfterWithdrawal", "MaxForTrader",
                   "ForAdl", "MinAfterAdl"}

(* The configuration holds unsigned numbers and flags; the constants of    *)
(* the program are not zero.                                               *)
ImpactParams == [exponent : Nat, positive : Nat, negative : Nat]
FeeParams == [positive : Nat, negative : Nat, receiver : Nat, discount : Nat]

Configs ==
    [max_pnl_factor : [BOOLEAN -> [PnlFactorKinds -> Nat]],
     reserve_factor : Nat, open_interest_reserve_factor : Nat,
     max_pool_amount : [BOOLEAN -> Nat], max_pool_value_for_deposit : [BOOLEAN -> Nat],
     max_open_interest : [BOOLEAN -> Nat], ignore_open_interest_for_usage_factor : BOOLEAN,
     borrowing : [receiver : Nat, exponent : [BOOLEAN -> Nat], factor : [BOOLEAN -> Nat],
                  skip_smaller_side : BOOLEAN],
     kink : [BOOLEAN -> [optimal : Nat, base : Nat, above : Nat]],
     distribute_factor : Nat, min_position_impact_pool_amount : Nat,
     funding : [exponent : Nat, factor : Nat, increase_factor : Nat, decrease_factor : Nat,
                max_factor : Nat, min_factor : Nat,
                threshold_for_stable : Nat, threshold_for_decrease : Nat],
     swap_impact : ImpactParams, position_impact : ImpactParams,
     swap_fee : FeeParams, order_fee : FeeParams,
     liquidation_fee : [factor : Nat, receiver : Nat],
     max_positive_position_impact_factor : Nat,
     max_negative_position_impact_factor : Nat,
     max_position_impact_factor_for_liquidations : Nat,
     min_position_size_usd : Nat, min_collateral_value : Nat, min_collateral_factor : Nat,
     min_collateral_factor_for_open_interest : [BOOLEAN -> Nat]]

ASSUME ConfigAssumption ==
    Config \in Configs /\ Adjustment \in Nat \ {0} /\ UsdToAmountDivisor \in Nat \ {0}

(* With the bounds the other way round every update of the funding state   *)
(* fails (bound_magnitude), and with it every action on the market.        *)
ASSUME FundingBoundsAssumption == Config.funding.min_factor <= Config.funding.max_factor

(* The parameters the model reads from the configuration (market/model.rs  *)
(* and, for what an execution changes of them, revertible/market.rs).      *)
PnlFactorConfig(kind, isLong) == Config.max_pnl_factor[isLong][kind]
SwapImpactParams == Config.swap_impact
PositionImpactParams == Config.position_impact
BorrowingFeeParams == Config.borrowing
BorrowingFeeKinkParams(isLong) == Config.kink[isLong]
FundingFeeParams == Config.funding
LiquidationFeeParams == Config.liquidation_fee

(* Orders have the fee discount of their user's rank and referral.         *)
OrderFeeParams == Config.order_fee

(* A shift between markets pays no swap fees.                              *)
SwapFeeParams(pricing) ==
    IF pricing = "Shift" THEN [Config.swap_fee EXCEPT !.positive = 0, !.negative = 0]
    ELSE Config.swap_fee

(* A new market (Market::init).  A pure market has one token on both sides. *)
NewMarket(pure, now) ==
    [pure |-> pure, supply |-> 0, factor |-> 0, ok |-> TRUE,
     pool |-> [k \in PoolKinds |-> [s \in BOOLEAN |-> 0]],
     bal |-> [s \in BOOLEAN |-> 0],
     clock |-> [k \in ClockKinds |-> now]]

Check(m, cond) == [m EXCEPT !.ok = @ /\ cond]

-----------------------------------------------------------------------------
(* The pools of a pure market keep one amount for both sides, except the   *)
(* ones that count something else than tokens.                             *)
IsPure(m, k) == m.pure /\ k \notin {PositionImpact, BorrowingFactor, TotalBorrowing}

(* Balance::long_amount and short_amount.                                  *)
Amount(m, k, s) ==
    IF IsPure(m, k)
    THEN IF s THEN CeilDiv(m.pool[k][TRUE], 2) ELSE m.pool[k][TRUE] \div 2
    ELSE m.pool[k][s]

(* Pool::apply_delta_amount, a checked_add_signed of an unsigned amount.   *)
ApplyDelta(m, k, s, d) ==
    LET side == s \/ IsPure(m, k)
    IN  [m EXCEPT !.pool[k][side] = @ + d, !.ok = @ /\ m.pool[k][side] + d \in Nat]

BothSides(m, k) == Amount(m, k, TRUE) + Amount(m, k, FALSE)

(* BaseMarketExt::open_interest and open_interest_in_tokens: merged over   *)
(* the collateral tokens.                                                  *)
OpenInterest(m, isLong) == BothSides(m, <<"OpenInterest", isLong>>)
OpenInterestInTokens(m, isLong) == BothSides(m, <<"OpenInterestInTokens", isLong>>)

TokenPrice(o, s) == IF s THEN o.long ELSE o.short

(* Prices are unsigned.                                                    *)
Prices == [min : Nat, max : Nat]
PriceRecords == [index : Prices, long : Prices, short : Prices]

ValidPrices(o) == ValidPrice(o.index) /\ ValidPrice(o.long) /\ ValidPrice(o.short)

(* AsClock::passed_in_seconds; JustPassed also restarts the clock.         *)
Passed(m, kind, o) == Greatest(o.now - m.clock[kind], 0)
Restarted(m, kind, o) ==
    IF Passed(m, kind, o) > 0 THEN [m EXCEPT !.clock[kind] = o.now] ELSE m

-----------------------------------------------------------------------------
(* Values, profits and the limits on them (market/base.rs).                *)
SideValue(m, o, s, maximize) ==
    Amount(m, Primary, s) * PickPrice(TokenPrice(o, s), maximize)

Pnl(m, o, isLong, maximize) ==
    LET oi == OpenInterest(m, isLong)
        value == OpenInterestInTokens(m, isLong)
                   * PickPriceForPnl(o.index, isLong, maximize)
    IN  IF isLong THEN value - oi ELSE oi - value

PnlFactor(m, o, isLong, maximize) ==
    DivToFactor(Pnl(m, o, isLong, maximize), SideValue(m, o, isLong, ~maximize))

PnlFactorExceeded(m, o, kind, isLong) ==
    LET f == PnlFactor(m, o, isLong, TRUE)
    IN  f > 0 /\ f > PnlFactorConfig(kind, isLong)

ValidMaxPnl(m, o, longKind, shortKind) ==
    /\ ~PnlFactorExceeded(m, o, longKind, TRUE)
    /\ ~PnlFactorExceeded(m, o, shortKind, FALSE)

CapPnl(isLong, pnl, poolValue, kind) ==
    IF pnl > 0
    THEN Least(pnl, ApplyFactor(poolValue, PnlFactorConfig(kind, isLong)))
    ELSE pnl

ReservedValue(m, o, isLong) ==
    IF isLong THEN OpenInterestInTokens(m, TRUE) * o.index.max
    ELSE OpenInterest(m, FALSE)

ValidReserve(m, o, isLong) ==
    ReservedValue(m, o, isLong)
        <= ApplyFactor(SideValue(m, o, isLong, FALSE), Config.reserve_factor)

ValidOpenInterestReserve(m, o, isLong) ==
    ReservedValue(m, o, isLong)
        <= ApplyFactor(SideValue(m, o, isLong, FALSE), Config.open_interest_reserve_factor)

ValidPoolAmount(m, s) == Amount(m, Primary, s) <= Config.max_pool_amount[s]

ValidPoolValueForDeposit(m, o, s) ==
    SideValue(m, o, s, TRUE) <= Config.max_pool_value_for_deposit[s]

-----------------------------------------------------------------------------
(* Borrowing (market/borrowing.rs and the kink model of params/fee.rs).    *)
UsageFactor(m, isLong, reserved, poolValue) ==
    LET byReserve == DivToFactor(reserved,
                        ApplyFactor(poolValue, Config.open_interest_reserve_factor))
        byInterest == DivToFactor(OpenInterest(m, isLong), Config.max_open_interest[isLong])
    IN  IF Config.ignore_open_interest_for_usage_factor THEN byReserve
        ELSE Greatest(byReserve, byInterest)

KinkFactor(kink, usage) ==
    LET base == ApplyFactor(usage, kink.base)
        extra == Greatest(kink.above - kink.base, 0)
    IN  IF usage > kink.optimal /\ Unit > kink.optimal
        THEN base + MulDiv(extra, usage - kink.optimal, Unit - kink.optimal)
        ELSE base

(* Zero open interest, or the smaller side when it is spared, pays nothing. *)
BorrowingFree(m, o, isLong) ==
    \/ ReservedValue(m, o, isLong) = 0
    \/ /\ BorrowingFeeParams.skip_smaller_side
       /\ OpenInterest(m, isLong) < OpenInterest(m, ~isLong)

(* borrowing_factor_per_second fails on an empty pool.                     *)
BorrowingKnown(m, o, isLong) ==
    BorrowingFree(m, o, isLong) \/ SideValue(m, o, isLong, FALSE) # 0

BorrowingFactorPerSecond(m, o, isLong) ==
    LET reserved == ReservedValue(m, o, isLong)
        value == SideValue(m, o, isLong, FALSE)
        kink == BorrowingFeeKinkParams(isLong)
        b == BorrowingFeeParams
    IN  IF BorrowingFree(m, o, isLong) THEN 0
        ELSE IF kink.optimal # 0
        THEN KinkFactor(kink, UsageFactor(m, isLong, reserved, value))
        ELSE ApplyFactor(DivToFactor(ApplyExponentFactor(reserved, b.exponent[isLong]),
                                     value), b.factor[isLong])

BorrowingDelta(m, o, isLong) ==
    BorrowingFactorPerSecond(m, o, isLong) * Passed(m, "Borrowing", o)

(* total_pending_borrowing_fees fails when the total borrowing is larger   *)
(* than what the open interest owes.                                       *)
TotalPendingBorrowing(m, o, isLong) ==
      ApplyFactor(OpenInterest(m, isLong),
                  Amount(m, BorrowingFactor, isLong) + BorrowingDelta(m, o, isLong))
    - Amount(m, TotalBorrowing, isLong)

(* UpdateBorrowingState::execute.                                          *)
BorrowOneSide(m, o, isLong, delta) ==
    ApplyDelta(Check(m, BorrowingKnown(m, o, isLong)), BorrowingFactor, isLong, delta)

UpdateBorrowing(m, o) ==
    LET d == [s \in BOOLEAN |-> IF BorrowingKnown(m, o, s) THEN BorrowingDelta(m, o, s) ELSE 0]
    IN  BorrowOneSide(BorrowOneSide(Restarted(Check(m, ValidPrices(o)), "Borrowing", o),
                                    o, TRUE, d[TRUE]), o, FALSE, d[FALSE])

-----------------------------------------------------------------------------
(* The position impact pool is distributed over time                       *)
(* (market/position_impact.rs, action/distribute_position_impact.rs).      *)
PendingDistribution(m, o) ==
    LET amount == Amount(m, PositionImpact, TRUE)
        least == Config.min_position_impact_pool_amount
    IN  IF Config.distribute_factor = 0 \/ amount <= least THEN 0
        ELSE Least(ApplyFactor(Passed(m, "PriceImpactDistribution", o),
                               Config.distribute_factor), amount - least)

DistributePositionImpact(m, o) ==
    ApplyDelta(Restarted(m, "PriceImpactDistribution", o),
               PositionImpact, TRUE, -PendingDistribution(m, o))

-----------------------------------------------------------------------------
(* Funding (action/update_funding_state.rs).                               *)
(* FundingFeeParams::change.                                               *)
FundingChange(factor, long, short, diffFactor) ==
    LET f == FundingFeeParams
    IN  IF (factor > 0 /\ long > short) \/ (factor < 0 /\ long < short)
        THEN IF diffFactor > f.threshold_for_stable THEN "Increase"
             ELSE IF diffFactor < f.threshold_for_decrease THEN "Decrease"
             ELSE "NoChange"
        ELSE "Increase"

(* A decrease never crosses zero: it stops at one unit.                    *)
DecreasedFactor(factor, by) ==
    IF Magnitude(factor) <= by THEN TruncDiv(factor, Magnitude(factor))
    ELSE IF factor < 0 THEN factor + by ELSE factor - by

(* next_funding_factor_per_second: the factor charged, who pays it, and    *)
(* the factor kept for the next update.                                    *)
NextFundingFactor(m, duration, long, short) ==
    LET f == FundingFeeParams
        diff == Magnitude(long - short)
        diffFactor == DivToFactor(ApplyExponentFactor(diff, f.exponent), long + short)
        rise == ApplyFactor(diffFactor, f.increase_factor) * duration
        change == FundingChange(m.factor, long, short, diffFactor)
        moved == CASE change = "Increase" ->
                        m.factor + (IF long < short THEN -rise ELSE rise)
                   [] change = "Decrease" /\ m.factor # 0 ->
                        DecreasedFactor(m.factor, f.decrease_factor * duration)
                   [] OTHER -> m.factor
        next == BoundMagnitude(moved, 0, f.max_factor)
        charged == BoundMagnitude(next, f.min_factor, f.max_factor)
    IN  CASE diff = 0 /\ f.increase_factor = 0 ->
               [charged |-> 0, longsPay |-> TRUE, next |-> 0]
          [] f.increase_factor = 0 /\ diff # 0 ->
               [charged |-> Least(ApplyFactor(diffFactor, f.factor), f.max_factor),
                longsPay |-> long > short, next |-> 0]
          [] OTHER ->
               [charged |-> Magnitude(charged), longsPay |-> charged > 0, next |-> next]

(* pack_to_funding_amount_per_size: payers are rounded up, receivers down. *)
PackFunding(value, interest, price, roundUp) ==
    IF value = 0 \/ interest = 0 THEN 0
    ELSE IF roundUp
    THEN CeilDiv(MulDivCeil(value, Adjustment * Unit, interest), price)
    ELSE MulDiv(value, Adjustment * Unit, interest) \div price

(* unpack_to_funding_amount_delta.                                         *)
UnpackFunding(latest, snapshot, size, roundUp) ==
    IF roundUp THEN MulDivCeil(size, latest - snapshot, Adjustment * Unit)
    ELSE MulDiv(size, latest - snapshot, Adjustment * Unit)

(* set_deltas, for one collateral token: what the payers owe in it more,   *)
(* and what the other side may claim of it more, per unit of size.         *)
ChargeFunding(m, o, payer, c, value) ==
    LET price == TokenPrice(o, c).max
        interest == Amount(m, <<"OpenInterest", payer>>, c)
    IN  ApplyDelta(ApplyDelta(m, <<"FundingAmountPerSize", payer>>, c,
                              PackFunding(value, interest, price, TRUE)),
                   <<"ClaimableFundingAmountPerSize", ~payer>>, c,
                   PackFunding(value, OpenInterest(m, ~payer), price, FALSE))

(* UpdateFundingState::execute.                                            *)
UpdateFunding(m, o) ==
    LET r == Restarted(Check(m, ValidPrices(o)), "Funding", o)
        long == OpenInterest(m, TRUE)
        short == OpenInterest(m, FALSE)
        duration == Passed(m, "Funding", o)
        share(total, payer, c) == MulDiv(total, Amount(m, <<"OpenInterest", payer>>, c),
                                         OpenInterest(m, payer))
        charge(n, f, c) ==
            LET total == ApplyFactor(Greatest(long, short), duration * f.charged)
            IN  ChargeFunding(n, o, f.longsPay, c, share(total, f.longsPay, c))
        charged(f) == [charge(charge(r, f, TRUE), f, FALSE) EXCEPT !.factor = f.next]
    IN  IF long = 0 \/ short = 0 THEN [r EXCEPT !.factor = 0]
        ELSE charged(NextFundingFactor(m, duration, long, short))

(* What every execution does first: RevertibleLiquidityMarketOperation's   *)
(* pre_execute and the start of ExecuteOrderOperation::perform_execution.  *)
PreExecute(m, o) == UpdateFunding(UpdateBorrowing(DistributePositionImpact(m, o), o), o)

-----------------------------------------------------------------------------
(* The value of the pool and of its shares (market/liquidity.rs).          *)
PoolValueKnown(m, o) ==
    \A s \in BOOLEAN : BorrowingKnown(m, o, s) /\ TotalPendingBorrowing(m, o, s) >= 0

PoolValue(m, o, kind, maximize) ==
    LET value == [s \in BOOLEAN |-> SideValue(m, o, s, maximize)]
        pnl == [s \in BOOLEAN |-> CapPnl(s, Pnl(m, o, s, ~maximize), value[s], kind)]
        fees == TotalPendingBorrowing(m, o, TRUE) + TotalPendingBorrowing(m, o, FALSE)
        impact == (Amount(m, PositionImpact, TRUE) - PendingDistribution(m, o))
                    * PickPrice(o.index, ~maximize)
    IN  value[TRUE] + value[FALSE]
          + ApplyFactor(fees, Unit - BorrowingFeeParams.receiver)
          - (pnl[TRUE] + pnl[FALSE]) - impact

(* usd_to_market_token_amount.                                             *)
UsdToMarketTokensUp(usd, value, supply) ==  \* a mutant: rounds up
    IF supply = 0 THEN (value + usd) \div UsdToAmountDivisor
    ELSE MulDivCeil(supply, usd, value)

UsdToMarketTokens(usd, value, supply) ==
    IF supply = 0 THEN (value + usd) \div UsdToAmountDivisor
    ELSE MulDiv(supply, usd, value)

-----------------------------------------------------------------------------
(* Fees (params/fee.rs).                                                   *)
Fee(params, positive, amount) ==
    LET fee == ApplyFactor(amount, IF positive THEN params.positive ELSE params.negative)
    IN  fee - ApplyFactor(fee, params.discount)

(* FeeParams::apply_fees.                                                  *)
ApplyFees(params, positive, amount) ==
    LET fee == Fee(params, positive, amount)
        receiver == ApplyFactor(fee, params.receiver)
    IN  [after |-> amount - fee, pool |-> fee - receiver, receiver |-> receiver]

-----------------------------------------------------------------------------
(* Swap impact (market/swap.rs): a positive impact is paid from the swap   *)
(* impact pool and capped by it, a negative one is rounded up.             *)
SwapImpactAmount(m, s, price, impact) ==
    LET wanted == TruncDiv(impact, price.max)
    IN  IF impact > 0
        THEN [amount |-> Least(wanted, Amount(m, SwapImpact, s)),
              capped |-> Greatest(wanted - Amount(m, SwapImpact, s), 0) * price.max]
        ELSE [amount |-> CeilMagnitudeDiv(impact, price.min), capped |-> 0]

MidValues(m, o) == [s \in BOOLEAN |-> Amount(m, Primary, s) * Mid(TokenPrice(o, s))]
=============================================================================
