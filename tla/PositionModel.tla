---------------------------- MODULE PositionModel ----------------------------
(***************************************************************************)
(* Positions of one market and what increasing and decreasing them does    *)
(* (crates/gmsol-model: position.rs, action/increase_position.rs,          *)
(* action/decrease_position/).                                             *)
(*                                                                         *)
(* A position is a record: its side (long), the side of its collateral     *)
(* token (cl), its size in USD and in index tokens, its collateral, and    *)
(* the borrowing factor and funding amounts per size it has settled.       *)
(*                                                                         *)
(* Acceptable prices are left out: they only refuse executions.            *)
(***************************************************************************)
EXTENDS LiquidityModel

NewPosition(long, cl) ==
    [long |-> long, cl |-> cl, size |-> 0, tokens |-> 0, collateral |-> 0,
     borrowing |-> 0, funding |-> 0, claimable |-> [s \in BOOLEAN |-> 0]]

IsEmpty(p) == p.size = 0 /\ p.tokens = 0 /\ p.collateral = 0

PnlTokenIsCollateral(m, p) == p.long = p.cl \/ m.pure

CollateralPrice(o, p) == TokenPrice(o, p.cl)

FundingPerSize(m, p) == Amount(m, <<"FundingAmountPerSize", p.long>>, p.cl)
ClaimablePerSize(m, p, s) == Amount(m, <<"ClaimableFundingAmountPerSize", p.long>>, s)
CumulativeBorrowing(m, p) == Amount(m, BorrowingFactor, p.long)

(* The position's settled amounts never exceed the market's: checked_sub   *)
(* fails in pending_borrowing_fee_value and pending_funding_fees.          *)
Settleable(m, p) ==
    /\ p.borrowing <= CumulativeBorrowing(m, p)
    /\ p.funding <= FundingPerSize(m, p)
    /\ \A s \in BOOLEAN : p.claimable[s] <= ClaimablePerSize(m, p, s)

SettleFunding(m, p) ==
    [p EXCEPT !.funding = FundingPerSize(m, p),
              !.claimable = [s \in BOOLEAN |-> ClaimablePerSize(m, p, s)]]

(* pending_funding_fees: what the position owes in its collateral token    *)
(* and may claim of each token.                                            *)
FundingFee(m, p) == UnpackFunding(FundingPerSize(m, p), p.funding, p.size, TRUE)
FundingClaim(m, p, s) ==
    UnpackFunding(ClaimablePerSize(m, p, s), p.claimable[s], p.size, FALSE)

-----------------------------------------------------------------------------
(* PositionExt::position_fees.  pool and receiver are the order, borrowing *)
(* and liquidation fees together.                                          *)
OrderFeeAmount(o, p, delta, positive) ==
    Fee(OrderFeeParams, positive, delta) \div CollateralPrice(o, p).min

BorrowingFeeAmount(m, o, p) ==
    ApplyFactor(p.size, CumulativeBorrowing(m, p) - p.borrowing)
        \div CollateralPrice(o, p).min

LiquidationFeeAmount(o, p, delta) ==
    CeilDiv(ApplyFactor(delta, LiquidationFeeParams.factor), CollateralPrice(o, p).min)

PositionFees(m, o, p, delta, positive, liquidation) ==
    LET order == OrderFeeAmount(o, p, delta, positive)
        borrowing == BorrowingFeeAmount(m, o, p)
        liq == IF liquidation THEN LiquidationFeeAmount(o, p, delta) ELSE 0
        receiver == ApplyFactor(order, OrderFeeParams.receiver)
                      + ApplyFactor(borrowing, BorrowingFeeParams.receiver)
                      + ApplyFactor(liq, LiquidationFeeParams.receiver)
    IN  [receiver |-> receiver, pool |-> order + borrowing + liq - receiver,
         funding |-> FundingFee(m, p),
         claim |-> [s \in BOOLEAN |-> FundingClaim(m, p, s)]]

TotalCostNoFunding(fees) == fees.receiver + fees.pool  \* a mutant
TotalCost(fees) == fees.receiver + fees.pool + fees.funding

-----------------------------------------------------------------------------
(* position_price_impact of a change of the size by delta.                 *)
PositionPriceImpact(m, p, delta) ==
    LET cur == [s \in BOOLEAN |-> OpenInterest(m, s)]
    IN  PriceImpact(cur, [cur EXCEPT ![p.long] = @ + delta], PositionImpactParams)

(* cap_positive_position_price_impact and cap_negative_...                 *)
CapPositiveImpact(m, o, delta, impact) ==
    IF impact <= 0 THEN impact
    ELSE Least(Least(impact, Amount(m, PositionImpact, TRUE) * o.index.min),
               ApplyFactor(Magnitude(delta), Config.max_positive_position_impact_factor))

CapNegativeImpact(delta, factor, impact) ==
    Greatest(impact, -ApplyFactor(Magnitude(delta), factor))

(* PositionExt::pnl_value: the capped profit of delta of the size, and the *)
(* tokens it stands for.                                                   *)
TotalPnl(m, o, p) ==
    LET value == p.tokens * PickPriceForPnl(o.index, p.long, FALSE)
        pnl == IF p.long THEN value - p.size ELSE p.size - value
        poolPnl == Pnl(m, o, p.long, TRUE)
        capped == CapPnl(p.long, poolPnl, SideValue(m, o, p.long, FALSE), "MaxForTrader")
    IN  IF pnl > 0 /\ poolPnl > 0 /\ capped # poolPnl
        THEN MulDiv(capped, pnl, poolPnl) ELSE pnl

SizeDeltaInTokens(p, delta) ==
    IF delta = p.size THEN p.tokens
    ELSE IF p.long THEN MulDivCeil(p.tokens, delta, p.size)
    ELSE MulDiv(p.tokens, delta, p.size)

PnlOf(m, o, p, delta) ==
    MulDivSigned(SizeDeltaInTokens(p, delta), TotalPnl(m, o, p), p.tokens)

-----------------------------------------------------------------------------
(* check_liquidatable: what would be left of the collateral after closing. *)
RemainingAfter(m, o, p, impact) ==
      p.collateral * CollateralPrice(o, p).min + PnlOf(m, o, p, p.size)
    + (IF impact < 0
       THEN CapNegativeImpact(p.size, Config.max_position_impact_factor_for_liquidations, impact)
       ELSE 0)
    - TotalCost(PositionFees(m, o, p, p.size, impact > 0, FALSE)) * CollateralPrice(o, p).min

RemainingCollateralValue(m, o, p) == RemainingAfter(m, o, p, PositionPriceImpact(m, p, -p.size))

TooLittle(rest, p, withMinValue) ==
    \/ rest <= 0
    \/ withMinValue /\ rest < Config.min_collateral_value
    \/ rest < ApplyFactor(p.size, Config.min_collateral_factor)

IsLiquidatable(m, o, p, withMinValue) ==
    TooLittle(RemainingCollateralValue(m, o, p), p, withMinValue)

(* PositionExt::validate.                                                  *)
ValidPosition(m, o, p, withMin) ==
    /\ p.size # 0 /\ p.tokens # 0
    /\ withMin => p.size >= Config.min_position_size_usd
    /\ Settleable(m, p)
    /\ ~IsLiquidatable(m, o, p, withMin)

(* will_collateral_be_sufficient: the collateral value left, and whether   *)
(* it carries the next size.                                               *)
CollateralLeft(o, p, collateral, realized) ==
    collateral * CollateralPrice(o, p).min + Least(realized, 0)

SufficientCollateral(m, p, left, nextSize, interestDelta) ==
    LET byInterest == ApplyFactor(OpenInterest(m, p.long) + interestDelta,
                                  Config.min_collateral_factor_for_open_interest[p.long])
    IN  left >= ApplyFactor(nextSize, Greatest(byInterest, Config.min_collateral_factor))

-----------------------------------------------------------------------------
(* update_open_interest and update_total_borrowing.                        *)
UpdateOpenInterest(m, p, delta, tokens) ==
    LET n == ApplyDelta(m, <<"OpenInterest", p.long>>, p.cl, delta)
    IN  IF delta = 0 THEN m
        ELSE ApplyDelta(Check(n, delta > 0 =>
                                   OpenInterest(n, p.long) <= Config.max_open_interest[p.long]),
                        <<"OpenInterestInTokens", p.long>>, p.cl, tokens)

(* A mutant: the next amount at the factor the position settled last.      *)
UpdateTotalBorrowingStale(m, p, nextSize) ==
    ApplyDelta(m, TotalBorrowing, p.long,
               ApplyFactor(nextSize, p.borrowing) - ApplyFactor(p.size, p.borrowing))

(* ... and: nothing is subtracted when a position is closed.               *)
UpdateTotalBorrowingKept(m, p, nextSize) ==
    IF nextSize = 0 THEN m
    ELSE ApplyDelta(m, TotalBorrowing, p.long,
                      ApplyFactor(nextSize, CumulativeBorrowing(m, p))
                    - ApplyFactor(p.size, p.borrowing))

UpdateTotalBorrowing(m, p, nextSize) ==
    ApplyDelta(m, TotalBorrowing, p.long,
                 ApplyFactor(nextSize, CumulativeBorrowing(m, p))
               - ApplyFactor(p.size, p.borrowing))

-----------------------------------------------------------------------------
(* IncreasePosition::get_execution_params.                                 *)
IncreaseImpact(m, o, p, delta) ==
    IF delta = 0 THEN 0
    ELSE CapPositiveImpact(m, o, delta, PositionPriceImpact(m, p, delta))

ImpactAmount(o, impact) ==
    IF impact > 0 THEN impact \div o.index.max ELSE CeilMagnitudeDiv(impact, o.index.min)

IncreaseTokens(o, p, delta, impact) ==
    IF delta = 0 THEN 0
    ELSE IF p.long THEN delta \div o.index.max + ImpactAmount(o, impact)
    ELSE CeilDiv(delta, o.index.min) - ImpactAmount(o, impact)

(* The limits an increase of the size has to respect.                      *)
IncreaseAllowed(n, o, q) ==
    /\ ValidReserve(n, o, q.long)
    /\ ValidOpenInterestReserve(n, o, q.long)
    /\ SufficientCollateral(n, q, CollateralLeft(o, q, q.collateral, 0), q.size, 0)

(* IncreasePosition::execute, with collateral paid in and the size raised  *)
(* by delta.  The claims are what the position may now take out.           *)
PayIncrease(m, o, p, fees, change, impact) ==
    ApplyDelta(ApplyDelta(ApplyDelta(ApplyDelta(m, ClaimableFee, p.cl, fees.receiver),
                                     Primary, p.cl, fees.pool),
                          <<"CollateralSum", p.long>>, p.cl, change),
               PositionImpact, TRUE, -ImpactAmount(o, impact))

Raised(m, p, change, delta, tokens) ==
    [SettleFunding(m, p) EXCEPT !.collateral = @ + change, !.size = @ + delta,
         !.tokens = @ + tokens, !.borrowing = CumulativeBorrowing(m, p)]

CheckIncrease(n, o, q, delta, claim) ==
    IF q.collateral < 0 \/ ~n.ok
    THEN [m |-> Refused(n), p |-> q, claim |-> claim]
    ELSE [m |-> Check(n, /\ delta # 0 => IncreaseAllowed(n, o, q)
                         /\ ValidPosition(n, o, q, TRUE)),
          p |-> q, claim |-> claim]

IncreaseBooks(n, o, p, change, delta, tokens, claim) ==
    CheckIncrease(UpdateOpenInterest(n, p, delta, tokens), o,
                  Raised(n, p, change, delta, tokens), delta, claim)

IncreaseAt(m, o, p, paid, delta, impact, tokens, fees) ==
    IF delta > 0 /\ tokens <= 0
    THEN [m |-> Refused(m), p |-> p, claim |-> fees.claim]
    ELSE IncreaseBooks(UpdateTotalBorrowing(PayIncrease(m, o, p, fees, paid - TotalCost(fees),
                                                        impact), p, p.size + delta),
                       o, p, paid - TotalCost(fees), delta, tokens, fees.claim)

IncreasePriced(m, o, p, paid, delta, impact) ==
    IF ~Settleable(m, p) THEN [m |-> Refused(m), p |-> p, claim |-> [s \in BOOLEAN |-> 0]]
    ELSE IncreaseAt(m, o, p, paid, delta, impact, IncreaseTokens(o, p, delta, impact),
                    PositionFees(m, o, p, delta, impact > 0, FALSE))

InitIfEmpty(m, p) == IF p.size = 0 THEN SettleFunding(m, [p EXCEPT !.tokens = 0]) ELSE p

Increase(m, o, p, paid, delta) ==
    IF ~ValidPrices(o) THEN [m |-> Refused(m), p |-> p, claim |-> [s \in BOOLEAN |-> 0]]
    ELSE IncreasePriced(m, o, InitIfEmpty(m, p), paid, delta, IncreaseImpact(m, o, p, delta))

-----------------------------------------------------------------------------
(* DecreasePosition::check_partial_close and check_close: a decrease that  *)
(* would leave too little becomes a full close, and may lose its           *)
(* withdrawal.  d is the decrease: its size, its withdrawal and ok.        *)
PartialClose(o, p, d, pnl, realized, left, sufficient) ==
    LET rest == left + (IF sufficient THEN 0 ELSE d.withdraw * CollateralPrice(o, p).min)
                  + pnl - realized
        tooSmall == \/ rest < Config.min_collateral_value
                    \/ p.size - d.size < Config.min_position_size_usd
    IN  [size |-> IF tooSmall THEN p.size ELSE d.size,
         withdraw |-> IF sufficient THEN d.withdraw ELSE 0,
         ok |-> sufficient \/ d.size # 0]

PartialCloseAt(m, o, p, d, pnl, realized, left) ==
    PartialClose(o, p, d, pnl, realized, left,
                 SufficientCollateral(m, p, left, p.size - d.size, -d.size))

PartialCloseOf(m, o, p, d, pnl, realized) ==
    PartialCloseAt(m, o, p, d, pnl, realized,
                   CollateralLeft(o, p, p.collateral - d.withdraw, realized))

PartialClosePnl(m, o, p, d, pnl) ==
    PartialCloseOf(m, o, p, d, pnl, MulDivSigned(d.size, pnl, p.size))

CheckPartialClose(m, o, p, d) ==
    IF d.size = p.size THEN d ELSE PartialClosePnl(m, o, p, d, PnlOf(m, o, p, p.size))

CheckClose(p, d) == IF d.size = p.size THEN [d EXCEPT !.withdraw = 0] ELSE d

(* DecreasePosition::get_execution_params and, in the second operator, the *)
(* price it is executed at, which must stay positive.                      *)
DecreaseImpact(m, o, p, delta) ==
    LET capped(raw) == CapNegativeImpact(delta, Config.max_negative_position_impact_factor, raw)
        both(raw) == [impact |-> capped(raw), diff |-> capped(raw) - raw]
    IN  both(IF delta = 0 THEN 0
             ELSE CapPositiveImpact(m, o, delta, PositionPriceImpact(m, p, -delta)))

ExecutionPriceKnown(o, p, delta, impact) ==
    LET adjusted == IF p.long THEN impact ELSE -impact
        change == TruncDiv(MulDivSigned(p.size, adjusted, delta), p.tokens)
    IN  delta # 0 => /\ -adjusted <= delta
                     /\ PickPrice(o.index, ~p.long) + change >= 0

-----------------------------------------------------------------------------
(* The collateral processor (collateral_processor.rs).  Its state st: the  *)
(* market; the output in the collateral token, in the profit token, and    *)
(* the collateral left; what is held and what is owed to the user later;   *)
(* the funding fees that were not paid in the collateral token; and        *)
(* whether a cost could not be paid, which skips the remaining steps.      *)
NewProcess(m, p) ==
    [m |-> m, out |-> 0, sec |-> 0, col |-> p.collateral, holding |-> 0,
     user |-> [s \in BOOLEAN |-> 0], unpaid |-> 0, waived |-> 0, short |-> FALSE]

(* State::do_pay_for_cost: costs are paid from the output, then from the   *)
(* collateral, then from the secondary output.                             *)
PayForCost(st, o, p, cost) ==
    LET price == CollateralPrice(o, p).min
        pnlPrice == TokenPrice(o, p.long).min
        need == CeilDiv(cost, price)
        fromOut == Least(st.out, need)
        fromCol == Least(st.col, need - fromOut)
        secNeed == MulDiv(need - fromOut - fromCol, price, pnlPrice)
        fromSec == Least(st.sec, secNeed)
    IN  [st |-> [st EXCEPT !.out = @ - fromOut, !.col = @ - fromCol,
                           !.sec = @ - fromSec, !.short = fromSec < secNeed],
         paid |-> fromOut + fromCol, paidSec |-> fromSec]

PayToPrimary(st, p, paid, paidSec) ==
    [st EXCEPT !.m = ApplyDelta(ApplyDelta(@, Primary, p.cl, paid),
                                Primary, p.long, paidSec)]

(* add_pnl_token_amount, after taking it from the pool.                    *)
AddProfit(st, o, p, usd) ==
    LET amount == usd \div TokenPrice(o, p.long).max
        taken == [st EXCEPT !.m = ApplyDelta(@, Primary, p.long, -amount)]
    IN  IF PnlTokenIsCollateral(st.m, p) THEN [taken EXCEPT !.out = @ + amount]
        ELSE [taken EXCEPT !.sec = @ + amount]

AddPnl(st, o, p, pnl) == IF pnl > 0 THEN AddProfit(st, o, p, pnl) ELSE st

AddImpact(st, o, p, impact) ==
    IF impact > 0
    THEN AddProfit([st EXCEPT !.m = ApplyDelta(@, PositionImpact, TRUE,
                                               -CeilDiv(impact, o.index.min))],
                   o, p, impact)
    ELSE st

(* swap_profit_to_collateral_tokens: a failed swap changes nothing.        *)
SwapProfit(st, o, p, swap) ==
    LET swapped(r) == IF r.m.ok
                      THEN [st EXCEPT !.m = r.m, !.out = @ + r.out, !.sec = 0] ELSE st
    IN  IF swap = "PnlTokenToCollateralToken" /\ st.sec # 0
        THEN swapped(Swap(st.m, o, p.long, st.sec, SwapFeeParams("Swap"))) ELSE st

PayFunding(st, o, p, fees) ==
    LET r == PayForCost(st, o, p, fees.funding * CollateralPrice(o, p).min)
    IN  IF fees.funding = 0 THEN st
        ELSE [r.st EXCEPT !.holding = @ + r.paidSec,
                          !.unpaid = Greatest(fees.funding - r.paid, 0)]

PayPnl(st, o, p, pnl) ==
    LET r == PayForCost(st, o, p, -pnl)
    IN  IF st.short \/ pnl >= 0 THEN st ELSE PayToPrimary(r.st, p, r.paid, r.paidSec)

(* Fees are shared with the receiver only when they are paid in full in    *)
(* the collateral token, which a cost below one unit of the profit token   *)
(* also counts as; waived is the difference.                               *)
PayFees(st, o, p, fees) ==
    LET cost == fees.pool + fees.receiver
        r == PayForCost(st, o, p, cost * CollateralPrice(o, p).min)
        full == ~r.st.short /\ r.paidSec = 0
    IN  IF st.short \/ cost = 0 THEN st
        ELSE IF full
        THEN [r.st EXCEPT !.m = ApplyDelta(ApplyDelta(@, Primary, p.cl, fees.pool),
                                           ClaimableFee, p.cl, fees.receiver),
                          !.waived = cost - r.paid]
        ELSE PayToPrimary(r.st, p, r.paid, r.paidSec)

PayImpact(st, o, p, impact) ==
    LET r == PayForCost(st, o, p, -impact)
        q == PayToPrimary(r.st, p, r.paid, r.paidSec)
        gained == MulDiv(r.paid, CollateralPrice(o, p).min, o.index.max)
                    + MulDiv(r.paidSec, TokenPrice(o, p.long).min, o.index.max)
    IN  IF st.short \/ impact >= 0 THEN st
        ELSE [q EXCEPT !.m = ApplyDelta(@, PositionImpact, TRUE, gained)]

PayImpactDiff(st, o, p, diff) ==
    LET r == PayForCost(st, o, p, diff)
    IN  IF st.short \/ diff = 0 THEN st
        ELSE [r.st EXCEPT !.user = [s \in BOOLEAN |-> @[s] + (IF s THEN r.paid ELSE r.paidSec)]]

(* DecreasePosition::process_collateral: what is gained, then what is      *)
(* paid, then the withdrawal.                                              *)
Withdrawn(st, amount) == [st EXCEPT !.col = @ - amount, !.out = @ + amount]

AskedAfterDiff(o, p, d, diff) ==
    IF diff # 0 THEN Greatest(d.withdraw - diff \div CollateralPrice(o, p).min, 0)
    ELSE d.withdraw

Release(st, o, p, d, diff) == Withdrawn(st, Least(AskedAfterDiff(o, p, d, diff), st.col))

Gains(m, o, p, pnl, impact, swap) ==
    SwapProfit(AddImpact(AddPnl(NewProcess(m, p), o, p, pnl), o, p, impact), o, p, swap)

Costs(st, o, p, pnl, i, fees) ==
    PayImpactDiff(PayImpact(PayFees(PayPnl(PayFunding(st, o, p, fees), o, p, pnl),
                                    o, p, fees),
                            o, p, i.impact),
                  o, p, i.diff)

ProcessPnl(m, o, p, d, i, fees, swap, pnl) ==
    Release(Costs(Gains(m, o, p, pnl, i.impact, swap), o, p, pnl, i, fees), o, p, d, i.diff)

ProcessCollateral(m, o, p, d, i, fees, swap) ==
    ProcessPnl(m, o, p, d, i, fees, swap, PnlOf(m, o, p, d.size))

(* DecreasePositionFlags::init: the size, capped if that is allowed, and   *)
(* whether costs may stay unpaid, which only a full close may.             *)
CapSize(p, req) == IF req.cap THEN Least(req.size, p.size) ELSE req.size
InsolventCloseAllowed(p, req) == req.insolvent /\ CapSize(p, req) = p.size

(* DecreasePosition::execute, from the point where its costs are settled.  *)
Lowered(m, p, left) ==
    [SettleFunding(m, left) EXCEPT !.borrowing = CumulativeBorrowing(m, p)]

Left(p, d, tokens, col, removed) ==
    IF removed THEN [p EXCEPT !.size = 0, !.tokens = 0, !.collateral = 0]
    ELSE [p EXCEPT !.size = @ - d.size, !.tokens = @ - tokens, !.collateral = col]

CheckDecrease(n, o, q, removed) ==
    Check(n, n.ok /\ ~removed => ValidPosition(n, o, q, FALSE))

DecreaseBooks(n, o, p, left, st, d, tokens, removed) ==
    [m |-> CheckDecrease(UpdateOpenInterest(n, p, -d.size, -tokens), o,
                         Lowered(n, p, left), removed),
     p |-> Lowered(n, p, left), size |-> d.size, removed |-> removed,
     out |-> st.out + (IF removed THEN st.col ELSE 0), sec |-> st.sec]

DecreaseLeaving(o, p, d, st, tokens, removed, left) ==
    DecreaseBooks(ApplyDelta(UpdateTotalBorrowing(st.m, p, p.size - d.size),
                             <<"CollateralSum", p.long>>, p.cl, left.collateral - p.collateral),
                  o, p, left, st, d, tokens, removed)

DecreaseTokens(o, p, d, st, tokens, removed) ==
    DecreaseLeaving(o, p, d, st, tokens, removed, Left(p, d, tokens, st.col, removed))

SettleDecrease(o, p, d, st) ==
    LET tokens == SizeDeltaInTokens(p, d.size)
    IN  DecreaseTokens(o, p, d, st, tokens, d.size = p.size \/ tokens = p.tokens)

(* swap_collateral_token_to_pnl_token.                                     *)
SwapOutput(r, o, swap) ==
    LET swapped(s) == IF s.m.ok THEN [r EXCEPT !.m = s.m, !.sec = @ + s.out, !.out = 0] ELSE r
    IN  IF swap = "CollateralToPnlToken" /\ r.out # 0
        THEN swapped(Swap(r.m, o, r.p.cl, r.out, SwapFeeParams("Swap"))) ELSE r

NoDecrease(m, p) ==
    [m |-> Refused(m), p |-> p, size |-> 0, out |-> 0, sec |-> 0, removed |-> FALSE, holding |-> 0,
     user |-> [s \in BOOLEAN |-> 0], claim |-> [s \in BOOLEAN |-> 0],
     unpaid |-> 0, waived |-> 0]

(* DecreasePosition::execute for a request: its size, the collateral to    *)
(* withdraw, its flags and its swap type.                                  *)
DecreaseReport(r, st, claim) ==
    [m |-> r.m, p |-> r.p, size |-> r.size, out |-> r.out, sec |-> r.sec, removed |-> r.removed,
     holding |-> st.holding, user |-> st.user, claim |-> claim,
     unpaid |-> st.unpaid, waived |-> st.waived]

DecreaseSwapType(m, p, req) == IF PnlTokenIsCollateral(m, p) THEN "NoSwap" ELSE req.swap

DecreaseSettled(m, o, p, req, d, claim, st) ==
    IF ~st.m.ok \/ (st.short /\ ~InsolventCloseAllowed(p, req)) THEN NoDecrease(m, p)
    ELSE DecreaseReport(SwapOutput(SettleDecrease(o, p, d, st), o,
                                   DecreaseSwapType(m, p, req)), st, claim)

DecreaseCharged(m, o, p, req, d, i, fees) ==
    DecreaseSettled(m, o, p, req, d, fees.claim,
                    ProcessCollateral(m, o, p, d, i, fees, DecreaseSwapType(m, p, req)))

DecreasePriced(m, o, p, req, d, i) ==
    IF ~ExecutionPriceKnown(o, p, d.size, i.impact) THEN NoDecrease(m, p)
    ELSE DecreaseCharged(m, o, p, req, d, i,
                         PositionFees(m, o, p, d.size, i.impact > 0, req.liquidation))

DecreaseDecided(m, o, p, req, d) ==
    IF ~d.ok \/ (req.liquidation /\ ~IsLiquidatable(m, o, p, TRUE)) THEN NoDecrease(m, p)
    ELSE DecreasePriced(m, o, p, req, d, DecreaseImpact(m, o, p, d.size))

Asked(p, req) ==
    [size |-> CapSize(p, req), withdraw |-> Least(req.withdraw, p.collateral), ok |-> TRUE]

Decrease(m, o, p, req) ==
    IF ~ValidPrices(o) \/ p.size = 0 \/ ~Settleable(m, p) \/ CapSize(p, req) > p.size
    THEN NoDecrease(m, p)
    ELSE DecreaseDecided(m, o, p, req, CheckClose(p, CheckPartialClose(m, o, p, Asked(p, req))))
=============================================================================
