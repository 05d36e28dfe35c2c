------------------------------ MODULE PerpMarket ------------------------------
(***************************************************************************)
(* One market of the store as its executions change it                     *)
(* (programs/gmsol-store: ops/market.rs, ops/order.rs, instructions/       *)
(* exchange/, instructions/market.rs, states/market).                      *)
(*                                                                         *)
(* The arithmetic of a deposit, a withdrawal, a swap and of a position's   *)
(* increase and decrease is in the modules this one extends.  Here are the *)
(* instructions: what an execution does to the market and to the position  *)
(* it is about, in which order, and what leaves the vault.  An execution   *)
(* that fails leaves the market as it was (RevertibleMarket), so an action *)
(* is enabled only when it succeeds.                                       *)
(*                                                                         *)
(* A trader has one position per side and collateral token.  Swap paths    *)
(* over several markets are in SwapMarkets, actions and their escrows in   *)
(* ActionLifecycle, and the ages of prices in Oracle.                      *)
(***************************************************************************)
EXTENDS PositionModel, FiniteSets, Functions

CONSTANTS PureChoices,      \* which kinds of markets: TRUE is one token on both sides
          PositionKinds,      \* the positions: <<is long, is collateral long, whose>>
          PriceSets,          \* the prices the oracle may give, for pure markets and others
          FirstPrices,        \* ... and those at the first deposit
          Steps,              \* the seconds that may pass between two prices
          Lags,               \* how old prices may be when they are used
          Deposits,           \* the two token amounts of deposits and shifts
          Amounts,            \* token amounts of swaps and of collateral
          Burns,              \* market token amounts of withdrawals and shifts
          Sizes,              \* sizes in USD of orders
          SwapTypes,          \* DecreasePositionSwapType
          AdlMaxStaleness,    \* AdlPricesMaxStaleness
          FirstDeposit,       \* the amounts of the first deposit
          MaxTrades,          \* bound on the executions that change a position
          MaxOthers,          \* bound on the other instructions
          MaxTime             \* bound on the time

ASSUME PerpAssumption ==
    /\ PureChoices \subseteq BOOLEAN
    /\ \A pure \in BOOLEAN :
         /\ IsFiniteSet(PositionKinds[pure])
         /\ \A k \in PositionKinds[pure] : k[1] \in BOOLEAN /\ k[2] \in BOOLEAN
         /\ PriceSets[pure] \subseteq PriceRecords
         /\ FirstPrices[pure] \subseteq PriceRecords
    /\ Steps \subseteq Nat /\ Amounts \subseteq Nat /\ Sizes \subseteq Nat
    /\ Burns \subseteq Nat /\ Deposits \subseteq [BOOLEAN -> Nat]
    /\ FirstDeposit \in [BOOLEAN -> Nat]

VARIABLES m,                  \* the market
          positions,          \* the positions, by kind
          o,                  \* the oracle's prices and the time
          adl,                \* per side: ADL enabled, and its clock
          forgiven,           \* per token: costs that closed positions left unpaid
          leftBehind,         \* per position: size that was removed with its last token
          trades, others      \* the executions and other instructions so far

vars == <<m, positions, o, adl, forgiven, leftBehind, trades, others>>

-----------------------------------------------------------------------------
(* An execution that succeeded, and what it changes.                       *)
Commit(n) == n.ok /\ m' = n

CountTrade == trades < MaxTrades /\ trades' = trades + 1 /\ UNCHANGED others
CountOther == others < MaxOthers /\ others' = others + 1 /\ UNCHANGED trades

Untouched == UNCHANGED <<o, adl>>

(* RevertibleLiquidityMarketOperation::unchecked_deposit after the tokens  *)
(* were transferred in; with no fees it ends a shift.                      *)
DepositWith(amount, fees) ==
    LET paidIn == TransferIn(TransferIn(m, TRUE, amount[TRUE]), FALSE, amount[FALSE])
    IN  /\ CountOther
        /\ Commit(Covered(Deposit(PreExecute(paidIn, o), o, amount, fees).m))
        /\ Untouched
        /\ UNCHANGED <<positions, forgiven, leftBehind>>

ExecuteDeposit(amount) == DepositWith(amount, SwapFeeParams("Deposit"))
ShiftIn(amount) == DepositWith(amount, SwapFeeParams("Shift"))

(* unchecked_withdraw, and the transfer out of what it pays; with no fees  *)
(* it starts a shift.                                                      *)
WithdrawWith(burnt, fees) ==
    LET paid(r) == Paid(r.m, r.out)
    IN  /\ CountOther
        /\ Commit(paid(Withdraw(PreExecute(m, o), o, burnt, fees)))
        /\ Untouched
        /\ UNCHANGED <<positions, forgiven, leftBehind>>

ExecuteWithdrawal(burnt) == WithdrawWith(burnt, SwapFeeParams("Withdrawal"))
ShiftOut(burnt) == WithdrawWith(burnt, SwapFeeParams("Shift"))

(* A swap order whose path is this market (execute_swap).                  *)
ExecuteSwap(s, amount) ==
    LET n == PreExecute(TransferIn(m, s, amount), o)
        paid(r) == Paid(r.m, Only(~s, r.out))
    IN  /\ m.pure => s
        /\ CountOther
        /\ Commit(paid(Swap(n, o, s, amount, SwapFeeParams("Swap"))))
        /\ Untouched
        /\ UNCHANGED <<positions, forgiven, leftBehind>>

(* execute_increase_position: the collateral comes in, the funding fees    *)
(* the position may claim go out.                                          *)
ExecuteIncrease(k, paid, delta) ==
    LET n == PreExecute(TransferIn(m, k[2], paid), o)
        done(r) == /\ r.m.ok
                   /\ Commit(Paid(r.m, r.claim))
                   /\ positions' = [positions EXCEPT ![k] = r.p]
    IN  /\ CountTrade
        /\ paid # 0 \/ delta # 0
        /\ n.ok
        /\ done(Increase(n, o, positions[k], paid, delta))
        /\ Untouched
        /\ UNCHANGED <<forgiven, leftBehind>>

(* What a decrease pays: the two outputs, the funding fees claimed, what   *)
(* is set aside for the holding address, and the impact above its cap.     *)
DecreasePays(k, r) ==
    LET out == Plus(Only(k[2], r.out), Only(k[1], r.sec))
        aside == Plus(Only(k[1], r.holding + r.user[FALSE]), Only(k[2], r.user[TRUE]))
    IN  Plus(Plus(out, aside), r.claim)

(* A position is removed as soon as it has no size or no tokens left, but  *)
(* the open interest and the total borrowing are lowered by the decrease   *)
(* only: what they keep of a removed position (history).                   *)
LeftBehind(k, r) ==
    LET rest == positions[k].size - r.size
        left == leftBehind[k]
    IN  IF r.removed
        THEN [size |-> left.size + rest,
              borrowing |-> left.borrowing + ApplyFactor(rest, r.p.borrowing),
              funding |-> left.funding + rest * r.p.funding]
        ELSE left

(* execute_decrease_position; the position is removed or kept.             *)
DecreaseTo(k, r) ==
    /\ r.m.ok
    /\ Commit(Paid(r.m, DecreasePays(k, r)))
    /\ positions' = [positions EXCEPT ![k] = IF r.removed THEN NewPosition(k[1], k[2]) ELSE r.p]
    /\ forgiven' = Plus(forgiven, Only(k[2], r.unpaid + r.waived))
    /\ leftBehind' = [leftBehind EXCEPT ![k] = LeftBehind(k, r)]
    /\ Untouched

ExecuteDecrease(k, req) ==
    LET n == PreExecute(m, o)
    IN  /\ CountTrade
        /\ positions[k].size # 0
        /\ n.ok
        /\ DecreaseTo(k, Decrease(n, o, positions[k], req))

(* PositionCutOperation with Liquidate: the whole size, at any result.     *)
Liquidate(k) ==
    ExecuteDecrease(k, [size |-> positions[k].size, withdraw |-> 0, insolvent |-> TRUE,
                        liquidation |-> TRUE, cap |-> FALSE,
                        swap |-> "PnlTokenToCollateralToken"])

(* An order of the position's owner.  Limit and stop-loss orders cap their *)
(* size at the size of the position.                                       *)
OwnerDecrease(k, size, withdraw, swap, cap) ==
    ExecuteDecrease(k, [size |-> size, withdraw |-> withdraw, insolvent |-> FALSE,
                        liquidation |-> FALSE, cap |-> cap, swap |-> swap])

(* PositionCutOperation with AutoDeleverage: only while the side's profit  *)
(* is too large a share of its pool, which must fall but not too far.  lag *)
(* is the age of the prices.                                               *)
AutoDeleverage(k, size, lag) ==
    LET req == [size |-> Least(size, positions[k].size), withdraw |-> 0, insolvent |-> TRUE,
                liquidation |-> FALSE, cap |-> FALSE,
                swap |-> "PnlTokenToCollateralToken"]
        lowered(after, before) == /\ after < before
                                  /\ after >= PnlFactorConfig("MinAfterAdl", k[1])
        cut(n, r) == /\ n.ok
                     /\ PnlFactorExceeded(n, o, "ForAdl", k[1])
                     /\ lowered(PnlFactor(r.m, o, k[1], TRUE), PnlFactor(n, o, k[1], TRUE))
                     /\ DecreaseTo(k, r)
        start(n) == cut(n, Decrease(n, o, positions[k], req))
    IN  /\ CountTrade
        /\ adl[k[1]].enabled
        /\ o.now - lag + AdlMaxStaleness >= adl[k[1]].at
        /\ start(PreExecute(m, o))

(* Adl::update_adl_state.                                                  *)
UpdateAdlState(isLong, lag) ==
    /\ o.now - lag >= adl[isLong].at
    /\ ValidPrices(o)
    /\ adl' = [adl EXCEPT ![isLong] =
                 [enabled |-> PnlFactorExceeded(m, o, "ForAdl", isLong), at |-> o.now]]
    /\ CountOther
    /\ UNCHANGED <<m, positions, o, forgiven, leftBehind>>

(* claim_fees_from_market.                                                 *)
ClaimFees(s) ==
    LET side == s \/ m.pure
        take(n, t) == ApplyDelta(n, ClaimableFee, t, -Amount(m, ClaimableFee, t))
        amount == OfToken(m, LAMBDA t : Amount(m, ClaimableFee, t), side)
        n == IF m.pure THEN take(take(m, TRUE), FALSE) ELSE take(m, side)
        r == TransferOut(n, Only(side, amount))
    IN  /\ CountOther
        /\ amount # 0
        /\ Commit(Check(r, /\ r.bal[side] >= PoolTokens(r, side)
                           /\ r.bal[side] >= CollateralTokens(r, side)))
        /\ Untouched
        /\ UNCHANGED <<positions, forgiven, leftBehind>>

(* Prices and the clock move on.                                           *)
NewPrices(p, step) ==
    /\ o.now + step <= MaxTime
    /\ o' = [index |-> p.index, long |-> p.long, short |-> p.short, now |-> o.now + step]
    /\ o' # o
    /\ UNCHANGED <<m, positions, adl, forgiven, leftBehind, trades, others>>

-----------------------------------------------------------------------------
(* A market that has just had its first deposit.                           *)
Start(p) == [index |-> p.index, long |-> p.long, short |-> p.short, now |-> 0]

Opened(pure, start) ==
    LET new == NewMarket(pure, 0)
        in == TransferIn(TransferIn(new, TRUE, FirstDeposit[TRUE]), FALSE, FirstDeposit[FALSE])
    IN  Covered(Deposit(PreExecute(in, start), start, FirstDeposit, SwapFeeParams("Deposit")).m)

(* In a pure market every collateral is the long token.                    *)
Kinds == {k \in PositionKinds[m.pure] : m.pure => k[2]}

Init == /\ \E pure \in PureChoices : \E p \in FirstPrices[pure] :
             o = Start(p) /\ m = Opened(pure, Start(p))
        /\ m.ok
        /\ positions = [k \in Kinds |-> NewPosition(k[1], k[2])]
        /\ adl = [s \in BOOLEAN |-> [enabled |-> FALSE, at |-> 0]]
        /\ forgiven = NoTokens
        /\ leftBehind = [k \in Kinds |-> [size |-> 0, borrowing |-> 0, funding |-> 0]]
        /\ trades = 0 /\ others = 0

Next ==
    \/ \E amount \in Deposits : ExecuteDeposit(amount) \/ ShiftIn(amount)
    \/ \E burnt \in Burns : ExecuteWithdrawal(burnt) \/ ShiftOut(burnt)
    \/ \E s \in BOOLEAN, amount \in Amounts : ExecuteSwap(s, amount)
    \/ \E k \in Kinds, paid \in Amounts \cup {0}, delta \in Sizes \cup {0} :
         ExecuteIncrease(k, paid, delta)
    \/ \E k \in Kinds, size \in Sizes \cup {0}, withdraw \in Amounts \cup {0},
          swap \in SwapTypes, cap \in BOOLEAN : OwnerDecrease(k, size, withdraw, swap, cap)
    \/ \E k \in Kinds : Liquidate(k)
    \/ \E k \in Kinds, size \in Sizes, lag \in Lags : AutoDeleverage(k, size, lag)
    \/ \E s \in BOOLEAN, lag \in Lags : UpdateAdlState(s, lag)
    \/ \E s \in BOOLEAN : ClaimFees(s)
    \/ \E p \in PriceSets[m.pure], step \in Steps : NewPrices(p, step)

Spec == Init /\ [][Next]_vars

-----------------------------------------------------------------------------
(* Properties.                                                             *)
Open == {k \in Kinds : positions[k].size # 0}

(* The market's books agree with the positions: per side and collateral    *)
(* token, the open interest in USD and in tokens and the collateral are    *)
(* the sums over the positions, and the total borrowing is what they had   *)
(* accrued when they last settled; of a removed position the books keep    *)
(* nothing but what it left behind.  Every increase, decrease, liquidation *)
(* and ADL updates both sides of each equation (position.rs:               *)
(* update_open_interest and update_total_borrowing).  In a pure market     *)
(* every collateral is the long token, and a pool has one amount.          *)
PositionsOf(side, c) == {k \in Kinds : k[1] = side /\ k[2] = c}
SizeOf(k) == positions[k].size + leftBehind[k].size
BorrowingOf(k) ==
    ApplyFactor(positions[k].size, positions[k].borrowing) + leftBehind[k].borrowing

SumOf(f(_), S) == SumFunctionOnSet([k \in Kinds |-> f(k)], S)

Books(kind, side, f(_)) ==
    \A c \in BOOLEAN : m.pool[<<kind, side>>][c] = SumOf(f, PositionsOf(side, c))

PoolsMatchPositions ==
    /\ \A k \in Kinds \ Open : IsEmpty(positions[k])
    /\ \A side \in BOOLEAN :
         /\ Books("OpenInterest", side, SizeOf)
         /\ Books("OpenInterestInTokens", side, LAMBDA k : positions[k].tokens)
         /\ Books("CollateralSum", side, LAMBDA k : positions[k].collateral)
         /\ m.pool[TotalBorrowing][side] = SumOf(BorrowingOf, {k \in Kinds : k[1] = side})

(* The vault backs everything at once: of each token, what is recorded,    *)
(* with the funding fees that are still owed and the costs that insolvent  *)
(* positions were forgiven, covers the pools, the collateral and the       *)
(* funding fees that may be claimed.  The program checks only the pools    *)
(* and only the collateral (validate_market_balances), and its books keep  *)
(* charging a size that was left behind, for others to claim.  In a pure   *)
(* market the two halves of an accumulator are rounded down one by one, by *)
(* less than a token in an update (pack_to_funding_amount_per_size).       *)
LeftFunding(k) ==
    CeilDiv(leftBehind[k].size * FundingPerSize(m, positions[k]) - leftBehind[k].funding,
            Adjustment * Unit)
Owed(k) == FundingFee(m, positions[k]) + LeftFunding(k)
Rounding == IF m.pure THEN trades + others ELSE 0

Solvent ==
    \A s \in IF m.pure THEN {TRUE} ELSE BOOLEAN :
          m.bal[s] + OfToken(m, LAMBDA t : forgiven[t], s) + Rounding
            + SumOf(Owed, {k \in Kinds : k[2] = s})
        >= PoolTokens(m, s) + CollateralTokens(m, s)
             + SumOf(LAMBDA k : OfToken(m, LAMBDA t : FundingClaim(m, positions[k], t), s), Kinds)

(* An open position can always be settled: the amounts it has settled are  *)
(* never ahead of the market's, and the borrowing fees of all positions of *)
(* a side together stay within what the open interest owes, so that the    *)
(* pool has a value (total_pending_borrowing_fees).                        *)
AlwaysSettleable ==
    /\ \A k \in Open : Settleable(m, positions[k])
    /\ \A s \in BOOLEAN : TotalPendingBorrowing(m, [o EXCEPT !.now = m.clock["Borrowing"]], s) >= 0

(* A liquidity provider who stays is never diluted: at the prices of the   *)
(* execution, a deposit or a shift into the market, and a withdrawal or a  *)
(* shift out of it, leave a market token worth at least as much as before, *)
(* valued as the program values it for that operation (liquidity.rs:       *)
(* pool_value; deposit.rs and withdraw.rs round in favour of the pool).    *)
ShareValueKept(before, after, kind, maximize) ==
    PoolValue(after, o, kind, maximize) * before.supply
        >= PoolValue(before, o, kind, maximize) * after.supply

NoDilution ==
    [][LET before == PreExecute(m, o)
       IN  /\ m'.supply > m.supply => ShareValueKept(before, m', "MaxAfterDeposit", TRUE)
           /\ m'.supply < m.supply => ShareValueKept(before, m', "MaxAfterWithdrawal", FALSE)]_vars
=============================================================================
