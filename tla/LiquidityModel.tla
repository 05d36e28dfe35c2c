--------------------------- MODULE LiquidityModel ----------------------------
(***************************************************************************)
(* Swap, deposit and withdrawal in one market (crates/gmsol-model:         *)
(* action/swap.rs, action/deposit.rs, action/withdraw.rs) and the balances *)
(* a market records (programs/gmsol-store: states/market).                 *)
(*                                                                         *)
(* Each returns the market and what the caller gets.  fees are the swap    *)
(* fee parameters in force: those of the configuration, or none while a    *)
(* shift is priced.                                                        *)
(***************************************************************************)
EXTENDS MarketModel, FiniteSetsExt

Refused(m) == Check(m, FALSE)

(* Swap::try_execute for a positive impact: it is paid from the impact     *)
(* pool of the token out, and what that cannot pay from the token in.      *)
SwapGain(m, o, s, after, impact) ==
    LET first == SwapImpactAmount(m, ~s, TokenPrice(o, ~s), impact)
        second == SwapImpactAmount(m, s, TokenPrice(o, s), first.capped)
        in == after + (IF first.capped = 0 THEN 0 ELSE second.amount)
        poolOut == MulDiv(in, TokenPrice(o, s).min, TokenPrice(o, ~s).max)
    IN  [m |-> ApplyDelta(ApplyDelta(m, SwapImpact, ~s, -first.amount),
                          SwapImpact, s, after - in),
         in |-> in, poolOut |-> poolOut, out |-> poolOut + first.amount]

(* ... and for a negative one: it is taken from the token in.              *)
SwapLoss(m, o, s, after, impact) ==
    LET loss == -SwapImpactAmount(m, s, TokenPrice(o, s), impact).amount
        in == after - loss
        poolOut == IF in <= 0 THEN 0
                   ELSE MulDiv(in, TokenPrice(o, s).min, TokenPrice(o, ~s).max)
    IN  [m |-> Check(ApplyDelta(m, SwapImpact, s, loss), in > 0),
         in |-> in, poolOut |-> poolOut, out |-> poolOut]

(* The limits that a swap of token s has to respect.                       *)
SwapAllowed(n, o, s) ==
    LET kind(side) == IF side = s THEN "MaxAfterDeposit" ELSE "MaxAfterWithdrawal"
    IN  Check(n, /\ n.ok
                 /\ ValidPoolAmount(n, s)
                 /\ ValidReserve(n, o, ~s)
                 /\ ValidMaxPnl(n, o, kind(TRUE), kind(FALSE)))

(* Swap::execute: amount of token s is swapped into the other one.         *)
Swap(m, o, s, amount, fees) ==
    LET cur == MidValues(m, o)
        moved == amount * Mid(TokenPrice(o, s))
        next == [cur EXCEPT ![s] = @ + moved, ![~s] = @ - moved]
        traded(n, f, impact) ==
            LET paid == ApplyDelta(n, ClaimableFee, s, f.receiver)
            IN  IF impact > 0 THEN SwapGain(paid, o, s, f.after, impact)
                ELSE SwapLoss(paid, o, s, f.after, impact)
        settled(r, poolFee) ==
            [m |-> SwapAllowed(ApplyDelta(ApplyDelta(r.m, Primary, s, r.in + poolFee),
                                          Primary, ~s, -r.poolOut), o, s),
             out |-> r.out]
        priced(impact) == LET f == ApplyFees(fees, impact > 0, amount)
                          IN  settled(traded(m, f, impact), f.pool)
    IN  IF amount = 0 \/ ~ValidPrices(o) \/ next[~s] < 0
        THEN [m |-> Refused(m), out |-> 0]
        ELSE priced(PriceImpact(cur, next, SwapImpactParams))

-----------------------------------------------------------------------------
(* Deposit::execute_deposit: one token of the deposit, at the pool value   *)
(* and supply of its start.  A positive impact is minted for as well, and  *)
(* paid in the other token.                                                *)
DepositOneSide(m, o, s, amount, value, share, fees) ==
    LET f == ApplyFees(fees, share > 0, amount)
        impact == IF share > 0 /\ m.supply = 0 THEN 0 ELSE share
        gain == IF impact > 0
                THEN SwapImpactAmount(m, ~s, TokenPrice(o, ~s), impact).amount ELSE 0
        loss == IF impact < 0
                THEN -SwapImpactAmount(m, s, TokenPrice(o, s), impact).amount ELSE 0
        paid == ApplyDelta(m, ClaimableFee, s, f.receiver)
        moved == IF impact > 0
                 THEN ApplyDelta(ApplyDelta(paid, SwapImpact, ~s, -gain), Primary, ~s, gain)
                 ELSE ApplyDelta(paid, SwapImpact, s, loss)
        n == ApplyDelta(moved, Primary, s, f.after - loss + f.pool)
        mint(usd) == UsdToMarketTokens(usd, value, m.supply)
    IN  IF (value = 0 /\ m.supply # 0) \/ f.after < loss
        THEN [m |-> Refused(m), minted |-> 0]
        ELSE [m |-> Check(n, /\ impact > 0 => ValidPoolAmount(moved, ~s)
                             /\ ValidPoolAmount(n, s)
                             /\ ValidPoolValueForDeposit(n, o, s)),
              minted |-> mint((f.after - loss) * TokenPrice(o, s).min)
                           + (IF impact > 0 THEN mint(gain * TokenPrice(o, ~s).max)
                              ELSE 0)]

(* Deposit::execute.                                                       *)
DepositOne(m, o, s, amount, value, share, fees) ==
    IF amount = 0 THEN [m |-> m, minted |-> 0]
    ELSE DepositOneSide(m, o, s, amount, value, share, fees)

Minting(n, minted) == [m |-> [n EXCEPT !.supply = @ + minted], minted |-> minted]

DepositShort(o, amount, value, share, fees, long) ==
    LET both(short) == Minting(short.m, long.minted + short.minted)
    IN  both(DepositOne(long.m, o, FALSE, amount[FALSE], value, share[FALSE], fees))

DepositBoth(m, o, amount, value, share, fees) ==
    DepositShort(o, amount, value, share, fees,
                 DepositOne(m, o, TRUE, amount[TRUE], value, share[TRUE], fees))

DepositShares(added, impact) ==
    [s \in BOOLEAN |-> MulDivSigned(added[s], impact, added[TRUE] + added[FALSE])]

DepositValued(m, o, amount, cur, added, value, fees) ==
    IF value < 0 THEN [m |-> Refused(m), minted |-> 0]
    ELSE DepositBoth(m, o, amount, value,
                     DepositShares(added, PriceImpact(cur, [s \in BOOLEAN |-> cur[s] + added[s]],
                                                      SwapImpactParams)), fees)

Deposit(m, o, amount, fees) ==
    LET added == [s \in BOOLEAN |-> amount[s] * Mid(TokenPrice(o, s))]
    IN  IF \/ added[TRUE] + added[FALSE] = 0
           \/ ~ValidMaxPnl(m, o, "MaxAfterDeposit", "MaxAfterDeposit")
           \/ ~PoolValueKnown(m, o)
        THEN [m |-> Refused(m), minted |-> 0]
        ELSE DepositValued(m, o, amount, MidValues(m, o), added,
                           PoolValue(m, o, "MaxAfterDeposit", TRUE), fees)

-----------------------------------------------------------------------------
(* Withdrawal::output_amounts: the share of each token, before fees.       *)
OutputShares(o, usd, value) ==
    [s \in BOOLEAN |-> MulDiv(usd, value[s], value[TRUE] + value[FALSE])
                         \div TokenPrice(o, s).max]

OutputAmounts(m, o, burnt) ==
    OutputShares(o, MulDiv(PoolValue(m, o, "MaxAfterWithdrawal", FALSE), burnt, m.supply),
                 [s \in BOOLEAN |-> SideValue(m, o, s, TRUE)])

(* Withdrawal::execute.                                                    *)
WithdrawAllowed(n, o) ==
    Check(n, /\ n.ok
             /\ \A s \in BOOLEAN : ValidReserve(n, o, s)
             /\ ValidMaxPnl(n, o, "MaxAfterWithdrawal", "MaxAfterWithdrawal"))

PayWithdrawal(m, s, f) ==
    ApplyDelta(ApplyDelta(m, ClaimableFee, s, f.receiver),
               Primary, s, -(f.receiver + f.after))

WithdrawPaid(m, o, burnt, f) ==
    [m |-> WithdrawAllowed([PayWithdrawal(PayWithdrawal(m, TRUE, f[TRUE]), FALSE, f[FALSE])
                              EXCEPT !.supply = @ - burnt], o),
     out |-> [s \in BOOLEAN |-> f[s].after]]

WithdrawCharged(m, o, burnt, out, fees) ==
    WithdrawPaid(m, o, burnt, [s \in BOOLEAN |-> ApplyFees(fees, FALSE, out[s])])

Withdraw(m, o, burnt, fees) ==
    IF \/ burnt = 0 \/ burnt > m.supply \/ ~ValidPrices(o) \/ ~PoolValueKnown(m, o)
       \/ PoolValue(m, o, "MaxAfterWithdrawal", FALSE) <= 0
       \/ SideValue(m, o, TRUE, TRUE) + SideValue(m, o, FALSE, TRUE) = 0
    THEN [m |-> Refused(m), out |-> [s \in BOOLEAN |-> 0]]
    ELSE WithdrawCharged(m, o, burnt, OutputAmounts(m, o, burnt), fees)

-----------------------------------------------------------------------------
(* A market's recorded balance of a token (states/market/revertible:       *)
(* record_transferred_in and _out).  A pure market records one balance.    *)
TransferIn(n, s, amount) == [n EXCEPT !.bal[s \/ n.pure] = @ + amount]

TransferOut(n, amounts) ==
    LET out(s) == IF n.pure THEN IF s THEN amounts[TRUE] + amounts[FALSE] ELSE 0
                  ELSE amounts[s]
    IN  [n EXCEPT !.bal = [s \in BOOLEAN |-> @[s] - out(s)],
                  !.ok = @ /\ \A s \in BOOLEAN : n.bal[s] >= out(s)]

(* What the pools of a token, and the collateral in it, amount to          *)
(* (market/base.rs).  In a pure market both sides are one token.           *)
OfToken(n, f(_), s) == IF n.pure THEN f(TRUE) + f(FALSE) ELSE f(s)

PoolTokens(n, s) ==
    OfToken(n, LAMBDA t : Amount(n, Primary, t) + Amount(n, SwapImpact, t)
                            + Amount(n, ClaimableFee, t), s)

CollateralTokens(n, s) ==
    OfToken(n, LAMBDA t : Amount(n, <<"CollateralSum", TRUE>>, t)
                            + Amount(n, <<"CollateralSum", FALSE>>, t), s)

(* ValidateMarketBalances, on the balances that are left after a transfer  *)
(* out: each of the two sums is covered, their sum is not checked.         *)
BalancesCover(n) ==
    \A s \in IF n.pure THEN {TRUE} ELSE BOOLEAN :
        /\ n.bal[s] >= PoolTokens(n, s)
        /\ n.bal[s] >= CollateralTokens(n, s)

Covered(n) == Check(n, n.ok /\ BalancesCover(n))
Paid(n, amounts) == Covered(TransferOut(n, amounts))

NoTokens == [s \in BOOLEAN |-> 0]
Only(s, amount) == [NoTokens EXCEPT ![s] = amount]
Plus(a, b) == [s \in BOOLEAN |-> a[s] + b[s]]
=============================================================================
