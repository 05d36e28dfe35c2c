---------------------------- MODULE SwapMarkets -----------------------------
(***************************************************************************)
(* Swapping along a path of markets that share their token vaults          *)
(* (states/market/revertible/swap_market.rs, with the path checks of       *)
(* states/common/swap.rs and the balance checks of states/market/utils.rs).*)
(*                                                                         *)
(* No token moves during a swap.  Each market records how much of a token  *)
(* in the shared vault is its own (`bal`), and owes it to its pools        *)
(* (`pool`: liquidity, swap impact and claimable fees) and to its          *)
(* positions (`collateral`).  A swap first moves recorded balance into the *)
(* market it swaps at, then exchanges pool amounts there.  What is being   *)
(* swapped is recorded in the balance of one market and owed by none:      *)
(* side s holds amt[s] of tok[s] at market at[s].                          *)
(*                                                                         *)
(* The machine runs one call of revertible_swap: the primary side, then    *)
(* the secondary one, then the final balance checks, and then the payment  *)
(* of the outputs by the instruction that made the call.  Five kinds of    *)
(* action call it, GLV deposits and withdrawals as deposits and            *)
(* withdrawals.  How much a swap yields depends on prices, fees and        *)
(* impact; any amount the pool can pay is allowed here, and any swap may   *)
(* be refused.                                                             *)
(***************************************************************************)
EXTENDS Naturals, SequencesExt

CONSTANTS Markets, Tokens,
          LongToken, ShortToken,  \* the tokens of each market
          Current,                \* the market of the deposit, withdrawal or order
          Callers,                \* the kinds of action that swap
          MaxLength,              \* bound on the length of one path
          InitialPool,            \* pool amounts before the swap
          Collateral,             \* collateral amounts, which swaps never touch
          Amounts                 \* input amounts, and what a swap may yield

ASSUME MetaAssumption == /\ LongToken \in [Markets -> Tokens]
                         /\ ShortToken \in [Markets -> Tokens]
                         /\ Current \in Markets
ASSUME CallersAssumption ==
    Callers \subseteq {"deposit", "withdrawal", "swapOrder", "increase",
                       "decrease"}
ASSUME AmountAssumption == /\ Amounts \subseteq Nat
                           /\ InitialPool \in [Markets -> [Tokens -> Nat]]
                           /\ Collateral \in [Markets -> [Tokens -> Nat]]

Sides == {1, 2}

VARIABLES
    bal,    \* OtherState: the recorded token balances of each market
    pool,   \* what each market owes to its pools, per token
    caller, \* the kind of action that swaps
    path,   \* the swap path of each side
    want,   \* expected_token_outs
    side,   \* the side being swapped
    rest,   \* the part of its path still to be swapped along
    tok, amt, at,   \* what each side holds, and in which market
    pc

swapVars == <<bal, pool, caller, path, want, side, rest, tok, amt, at, pc>>
params == <<caller, path, want>>

-----------------------------------------------------------------------------
TokensOf(m) == {LongToken[m], ShortToken[m]}

(* MarketMeta::opposite_token.                                             *)
Opposite(m, t) == IF t = LongToken[m] THEN ShortToken[m] ELSE LongToken[m]

(* The token a path turns t into.                                          *)
TokenAfter(p, t) == FoldLeft(LAMBDA u, m : Opposite(m, u), t, p)

(* validate_path: distinct markets, each of which trades the token it is   *)
(* given, ending in the expected token.                                    *)
ValidPath(p, tin, tout) ==
    /\ IsInjective(p)
    /\ \A i \in DOMAIN p :
          TokenAfter(SubSeq(p, 1, i - 1), tin) \in TokensOf(p[i])
    /\ TokenAfter(p, tin) = tout

(* SwapDirection::Into, as opposed to From.                                *)
Into == caller \in {"deposit", "swapOrder", "increase"}

(* Where the input of a side is when the call starts: what is swapped into *)
(* the current market was paid into the first market of the path, what is  *)
(* swapped out of it was taken from its pools or its positions.            *)
InputMarket(s) == IF Into /\ path[s] # <<>> THEN Head(path[s]) ELSE Current

Parked(s, m, t) == IF at[s] = m /\ tok[s] = t THEN amt[s] ELSE 0

CurrentTokens == [s \in Sides |-> IF s = 1 THEN LongToken[Current]
                                          ELSE ShortToken[Current]]

(* Each side of a deposit ends in a token of the current market.           *)
DepositParams == /\ tok \in [Sides -> Tokens]
                 /\ want = CurrentTokens
                 /\ \A s \in Sides : ValidPath(path[s], tok[s], want[s])

WithdrawalParams == /\ tok = CurrentTokens
                    /\ want \in [Sides -> Tokens]
                    /\ \A s \in Sides : ValidPath(path[s], tok[s], want[s])

(* A swap or an increase order swaps one side, into a token of its market: *)
(* the collateral of the position, or the output of the swap, which is not *)
(* required to end in the market of the order.                             *)
IntoOrderParams == /\ path[2] = <<>>
                   /\ amt[2] = 0
                   /\ tok \in [Sides -> Tokens]
                   /\ want = [s \in Sides |-> tok[2]]
                   /\ tok[2] \in TokensOf(Current)
                   /\ ValidPath(path[1], tok[1], want[1])

(* A decrease order yields both tokens of its market in either order.      *)
(* Only the first is swapped, along a path checked for one of them.        *)
DecreaseParams ==
    /\ path[2] = <<>>
    /\ tok \in {CurrentTokens, [s \in Sides |-> CurrentTokens[3 - s]]}
    /\ want \in [Sides -> Tokens]
    /\ want[2] \in TokensOf(Current)
    /\ amt[2] # 0 => want[2] = tok[2]
    /\ \E t \in TokensOf(Current) : ValidPath(path[1], t, want[1])

SwapInit == /\ caller \in Callers
            /\ path \in [Sides -> BoundedSeq(Markets, MaxLength)]
            /\ amt \in [Sides -> Amounts]
            /\ CASE caller = "deposit" -> DepositParams
                 [] caller = "withdrawal" -> WithdrawalParams
                 [] caller \in {"swapOrder", "increase"} -> IntoOrderParams
                 [] caller = "decrease" -> DecreaseParams
            /\ at = [s \in Sides |-> InputMarket(s)]
            /\ pool = InitialPool
            /\ bal = [m \in Markets |-> [t \in Tokens |->
                        pool[m][t] + Collateral[m][t]
                          + Parked(1, m, t) + Parked(2, m, t)]]
            /\ side = 1
            /\ rest = <<>>
            /\ pc = "enter"

-----------------------------------------------------------------------------
(* record_transferred_out_by_token from one market and                     *)
(* record_transferred_in_by_token to another, of what side s holds.        *)
Move(to) ==
    LET t == tok[side]
        a == amt[side]
        from == at[side]
    IN  /\ bal[from][t] >= a
        /\ bal' = [m \in Markets |-> [u \in Tokens |->
                     IF u # t \/ from = to THEN bal[m][u]
                     ELSE IF m = from THEN bal[m][u] - a
                     ELSE IF m = to THEN bal[m][u] + a
                     ELSE bal[m][u]]]
        /\ at' = [at EXCEPT ![side] = to]

(* validate_market_balance_for_the_given_token, of balances b and with an  *)
(* amount x of the token excluded.                                         *)
Covers(b, m, t, x) == /\ b[m][t] >= x
                      /\ b[m][t] - x >= pool[m][t]
                      /\ b[m][t] - x >= Collateral[m][t]

(* validate_market_balances with nothing excluded.                         *)
CoversBoth(b, m) == \A t \in TokensOf(m) : Covers(b, m, t, 0)

(* Mutant: the output pool is left as it was.                              *)
SwapAtKeepsOutput(m, out) ==
    LET t == tok[side]
        u == Opposite(m, t)
    IN  /\ amt[side] # 0
        /\ t \in TokensOf(m)
        /\ pool[m][u] >= out
        /\ pool' = [pool EXCEPT ![m][t] = @ + amt[side]]
        /\ tok' = [tok EXCEPT ![side] = u]
        /\ amt' = [amt EXCEPT ![side] = out]

(* Swap::execute at market m: the input goes to the pools of m, the output *)
(* leaves them.  The output stays in the balance of m.                     *)
SwapAt(m, out) ==
    LET t == tok[side]
        u == Opposite(m, t)
        added == [pool EXCEPT ![m][t] = @ + amt[side]]
    IN  /\ amt[side] # 0
        /\ t \in TokensOf(m)
        /\ added[m][u] >= out
        /\ pool' = [added EXCEPT ![m][u] = @ - out]
        /\ tok' = [tok EXCEPT ![side] = u]
        /\ amt' = [amt EXCEPT ![side] = out]

NextSide == /\ side' = IF side = 1 THEN 2 ELSE side
            /\ pc' = IF side = 1 THEN "enter" ELSE "check"
            /\ UNCHANGED rest

(* A side without input is not swapped.                                    *)
SkipSide == /\ pc = "enter"
            /\ amt[side] = 0
            /\ NextSide
            /\ UNCHANGED <<params, bal, pool, tok, amt, at>>

(* revertible_swap_for_one_side: a swap out of the current market starts   *)
(* by recording its input in the first market of the path.                 *)
Enter ==
    LET p == path[side]
    IN  /\ pc = "enter"
        /\ amt[side] # 0
        /\ rest' = p
        /\ IF p # <<>> /\ ~Into /\ Head(p) # Current
             THEN /\ Move(Head(p))
                  /\ Covers(bal', Current, tok[side], 0)
             ELSE UNCHANGED <<bal, at>>
        /\ pc' = IF p = <<>> THEN "close" ELSE "swap"
        /\ UNCHANGED <<params, side, pool, tok, amt>>

(* One hop of swap_along_the_path, or swap_with_current.  The current      *)
(* market may be the first or the last of the path, not one in between:    *)
(* it is not among the loaded swap markets.                                *)
Swap(out) ==
    LET m == Head(rest)
    IN  /\ pc = "swap"
        /\ m = Current => rest = path[side] \/ Tail(rest) = <<>>
        /\ SwapAt(m, out)
        /\ rest' = Tail(rest)
        /\ pc' = IF Tail(rest) = <<>> THEN "leave" ELSE "move"
        /\ UNCHANGED <<params, side, bal, at>>

(* The output of a hop is recorded in the next market.  The market it      *)
(* leaves is checked at once, unless it is the current one.                *)
MoveOn == /\ pc = "move"
          /\ Move(Head(rest))
          /\ at[side] # Current => CoversBoth(bal', at[side])
          /\ pc' = "swap"
          /\ UNCHANGED <<params, side, rest, pool, tok, amt>>

(* Mutant: the output stays in the last market of the path.                *)
LeaveInPlace == /\ pc = "leave"
                /\ pc' = "close"
                /\ UNCHANGED <<params, side, rest, bal, at, pool, tok, amt>>

(* A swap into the current market ends by recording its output there.      *)
Leave == /\ pc = "leave"
         /\ IF Into /\ at[side] # Current
              THEN Move(Current) /\ CoversBoth(bal', at[side])
              ELSE UNCHANGED <<bal, at>>
         /\ pc' = "close"
         /\ UNCHANGED <<params, side, rest, pool, tok, amt>>

Close == /\ pc = "close"
         /\ tok[side] = want[side]
         /\ NextSide
         /\ UNCHANGED <<params, bal, pool, tok, amt, at>>

-----------------------------------------------------------------------------
(* The final checks of revertible_swap.                                    *)

LastMarket(s) == IF path[s] = <<>> THEN Current ELSE Last(path[s])

(* Mutant: a swap into the current market is checked at its last market.   *)
OutputMarketOfPath(s) == LastMarket(s)

(* Where revertible_swap takes the output of a side to be: "the balances   *)
(* should have been transferred into current market" when it swaps into    *)
(* it.  The callers have a view of their own (PayingMarket).               *)
OutputMarket(s) == IF Into THEN Current ELSE LastMarket(s)

(* The outputs that are excluded when market m is checked.                 *)
Excluded(m, t) ==
    LET of(s) == IF OutputMarket(s) = m /\ want[s] = t THEN amt[s] ELSE 0
    IN  of(1) + of(2)

FinalChecks == \A m \in {OutputMarket(1), OutputMarket(2), Current} :
                  \A t \in TokensOf(m) : Covers(bal, m, t, Excluded(m, t))

(* The actions that pay their outputs out.  A deposit mints against them   *)
(* and an increase adds them to the collateral: they stay where they are.  *)
Payers == {"withdrawal", "swapOrder", "decrease"}

(* The market an output is paid from: find_and_unpack_last_market, but the *)
(* current market for the secondary output of an order.                    *)
PayingMarket(s) ==
    CASE caller = "withdrawal" -> LastMarket(s)
      [] caller \in {"swapOrder", "decrease"} ->
            IF s = 1 THEN LastMarket(1) ELSE Current
      [] OTHER -> Current

Check == /\ pc = "check"
         /\ FinalChecks
         /\ pc' = IF caller \in Payers THEN "pay" ELSE "done"
         /\ UNCHANGED <<params, side, rest, bal, pool, tok, amt, at>>

(* What the transfers out take from the recorded balance of a market.      *)
Due(m, t) ==
    LET of(s) == IF PayingMarket(s) = m /\ want[s] = t THEN amt[s] ELSE 0
    IN  of(1) + of(2)

(* The transfers out of the caller, after the swap is committed.  The      *)
(* paying market must trade the token; its balances are not checked again. *)
Pay == /\ pc = "pay"
       /\ \A s \in Sides : amt[s] # 0 => want[s] \in TokensOf(PayingMarket(s))
       /\ \A m \in Markets, t \in Tokens : bal[m][t] >= Due(m, t)
       /\ bal' = [m \in Markets |-> [t \in Tokens |-> bal[m][t] - Due(m, t)]]
       /\ amt' = [s \in Sides |-> 0]
       /\ pc' = "done"
       /\ UNCHANGED <<params, side, rest, pool, tok, at>>

(* Any error: the buffers are dropped and the caller sees nothing of it,   *)
(* or the whole instruction fails with the payment.                        *)
Fail == /\ pc \in {"enter", "swap", "move", "leave", "close", "check", "pay"}
        /\ pc' = "failed"
        /\ UNCHANGED <<params, side, rest, bal, pool, tok, amt, at>>

SwapNext == \/ SkipSide \/ Enter \/ MoveOn \/ Leave \/ Close \/ Check
            \/ Pay \/ Fail
            \/ \E out \in Amounts : Swap(out)

SwapSpec == SwapInit /\ [][SwapNext]_swapVars

-----------------------------------------------------------------------------
SwapTypeOK == /\ bal \in [Markets -> [Tokens -> Nat]]
              /\ pool \in [Markets -> [Tokens -> Nat]]
              /\ caller \in Callers
              /\ path \in [Sides -> Seq(Markets)]
              /\ want \in [Sides -> Tokens]
              /\ side \in Sides
              /\ rest \in Seq(Markets)
              /\ tok \in [Sides -> Tokens]
              /\ amt \in [Sides -> Nat]
              /\ at \in [Sides -> Markets]
              /\ pc \in {"enter", "swap", "move", "leave", "close", "check",
                         "pay", "done", "failed"}

(* Every market's recorded balance is what it owes to its pools and        *)
(* positions plus what is parked with it.                                  *)
Accounted ==
    \A m \in Markets, t \in Tokens :
        bal[m][t] = pool[m][t] + Collateral[m][t]
                      + Parked(1, m, t) + Parked(2, m, t)

(* A swap order whose path ends in a market other than its own.            *)
PaysElsewhere == caller = "swapOrder" /\ LastMarket(1) # Current

(* At every moment of a multi-hop swap, every market's recorded balance is *)
(* exactly what it owes to its pools and positions plus what is parked     *)
(* with it, and still is once the outputs are paid: no hop and no payment  *)
(* takes from a market what another market's positions or liquidity        *)
(* providers own.  The payment of a swap order whose path ends elsewhere   *)
(* is the exception (PayingMarketsCovered).                                *)
BalanceCovered == ~(PaysElsewhere /\ pc = "done") => Accounted

(* When the call returns, the output of each side is the expected token,   *)
(* and it is recorded in the market this caller pays it from (process_     *)
(* transfer_out), or keeps it in.  For a swap order it is so only when the *)
(* path ends in the market of the order.                                   *)
OutputWherePaidFrom ==
    pc \in {"check", "pay", "done"} =>
        \A s \in Sides : amt[s] # 0 =>
            /\ tok[s] = want[s]
            /\ ~PaysElsewhere => at[s] = PayingMarket(s)

(* The assertion of validate_market_balances, "Less than expected min      *)
(* token balance excluding collateral amount", for the markets the outputs *)
(* were paid from.  Violated: a swap order records its output in its own   *)
(* market, and the last market of the path pays it from what it owes.      *)
PayingMarketsCovered ==
    pc = "done" => \A s \in Sides : CoversBoth(bal, PayingMarket(s))

(* The exclusions of the final checks are the outputs parked at the market *)
(* checked, whichever way the two output markets and the current market    *)
(* coincide.                                                               *)
ExclusionsExact ==
    pc = "check" =>
        \A m \in {OutputMarket(1), OutputMarket(2), Current} :
            \A t \in TokensOf(m) :
                Excluded(m, t) = Parked(1, m, t) + Parked(2, m, t)
=============================================================================
