----------------------------- MODULE MCMarkets ------------------------------
(* The buffer of one market, with one pool and the `other` cell, and the   *)
(* swaps through three.  The current market mc trades tx and ty, market ma *)
(* the same pair the other way round, and market mb is pure: both of its   *)
(* sides are ty.  The two share no state: a behaviour is about one of      *)
(* them, and the swap beside a behaviour of the buffer has nothing to swap. *)
EXTENDS RevertibleMarket, SwapMarkets

CONSTANTS ma, mb, mc, tx, ty
VARIABLE about

MCLong == [m \in Markets |-> IF m = mc THEN tx ELSE ty]
MCShort == [m \in Markets |-> IF m = ma THEN tx ELSE ty]

(* The same amount of every token a market trades, of no other token.      *)
Each(k) == [m \in Markets |-> [t \in Tokens |->
              IF t \in TokensOf(m) THEN k ELSE 0]]
MCPool == Each(3)
MCCollateral == Each(1)

MCInit == /\ about \in {"buffer", "swaps"}
          /\ Init
          /\ SwapInit
          /\ about = "buffer" => /\ caller = "withdrawal"
                                 /\ \A s \in Sides : path[s] = <<>> /\ amt[s] = 0

MCNext == \/ about = "buffer" /\ Next /\ UNCHANGED <<about, swapVars>>
          \/ about = "swaps" /\ SwapNext /\ UNCHANGED <<about, vars>>

MCSpec == MCInit /\ [][MCNext]_<<about, vars, swapVars>>
=============================================================================
