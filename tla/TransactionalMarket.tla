------------------------ MODULE TransactionalMarket ------------------------
(***************************************************************************)
(* What a market account promises to the operations that use it: a        *)
(* two-level transaction over its cells.  An operation works on a private *)
(* copy of the committed cells; committing publishes the whole copy at    *)
(* once, dropping leaves no trace; a failed instruction takes back every  *)
(* commit since the last instruction that succeeded.                      *)
(*                                                                         *)
(* Nothing here mentions revisions or caches.  RevertibleMarket, which     *)
(* follows the code, is shown to implement this specification.            *)
(***************************************************************************)
EXTENDS Naturals

CONSTANTS Cells,        \* the pools, the clocks and the `other` state
          Fields,       \* the fields of one cell
          Values,       \* the values an operation writes
          Other,        \* the cell that keeps the balances and trade count
          TradeCount,   \* the field of Other that counts trades
          MaxTradeCount \* the largest trade id

VARIABLES committed,    \* the cells every reader outside an operation sees
          work,         \* the private copy of the operation in flight
          open,         \* TRUE while an operation is in flight
          persisted     \* the committed cells when the last instruction ended

vars == <<committed, work, open, persisted>>

TypeOK == /\ committed \in [Cells -> [Fields -> Nat]]
          /\ work \in [Cells -> [Fields -> Nat]]
          /\ open \in BOOLEAN
          /\ persisted \in [Cells -> [Fields -> Nat]]

Init == /\ committed = [c \in Cells |-> [f \in Fields |-> 0]]
        /\ work = committed
        /\ open = FALSE
        /\ persisted = committed

Begin == /\ ~open
         /\ open' = TRUE
         /\ UNCHANGED <<committed, work, persisted>>

Write(c, f, v) == /\ open
                  /\ <<c, f>> # <<Other, TradeCount>>
                  /\ work' = [work EXCEPT ![c][f] = v]
                  /\ UNCHANGED <<committed, open, persisted>>

(* A trade takes the id after the last committed one, however often the    *)
(* operation asks for it.                                                  *)
NextTrade == /\ open
             /\ committed[Other][TradeCount] < MaxTradeCount
             /\ work' = [work EXCEPT ![Other][TradeCount] =
                                        committed[Other][TradeCount] + 1]
             /\ UNCHANGED <<committed, open, persisted>>

Commit == /\ open
          /\ open' = FALSE
          /\ committed' = work
          /\ UNCHANGED <<work, persisted>>

Drop == /\ open
        /\ open' = FALSE
        /\ work' = committed
        /\ UNCHANGED <<committed, persisted>>

(* A write of a cell outside any operation, visible at once.               *)
Assign(c, f, v) == /\ ~open
                   /\ committed' = [committed EXCEPT ![c][f] = v]
                   /\ work' = committed'
                   /\ UNCHANGED <<open, persisted>>

Persist == /\ ~open
           /\ persisted' = committed
           /\ UNCHANGED <<committed, work, open>>

Rollback == /\ committed' = persisted
            /\ work' = persisted
            /\ open' = FALSE
            /\ UNCHANGED persisted

Next == \/ Begin \/ Commit \/ Drop \/ NextTrade \/ Persist \/ Rollback
        \/ \E c \in Cells, f \in Fields, v \in Values :
              Write(c, f, v) \/ Assign(c, f, v)

Spec == Init /\ [][Next]_vars
=============================================================================
