-------------------------- MODULE RevertibleMarket --------------------------
(***************************************************************************)
(* The revision-tagged buffer behind every market operation               *)
(* (states/market/revertible/buffer.rs and market.rs).                     *)
(*                                                                         *)
(* A Market account holds its state twice: `storage`, the committed cells, *)
(* and a buffer of the same shape with a revision counter.  Every cell     *)
(* carries a revision tag.  A buffered cell is live exactly when its tag   *)
(* equals the buffer's revision, so starting an operation discards what    *)
(* an earlier, dropped one left behind by adding one to the counter.      *)
(*                                                                         *)
(* `ledger` is the account as the runtime last persisted it: an           *)
(* instruction that fails takes the account, buffer and counter included,  *)
(* back to it.                                                             *)
(***************************************************************************)
EXTENDS Naturals

CONSTANTS Cells, Fields, Values, Other, TradeCount,
          MaxTradeCount,  \* u64::MAX in the code
          MaxRev          \* u64::MAX in the code

ASSUME CellsAssumption == Other \in Cells /\ TradeCount \in Fields
ASSUME ValuesAssumption == Values \subseteq Nat
ASSUME BoundsAssumption == MaxTradeCount \in Nat /\ MaxRev \in Nat \ {0}

VARIABLES rev,      \* RevertibleBuffer.rev
          cache,    \* RevertibleBuffer.state
          storage,  \* Market.state
          open,     \* TRUE while a RevertibleMarket borrows the account
          ledger    \* the account at the last instruction boundary

vars == <<rev, cache, storage, open, ledger>>

Cell == [rev : Nat, val : [Fields -> Nat]]
Account == [rev : Nat, cache : [Cells -> Cell], storage : [Cells -> Cell]]

account == [rev |-> rev, cache |-> cache, storage |-> storage]

TypeOK == /\ rev \in 1 .. MaxRev
          /\ cache \in [Cells -> Cell]
          /\ storage \in [Cells -> Cell]
          /\ open \in BOOLEAN
          /\ ledger \in Account

(* A market account is created zeroed, with its buffer at revision one.    *)
ZeroCell == [rev |-> 0, val |-> [f \in Fields |-> 0]]

Init == /\ rev = 1
        /\ cache = [c \in Cells |-> ZeroCell]
        /\ storage = [c \in Cells |-> ZeroCell]
        /\ open = FALSE
        /\ ledger = account

-----------------------------------------------------------------------------

IsDirty(c) == cache[c].rev = rev

(* cache_get_with: what an operation reads.                                *)
Get(c) == IF IsDirty(c) THEN cache[c].val ELSE storage[c].val

(* cache_get_mut_with: the cell an operation writes to, loaded from        *)
(* storage and tagged on its first use.                                    *)
GetMut(c) == IF IsDirty(c) THEN cache[c]
             ELSE [storage[c] EXCEPT !.rev = rev]

(* Mutant: a new operation keeps the old revision.                         *)
StartOpSameRev == /\ ~open
                  /\ open' = TRUE
                  /\ UNCHANGED <<rev, cache, storage, ledger>>

(* RevertibleMarket::new.                                                  *)
StartOp == /\ ~open
           /\ rev < MaxRev
           /\ rev' = rev + 1
           /\ open' = TRUE
           /\ UNCHANGED <<cache, storage, ledger>>

Update(c, f, v) == cache' = [cache EXCEPT ![c] =
                                [GetMut(c) EXCEPT !.val[f] = v]]

Write(c, f, v) == /\ open
                  /\ <<c, f>> # <<Other, TradeCount>>
                  /\ Update(c, f, v)
                  /\ UNCHANGED <<rev, storage, open, ledger>>

(* The id is taken from the committed count, not from the buffered one.    *)
NextTradeId == /\ open
               /\ storage[Other].val[TradeCount] < MaxTradeCount
               /\ Update(Other, TradeCount,
                         storage[Other].val[TradeCount] + 1)
               /\ UNCHANGED <<rev, storage, open, ledger>>

(* commit_to_storage, after which the RevertibleMarket is gone.            *)
Commit == /\ open
          /\ storage' = [c \in Cells |-> IF IsDirty(c) THEN cache[c]
                                                       ELSE storage[c]]
          /\ open' = FALSE
          /\ UNCHANGED <<rev, cache, ledger>>

(* An operation that fails in an instruction that does not: the            *)
(* RevertibleMarket is dropped and the buffer left as it is.               *)
Drop == /\ open
        /\ open' = FALSE
        /\ UNCHANGED <<rev, cache, storage, ledger>>

(* Adl::update_adl_state writes a clock in storage, around the buffer.     *)
WriteDirect(c, f, v) == /\ ~open
                        /\ c # Other
                        /\ storage' = [storage EXCEPT ![c].val[f] = v]
                        /\ UNCHANGED <<rev, cache, open, ledger>>

(* The runtime keeps the account when the instruction succeeds ...         *)
Persist == /\ ~open
           /\ ledger' = account
           /\ UNCHANGED <<rev, cache, storage, open>>

(* ... and restores it when the instruction fails or panics.               *)
Rollback == /\ rev' = ledger.rev
            /\ cache' = ledger.cache
            /\ storage' = ledger.storage
            /\ open' = FALSE
            /\ UNCHANGED ledger

Next == \/ StartOp
        \/ \E c \in Cells, f \in Fields, v \in Values : Write(c, f, v)
        \/ NextTradeId
        \/ Commit
        \/ Drop
        \/ \E c \in Cells, f \in Fields, v \in Values : WriteDirect(c, f, v)
        \/ Persist
        \/ Rollback

Spec == Init /\ [][Next]_vars

-----------------------------------------------------------------------------
(* Stale data is told from live data by its tag alone, so no cell, in the  *)
(* account or in the copy a rollback restores, may carry a tag of a        *)
(* revision that has not started.                                          *)
TagsBounded(a) == \A c \in Cells : /\ a.cache[c].rev <= a.rev
                                   /\ a.storage[c].rev <= a.rev

NoFutureTag == TagsBounded(account) /\ TagsBounded(ledger)

(* next_trade_id is idempotent: however often one operation asks for a     *)
(* trade id, the count it would commit is at most one above the committed. *)
TradeIdOncePerOp ==
    open => Get(Other)[TradeCount] \in {storage[Other].val[TradeCount],
                                        storage[Other].val[TradeCount] + 1}

(* The refinement mapping.  What an operation would commit is what it      *)
(* reads; outside an operation it is what is stored.                       *)
Vals(cells) == [c \in Cells |-> cells[c].val]

Transactional == INSTANCE TransactionalMarket
                   WITH committed <- Vals(storage),
                        work <- IF open THEN [c \in Cells |-> Get(c)]
                                        ELSE Vals(storage),
                        persisted <- Vals(ledger.storage)

(* The buffer implements the two-level transaction: an operation starts    *)
(* from the committed cells whatever earlier ones left in the cache,       *)
(* commits everything it wrote and nothing else, and leaves no trace when  *)
(* it is dropped or its instruction fails.                                 *)
ImplementsTransactions == Transactional!Spec
=============================================================================
