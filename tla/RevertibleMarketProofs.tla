----------------------- MODULE RevertibleMarketProofs -----------------------
(***************************************************************************)
(* For every set of cells, fields and values: the revision tags never run  *)
(* ahead of the counter, a trade id is taken at most once per operation,   *)
(* and the buffer implements TransactionalMarket.                          *)
(*                                                                         *)
(* For any markets, tokens, paths and amounts: a multi-hop swap keeps      *)
(* every market's recorded balance equal to what the market owes plus what *)
(* is parked with it, and leaves its outputs where they are paid from.     *)
(***************************************************************************)
EXTENDS RevertibleMarket, SwapMarkets, SequenceTheorems, TLAPS

(* The saved account's revision has started too, which the type of rev     *)
(* needs after a rollback.                                                 *)
Inv == /\ TypeOK
       /\ ledger.rev \in 1 .. MaxRev
       /\ NoFutureTag

(* Loading a cell for writing gives a well-formed cell that carries the    *)
(* current revision and the contents an operation would read.              *)
LEMMA GetMutCell ==
    ASSUME TypeOK, NEW c \in Cells
    PROVE  /\ GetMut(c) \in Cell
           /\ GetMut(c).rev = rev
           /\ GetMut(c).val = Get(c)
  BY DEF GetMut, Get, IsDirty, TypeOK, Cell

(* Writing one field of a cell keeps the cache well-formed.                *)
LEMMA UpdateCache ==
    ASSUME TypeOK, NEW c \in Cells, NEW f \in Fields, NEW v \in Nat,
           Update(c, f, v)
    PROVE  /\ cache' \in [Cells -> Cell]
           /\ cache'[c].rev = rev
           /\ cache'[c].val = [Get(c) EXCEPT ![f] = v]
           /\ \A d \in Cells \ {c} : cache'[d] = cache[d]
  <1> DEFINE cell == [GetMut(c) EXCEPT !.val[f] = v]
  <1>1. /\ GetMut(c) \in Cell
        /\ GetMut(c).rev = rev
        /\ GetMut(c).val = Get(c)
    BY GetMutCell
  <1>2. /\ cell \in Cell
        /\ cell.rev = rev
        /\ cell.val = [Get(c) EXCEPT ![f] = v]
    BY <1>1 DEF Cell
  <1>3. cache' = [cache EXCEPT ![c] = cell]
    BY DEF Update
  <1> HIDE DEF cell
  <1> QED  BY <1>2, <1>3 DEF TypeOK

(* The invariant holds for a new market account.                           *)
LEMMA InitInv == Init => Inv
  <1> SUFFICES ASSUME Init PROVE Inv
    OBVIOUS
  <1>1. ZeroCell \in Cell /\ ZeroCell.rev = 0
    BY DEF ZeroCell, Cell
  <1>2. rev \in 1 .. MaxRev
    BY BoundsAssumption DEF Init
  <1>3. /\ cache \in [Cells -> Cell]
        /\ storage \in [Cells -> Cell]
    BY <1>1 DEF Init
  <1>4. account \in Account
    BY <1>2, <1>3 DEF Account, account
  <1>5. TypeOK /\ ledger.rev \in 1 .. MaxRev
    BY <1>2, <1>3, <1>4 DEF Init, TypeOK, account
  <1>6. NoFutureTag
    BY <1>1 DEF Init, NoFutureTag, TagsBounded, account
  <1> QED  BY <1>5, <1>6 DEF Inv

(* Every step keeps the invariant: a new revision is above every tag.      *)
LEMMA NextInv == Inv /\ [Next]_vars => Inv'
  <1> SUFFICES ASSUME Inv, [Next]_vars PROVE Inv'
    OBVIOUS
  <1> USE DEF Inv
  <1>1. CASE StartOp
    <2>1. TypeOK' /\ (ledger.rev \in 1 .. MaxRev)'
      BY <1>1, BoundsAssumption DEF StartOp, TypeOK
    <2>2. NoFutureTag'
      BY <1>1 DEF StartOp, TypeOK, Cell, NoFutureTag, TagsBounded, account
    <2> QED  BY <2>1, <2>2
  <1>2. ASSUME NEW c \in Cells, NEW f \in Fields, NEW v \in Nat,
               Update(c, f, v), UNCHANGED <<rev, storage, open, ledger>>
        PROVE  Inv'
    <2>1. /\ cache' \in [Cells -> Cell]
          /\ cache'[c].rev = rev
          /\ \A d \in Cells \ {c} : cache'[d] = cache[d]
      BY <1>2, UpdateCache
    <2>2. TypeOK' /\ (ledger.rev \in 1 .. MaxRev)'
      BY <1>2, <2>1 DEF TypeOK
    <2>3. NoFutureTag'
      BY <1>2, <2>1 DEF NoFutureTag, TagsBounded, account, TypeOK
    <2> QED  BY <2>2, <2>3
  <1>3. ASSUME NEW c \in Cells, NEW f \in Fields, NEW v \in Values,
               Write(c, f, v)
        PROVE  Inv'
    BY <1>2, <1>3, ValuesAssumption DEF Write
  <1>4. CASE NextTradeId
    <2>1. storage[Other].val[TradeCount] + 1 \in Nat
      BY CellsAssumption DEF TypeOK, Cell
    <2> QED  BY <1>2, <1>4, <2>1, CellsAssumption DEF NextTradeId
  <1>5. CASE Commit
    BY <1>5 DEF Commit, TypeOK, NoFutureTag, TagsBounded, Cell, Account,
       account
  <1>6. CASE Drop
    BY <1>6 DEF Drop, TypeOK, NoFutureTag, TagsBounded, account
  <1>7. ASSUME NEW c \in Cells, NEW f \in Fields, NEW v \in Values,
               WriteDirect(c, f, v)
        PROVE  Inv'
    BY <1>7, ValuesAssumption DEF WriteDirect, TypeOK, NoFutureTag,
       TagsBounded, Cell, account
  <1>8. CASE Persist
    BY <1>8 DEF Persist, TypeOK, NoFutureTag, TagsBounded, Account, account
  <1>9. CASE Rollback
    BY <1>9 DEF Rollback, TypeOK, NoFutureTag, TagsBounded, Account, account
  <1>10. CASE UNCHANGED vars
    BY <1>10 DEF vars, TypeOK, NoFutureTag, TagsBounded, account
  <1> QED
    BY <1>1, <1>3, <1>4, <1>5, <1>6, <1>7, <1>8, <1>9, <1>10 DEF Next

(* Every field of the account keeps its type, and the revision counter     *)
(* never leaves the range of its integer type.                             *)
THEOREM TypeCorrect == Spec => []TypeOK
  BY InitInv, NextInv, PTL DEF Spec, Inv

(* No cell ever carries the tag of a revision that has not started, in the *)
(* account or in the copy a failed instruction restores.                   *)
THEOREM TagsCorrect == Spec => []NoFutureTag
  BY InitInv, NextInv, PTL DEF Spec, Inv

-----------------------------------------------------------------------------
(* The revision the next operation gets is on no cell.                     *)
LEMMA NextRevUnused ==
    ASSUME Inv, NEW c \in Cells
    PROVE  cache[c].rev # rev + 1
  BY BoundsAssumption
  DEF Inv, TypeOK, Cell, NoFutureTag, TagsBounded, account

(* A trade id is taken at most once per operation: not inductive by        *)
(* itself, since the first call in an operation needs the tag bound (the   *)
(* count is then read from storage).                                       *)
LEMMA NextTradeIdOnce == Inv /\ TradeIdOncePerOp /\ [Next]_vars => TradeIdOncePerOp'
  <1> SUFFICES ASSUME Inv, TradeIdOncePerOp, [Next]_vars, open'
               PROVE  Get(Other)[TradeCount]' \in
                        {storage'[Other].val[TradeCount],
                         storage'[Other].val[TradeCount] + 1}
    BY DEF TradeIdOncePerOp
  <1>1. CASE StartOp
    <2>1. cache[Other].rev # rev + 1
      BY NextRevUnused, CellsAssumption
    <2> QED  BY <1>1, <2>1 DEF StartOp, Get, IsDirty
  <1>2. ASSUME NEW c \in Cells, NEW f \in Fields, NEW v \in Values,
               Write(c, f, v)
        PROVE  Get(Other)[TradeCount]' = Get(Other)[TradeCount]
    <2>1. /\ cache'[c].rev = rev
          /\ cache'[c].val = [Get(c) EXCEPT ![f] = v]
          /\ \A d \in Cells \ {c} : cache'[d] = cache[d]
      BY <1>2, UpdateCache, ValuesAssumption DEF Write, Inv
    <2>2. CASE c = Other
      <3>1. f # TradeCount
        BY <1>2, <2>2 DEF Write
      <3>2. Get(Other)' = [Get(Other) EXCEPT ![f] = v]
        BY <1>2, <2>1, <2>2 DEF Write, Get, IsDirty
      <3>3. Get(Other) \in [Fields -> Nat]
        BY CellsAssumption DEF Inv, TypeOK, Cell, Get, IsDirty
      <3> QED  BY <3>1, <3>2, <3>3, CellsAssumption
    <2>3. CASE c # Other
      BY <1>2, <2>1, <2>3, CellsAssumption DEF Write, Get, IsDirty
    <2> QED  BY <2>2, <2>3
  <1>3. CASE NextTradeId
    <2> DEFINE id == storage[Other].val[TradeCount] + 1
    <2>1. id \in Nat
      BY CellsAssumption DEF Inv, TypeOK, Cell
    <2>2. /\ cache'[Other].rev = rev
          /\ cache'[Other].val = [Get(Other) EXCEPT ![TradeCount] = id]
      BY <1>3, <2>1, UpdateCache, CellsAssumption DEF NextTradeId, Inv
    <2>3. Get(Other) \in [Fields -> Nat]
      BY CellsAssumption DEF Inv, TypeOK, Cell, Get, IsDirty
    <2>4. Get(Other)'[TradeCount] = id
      BY <1>3, <2>2, <2>3, CellsAssumption DEF NextTradeId, Get, IsDirty
    <2> QED  BY <1>3, <2>4 DEF NextTradeId
  <1>4. CASE UNCHANGED vars
    BY <1>4 DEF vars, TradeIdOncePerOp, Get, IsDirty
  <1>5. ASSUME NEW c \in Cells, NEW f \in Fields, NEW v \in Values,
               Write(c, f, v)
        PROVE  Get(Other)[TradeCount]' \in
                        {storage'[Other].val[TradeCount],
                         storage'[Other].val[TradeCount] + 1}
    BY <1>2, <1>5 DEF Write, TradeIdOncePerOp
  <1> QED
    BY <1>1, <1>3, <1>4, <1>5
    DEF Next, Commit, Drop, WriteDirect, Persist, Rollback

(* However often an operation asks for a trade id, the trade count rises   *)
(* by at most one when it commits.                                         *)
THEOREM TradeIdCorrect == Spec => []TradeIdOncePerOp
  <1>1. Init => TradeIdOncePerOp
    BY DEF Init, TradeIdOncePerOp
  <1> QED  BY <1>1, InitInv, NextInv, NextTradeIdOnce, PTL DEF Spec

-----------------------------------------------------------------------------
(* The abstract private copy.                                              *)
Work == IF open THEN [c \in Cells |-> Get(c)] ELSE Vals(storage)

(* An operation starts from the committed cells: no tag equals the new     *)
(* revision, whatever earlier operations left in the cache.                *)
LEMMA StartReadsStorage ==
    ASSUME Inv, StartOp
    PROVE  Work' = Vals(storage)
  <1>1. \A c \in Cells : cache[c].rev # rev + 1
    BY NextRevUnused
  <1>2. \A c \in Cells : Get(c)' = storage[c].val
    BY <1>1 DEF StartOp, Get, IsDirty
  <1> QED  BY <1>2 DEF StartOp, Work, Vals

(* Writing a field through the cache changes that field of the private     *)
(* copy and nothing else.                                                  *)
LEMMA UpdateWork ==
    ASSUME Inv, open, NEW c \in Cells, NEW f \in Fields, NEW v \in Nat,
           Update(c, f, v), UNCHANGED <<rev, storage, open, ledger>>
    PROVE  Work' = [Work EXCEPT ![c][f] = v]
  <1>1. /\ cache'[c].rev = rev
        /\ cache'[c].val = [Get(c) EXCEPT ![f] = v]
        /\ \A d \in Cells \ {c} : cache'[d] = cache[d]
    BY UpdateCache DEF Inv
  <1>2. Get(c)' = [Get(c) EXCEPT ![f] = v]
    BY <1>1 DEF Get, IsDirty
  <1>3. \A d \in Cells \ {c} : Get(d)' = Get(d)
    BY <1>1 DEF Get, IsDirty
  <1>4. Work' = [d \in Cells |-> Get(d)']
    BY DEF Work
  <1> QED  BY <1>2, <1>3, <1>4 DEF Work

(* A new market account is a new transactional market.                     *)
LEMMA InitRefines == Init => Transactional!Init
  BY DEF Init, Transactional!Init, Vals, ZeroCell, account

(* Every step on the buffer is a step of the transactional market, or      *)
(* changes nothing of it.                                                  *)
LEMMA NextRefines == Inv /\ [Next]_vars => [Transactional!Next]_(Transactional!vars)
  <1> SUFFICES ASSUME Inv, [Next]_vars
               PROVE  Transactional!Next \/ UNCHANGED Transactional!vars
    OBVIOUS
  <1>1. CASE StartOp
    <2>1. Transactional!Begin
      BY <1>1, StartReadsStorage DEF StartOp, Transactional!Begin, Work, Vals
    <2> QED  BY <2>1 DEF Transactional!Next
  <1>2. ASSUME NEW c \in Cells, NEW f \in Fields, NEW v \in Values,
               Write(c, f, v)
        PROVE  Transactional!Write(c, f, v)
    BY <1>2, UpdateWork, ValuesAssumption
    DEF Write, Transactional!Write, Work, Vals
  <1>3. CASE NextTradeId
    <2>1. storage[Other].val[TradeCount] + 1 \in Nat
      BY CellsAssumption DEF Inv, TypeOK, Cell
    <2>2. Vals(storage)[Other] = storage[Other].val
      BY CellsAssumption DEF Vals
    <2>3. Transactional!NextTrade
      BY <1>3, <2>1, <2>2, UpdateWork, CellsAssumption
      DEF NextTradeId, Transactional!NextTrade, Work, Vals
    <2> QED  BY <2>3 DEF Transactional!Next
  <1>4. CASE Commit
    <2>1. Vals(storage)' = [c \in Cells |-> Get(c)]
      BY <1>4 DEF Commit, Vals, Get
    <2>2. Transactional!Commit
      BY <1>4, <2>1 DEF Commit, Transactional!Commit, Vals
    <2> QED  BY <2>2 DEF Transactional!Next
  <1>5. CASE Drop
    <2>1. Transactional!Drop
      BY <1>5 DEF Drop, Transactional!Drop, Vals
    <2> QED  BY <2>1 DEF Transactional!Next
  <1>6. ASSUME NEW c \in Cells, NEW f \in Fields, NEW v \in Values,
               WriteDirect(c, f, v)
        PROVE  Transactional!Assign(c, f, v)
    <2>1. Vals(storage)' = [Vals(storage) EXCEPT ![c][f] = v]
      BY <1>6 DEF WriteDirect, Vals, Inv, TypeOK, Cell
    <2> QED  BY <1>6, <2>1 DEF WriteDirect, Transactional!Assign, Vals
  <1>7. CASE Persist
    <2>1. Transactional!Persist
      BY <1>7 DEF Persist, Transactional!Persist, Vals, account, Get, IsDirty
    <2> QED  BY <2>1 DEF Transactional!Next
  <1>8. CASE Rollback
    <2>1. Transactional!Rollback
      BY <1>8 DEF Rollback, Transactional!Rollback, Vals
    <2> QED  BY <2>1 DEF Transactional!Next
  <1>9. CASE UNCHANGED vars
    BY <1>9 DEF vars, Transactional!vars, Vals, Get, IsDirty
  <1> QED
    BY <1>1, <1>2, <1>3, <1>4, <1>5, <1>6, <1>7, <1>8, <1>9
    DEF Next, Transactional!Next

(* The revision-tagged buffer implements the two-level transaction.        *)
THEOREM Refinement == Spec => ImplementsTransactions
  BY InitInv, NextInv, InitRefines, NextRefines, PTL
  DEF Spec, ImplementsTransactions, Transactional!Spec

-----------------------------------------------------------------------------
(* Swaps along market paths.                                               *)

(* Where the machine is on the path.  BalanceCovered alone is not          *)
(* inductive: a swap is sound only at the market that holds the input.     *)
Located ==
    /\ pc \in {"swap", "move"} =>
          /\ rest # <<>>
          /\ path[side] # <<>>
          /\ rest[Len(rest)] = path[side][Len(path[side])]
    /\ pc = "swap" => at[side] = rest[1]
    /\ pc = "leave" => /\ path[side] # <<>>
                       /\ at[side] = path[side][Len(path[side])]
    /\ pc = "close" => at[side] = OutputMarket(side)

(* Sides not started yet still have their input where the caller put it.   *)
Waiting == \A s \in Sides :
              (s > side \/ (s = side /\ pc = "enter")) => at[s] = InputMarket(s)

(* Sides that are finished have their output where the final checks expect *)
(* it.                                                                     *)
Finished == \A s \in Sides :
               (s < side \/ pc \in {"check", "pay", "done"}) =>
                  (amt[s] # 0 => tok[s] = want[s] /\ at[s] = OutputMarket(s))

(* An order has no secondary path.                                         *)
OnePath == caller \in {"swapOrder", "decrease"} => path[2] = <<>>

SwapInv == /\ SwapTypeOK /\ BalanceCovered
           /\ Located /\ Waiting /\ Finished /\ OnePath

(* A path of bounded length is a sequence.                                 *)
LEMMA BoundedSeqIsSeq == ASSUME NEW S, NEW n PROVE BoundedSeq(S, n) \subseteq Seq(S)
  BY DEF BoundedSeq, SeqOf, TupleOf

(* The tokens a market trades are tokens.                                  *)
LEMMA TokenSides ==
    ASSUME NEW m \in Markets, NEW t
    PROVE  Opposite(m, t) \in Tokens /\ TokensOf(m) \subseteq Tokens
  BY MetaAssumption DEF Opposite, TokensOf

(* The ends of a nonempty path.                                            *)
LEMMA PathEnds ==
    ASSUME NEW q \in Seq(Markets), q # <<>>
    PROVE  /\ Head(q) = q[1] /\ q[1] \in Markets
           /\ Last(q) = q[Len(q)] /\ q[Len(q)] \in Markets
           /\ Tail(q) \in Seq(Markets)
           /\ Len(q) \in Nat \ {0}
           /\ Tail(q) = <<>> => Len(q) = 1
           /\ Tail(q) # <<>> => Tail(q)[Len(Tail(q))] = q[Len(q)]
  <1>1. /\ Len(q) \in Nat \ {0}
        /\ Tail(q) \in Seq(Markets)
        /\ Len(Tail(q)) = Len(q) - 1
        /\ \A i \in 1 .. Len(Tail(q)) : Tail(q)[i] = q[i + 1]
        /\ q[1] \in Markets /\ q[Len(q)] \in Markets
    BY HeadTailProperties, EmptySeq, LenProperties, ElementOfSeq
  <1>2. Tail(q) # <<>> => Len(Tail(q)) \in Nat \ {0}
    BY <1>1, EmptySeq, LenProperties
  <1>3. Tail(q) = <<>> => Len(q) = 1
    <2>1. Tail(q) = <<>> => Len(Tail(q)) = 0
      BY <1>1, EmptySeq
    <2> QED  BY <1>1, <2>1
  <1> QED  BY <1>1, <1>2, <1>3 DEF Last

(* A side of the swap starts and ends in a market.                         *)
LEMMA MarketSides ==
    ASSUME path \in [Sides -> Seq(Markets)], NEW s \in Sides
    PROVE  InputMarket(s) \in Markets /\ OutputMarket(s) \in Markets
  <1>1. path[s] \in Seq(Markets)
    OBVIOUS
  <1>2. CASE path[s] = <<>>
    BY <1>2, MetaAssumption DEF InputMarket, OutputMarket, LastMarket
  <1>3. CASE path[s] # <<>>
    BY <1>1, <1>3, PathEnds, MetaAssumption
    DEF InputMarket, OutputMarket, LastMarket
  <1> QED  BY <1>2, <1>3

(* The invariant holds when the markets are loaded.                        *)
LEMMA SwapInitInv == SwapInit => SwapInv
  <1> SUFFICES ASSUME SwapInit PROVE SwapInv
    OBVIOUS
  <1> USE MetaAssumption, AmountAssumption
  <1>a. path \in [Sides -> Seq(Markets)]
    <2>1. path \in [Sides -> BoundedSeq(Markets, MaxLength)]
      BY DEF SwapInit
    <2>2. BoundedSeq(Markets, MaxLength) \subseteq Seq(Markets)
      BY BoundedSeqIsSeq
    <2> QED  BY <2>1, <2>2
  <1>b. CurrentTokens \in [Sides -> Tokens]
    BY DEF CurrentTokens
  <1>c. want \in [Sides -> Tokens] /\ tok \in [Sides -> Tokens]
    <2>1. CASE caller = "deposit"
      BY <1>b, <2>1 DEF SwapInit, DepositParams
    <2>2. CASE caller = "withdrawal"
      BY <1>b, <2>2 DEF SwapInit, WithdrawalParams
    <2>3. CASE caller \in {"swapOrder", "increase"}
      <3>1. IntoOrderParams
        BY <2>3 DEF SwapInit
      <3> QED  BY <3>1 DEF IntoOrderParams, Sides
    <2>4. CASE caller = "decrease"
      <3>1. DecreaseParams
        BY <2>4 DEF SwapInit
      <3>2. [s \in Sides |-> CurrentTokens[3 - s]] \in [Sides -> Tokens]
        BY <1>b DEF Sides
      <3> QED  BY <1>b, <3>1, <3>2 DEF DecreaseParams
    <2> QED  BY <2>1, <2>2, <2>3, <2>4, CallersAssumption DEF SwapInit
  <1>d. amt \in [Sides -> Nat] /\ side \in Sides
    BY DEF SwapInit, Sides
  <1>1. /\ path \in [Sides -> Seq(Markets)]
        /\ want \in [Sides -> Tokens]
        /\ tok \in [Sides -> Tokens]
        /\ amt \in [Sides -> Nat]
        /\ side \in Sides
    BY <1>a, <1>c, <1>d
  <1>2. \A s \in Sides : InputMarket(s) \in Markets
    BY <1>a, MarketSides
  <1>3. at \in [Sides -> Markets]
    BY <1>2 DEF SwapInit
  <1>4. \A m \in Markets, t \in Tokens :
           /\ Parked(1, m, t) \in Nat
           /\ Parked(2, m, t) \in Nat
           /\ pool[m][t] \in Nat
           /\ Collateral[m][t] \in Nat
    BY <1>1 DEF Parked, SwapInit, Sides
  <1>5. bal \in [Markets -> [Tokens -> Nat]]
    <2>1. \A m \in Markets :
             [t \in Tokens |-> pool[m][t] + Collateral[m][t]
                                + Parked(1, m, t) + Parked(2, m, t)]
               \in [Tokens -> Nat]
      BY <1>4
    <2> QED  BY <2>1 DEF SwapInit
  <1>e. caller \in Callers /\ pc = "enter" /\ rest \in Seq(Markets)
    BY EmptySeq DEF SwapInit
  <1>6. SwapTypeOK
    BY <1>1, <1>3, <1>5, <1>e DEF SwapInit, SwapTypeOK
  <1>7. BalanceCovered
    BY DEF SwapInit, BalanceCovered, Accounted
  <1>8. Located /\ Waiting /\ Finished
    BY DEF SwapInit, Located, Waiting, Finished, Sides
  <1>9. OnePath
    <2>1. caller = "swapOrder" => IntoOrderParams
      BY DEF SwapInit
    <2>2. caller = "decrease" => DecreaseParams
      BY DEF SwapInit
    <2> QED  BY <2>1, <2>2 DEF OnePath, IntoOrderParams, DecreaseParams
  <1> QED  BY <1>6, <1>7, <1>8, <1>9 DEF SwapInv

(* Moving what a side holds to another market keeps every balance covered. *)
LEMMA MoveCovers ==
    ASSUME SwapTypeOK, Accounted, NEW to \in Markets, Move(to),
           UNCHANGED <<pool, tok, amt>>
    PROVE  /\ bal' \in [Markets -> [Tokens -> Nat]]
           /\ at' \in [Sides -> Markets]
           /\ Accounted'
  <1> DEFINE t == tok[side]
             a == amt[side]
             from == at[side]
  <1>1. /\ t \in Tokens /\ a \in Nat /\ from \in Markets /\ side \in Sides
        /\ bal[from][t] >= a
        /\ at' = [at EXCEPT ![side] = to]
        /\ bal' = [m \in Markets |-> [u \in Tokens |->
                     IF u # t \/ from = to THEN bal[m][u]
                     ELSE IF m = from THEN bal[m][u] - a
                     ELSE IF m = to THEN bal[m][u] + a
                     ELSE bal[m][u]]]
    BY DEF Move, SwapTypeOK
  <1>2. bal' \in [Markets -> [Tokens -> Nat]]
    <2>1. ASSUME NEW m \in Markets
          PROVE  [u \in Tokens |->
                     IF u # t \/ from = to THEN bal[m][u]
                     ELSE IF m = from THEN bal[m][u] - a
                     ELSE IF m = to THEN bal[m][u] + a
                     ELSE bal[m][u]] \in [Tokens -> Nat]
      <3>1. \A u \in Tokens : bal[m][u] \in Nat
        BY DEF SwapTypeOK
      <3> QED  BY <1>1, <3>1
    <2> QED  BY <1>1, <2>1
  <1>3. at' \in [Sides -> Markets]
    BY <1>1 DEF SwapTypeOK
  <1>4. ASSUME NEW m \in Markets, NEW u \in Tokens
        PROVE  bal'[m][u] = pool[m][u] + Collateral[m][u]
                              + Parked(1, m, u)' + Parked(2, m, u)'
    <2>1. bal[m][u] = pool[m][u] + Collateral[m][u]
                        + Parked(1, m, u) + Parked(2, m, u)
      BY DEF Accounted
    <2>2. /\ bal'[m][u] = IF u # t \/ from = to THEN bal[m][u]
                          ELSE IF m = from THEN bal[m][u] - a
                          ELSE IF m = to THEN bal[m][u] + a
                          ELSE bal[m][u]
          /\ bal[m][u] \in Nat
          /\ pool[m][u] \in Nat
          /\ Collateral[m][u] \in Nat
      BY <1>1, AmountAssumption DEF SwapTypeOK
    <2>3. CASE side = 1
      <3>1. /\ Parked(1, m, u)' = IF to = m /\ t = u THEN a ELSE 0
            /\ Parked(1, m, u) = IF from = m /\ t = u THEN a ELSE 0
            /\ Parked(2, m, u)' = Parked(2, m, u)
            /\ Parked(2, m, u) \in Nat
        BY <1>1, <2>3 DEF Parked, SwapTypeOK, Sides
      <3> QED  BY <1>1, <2>1, <2>2, <3>1
    <2>4. CASE side = 2
      <3>1. /\ Parked(2, m, u)' = IF to = m /\ t = u THEN a ELSE 0
            /\ Parked(2, m, u) = IF from = m /\ t = u THEN a ELSE 0
            /\ Parked(1, m, u)' = Parked(1, m, u)
            /\ Parked(1, m, u) \in Nat
        BY <1>1, <2>4 DEF Parked, SwapTypeOK, Sides
      <3> QED  BY <1>1, <2>1, <2>2, <3>1
    <2> QED  BY <1>1, <2>3, <2>4 DEF Sides
  <1> QED  BY <1>2, <1>3, <1>4 DEF Accounted

(* Swapping at the market that holds the input keeps it covered.           *)
LEMMA SwapCovers ==
    ASSUME SwapTypeOK, Accounted, NEW out \in Amounts,
           SwapAt(at[side], out), UNCHANGED <<bal, at>>
    PROVE  /\ pool' \in [Markets -> [Tokens -> Nat]]
           /\ tok' \in [Sides -> Tokens]
           /\ amt' \in [Sides -> Nat]
           /\ Accounted'
  <1> DEFINE t == tok[side]
             a == amt[side]
             n == at[side]
             v == Opposite(n, t)
             added == [pool EXCEPT ![n][t] = @ + a]
  <1>1. /\ t \in Tokens /\ a \in Nat /\ n \in Markets /\ side \in Sides
        /\ v \in Tokens /\ out \in Nat
    BY TokenSides, AmountAssumption DEF SwapTypeOK
  <1>2. /\ added[n][v] >= out
        /\ pool' = [added EXCEPT ![n][v] = @ - out]
        /\ tok' = [tok EXCEPT ![side] = v]
        /\ amt' = [amt EXCEPT ![side] = out]
    BY DEF SwapAt
  <1>3. /\ added \in [Markets -> [Tokens -> Nat]]
        /\ \A m \in Markets, u \in Tokens :
              added[m][u] = IF m = n /\ u = t THEN pool[m][u] + a
                                              ELSE pool[m][u]
    <2>1. pool \in [Markets -> [Tokens -> Nat]]
      BY DEF SwapTypeOK
    <2>2. [pool[n] EXCEPT ![t] = @ + a] \in [Tokens -> Nat]
      BY <1>1, <2>1
    <2> QED  BY <1>1, <2>1, <2>2
  <1> HIDE DEF added
  <1>4. /\ pool' \in [Markets -> [Tokens -> Nat]]
        /\ \A m \in Markets, u \in Tokens :
              pool'[m][u] = IF m = n /\ u = v THEN added[m][u] - out
                                              ELSE added[m][u]
    BY <1>1, <1>2, <1>3
  <1>5. tok' \in [Sides -> Tokens] /\ amt' \in [Sides -> Nat]
    BY <1>1, <1>2 DEF SwapTypeOK
  <1>6. ASSUME NEW m \in Markets, NEW u \in Tokens
        PROVE  bal'[m][u] = pool'[m][u] + Collateral[m][u]
                              + Parked(1, m, u)' + Parked(2, m, u)'
    <2>1. bal[m][u] = pool[m][u] + Collateral[m][u]
                        + Parked(1, m, u) + Parked(2, m, u)
      BY DEF Accounted
    <2>2. /\ bal'[m][u] = bal[m][u]
          /\ bal[m][u] \in Nat
          /\ pool[m][u] \in Nat
          /\ Collateral[m][u] \in Nat
      BY AmountAssumption DEF SwapTypeOK
    <2>3. CASE side = 1
      <3>1. /\ Parked(1, m, u)' = IF n = m /\ v = u THEN out ELSE 0
            /\ Parked(1, m, u) = IF n = m /\ t = u THEN a ELSE 0
            /\ Parked(2, m, u)' = Parked(2, m, u)
            /\ Parked(2, m, u) \in Nat
        BY <1>1, <1>2, <2>3 DEF Parked, SwapTypeOK, Sides
      <3> QED  BY <1>1, <1>2, <1>3, <1>4, <2>1, <2>2, <3>1
    <2>4. CASE side = 2
      <3>1. /\ Parked(2, m, u)' = IF n = m /\ v = u THEN out ELSE 0
            /\ Parked(2, m, u) = IF n = m /\ t = u THEN a ELSE 0
            /\ Parked(1, m, u)' = Parked(1, m, u)
            /\ Parked(1, m, u) \in Nat
        BY <1>1, <1>2, <2>4 DEF Parked, SwapTypeOK, Sides
      <3> QED  BY <1>1, <1>2, <1>3, <1>4, <2>1, <2>2, <3>1
    <2> QED  BY <1>1, <2>3, <2>4 DEF Sides
  <1> QED  BY <1>4, <1>5, <1>6 DEF Accounted

(* The final checks and the caller agree on where an output is, unless a   *)
(* swap order ends elsewhere.                                              *)
LEMMA SameMarket ==
    ASSUME SwapInv, ~PaysElsewhere, NEW s \in Sides
    PROVE  OutputMarket(s) = PayingMarket(s)
  <1>1. caller \in {"deposit", "withdrawal", "swapOrder", "increase", "decrease"}
    BY CallersAssumption DEF SwapInv, SwapTypeOK
  <1>2. s = 1 \/ s = 2
    BY DEF Sides
  <1>3. caller \in {"swapOrder", "decrease"} => LastMarket(2) = Current
    BY DEF SwapInv, OnePath, LastMarket
  <1> QED
    BY <1>1, <1>2, <1>3 DEF OutputMarket, PayingMarket, PaysElsewhere, Into

(* Paying the outputs keeps every balance covered, with the one exception. *)
LEMMA PayCovers ==
    ASSUME SwapInv, Pay
    PROVE  SwapTypeOK' /\ BalanceCovered'
  <1>1. \A m \in Markets, t \in Tokens :
           /\ bal'[m][t] = bal[m][t] - Due(m, t)
           /\ bal[m][t] >= Due(m, t)
           /\ bal[m][t] \in Nat
    BY DEF Pay, SwapInv, SwapTypeOK
  <1>2. \A m \in Markets, t \in Tokens : Due(m, t) \in Nat
    <2>1. amt[1] \in Nat /\ amt[2] \in Nat
      BY DEF SwapInv, SwapTypeOK, Sides
    <2> QED  BY <2>1 DEF Due
  <1>3. bal' \in [Markets -> [Tokens -> Nat]]
    <2>1. \A m \in Markets, t \in Tokens : bal[m][t] - Due(m, t) \in Nat
      BY <1>1, <1>2
    <2>2. \A m \in Markets :
             [t \in Tokens |-> bal[m][t] - Due(m, t)] \in [Tokens -> Nat]
      BY <2>1
    <2> QED  BY <2>2 DEF Pay
  <1>4. SwapTypeOK'
    BY <1>3 DEF Pay, params, SwapInv, SwapTypeOK
  <1>5. ASSUME ~PaysElsewhere, NEW m \in Markets, NEW t \in Tokens
        PROVE  bal'[m][t] = pool'[m][t] + Collateral[m][t]
                              + Parked(1, m, t)' + Parked(2, m, t)'
    <2>1. bal[m][t] = pool[m][t] + Collateral[m][t]
                        + Parked(1, m, t) + Parked(2, m, t)
      BY <1>5 DEF SwapInv, BalanceCovered, Accounted
    <2>2. \A s \in Sides :
             /\ amt[s] # 0 => tok[s] = want[s] /\ at[s] = PayingMarket(s)
             /\ amt[s] \in Nat
      BY <1>5, SameMarket DEF Pay, SwapInv, Finished, SwapTypeOK
    <2>3. \A s \in Sides :
             (IF PayingMarket(s) = m /\ want[s] = t THEN amt[s] ELSE 0)
               = Parked(s, m, t)
      BY <2>2 DEF Parked
    <2>4. Due(m, t) = Parked(1, m, t) + Parked(2, m, t)
      BY <2>3 DEF Due, Sides
    <2>5. Parked(1, m, t)' = 0 /\ Parked(2, m, t)' = 0
      BY DEF Pay, Parked, Sides
    <2>6. /\ pool[m][t] \in Nat /\ Collateral[m][t] \in Nat
          /\ Parked(1, m, t) \in Nat /\ Parked(2, m, t) \in Nat
          /\ pool' = pool
      BY <2>2, AmountAssumption DEF Pay, SwapInv, SwapTypeOK, Parked, Sides
    <2> QED  BY <1>1, <2>1, <2>4, <2>5, <2>6
  <1>6. PaysElsewhere => PaysElsewhere'
    BY DEF Pay, params, PaysElsewhere, LastMarket
  <1>7. ~PaysElsewhere => Accounted'
    BY <1>5 DEF Accounted
  <1>8. BalanceCovered'
    <2>1. pc' = "done"
      BY DEF Pay
    <2> QED  BY <1>6, <1>7, <2>1 DEF BalanceCovered
  <1> QED  BY <1>4, <1>8

(* Every step of a swap keeps the invariant.                               *)
LEMMA SwapNextInv == SwapInv /\ [SwapNext]_swapVars => SwapInv'
  <1> SUFFICES ASSUME SwapInv, [SwapNext]_swapVars PROVE SwapInv'
    OBVIOUS
  <1> USE DEF SwapInv
  <1>0. /\ side \in Sides /\ path[side] \in Seq(Markets)
        /\ \A s \in Sides : OutputMarket(s) \in Markets
        /\ pc # "done" => Accounted
    BY MarketSides DEF SwapTypeOK, BalanceCovered
  <1>a. Accounted' => BalanceCovered'
    BY DEF BalanceCovered
  <1>b. UNCHANGED params => OnePath'
    BY DEF params, OnePath
  <1>1. CASE SkipSide
    <2>1. SwapTypeOK'
      BY <1>1 DEF SkipSide, NextSide, params, SwapTypeOK, Sides
    <2>2. Accounted'
      BY <1>0, <1>1 DEF SkipSide, Accounted, Parked
    <2>3. Located'
      BY <1>1 DEF SkipSide, NextSide, Located
    <2>4. Waiting'
      BY <1>0, <1>1 DEF SkipSide, NextSide, params, Sides, Waiting, InputMarket, Into
    <2>5. \A s \in Sides : OutputMarket(s)' = OutputMarket(s)
      BY <1>1 DEF SkipSide, params, OutputMarket, LastMarket, Into
    <2>6. amt[side] # 0 => tok[side] = want[side] /\ at[side] = OutputMarket(side)
      BY <1>1 DEF SkipSide, Located
    <2>7. Finished'
      BY <1>0, <1>1, <2>5, <2>6 DEF SkipSide, NextSide, params, Sides, Finished
    <2>9. UNCHANGED params
      BY <1>1 DEF SkipSide
    <2> QED  BY <1>a, <1>b, <2>9, <2>1, <2>2, <2>3, <2>4, <2>7
  <1>2. CASE Enter
    <2> DEFINE p == path[side]
               moves == p # <<>> /\ ~Into /\ Head(p) # Current
    <2>1. p # <<>> => p[1] \in Markets /\ Head(p) = p[1]
      BY <1>0, PathEnds
    <2>2. /\ bal' \in [Markets -> [Tokens -> Nat]]
          /\ at' \in [Sides -> Markets]
          /\ Accounted'
      <3>1. CASE moves
        BY <1>0, <1>2, <2>1, <3>1, MoveCovers DEF Enter
      <3>2. CASE ~moves
        <4>1. UNCHANGED <<bal, at, pool, tok, amt>>
          BY <1>2, <3>2 DEF Enter
        <4>2. Accounted'
          BY <1>0, <1>2, <4>1 DEF Enter, Accounted, Parked
        <4> QED  BY <4>1, <4>2 DEF SwapTypeOK
      <3> QED  BY <3>1, <3>2
    <2>3. SwapTypeOK'
      BY <1>0, <1>2, <2>2 DEF Enter, params, SwapTypeOK
    <2>4. /\ p # <<>> => at'[side] = p[1]
          /\ p = <<>> => at'[side] = Current
          /\ \A s \in Sides \ {side} : at'[s] = at[s]
      <3>1. at[side] = InputMarket(side)
        BY <1>0, <1>2 DEF Enter, Waiting
      <3> QED  BY <1>0, <1>2, <2>1, <3>1 DEF Enter, Move, InputMarket, SwapTypeOK
    <2>5. Located'
      BY <1>0, <1>2, <2>4, <2>1
      DEF Enter, Located, params, OutputMarket, LastMarket, Into
    <2>6. Waiting' /\ Finished'
      BY <1>2, <2>4, <1>0 DEF Enter, params, Waiting, Finished, InputMarket,
         OutputMarket, LastMarket, Into, Sides
    <2>9. UNCHANGED params
      BY <1>2 DEF Enter
    <2> QED  BY <1>a, <1>b, <2>9, <2>2, <2>3, <2>5, <2>6
  <1>3. ASSUME NEW out \in Amounts, Swap(out)
        PROVE  SwapInv'
    <2>1. /\ rest \in Seq(Markets) /\ rest # <<>> /\ at[side] = rest[1]
          /\ path[side] # <<>>
          /\ rest[Len(rest)] = path[side][Len(path[side])]
      BY <1>3 DEF Swap, Located, SwapTypeOK
    <2>2. /\ Head(rest) = rest[1] /\ Tail(rest) \in Seq(Markets)
          /\ Tail(rest) = <<>> => Len(rest) = 1
          /\ Tail(rest) # <<>> => Tail(rest)[Len(Tail(rest))] = rest[Len(rest)]
      BY <2>1, PathEnds
    <2>3. /\ pool' \in [Markets -> [Tokens -> Nat]]
          /\ tok' \in [Sides -> Tokens]
          /\ amt' \in [Sides -> Nat]
          /\ Accounted'
      BY <1>0, <1>3, <2>1, <2>2, SwapCovers DEF Swap
    <2>4. SwapTypeOK'
      BY <1>3, <2>2, <2>3 DEF Swap, params, SwapTypeOK
    <2>5. Located'
      BY <1>3, <2>1, <2>2 DEF Swap, params, Located
    <2>6. \A s \in Sides \ {side} : tok'[s] = tok[s] /\ amt'[s] = amt[s]
      BY <1>3 DEF Swap, SwapAt, SwapTypeOK
    <2>7. Waiting' /\ Finished'
      BY <1>0, <1>3, <2>6 DEF Swap, params, Waiting, Finished, InputMarket,
         OutputMarket, LastMarket, Into, Sides
    <2>9. UNCHANGED params
      BY <1>3 DEF Swap
    <2> QED  BY <1>a, <1>b, <2>9, <2>3, <2>4, <2>5, <2>7
  <1>4. CASE MoveOn
    <2>1. /\ rest \in Seq(Markets) /\ rest # <<>>
          /\ Head(rest) = rest[1] /\ rest[1] \in Markets
      BY <1>4, PathEnds DEF MoveOn, Located, SwapTypeOK
    <2>2. /\ bal' \in [Markets -> [Tokens -> Nat]]
          /\ at' \in [Sides -> Markets]
          /\ Accounted'
      BY <1>0, <1>4, <2>1, MoveCovers DEF MoveOn
    <2>3. at'[side] = rest[1] /\ \A s \in Sides \ {side} : at'[s] = at[s]
      BY <1>0, <1>4, <2>1 DEF MoveOn, Move, SwapTypeOK
    <2>4. SwapTypeOK'
      BY <1>4, <2>2 DEF MoveOn, params, SwapTypeOK
    <2>5. Located'
      BY <1>4, <2>3 DEF MoveOn, params, Located
    <2>6. Waiting' /\ Finished'
      BY <1>0, <1>4, <2>3 DEF MoveOn, params, Waiting, Finished, InputMarket,
         OutputMarket, LastMarket, Into, Sides
    <2>9. UNCHANGED params
      BY <1>4 DEF MoveOn
    <2> QED  BY <1>a, <1>b, <2>9, <2>2, <2>4, <2>5, <2>6
  <1>5. CASE Leave
    <2>1. /\ path[side] # <<>>
          /\ at[side] = path[side][Len(path[side])]
          /\ LastMarket(side) = at[side]
      BY <1>0, <1>5, PathEnds DEF Leave, Located, LastMarket
    <2>2. /\ bal' \in [Markets -> [Tokens -> Nat]]
          /\ at' \in [Sides -> Markets]
          /\ Accounted'
          /\ at'[side] = OutputMarket(side)
          /\ \A s \in Sides \ {side} : at'[s] = at[s]
      <3>1. CASE Into /\ at[side] # Current
        <4>1. Move(Current) /\ UNCHANGED <<pool, tok, amt>>
          BY <1>5, <3>1 DEF Leave
        <4>2. /\ bal' \in [Markets -> [Tokens -> Nat]]
              /\ at' \in [Sides -> Markets]
              /\ Accounted'
          BY <1>0, <1>5, <4>1, MoveCovers, MetaAssumption DEF Leave
        <4> QED  BY <1>0, <3>1, <4>1, <4>2 DEF Move, OutputMarket, SwapTypeOK
      <3>2. CASE ~(Into /\ at[side] # Current)
        <4>1. UNCHANGED <<bal, at, pool, tok, amt>>
          BY <1>5, <3>2 DEF Leave
        <4>2. Accounted'
          BY <1>0, <1>5, <4>1 DEF Leave, Accounted, Parked
        <4>3. at[side] = OutputMarket(side)
          BY <2>1, <3>2 DEF OutputMarket
        <4> QED  BY <4>1, <4>2, <4>3 DEF SwapTypeOK
      <3> QED  BY <3>1, <3>2
    <2>3. SwapTypeOK'
      BY <1>5, <2>2 DEF Leave, params, SwapTypeOK
    <2>4. Located'
      BY <1>5, <2>2 DEF Leave, params, Located, OutputMarket, LastMarket, Into
    <2>5. Waiting' /\ Finished'
      BY <1>0, <1>5, <2>2 DEF Leave, params, Waiting, Finished, InputMarket,
         OutputMarket, LastMarket, Into, Sides
    <2>9. UNCHANGED params
      BY <1>5 DEF Leave
    <2> QED  BY <1>a, <1>b, <2>9, <2>2, <2>3, <2>4, <2>5
  <1>6. CASE Close
    <2>1. SwapTypeOK'
      BY <1>6 DEF Close, NextSide, params, SwapTypeOK, Sides
    <2>2. Accounted'
      BY <1>0, <1>6 DEF Close, Accounted, Parked
    <2>3. Located'
      BY <1>6 DEF Close, NextSide, Located
    <2>4. Waiting'
      BY <1>0, <1>6 DEF Close, NextSide, params, Sides, Waiting, InputMarket, Into
    <2>5. \A s \in Sides : OutputMarket(s)' = OutputMarket(s)
      BY <1>6 DEF Close, params, OutputMarket, LastMarket, Into
    <2>6. amt[side] # 0 => tok[side] = want[side] /\ at[side] = OutputMarket(side)
      BY <1>6 DEF Close, Located
    <2>7. Finished'
      BY <1>0, <1>6, <2>5, <2>6 DEF Close, NextSide, params, Sides, Finished
    <2>9. UNCHANGED params
      BY <1>6 DEF Close
    <2> QED  BY <1>a, <1>b, <2>9, <2>1, <2>2, <2>3, <2>4, <2>7
  <1>7. CASE Check \/ Fail
    <2>1. /\ UNCHANGED <<params, side, rest, bal, pool, tok, amt, at>>
          /\ pc' \in {"pay", "done", "failed"} /\ pc # "done"
          /\ pc' \in {"pay", "done"} => pc = "check"
      BY <1>7 DEF Check, Fail
    <2>2. SwapTypeOK' /\ Accounted'
      BY <1>0, <2>1 DEF params, SwapTypeOK, Accounted, Parked
    <2>3. Located' /\ Waiting' /\ Finished'
      BY <2>1 DEF params, SwapTypeOK, Sides, Located, Waiting,
         Finished, InputMarket, OutputMarket, LastMarket, Into
    <2> QED  BY <1>a, <1>b, <2>1, <2>2, <2>3
  <1>8. CASE Pay
    <2>1. SwapTypeOK' /\ BalanceCovered'
      BY <1>8, PayCovers
    <2>2. /\ UNCHANGED <<params, side, at, tok>> /\ pc' = "done"
          /\ pc = "pay"
          /\ \A s \in Sides : amt'[s] = 0
      BY <1>8 DEF Pay
    <2>3. Located' /\ Waiting' /\ Finished'
      BY <2>2 DEF params, Located, Waiting, Finished, InputMarket, Into
    <2> QED  BY <1>b, <2>1, <2>2, <2>3
  <1>9. CASE UNCHANGED swapVars
    <2>1. SwapTypeOK' /\ BalanceCovered'
      BY <1>9 DEF swapVars, SwapTypeOK, BalanceCovered, Accounted, Parked,
         PaysElsewhere, LastMarket
    <2>2. Located' /\ Waiting' /\ Finished' /\ OnePath'
      BY <1>9 DEF swapVars, Located, Waiting, Finished, InputMarket, OutputMarket,
         LastMarket, Into, OnePath
    <2> QED  BY <2>1, <2>2
  <1> QED
    BY <1>1, <1>2, <1>3, <1>4, <1>5, <1>6, <1>7, <1>8, <1>9 DEF SwapNext

(* At every moment of a multi-hop swap every market's recorded balance is  *)
(* what it owes to its pools and positions plus what is parked with it,    *)
(* and still is when the caller has paid, unless it is a swap order whose  *)
(* path ends in another market than its own.                               *)
THEOREM SwapKeepsMarketsCovered == SwapSpec => []BalanceCovered
  BY SwapInitInv, SwapNextInv, PTL DEF SwapSpec, SwapInv

(* When a multi-hop swap returns, its outputs are in the expected tokens   *)
(* and recorded in the markets that the instructions of its caller pay     *)
(* them from or keep them in, with the same exception.                     *)
THEOREM SwapOutputsLocated == SwapSpec => []OutputWherePaidFrom
  <1>1. SwapInv => OutputWherePaidFrom
    BY SameMarket DEF SwapInv, Finished, OutputWherePaidFrom
  <1> QED  BY <1>1, SwapInitInv, SwapNextInv, PTL DEF SwapSpec

(* The final balance checks exclude exactly the outputs parked at the      *)
(* market they check.                                                      *)
THEOREM SwapExclusionsExact == SwapSpec => []ExclusionsExact
  <1>1. SwapInv => ExclusionsExact
    <2> SUFFICES ASSUME SwapInv, pc = "check", NEW m, NEW t
                 PROVE  Excluded(m, t) = Parked(1, m, t) + Parked(2, m, t)
      BY DEF ExclusionsExact
    <2>1. \A s \in Sides : amt[s] # 0 => tok[s] = want[s] /\ at[s] = OutputMarket(s)
      BY DEF SwapInv, Finished
    <2>2. \A s \in Sides :
             (IF OutputMarket(s) = m /\ want[s] = t THEN amt[s] ELSE 0)
               = Parked(s, m, t)
      BY <2>1 DEF Parked
    <2> QED  BY <2>2 DEF Excluded, Sides
  <1> QED  BY <1>1, SwapInitInv, SwapNextInv, PTL DEF SwapSpec
=============================================================================
