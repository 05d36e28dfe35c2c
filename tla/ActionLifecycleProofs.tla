----------------------- MODULE ActionLifecycleProofs ------------------------
(***************************************************************************)
(* For any tokens, shapes, amounts and fees, and any interleaving of the   *)
(* owner, keepers, a restarting cluster and changing ATAs: an action sends *)
(* its input back to the owner or its output to the receiver, leaves       *)
(* nothing behind, and pays keepers and referrers once.                    *)
(***************************************************************************)
EXTENDS ActionLifecycle, SequenceTheorems, WellFoundedInduction, TLAPS

(* What is known of an action in each of its states.                       *)
Staged ==
    /\ st # "none" => shape \in Shapes
    /\ st \in {"none", "pending", "cancelled"} => ~settled
    /\ st = "completed" => settled
    /\ st \in {"none", "pending"} =>
          earned = 0 /\ granted = 0 /\ gtReward = 0 /\ referral = 0
    /\ st = "none" => paid = NoTokens
    /\ ~settled => produced = NoTokens
    /\ \A t \in Tokens : paid[t] # 0 => t \in TokensIn(shape.ins)
    /\ \A t \in Tokens : produced[t] # 0 => t \in TokensIn(shape.outs)

Inv == /\ TypeOK /\ Staged /\ FundsFollowOutcome /\ NothingStranded
       /\ KeeperPaidWithinBudget /\ ReferralPaidOnce

-----------------------------------------------------------------------------
(* The slots of the action.                                                *)

(* A function on 1 .. n is a sequence of length n.                         *)
LEMMA FunctionIsSeq ==
    ASSUME NEW S, NEW n \in Nat, NEW f \in [1 .. n -> S]
    PROVE  f \in Seq(S) /\ Len(f) = n
  <1>1. f \in UNION {[1 .. k -> S] : k \in Nat}
    OBVIOUS
  <1>2. f \in Seq(S)
    BY <1>1, SeqDef
  <1> QED  BY <1>2, LenProperties

(* The escrows an action names are tokens, whether it exists or not.       *)
LEMMA ShapeType ==
    ASSUME TypeOK
    PROVE  /\ shape.ins \in Seq(Tokens)
           /\ shape.outs \in Seq(Tokens)
           /\ shape.kind \in Kinds \cup {"none"}
  <1>1. CASE shape \in Shapes
    BY <1>1, ShapesAssumption
  <1>2. CASE shape = NoShape
    <2>1. <<>> \in Seq(Tokens)
      BY EmptySeq
    <2> QED  BY <1>2, <2>1 DEF NoShape
  <1> QED  BY <1>1, <1>2 DEF TypeOK

(* The escrows of an action are escrows of tokens.                         *)
LEMMA EscrowsAreTokens == ASSUME TypeOK PROVE Escrows \subseteq Tokens
  BY ShapeType, ElementOfSeq DEF Escrows, TokensIn

(* Where the elements of a concatenation come from.                        *)
LEMMA Joined ==
    ASSUME NEW S, NEW p \in Seq(S), NEW q \in Seq(S)
    PROVE  /\ p \o q \in Seq(S)
           /\ DOMAIN (p \o q) = 1 .. Len(p) + Len(q)
           /\ Len(p) \in Nat /\ Len(q) \in Nat
           /\ \A i \in DOMAIN (p \o q) :
                 \/ i \in DOMAIN p /\ i <= Len(p) /\ (p \o q)[i] = p[i]
                 \/ /\ i > Len(p) /\ i - Len(p) \in DOMAIN q
                    /\ (p \o q)[i] = q[i - Len(p)]
           /\ \A i \in DOMAIN p : /\ i \in DOMAIN (p \o q)
                                  /\ (p \o q)[i] = p[i]
           /\ \A i \in DOMAIN q : /\ i + Len(p) \in DOMAIN (p \o q)
                                  /\ (p \o q)[i + Len(p)] = q[i]
  <1>1. /\ p \o q \in Seq(S)
        /\ Len(p) \in Nat /\ Len(q) \in Nat
        /\ DOMAIN p = 1 .. Len(p) /\ DOMAIN q = 1 .. Len(q)
        /\ Len(p \o q) = Len(p) + Len(q)
        /\ \A i \in 1 .. Len(p) + Len(q) :
              (p \o q)[i] = IF i <= Len(p) THEN p[i] ELSE q[i - Len(p)]
    BY ConcatProperties, LenProperties
  <1>2. DOMAIN (p \o q) = 1 .. Len(p) + Len(q)
    BY <1>1, LenProperties
  <1> DEFINE w == p \o q
             m == Len(p)
             k == Len(q)
  <1> HIDE DEF w, m, k
  <1>3. /\ m \in Nat /\ k \in Nat /\ DOMAIN p = 1 .. m /\ DOMAIN q = 1 .. k
        /\ DOMAIN w = 1 .. m + k
        /\ \A i \in 1 .. m + k : w[i] = IF i <= m THEN p[i] ELSE q[i - m]
    BY <1>1, <1>2 DEF w, m, k
  <1>4. \A i \in DOMAIN w :
            \/ i \in DOMAIN p /\ i <= m /\ w[i] = p[i]
            \/ i > m /\ i - m \in DOMAIN q /\ w[i] = q[i - m]
    BY <1>3
  <1>5. \A i \in DOMAIN p : i \in DOMAIN w /\ w[i] = p[i]
    BY <1>3
  <1>6. \A i \in DOMAIN q : i + m \in DOMAIN w /\ w[i + m] = q[i]
    <2> SUFFICES ASSUME NEW i \in DOMAIN q
                 PROVE  i + m \in DOMAIN w /\ w[i + m] = q[i]
      OBVIOUS
    <2>1. i \in 1 .. k /\ i + m \in 1 .. m + k /\ ~(i + m <= m) /\ (i + m) - m = i
      BY <1>3
    <2> QED  BY <1>3, <2>1
  <1> QED  BY <1>1, <1>2, <1>4, <1>5, <1>6 DEF w, m, k

(* The slots that send the inputs back, in the order of the inputs.        *)
LEMMA RefundSlots ==
    ASSUME TypeOK
    PROVE  /\ Refunds \in Seq([tok : Tokens, to : People])
           /\ DOMAIN Refunds = DOMAIN shape.ins
           /\ \A i \in DOMAIN Refunds : /\ Refunds[i].tok = shape.ins[i]
                                        /\ Refunds[i].to = "owner"
  <1>1. shape.ins \in Seq(Tokens) /\ Len(shape.ins) \in Nat
        /\ DOMAIN shape.ins = 1 .. Len(shape.ins)
        /\ \A i \in 1 .. Len(shape.ins) : shape.ins[i] \in Tokens
    BY ShapeType, LenProperties, ElementOfSeq
  <1>2. Refunds \in [1 .. Len(shape.ins) -> [tok : Tokens, to : People]]
    BY <1>1 DEF Refunds, People
  <1>3. Refunds \in Seq([tok : Tokens, to : People])
    BY <1>1, <1>2, FunctionIsSeq
  <1> QED  BY <1>1, <1>2, <1>3 DEF Refunds

(* The slots that send the outputs out, in the order of the outputs.       *)
LEMMA OutputSlots ==
    ASSUME TypeOK
    PROVE  /\ Outputs \in Seq([tok : Tokens, to : People])
           /\ DOMAIN Outputs = DOMAIN shape.outs
           /\ \A i \in DOMAIN Outputs : /\ Outputs[i].tok = shape.outs[i]
                                        /\ Outputs[i].to = "receiver"
  <1>1. shape.outs \in Seq(Tokens) /\ Len(shape.outs) \in Nat
        /\ DOMAIN shape.outs = 1 .. Len(shape.outs)
        /\ \A i \in 1 .. Len(shape.outs) : shape.outs[i] \in Tokens
    BY ShapeType, LenProperties, ElementOfSeq
  <1>2. Outputs \in [1 .. Len(shape.outs) -> [tok : Tokens, to : People]]
    BY <1>1 DEF Outputs, People
  <1>3. Outputs \in Seq([tok : Tokens, to : People])
    BY <1>1, <1>2, FunctionIsSeq
  <1> QED  BY <1>1, <1>2, <1>3 DEF Outputs

(* Every slot refunds an input or pays an output, every escrow has a slot, *)
(* and the first slots are refunds or outputs as Slots puts them.          *)
LEMMA SlotFacts ==
    ASSUME TypeOK
    PROVE  /\ DOMAIN Slots \subseteq Nat \ {0}
           /\ \A i \in DOMAIN Slots : 1 .. i \subseteq DOMAIN Slots
           /\ \A i \in DOMAIN Slots :
                 \/ Slots[i].to = "owner" /\ Slots[i].tok \in TokensIn(shape.ins)
                 \/ Slots[i].to = "receiver" /\ Slots[i].tok \in TokensIn(shape.outs)
           /\ \A t \in Escrows : \E i \in DOMAIN Slots : Slots[i].tok = t
           /\ Slots = Refunds \o Outputs => \A t \in TokensIn(shape.ins) :
                 \E i \in DOMAIN Slots :
                    Slots[i].tok = t /\ \A j \in 1 .. i : Slots[j].to = "owner"
           /\ Slots = Outputs \o Refunds => \A t \in TokensIn(shape.outs) :
                 \E i \in DOMAIN Slots :
                    Slots[i].tok = t /\ \A j \in 1 .. i : Slots[j].to = "receiver"
  <1> DEFINE T == [tok : Tokens, to : People]
  <1>1. Slots = Refunds \o Outputs \/ Slots = Outputs \o Refunds
    BY DEF Slots, DepositSlots, WithdrawalSlots, ShiftSlots, OrderSlots
  <1>2. /\ Refunds \in Seq(T) /\ Outputs \in Seq(T)
        /\ DOMAIN Refunds = 1 .. Len(Refunds) /\ DOMAIN Outputs = 1 .. Len(Outputs)
    BY RefundSlots, OutputSlots, LenProperties
  <1>3. /\ \A i \in DOMAIN Refunds : /\ Refunds[i].to = "owner"
                                      /\ Refunds[i].tok \in TokensIn(shape.ins)
        /\ \A i \in DOMAIN Outputs : /\ Outputs[i].to = "receiver"
                                      /\ Outputs[i].tok \in TokensIn(shape.outs)
        /\ \A t \in TokensIn(shape.ins) : \E i \in DOMAIN Refunds : Refunds[i].tok = t
        /\ \A t \in TokensIn(shape.outs) : \E i \in DOMAIN Outputs : Outputs[i].tok = t
    BY RefundSlots, OutputSlots, SMTT(30) DEF TokensIn
  <1>4. CASE Slots = Refunds \o Outputs
    <2>1. /\ DOMAIN Slots = 1 .. Len(Refunds) + Len(Outputs)
          /\ Len(Refunds) \in Nat /\ Len(Outputs) \in Nat
          /\ \A i \in DOMAIN Slots :
                 \/ i \in DOMAIN Refunds /\ Slots[i] = Refunds[i]
                 \/ i - Len(Refunds) \in DOMAIN Outputs
                    /\ Slots[i] = Outputs[i - Len(Refunds)]
          /\ \A i \in DOMAIN Refunds : i \in DOMAIN Slots /\ Slots[i] = Refunds[i]
          /\ \A i \in DOMAIN Outputs : /\ i + Len(Refunds) \in DOMAIN Slots
                                        /\ Slots[i + Len(Refunds)] = Outputs[i]
      BY <1>2, <1>4, Joined
    <2>2. DOMAIN Slots \subseteq Nat \ {0}
          /\ \A i \in DOMAIN Slots : 1 .. i \subseteq DOMAIN Slots
      BY <2>1
    <2>3. \A i \in DOMAIN Slots :
             \/ Slots[i].to = "owner" /\ Slots[i].tok \in TokensIn(shape.ins)
             \/ Slots[i].to = "receiver" /\ Slots[i].tok \in TokensIn(shape.outs)
      BY <1>3, <2>1
    <2>4. \A t \in TokensIn(shape.ins) : \E i \in DOMAIN Slots :
             Slots[i].tok = t /\ \A j \in 1 .. i : Slots[j].to = "owner"
      <3> TAKE t \in TokensIn(shape.ins)
      <3>1. PICK i \in DOMAIN Refunds : Refunds[i].tok = t
        BY <1>3
      <3>2. \A j \in 1 .. i : j \in DOMAIN Refunds
        BY <1>2, <2>1
      <3>3. \A j \in 1 .. i : Slots[j].to = "owner"
        BY <1>3, <2>1, <3>2, SMTT(30)
      <3>4. i \in DOMAIN Slots /\ Slots[i].tok = t
        BY <2>1, <3>1
      <3> QED  BY <3>3, <3>4
    <2>5. \A t \in Escrows : \E i \in DOMAIN Slots : Slots[i].tok = t
      <3>1. \A t \in TokensIn(shape.outs) : \E i \in DOMAIN Slots : Slots[i].tok = t
        <4> TAKE t \in TokensIn(shape.outs)
        <4>1. PICK i \in DOMAIN Outputs : Outputs[i].tok = t
          BY <1>3
        <4>2. /\ i + Len(Refunds) \in DOMAIN Slots
              /\ Slots[i + Len(Refunds)].tok = t
          BY <2>1, <4>1
        <4> QED  BY <4>2
      <3> QED  BY <2>4, <3>1 DEF Escrows
    <2>6. Slots = Outputs \o Refunds => \A t \in TokensIn(shape.outs) :
             \E i \in DOMAIN Slots :
                Slots[i].tok = t /\ \A j \in 1 .. i : Slots[j].to = "receiver"
      <3> SUFFICES ASSUME Slots = Outputs \o Refunds, NEW t \in TokensIn(shape.outs)
                   PROVE  \E i \in DOMAIN Slots :
                            Slots[i].tok = t /\ \A j \in 1 .. i : Slots[j].to = "receiver"
        OBVIOUS
      <3>1. \A i \in DOMAIN Outputs : i \in DOMAIN Slots /\ Slots[i] = Outputs[i]
        BY <1>2, Joined
      <3>2. PICK i \in DOMAIN Outputs : Outputs[i].tok = t
        BY <1>3
      <3>3. \A j \in 1 .. i : j \in DOMAIN Outputs
        BY <1>2, <2>1
      <3>4. \A j \in 1 .. i : Slots[j].to = "receiver"
        BY <1>3, <3>1, <3>3
      <3>5. i \in DOMAIN Slots /\ Slots[i].tok = t
        BY <3>1, <3>2
      <3> QED  BY <3>4, <3>5
    <2> QED  BY <2>2, <2>3, <2>4, <2>5, <2>6
  <1>5. CASE Slots = Outputs \o Refunds
    <2>1. /\ DOMAIN Slots = 1 .. Len(Outputs) + Len(Refunds)
          /\ Len(Refunds) \in Nat /\ Len(Outputs) \in Nat
          /\ \A i \in DOMAIN Slots :
                 \/ i \in DOMAIN Outputs /\ Slots[i] = Outputs[i]
                 \/ i - Len(Outputs) \in DOMAIN Refunds
                    /\ Slots[i] = Refunds[i - Len(Outputs)]
          /\ \A i \in DOMAIN Outputs : i \in DOMAIN Slots /\ Slots[i] = Outputs[i]
          /\ \A i \in DOMAIN Refunds : /\ i + Len(Outputs) \in DOMAIN Slots
                                        /\ Slots[i + Len(Outputs)] = Refunds[i]
      BY <1>2, <1>5, Joined
    <2>2. DOMAIN Slots \subseteq Nat \ {0}
          /\ \A i \in DOMAIN Slots : 1 .. i \subseteq DOMAIN Slots
      BY <2>1
    <2>3. \A i \in DOMAIN Slots :
             \/ Slots[i].to = "owner" /\ Slots[i].tok \in TokensIn(shape.ins)
             \/ Slots[i].to = "receiver" /\ Slots[i].tok \in TokensIn(shape.outs)
      BY <1>3, <2>1, SMTT(30)
    <2>4. \A t \in TokensIn(shape.outs) : \E i \in DOMAIN Slots :
             Slots[i].tok = t /\ \A j \in 1 .. i : Slots[j].to = "receiver"
      <3> TAKE t \in TokensIn(shape.outs)
      <3>1. PICK i \in DOMAIN Outputs : Outputs[i].tok = t
        BY <1>3
      <3>2. \A j \in 1 .. i : j \in DOMAIN Outputs
        BY <1>2, <2>1
      <3>3. \A j \in 1 .. i : Slots[j].to = "receiver"
        BY <1>3, <2>1, <3>2, SMTT(30)
      <3>4. i \in DOMAIN Slots /\ Slots[i].tok = t
        BY <2>1, <3>1
      <3> QED  BY <3>3, <3>4
    <2>5. \A t \in Escrows : \E i \in DOMAIN Slots : Slots[i].tok = t
      <3>1. \A t \in TokensIn(shape.ins) : \E i \in DOMAIN Slots : Slots[i].tok = t
        <4> TAKE t \in TokensIn(shape.ins)
        <4>1. PICK i \in DOMAIN Refunds : Refunds[i].tok = t
          BY <1>3
        <4>2. /\ i + Len(Outputs) \in DOMAIN Slots
              /\ Slots[i + Len(Outputs)].tok = t
          BY <2>1, <4>1
        <4> QED  BY <4>2
      <3> QED  BY <2>4, <3>1 DEF Escrows
    <2>6. Slots = Refunds \o Outputs => \A t \in TokensIn(shape.ins) :
             \E i \in DOMAIN Slots :
                Slots[i].tok = t /\ \A j \in 1 .. i : Slots[j].to = "owner"
      BY <1>4
    <2> QED  BY <2>2, <2>3, <2>4, <2>5, <2>6
  <1> QED  BY <1>1, <1>4, <1>5

LessThan == {p \in Nat \X Nat : p[1] < p[2]}

(* Slots are numbered, so an escrow has a first one.                       *)
LEMMA LessThanWellFounded == IsWellFoundedOn(LessThan, Nat)
  BY Zenon, NatLessThanWellFounded DEF OpToRel, LessThan

(* The first slot of an escrow, which decides who it is sent to.           *)
LEMMA FirstSlot ==
    ASSUME TypeOK, NEW t \in Escrows
    PROVE  \E i \in DOMAIN Slots : Slots[i].tok = t /\ FirstFor(i)
  <1> DEFINE M == {i \in DOMAIN Slots : Slots[i].tok = t}
  <1>1. M # {} /\ M \subseteq Nat /\ \A i \in M : 1 .. i \subseteq DOMAIN Slots
    BY SlotFacts
  <1>2. PICK i \in M : \A j \in M : <<j, i>> \notin LessThan
    BY <1>1, WFMin, LessThanWellFounded
  <1>3. \A j \in M : ~(j < i)
    BY <1>1, <1>2 DEF LessThan
  <1>4. \A j \in 1 .. i - 1 : Slots[j].tok # Slots[i].tok
    <2> SUFFICES ASSUME NEW j \in 1 .. i - 1, Slots[j].tok = Slots[i].tok
                 PROVE  FALSE
      OBVIOUS
    <2>1. j \in 1 .. i /\ j < i
      BY <1>1
    <2> QED  BY <1>1, <1>3, <2>1
  <1> QED  BY <1>4 DEF FirstFor

(* No escrow has two first slots.                                          *)
LEMMA FirstSlotUnique ==
    ASSUME TypeOK, NEW i \in DOMAIN Slots, NEW j \in DOMAIN Slots,
           FirstFor(i), FirstFor(j), Slots[i].tok = Slots[j].tok
    PROVE  i = j
  <1>1. i \in Nat \ {0} /\ j \in Nat \ {0}
    BY SlotFacts
  <1>2. CASE i < j
    <2>1. i \in 1 .. j - 1
      BY <1>1, <1>2
    <2> QED  BY <2>1 DEF FirstFor
  <1>3. CASE j < i
    <2>1. j \in 1 .. i - 1
      BY <1>1, <1>3
    <2> QED  BY <2>1 DEF FirstFor
  <1> QED  BY <1>1, <1>2, <1>3

(* Who that is: the owner for an input of an action that is not completed, *)
(* the receiver for an output of one that is.                              *)
LEMMA FirstSlotTo ==
    ASSUME TypeOK, NEW i \in DOMAIN Slots, FirstFor(i), st # "none",
           shape \in Shapes
    PROVE  /\ Slots[i].to \in People
           /\ st # "completed" /\ Slots[i].tok \in TokensIn(shape.ins) =>
                 Slots[i].to = "owner"
           /\ st = "completed" /\ Slots[i].tok \in TokensIn(shape.outs) =>
                 Slots[i].to = "receiver"
  <1>1. Slots[i].to \in People
    BY SlotFacts DEF People
  <1>2. CASE shape.kind \notin OrderKinds
    <2>1. TokensIn(shape.ins) \cap TokensIn(shape.outs) = {}
      BY <1>2, DistinctAssumption DEF TokensIn
    <2> QED  BY <1>1, <2>1, SlotFacts
  <1>3. CASE shape.kind \in OrderKinds
    <2>1. Slots = OrderSlots
      BY <1>3 DEF Slots, OrderKinds
    <2>2. ASSUME NEW j \in DOMAIN Slots, Slots[j].tok = Slots[i].tok
          PROVE  i \in 1 .. j
      <3>1. i \in Nat \ {0} /\ j \in Nat \ {0}
        BY SlotFacts
      <3>2. j \notin 1 .. i - 1
        BY <2>2 DEF FirstFor
      <3> QED  BY <3>1, <3>2
    <2>3. ASSUME st # "completed", Slots[i].tok \in TokensIn(shape.ins)
          PROVE  Slots[i].to = "owner"
      <3>1. Slots = Refunds \o Outputs
        BY <2>1, <2>3 DEF OrderSlots
      <3>2. PICK j \in DOMAIN Slots :
               Slots[j].tok = Slots[i].tok /\ \A k \in 1 .. j : Slots[k].to = "owner"
        BY <2>3, <3>1, SlotFacts
      <3> QED  BY <2>2, <3>2
    <2>4. ASSUME st = "completed", Slots[i].tok \in TokensIn(shape.outs)
          PROVE  Slots[i].to = "receiver"
      <3>1. Slots = Outputs \o Refunds
        BY <2>1, <2>4 DEF OrderSlots
      <3>2. PICK j \in DOMAIN Slots :
               Slots[j].tok = Slots[i].tok /\ \A k \in 1 .. j : Slots[k].to = "receiver"
        BY <2>4, <3>1, SlotFacts
      <3> QED  BY <2>2, <3>2
    <2> QED  BY <1>1, <2>3, <2>4
  <1> QED  BY <1>2, <1>3

-----------------------------------------------------------------------------
(* Closing.                                                                *)

(* An order that minted no GT earns the referrer nothing.                  *)
LEMMA NoReward == ReferrerReward(0) = 0 /\ \A g \in Nat : ReferrerReward(g) \in Nat
  <1>1. \A g \in Nat : g * RewardFactor \in Nat
    BY AmountsAssumption
  <1>2. 0 * RewardFactor = 0
    BY AmountsAssumption
  <1>3. \A k \in Nat : k \div FactorUnit \in Nat
    BY AmountsAssumption
  <1>4. 0 \div FactorUnit = 0
    BY AmountsAssumption
  <1> QED  BY <1>1, <1>2, <1>3, <1>4 DEF ReferrerReward

SentTo(p, init) == {Slots[i].tok : i \in {j \in Sent(init) : Slots[j].to = p}}
SentTokens(init) == {Slots[i].tok : i \in Sent(init)}

(* An escrow that holds something and is sent out is sent to whom the      *)
(* outcome says, and to nobody else.                                       *)
LEMMA SentRight ==
    ASSUME Inv, NEW init \in BOOLEAN, st \in {"pending", "completed", "cancelled"},
           NEW t \in SentTokens(init), escrow[t] # 0
    PROVE  /\ t \in Tokens
           /\ ~settled => t \in SentTo("owner", init) /\ t \notin SentTo("receiver", init)
           /\ settled => t \in SentTo("receiver", init) /\ t \notin SentTo("owner", init)
  <1>1. PICK i \in Sent(init) : Slots[i].tok = t
    BY DEF SentTokens
  <1>2. i \in DOMAIN Slots /\ FirstFor(i) /\ TypeOK
    BY DEF Sent, Inv
  <1>3. t \in Tokens
    BY <1>1, <1>2, SlotFacts, EscrowsAreTokens DEF Escrows
  <1>4. \A p \in People : t \in SentTo(p, init) <=> Slots[i].to = p
    <2> TAKE p \in People
    <2>1. ASSUME t \in SentTo(p, init) PROVE Slots[i].to = p
      <3>1. PICK j \in Sent(init) : Slots[j].tok = t /\ Slots[j].to = p
        BY <2>1 DEF SentTo
      <3>2. j \in DOMAIN Slots /\ FirstFor(j)
        BY DEF Sent
      <3> QED  BY <1>1, <1>2, <3>1, <3>2, FirstSlotUnique
    <2>2. ASSUME Slots[i].to = p PROVE t \in SentTo(p, init)
      BY <1>1, <2>2 DEF SentTo
    <2> QED  BY <2>1, <2>2
  <1>5. shape \in Shapes /\ st # "none"
    BY DEF Inv, Staged
  <1>6. CASE ~settled
    <2>1. st # "completed" /\ t \in TokensIn(shape.ins)
      BY <1>3, <1>6 DEF Inv, Staged, FundsFollowOutcome, TypeOK, People
    <2>2. Slots[i].to = "owner"
      BY <1>1, <1>2, <1>5, <2>1, FirstSlotTo
    <2> QED  BY <1>3, <1>4, <1>6, <2>2 DEF People
  <1>7. CASE settled
    <2>1. st = "completed"
      BY <1>7 DEF Inv, Staged
    <2>2. t \in TokensIn(shape.outs)
      BY <1>3, <1>7 DEF Inv, Staged, FundsFollowOutcome, TypeOK, People
    <2>3. Slots[i].to = "receiver"
      BY <1>1, <1>2, <1>5, <2>1, <2>2, FirstSlotTo
    <2> QED  BY <1>3, <1>4, <1>7, <2>3 DEF People
  <1> QED  BY <1>6, <1>7

(* What a close changes, stated on the set of escrows it sends out.        *)
LEMMA CloseFacts ==
    ASSUME NEW init \in BOOLEAN, Close(init)
    PROVE  /\ st \in {"pending", "completed", "cancelled"}
           /\ escrow' = [t \in Tokens |->
                           IF t \in SentTokens(init) THEN 0 ELSE escrow[t]]
           /\ open' = open \ SentTokens(init)
           /\ got' = [p \in People |-> [t \in Tokens |->
                        IF t \in SentTo(p, init) THEN got[p][t] + escrow[t]
                                                 ELSE got[p][t]]]
           /\ \/ st' = "closed" /\ lamports' = 0 /\ AllSent(init)
              \/ st' = st /\ lamports' = lamports
           /\ \/ gtReward' = 0 /\ referral' = referral + ReferrerReward(gtReward)
              \/ gtReward' = gtReward /\ referral' = referral
           /\ UNCHANGED <<shape, unwrap, budget, enabled, restarted, paid,
                          produced, settled, earned, granted>>
  BY DEF Close, SentTokens, SentTo, ProcessGtReward

(* A close keeps the types.                                                *)
LEMMA CloseType ==
    ASSUME Inv, NEW init \in BOOLEAN, Close(init)
    PROVE  TypeOK'
  <1> USE CloseFacts
  <1>1. TypeOK
    BY DEF Inv
  <1>2. escrow' \in [Tokens -> Nat] /\ open' \subseteq Tokens
    BY <1>1 DEF TypeOK
  <1>3. got' \in [People -> [Tokens -> Nat]]
    <2>1. ASSUME NEW p \in People
          PROVE  got'[p] \in [Tokens -> Nat]
      BY <1>1, <2>1 DEF TypeOK
    <2> QED  BY <2>1
  <1>4. ata' \in [People -> [Tokens -> AtaStates]]
    <2> DEFINE Needed(p, t) ==
          /\ t \in SentTo(p, init) /\ escrow[t] # 0 /\ ~Unwrapped(t)
          /\ ata[p][t] = "missing"
    <2>1. ata' = [p \in People |-> [t \in Tokens |->
                    IF Needed(p, t) THEN "own" ELSE ata[p][t]]]
      BY DEF Close, SentTo
    <2>2. ASSUME NEW p \in People
          PROVE  ata'[p] \in [Tokens -> AtaStates]
      BY <1>1, <2>1, <2>2 DEF TypeOK, AtaStates
    <2> QED  BY <2>1, <2>2
  <1>5. gtReward' \in Nat /\ referral' \in Nat /\ lamports' \in Nat
    BY <1>1, NoReward DEF TypeOK
  <1>6. st' \in {"none", "pending", "completed", "cancelled", "closed"}
    OBVIOUS
  <1> QED  BY <1>1, <1>2, <1>3, <1>4, <1>5, <1>6 DEF TypeOK

(* A close, finished or skipped, sends each escrow to the person the       *)
(* outcome entitles to it.                                                 *)
LEMMA CloseFunds ==
    ASSUME Inv, NEW init \in BOOLEAN, Close(init)
    PROVE  FundsFollowOutcome'
  <1> SUFFICES ASSUME NEW t \in Tokens
               PROVE  IF settled'
                        THEN /\ got'["receiver"][t] + escrow'[t] = produced'[t]
                             /\ got'["owner"][t] = 0
                        ELSE /\ got'["owner"][t] + escrow'[t] = paid'[t]
                             /\ got'["receiver"][t] = 0
    BY DEF FundsFollowOutcome
  <1>1. /\ IF settled THEN /\ got["receiver"][t] + escrow[t] = produced[t]
                            /\ got["owner"][t] = 0
                       ELSE /\ got["owner"][t] + escrow[t] = paid[t]
                            /\ got["receiver"][t] = 0
        /\ escrow[t] \in Nat
        /\ got["owner"][t] \in Nat /\ got["receiver"][t] \in Nat
    BY DEF Inv, FundsFollowOutcome, TypeOK, People
  <1>2. /\ settled' = settled /\ produced' = produced /\ paid' = paid
        /\ st \in {"pending", "completed", "cancelled"}
        /\ escrow'[t] = IF t \in SentTokens(init) THEN 0 ELSE escrow[t]
        /\ \A p \in People : got'[p][t] =
              IF t \in SentTo(p, init) THEN got[p][t] + escrow[t] ELSE got[p][t]
    BY CloseFacts
  <1>3. CASE t \notin SentTokens(init)
    <2>1. \A p \in People : t \notin SentTo(p, init)
      BY <1>3 DEF SentTo, SentTokens
    <2> QED  BY <1>1, <1>2, <1>3, <2>1 DEF People
  <1>4. CASE t \in SentTokens(init) /\ escrow[t] = 0
    <2>1. \A p \in People : got'[p][t] = got[p][t]
      BY <1>1, <1>2, <1>4 DEF People
    <2> QED  BY <1>1, <1>2, <1>4, <2>1 DEF People
  <1>5. CASE t \in SentTokens(init) /\ escrow[t] # 0
    <2>1. /\ ~settled => t \in SentTo("owner", init) /\ t \notin SentTo("receiver", init)
          /\ settled => t \in SentTo("receiver", init) /\ t \notin SentTo("owner", init)
      BY <1>2, <1>5, SentRight
    <2> QED  BY <1>1, <1>2, <1>5, <2>1 DEF People
  <1> QED  BY <1>3, <1>4, <1>5

(* A close that closes the action has emptied and closed all its escrows.  *)
LEMMA CloseStranded ==
    ASSUME Inv, NEW init \in BOOLEAN, Close(init)
    PROVE  NothingStranded'
  <1> SUFFICES ASSUME st' = "closed"
               PROVE  escrow' = NoTokens /\ Escrows' \cap open' = {}
    BY DEF NothingStranded
  <1>1. TypeOK /\ shape' = shape /\ Escrows' = Escrows
    BY CloseFacts DEF Inv, Escrows
  <1>2. AllSent(init)
    BY CloseFacts
  <1>3. Escrows \subseteq SentTokens(init)
    <2> SUFFICES ASSUME NEW t \in Escrows PROVE t \in SentTokens(init)
      OBVIOUS
    <2>1. PICK i \in DOMAIN Slots : Slots[i].tok = t /\ FirstFor(i)
      BY <1>1, FirstSlot
    <2> QED  BY <1>2, <2>1 DEF AllSent, SentTokens
  <1>4. \A t \in Tokens : escrow[t] # 0 => t \in Escrows
    BY <1>1 DEF Inv, Staged, FundsFollowOutcome, TypeOK, People, Escrows
  <1>5. \A t \in Tokens : escrow'[t] = 0
    BY <1>3, <1>4, CloseFacts
  <1>6. escrow' = [t \in Tokens |-> escrow'[t]]
    BY CloseFacts
  <1>7. escrow' = NoTokens
    BY <1>5, <1>6 DEF NoTokens
  <1> QED  BY <1>1, <1>3, <1>7, CloseFacts

(* A close pays the keeper and the referrer at most once.                  *)
LEMMA CloseStaged ==
    ASSUME Inv, NEW init \in BOOLEAN, Close(init)
    PROVE  Staged' /\ KeeperPaidWithinBudget' /\ ReferralPaidOnce'
  <1>1. Staged'
    BY CloseFacts, NoReward DEF Inv, Staged, TypeOK
  <1>2. KeeperPaidWithinBudget'
    BY CloseFacts DEF Inv, KeeperPaidWithinBudget
  <1>3. ReferralPaidOnce'
    BY CloseFacts, NoReward DEF Inv, ReferralPaidOnce, TypeOK, ReferrerReward
  <1> QED  BY <1>1, <1>2, <1>3

(* A close keeps the invariant.                                            *)
LEMMA CloseInv ==
    ASSUME Inv, NEW init \in BOOLEAN, Close(init)
    PROVE  Inv'
  BY CloseType, CloseFunds, CloseStranded, CloseStaged DEF Inv

-----------------------------------------------------------------------------
(* Creating and executing.                                                 *)

(* Creating an action keeps the invariant.                                 *)
LEMMA CreateInv ==
    ASSUME Inv, NEW s \in Shapes, NEW a \in InputAmounts(s), NEW u \in BOOLEAN,
           NEW fee \in Fees, Create(s, a, u, fee)
    PROVE  Inv'
  <1>1. /\ a \in [Tokens -> Nat] /\ fee \in Nat
        /\ \A t \in Tokens : a[t] # 0 => t \in TokensIn(s.ins)
    BY AmountsAssumption DEF InputAmounts
  <1>2. TypeOK'
    BY <1>1 DEF Create, environment, Inv, TypeOK
  <1>3. Staged'
    BY <1>1 DEF Create, environment, Inv, Staged, NoTokens
  <1>4. FundsFollowOutcome'
    <2>1. ~settled /\ \A t \in Tokens : got["owner"][t] = 0 /\ got["receiver"][t] = 0
      BY DEF Create, Inv, Staged, FundsFollowOutcome, NoTokens, TypeOK, People
    <2> QED  BY <1>1, <2>1 DEF Create, FundsFollowOutcome
  <1>5. NothingStranded' /\ KeeperPaidWithinBudget'
    BY <1>1 DEF Create, Inv, Staged, NothingStranded, KeeperPaidWithinBudget
  <1>6. ReferralPaidOnce'
    BY DEF Create, Inv, ReferralPaidOnce, ReferrerReward
  <1> QED  BY <1>2, <1>3, <1>4, <1>5, <1>6 DEF Inv

(* The two outcomes, of which Settle and SettleOrder are made.             *)
LEMMA OutcomeInv ==
    ASSUME Inv, NEW out \in OutputAmounts, NEW fee \in Fees, NEW gt \in Nat,
           st = "pending",
           \A t \in Tokens : escrow[t] >= paid[t],
           \/ Completed(out, fee) /\ gtReward' = gt /\ granted' = granted + gt
           \/ Completed(out, fee) /\ UNCHANGED <<gtReward, granted>>
           \/ Cancelled(fee) /\ UNCHANGED <<gtReward, granted>>,
           UNCHANGED <<shape, unwrap, open, budget, environment, paid, got,
                       referral>>
    PROVE  Inv'
  <1>1. /\ out \in [Tokens -> Nat] /\ fee \in Nat
        /\ \A t \in Tokens : out[t] # 0 => t \in TokensIn(shape.outs)
    BY AmountsAssumption DEF OutputAmounts
  <1>2. TypeOK /\ earned = 0 /\ granted = 0 /\ gtReward = 0 /\ referral = 0
    BY DEF Inv, Staged
  <1>3. PayExecutionFee(fee)
    BY DEF Completed, Cancelled
  <1>4. lamports' \in Nat /\ earned' \in Nat /\ earned' <= budget
    BY <1>1, <1>2, <1>3 DEF PayExecutionFee, Smaller, TypeOK
  <1>5. \/ st' = "completed" /\ settled' = TRUE
        \/ st' = "cancelled" /\ settled' = settled
    BY DEF Completed, Cancelled
  <1>6. \A t \in Tokens : /\ escrow[t] = paid[t] /\ escrow[t] \in Nat
                          /\ got["owner"][t] = 0 /\ got["receiver"][t] = 0
    BY DEF Inv, Staged, FundsFollowOutcome, TypeOK, People
  <1>7. /\ escrow' \in [Tokens -> Nat] /\ produced' \in [Tokens -> Nat]
        /\ settled' \in BOOLEAN
    <2>1. CASE Completed(out, fee)
      <3>1. \A t \in Tokens : escrow[t] - paid[t] + out[t] = out[t]
        BY <1>1, <1>6
      <3>2. escrow' = [t \in Tokens |-> out[t]] /\ produced' = out
        BY <2>1, <3>1 DEF Completed
      <3> QED  BY <1>1, <2>1, <3>2 DEF Completed
    <2>2. CASE Cancelled(fee)
      BY <1>2, <2>2 DEF Cancelled, TypeOK
    <2> QED  BY <2>1, <2>2
  <1>8. gtReward' \in Nat /\ granted' = gtReward'
    BY <1>2
  <1>9. TypeOK'
    BY <1>2, <1>4, <1>5, <1>7, <1>8 DEF TypeOK, environment
  <1>10. Staged'
    BY <1>1, <1>5 DEF Completed, Cancelled, Inv, Staged
  <1>11. FundsFollowOutcome'
    <2>1. CASE Completed(out, fee)
      BY <1>1, <1>6, <2>1 DEF Completed, FundsFollowOutcome
    <2>2. CASE Cancelled(fee)
      BY <2>2 DEF Cancelled, Inv, FundsFollowOutcome
    <2> QED  BY <2>1, <2>2
  <1>12. NothingStranded' /\ KeeperPaidWithinBudget'
    BY <1>4, <1>5 DEF NothingStranded, KeeperPaidWithinBudget
  <1>13. ReferralPaidOnce'
    BY <1>2, <1>8, NoReward DEF ReferralPaidOnce, ReferrerReward
  <1> QED  BY <1>9, <1>10, <1>11, <1>12, <1>13 DEF Inv

(* Executing an action of any kind, with success or not, keeps the         *)
(* invariant.                                                              *)
LEMMA ExecuteInv ==
    ASSUME Inv, ExecuteAny
    PROVE  Inv'
  <1> PICK out \in OutputAmounts, fee \in Fees, gt \in Rewards :
         \/ ExecuteDeposit(out, fee)
         \/ ExecuteWithdrawal(out, fee)
         \/ ExecuteShift(out, fee)
         \/ ExecuteIncreaseOrSwapOrder(out, fee, gt)
         \/ ExecuteDecreaseOrder(out, fee, gt)
    BY DEF ExecuteAny
  <1>1. gt \in Nat
    BY AmountsAssumption
  <1>2. CASE \/ ExecuteDeposit(out, fee) \/ ExecuteWithdrawal(out, fee)
             \/ ExecuteShift(out, fee)
    <2>1. /\ Settle(out, fee) /\ st = "pending"
          /\ \A t \in Tokens : escrow[t] >= paid[t]
          /\ UNCHANGED <<gtReward, granted>>
          /\ UNCHANGED <<shape, unwrap, open, budget, environment, paid, got,
                         referral>>
      BY <1>2 DEF ExecuteDeposit, ExecuteWithdrawal, ExecuteShift, TransferIn,
                  Executable, environment
    <2> QED  BY <1>1, <2>1, OutcomeInv DEF Settle
  <1>3. ASSUME SettleOrder(out, fee, gt), st = "pending",
               \A t \in Tokens : escrow[t] >= paid[t]
        PROVE  Inv'
    <2>1. /\ \/ Completed(out, fee) /\ gtReward' = gt /\ granted' = granted + gt
             \/ Cancelled(fee) /\ UNCHANGED <<gtReward, granted>>
          /\ UNCHANGED <<shape, unwrap, open, budget, environment, paid, got,
                         referral>>
      BY <1>3 DEF SettleOrder, ProcessGt
    <2> QED  BY <1>1, <1>3, <2>1, OutcomeInv
  <1>4. CASE ExecuteIncreaseOrSwapOrder(out, fee, gt)
    BY <1>3, <1>4 DEF ExecuteIncreaseOrSwapOrder, TransferIn, Executable
  <1>5. CASE ExecuteDecreaseOrder(out, fee, gt)
    <2>1. st = "pending" /\ shape.kind = "decrease" /\ SettleOrder(out, fee, gt)
      BY <1>5 DEF ExecuteDecreaseOrder, Executable
    <2>2. shape.ins = <<>>
      BY <2>1, DistinctAssumption DEF Inv, Staged
    <2>3. TokensIn(shape.ins) = {}
      BY <2>2 DEF TokensIn
    <2>4. \A t \in Tokens : escrow[t] >= paid[t]
      <3> TAKE t \in Tokens
      <3>1. paid[t] = 0
        BY <2>3 DEF Inv, Staged
      <3>2. escrow[t] \in Nat
        BY DEF Inv, TypeOK
      <3> QED  BY <3>1, <3>2
    <2> QED  BY <1>3, <2>1, <2>4
  <1> QED  BY <1>2, <1>4, <1>5

-----------------------------------------------------------------------------
(* The invariant holds before the action is created.                       *)
LEMMA InitInv == ASSUME Init PROVE Inv
  <1>1. TypeOK
    BY DEF Init, TypeOK, NoTokens, AtaStates, Features
  <1>2. Staged
    BY DEF Init, Staged, NoTokens
  <1>3. FundsFollowOutcome
    <2>1. /\ settled = FALSE
          /\ \A t \in Tokens : /\ escrow[t] = 0 /\ paid[t] = 0
                              /\ got["owner"][t] = 0 /\ got["receiver"][t] = 0
      BY DEF Init, NoTokens, People
    <2>2. ~settled /\ \A t \in Tokens : got["owner"][t] + escrow[t] = paid[t]
      BY <2>1
    <2> QED  BY <2>1, <2>2 DEF FundsFollowOutcome
  <1>4. NothingStranded /\ KeeperPaidWithinBudget
    BY DEF Init, NothingStranded, KeeperPaidWithinBudget
  <1>5. ReferralPaidOnce
    BY NoReward DEF Init, ReferralPaidOnce
  <1> QED  BY <1>1, <1>2, <1>3, <1>4, <1>5 DEF Inv

(* Steps that leave the books alone.                                       *)
LEMMA IdleInv ==
    ASSUME Inv, TypeOK',
           st' = st \/ (st = "pending" /\ st' = "cancelled"),
           st = "closed" => open' = open,
           UNCHANGED <<shape, escrow, budget, lamports, gtReward, history>>
    PROVE  Inv'
  <1>1. Staged'
    BY DEF Inv, Staged, history
  <1>2. FundsFollowOutcome'
    BY DEF Inv, FundsFollowOutcome, history
  <1>3. NothingStranded' /\ KeeperPaidWithinBudget'
    BY DEF Inv, Staged, NothingStranded, KeeperPaidWithinBudget, Escrows, history
  <1>4. ReferralPaidOnce'
    BY DEF Inv, ReferralPaidOnce, ReferrerReward, history
  <1> QED  BY <1>1, <1>2, <1>3, <1>4 DEF Inv

(* Every step of the owner, a keeper or the environment keeps the          *)
(* invariant.                                                              *)
LEMMA NextInv == ASSUME Inv, [Next]_vars PROVE Inv'
  <1> TypeOK
    BY DEF Inv
  <1>1. CASE CreateAny
    BY <1>1, CreateInv DEF CreateAny, CreateDeposit, CreateWithdrawal,
                           CreateShift, CreateOrder
  <1>2. CASE ExecuteAny
    BY <1>2, ExecuteInv
  <1>3. CASE CancelOrderIfNoPosition
    <2>1. TypeOK'
      BY <1>3 DEF CancelOrderIfNoPosition, TypeOK, environment, history
    <2> QED  BY <1>3, <2>1, IdleInv DEF CancelOrderIfNoPosition
  <1>4. CASE OwnerClose
    BY <1>4, CloseInv DEF OwnerClose
  <1>5. CASE KeeperClose
    BY <1>5, CloseInv DEF KeeperClose
  <1>6. ASSUME NEW t \in Tokens, PrepareEscrow(t) PROVE Inv'
    <2>1. TypeOK'
      BY <1>6 DEF PrepareEscrow, TypeOK, environment, history
    <2> QED  BY <1>6, <2>1, IdleInv DEF PrepareEscrow
  <1>7. CASE ClusterRestart \/ UpdateLastRestartedSlot
    <2>1. TypeOK'
      BY <1>7 DEF ClusterRestart, UpdateLastRestartedSlot, TypeOK, history
    <2> QED  BY <1>7, <2>1, IdleInv DEF ClusterRestart, UpdateLastRestartedSlot
  <1>8. ASSUME NEW f \in Toggles, ToggleFeature(f) PROVE Inv'
    <2>1. TypeOK'
      <3>1. enabled' \subseteq Features
        BY <1>8, TogglesAssumption DEF ToggleFeature, TypeOK, Features
      <3> QED  BY <1>8, <3>1 DEF ToggleFeature, TypeOK, history
    <2> QED  BY <1>8, <2>1, IdleInv DEF ToggleFeature
  <1>9. ASSUME NEW p \in People, NEW t \in Tokens, NEW a \in AtaChanges,
               SetAta(p, t, a)
        PROVE  Inv'
    <2>1. a \in AtaStates
      BY <1>9 DEF SetAta, AtaStates
    <2>2. ata' \in [People -> [Tokens -> AtaStates]]
      BY <1>9, <2>1 DEF SetAta, TypeOK
    <2>3. TypeOK'
      BY <1>9, <2>2 DEF SetAta, TypeOK, history
    <2> QED  BY <1>9, <2>3, IdleInv DEF SetAta
  <1>10. CASE UNCHANGED vars
    <2>1. TypeOK'
      BY <1>10 DEF vars, TypeOK
    <2> QED  BY <1>10, <2>1, IdleInv DEF vars, history
  <1> QED  BY <1>1, <1>2, <1>3, <1>4, <1>5, <1>6, <1>7, <1>8, <1>9, <1>10
           DEF Next, Program, Environment

(* The conjunction of the properties below, with the state of the action   *)
(* they depend on, is an invariant of every instruction on an action.      *)
THEOREM Invariance == Spec => []Inv
  BY InitInv, NextInv, PTL DEF Spec

(* Whatever the shape of the action, whoever closes it and in how many     *)
(* attempts, the owner gets back exactly the input of an action that was   *)
(* not completed and the receiver exactly the output of one that was.      *)
THEOREM FundsCorrect == Spec => []FundsFollowOutcome
  <1>1. Inv => FundsFollowOutcome
    BY DEF Inv
  <1> QED  BY <1>1, Invariance, PTL

(* A closed action has emptied and closed all of its escrows.              *)
THEOREM NothingLeftBehind == Spec => []NothingStranded
  <1>1. Inv => NothingStranded
    BY DEF Inv
  <1> QED  BY <1>1, Invariance, PTL

(* Keepers are paid at most the budget, and only for an outcome.           *)
THEOREM KeeperFeesCorrect == Spec => []KeeperPaidWithinBudget
  <1>1. Inv => KeeperPaidWithinBudget
    BY DEF Inv
  <1> QED  BY <1>1, Invariance, PTL

(* Repeated closes mint the referrer's reward once.                        *)
THEOREM ReferralCorrect == Spec => []ReferralPaidOnce
  <1>1. Inv => ReferralPaidOnce
    BY DEF Inv
  <1> QED  BY <1>1, Invariance, PTL
=============================================================================
