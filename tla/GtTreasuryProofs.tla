-------------------------- MODULE GtTreasuryProofs --------------------------
(***************************************************************************)
(* What is proved about GT and its buyback, for any users, tokens,         *)
(* treasuries, amounts and factors: the invariants of the store's          *)
(* GtExchange, that the treasury program uses the store as GtExchange      *)
(* allows, and the invariants of the treasury's banks.                     *)
(***************************************************************************)
EXTENDS GtTreasury, NumberTheorems

-----------------------------------------------------------------------------
(* The store: types.                                                       *)

GtStates == [minted : Nat, steps : Nat, cost : Nat, supply : Nat, vault : Nat]
UserStates == [rank : 0..Cardinality(Ranks), minted : Nat, amount : Nat,
               paidFee : Nat, mintedFee : Nat]
VaultStates == [init : BOOLEAN, confirmed : BOOLEAN, amount : Nat]
ExchangeStates == [open : BOOLEAN, amount : Nat]

StoreTypeOK ==
    /\ now \in Nat
    /\ gt \in GtStates
    /\ user \in [Users -> UserStates]
    /\ reward \in [Users -> Nat]
    /\ vault \in [Windows -> VaultStates]
    /\ exchange \in [Windows -> [Users -> ExchangeStates]]

LEMMA WindowsFinite == IsFiniteSet(Windows)
<1>1. WindowAt(MaxTime) \in Nat
  BY NumbersAssumption, Quotient DEF WindowAt
<1> QED BY <1>1, FS_Interval DEF Windows

LEMMA RankOfType == \A amount \in Nat : RankOf(amount) \in 0..Cardinality(Ranks)
<1> TAKE amount \in Nat
<1> DEFINE Reached == {r \in Ranks : r <= amount}
<1>1. IsFiniteSet(Reached) /\ Cardinality(Reached) <= Cardinality(Ranks)
  BY RanksAssumption, FS_Subset
<1>2. Cardinality(Reached) \in Nat /\ Cardinality(Ranks) \in Nat
  BY <1>1, RanksAssumption, FS_CardinalityType
<1> QED BY <1>1, <1>2 DEF RankOf

LEMMA ApplyFactorType == \A value, factor \in Nat : ApplyFactor(value, factor) \in Nat
BY NumbersAssumption, Quotient DEF ApplyFactor

LEMMA MintedType ==
  ASSUME NEW g \in GtStates, NEW amount \in Nat, CanMint(g, amount)
  PROVE  Minted(g, amount) \in GtStates
<1>1. NextCost(g, amount) \in Nat
  BY NumbersAssumption DEF CanMint
<1>2. g.minted + amount \in Nat /\ g.supply + amount \in Nat
  BY DEF GtStates
<1>3. NextSteps(g, amount) \in Nat
  BY <1>2, NumbersAssumption, Quotient DEF NextSteps
<1> QED BY <1>1, <1>2, <1>3 DEF Minted, GtStates

LEMMA ReceivesType ==
  ASSUME NEW r \in UserStates, NEW amount \in Nat
  PROVE  Receives(r, amount) \in UserStates
<1>1. r.amount + amount \in Nat /\ r.minted + amount \in Nat
  BY DEF UserStates
<1>2. RankOf(r.amount + amount) \in 0..Cardinality(Ranks)
  BY <1>1, RankOfType
<1> QED BY <1>1, <1>2 DEF Receives, UserStates

LEMMA BurntType ==
  ASSUME NEW r \in UserStates, NEW amount \in Nat, amount <= r.amount
  PROVE  Burnt(r, amount) \in UserStates
<1>1. r.amount - amount \in Nat
  BY DEF UserStates
<1>2. RankOf(r.amount - amount) \in 0..Cardinality(Ranks)
  BY <1>1, RankOfType
<1> QED BY <1>1, <1>2 DEF Burnt, UserStates

LEMMA FeeRecordedType ==
  ASSUME NEW r \in UserStates, NEW paid \in Nat, NEW more \in Nat
  PROVE  [r EXCEPT !.paidFee = paid, !.mintedFee = @ + more] \in UserStates
<1>1. r.mintedFee + more \in Nat
  BY DEF UserStates
<1> QED BY <1>1 DEF UserStates

\* What an order mints: the amount and the fee it is minted for.
LEMMA ProcessGtAmounts ==
  ASSUME StoreTypeOK, NEW u \in Users, NEW fee \in Fees, gt.cost # 0,
         user[u].mintedFee <= Min({user[u].paidFee + fee, MaxValue})
  PROVE  LET paid == Min({user[u].paidFee + fee, MaxValue})
             value == paid - user[u].mintedFee
         IN  /\ paid \in Nat /\ value \in Nat
             /\ value \div gt.cost \in Nat
             /\ MintedValue(value, gt.cost) = (value \div gt.cost) * gt.cost
             /\ value - MintedValue(value, gt.cost) \in 0..(gt.cost - 1)
<1> DEFINE paid == Min({user[u].paidFee + fee, MaxValue})
           value == paid - user[u].mintedFee
<1>1. /\ user[u].paidFee \in Nat /\ user[u].mintedFee \in Nat
      /\ gt.cost \in Nat \ {0}
      /\ fee \in Nat /\ MaxValue \in Nat
  BY NumbersAssumption DEF StoreTypeOK, UserStates, GtStates
<1>2. paid \in Nat
  BY <1>1, MinOfTwo
<1>3. value \in Nat
  BY <1>1, <1>2
<1> HIDE DEF paid, value
<1>4. /\ value \div gt.cost \in Nat
      /\ value % gt.cost \in Nat /\ value % gt.cost < gt.cost
      /\ value - (value % gt.cost) = (value \div gt.cost) * gt.cost
  BY <1>1, <1>3, Quotient, Remainder
<1>5. MintedValue(value, gt.cost) = (value \div gt.cost) * gt.cost
  BY <1>4 DEF MintedValue
<1>6. value - MintedValue(value, gt.cost) \in 0..(gt.cost - 1)
  BY <1>1, <1>3, <1>4 DEF MintedValue
<1> QED BY <1>2, <1>3, <1>4, <1>5, <1>6 DEF paid, value

LEMMA StoreTypeInit == Init => StoreTypeOK
<1> SUFFICES ASSUME Init PROVE StoreTypeOK
  OBVIOUS
<1>1. Cardinality(Ranks) \in Nat
  BY RanksAssumption, FS_CardinalityType
<1>2. gt \in GtStates
  BY NumbersAssumption DEF Init, GtStates
<1>3. user \in [Users -> UserStates]
  BY <1>1 DEF Init, UserStates
<1> QED BY <1>2, <1>3 DEF Init, StoreTypeOK, NoVault, NoExchange, VaultStates, ExchangeStates

LEMMA StoreTypeStep == StoreTypeOK /\ [Next]_storeVars => StoreTypeOK'
<1> SUFFICES ASSUME StoreTypeOK, [Next]_storeVars PROVE StoreTypeOK'
  OBVIOUS
<1> USE DEF StoreTypeOK
<1>1. ASSUME NEW u \in Users, NEW fee \in Fees, ProcessGt(u, fee)
      PROVE  StoreTypeOK'
  <2> DEFINE paid == Min({user[u].paidFee + fee, MaxValue})
             value == paid - user[u].mintedFee
             amount == value \div gt.cost
  <2>1. /\ paid \in Nat /\ value \in Nat /\ amount \in Nat
        /\ MintedValue(value, gt.cost) \in Nat
    BY <1>1, ProcessGtAmounts DEF ProcessGt, GtStates
  <2>2. /\ CanMint(gt, amount) /\ gt' = Minted(gt, amount)
        /\ user' = [user EXCEPT ![u] =
             [Receives(user[u], amount) EXCEPT
                 !.paidFee = paid,
                 !.mintedFee = @ + MintedValue(value, gt.cost)]]
        /\ reward' = [reward EXCEPT ![u] = amount]
        /\ UNCHANGED <<now, vault, exchange>>
    BY <1>1 DEF ProcessGt
  <2> HIDE DEF paid, value, amount
  <2>3. gt' \in GtStates
    BY <2>1, <2>2, MintedType
  <2>4. Receives(user[u], amount) \in UserStates
    BY <2>1, ReceivesType
  <2> DEFINE new == [Receives(user[u], amount) EXCEPT
                       !.paidFee = paid,
                       !.mintedFee = @ + MintedValue(value, gt.cost)]
  <2>5. user' \in [Users -> UserStates]
    <3>1. new \in UserStates
      BY <2>1, <2>4, FeeRecordedType
    <3>2. user' = [user EXCEPT ![u] = new]
      BY <2>2
    <3> HIDE DEF new
    <3> QED BY <3>1, <3>2
  <2> QED BY <2>1, <2>2, <2>3, <2>5
<1>2. ASSUME NEW u \in Users, ProcessGtReward(u)
      PROVE  StoreTypeOK'
  <2> DEFINE r == Referrer[u]
             amount == IF r = NoUser THEN 0
                       ELSE ApplyFactor(reward[u], RewardFactor[user[r].rank])
  <2>1. amount \in Nat
    <3>1. CASE r = NoUser
      BY <3>1
    <3>2. CASE r # NoUser
      <4>1. user[r].rank \in 0..Cardinality(Ranks)
        BY <3>2, UsersAssumption DEF UserStates
      <4>2. RewardFactor[user[r].rank] \in Nat
        BY <4>1, RanksAssumption
      <4> QED BY <3>2, <4>2, ApplyFactorType
    <3> QED BY <3>1, <3>2
  <2>2. /\ CanMint(gt, amount) /\ gt' = Minted(gt, amount)
        /\ user' = [v \in Users |-> IF v = r THEN Receives(user[v], amount) ELSE user[v]]
        /\ reward' = [reward EXCEPT ![u] = 0]
        /\ UNCHANGED <<now, vault, exchange>>
    BY <1>2 DEF ProcessGtReward
  <2> HIDE DEF amount
  <2>3. gt' \in GtStates
    BY <2>1, <2>2, MintedType
  <2>4. user' \in [Users -> UserStates]
    BY <2>1, <2>2, ReceivesType
  <2> QED BY <2>2, <2>3, <2>4
<1>3. ASSUME PrepareVault PROVE StoreTypeOK'
  BY <1>3 DEF PrepareVault, VaultStates
<1>4. ASSUME NEW u \in Users, NEW w \in Windows, NEW amount \in 0..user[u].amount,
             RequestExchange(u, w, amount)
      PROVE  StoreTypeOK'
  <2>1. amount \in Nat /\ amount <= user[u].amount /\ amount <= gt.supply
    BY <1>4 DEF RequestExchange, UserStates
  <2>2. gt' \in GtStates
    BY <1>4, <2>1 DEF RequestExchange, GtStates
  <2>3. user' \in [Users -> UserStates]
    BY <1>4, <2>1, BurntType DEF RequestExchange
  <2>4. vault' \in [Windows -> VaultStates]
    BY <1>4, <2>1, SMTT(30) DEF RequestExchange, VaultStates
  <2>5. exchange' \in [Windows -> [Users -> ExchangeStates]]
    BY <1>4, <2>1 DEF RequestExchange, ExchangeStates
  <2> QED BY <1>4, <2>2, <2>3, <2>4, <2>5 DEF RequestExchange
<1>5. ASSUME Tick PROVE StoreTypeOK'
  BY <1>5 DEF Tick
<1>6. ASSUME NEW w \in Windows, ConfirmVault(w) PROVE StoreTypeOK'
  <2>1. vault' \in [Windows -> VaultStates]
    BY <1>6 DEF ConfirmVault, VaultStates
  <2>2. gt' \in GtStates
    BY <1>6 DEF ConfirmVault, VaultStates, GtStates
  <2> QED BY <1>6, <2>1, <2>2 DEF ConfirmVault
<1>7. ASSUME NEW u \in Users, NEW w \in Windows, CloseExchange(u, w) PROVE StoreTypeOK'
  BY <1>7 DEF CloseExchange, NoExchange, ExchangeStates
<1>8. ASSUME UNCHANGED storeVars PROVE StoreTypeOK'
  BY <1>8 DEF storeVars
<1> QED BY <1>1, <1>2, <1>3, <1>4, <1>5, <1>6, <1>7, <1>8 DEF Next, UserNext

\* The state of the store stays well typed: no amount, count or cost is ever
\* negative, and a rank is one of the ranks (states/gt.rs).
THEOREM StoreTypeCorrect == Spec => []StoreTypeOK
BY StoreTypeInit, StoreTypeStep, PTL DEF Spec

-----------------------------------------------------------------------------
(* The store: no GT is made or lost.                                       *)

LEMMA MintedFields ==
  ASSUME NEW g \in GtStates, NEW amount \in Nat
  PROVE  /\ Minted(g, amount).minted = g.minted + amount
         /\ Minted(g, amount).supply = g.supply + amount
         /\ Minted(g, amount).vault = g.vault
BY DEF Minted, GtStates

LEMMA ReceivesFields ==
  ASSUME NEW r \in UserStates, NEW amount \in Nat
  PROVE  /\ Receives(r, amount).minted = r.minted + amount
         /\ Receives(r, amount).amount = r.amount + amount
         /\ Receives(r, amount).paidFee = r.paidFee
         /\ Receives(r, amount).mintedFee = r.mintedFee
BY DEF Receives, UserStates

LEMMA BurntFields ==
  ASSUME NEW r \in UserStates, NEW amount \in Nat
  PROVE  /\ Burnt(r, amount).minted = r.minted
         /\ Burnt(r, amount).amount = r.amount - amount
         /\ Burnt(r, amount).paidFee = r.paidFee
         /\ Burnt(r, amount).mintedFee = r.mintedFee
BY DEF Burnt, UserStates

\* What each step does to the user it is about, to gt and to the vaults.
LEMMA ProcessGtEffect ==
  ASSUME StoreTypeOK, NEW u \in Users, NEW fee \in Fees, ProcessGt(u, fee)
  PROVE  \E amount \in Nat, paid \in Nat :
            /\ gt.cost # 0
            /\ CanMint(gt, amount)
            /\ gt' = Minted(gt, amount)
            /\ user'[u].minted = user[u].minted + amount
            /\ user'[u].amount = user[u].amount + amount
            /\ user'[u].paidFee = paid
            /\ user'[u].mintedFee = user[u].mintedFee + amount * gt.cost
            /\ paid - user'[u].mintedFee \in 0..(gt.cost - 1)
            /\ \A v \in Users \ {u} : user'[v] = user[v]
            /\ UNCHANGED <<now, vault, exchange>>
<1> DEFINE paid == Min({user[u].paidFee + fee, MaxValue})
           value == paid - user[u].mintedFee
           amount == value \div gt.cost
<1>1. /\ gt.cost # 0 /\ CanMint(gt, amount) /\ gt' = Minted(gt, amount)
      /\ user[u].mintedFee <= paid
      /\ user' = [user EXCEPT ![u] =
             [Receives(user[u], amount) EXCEPT
                 !.paidFee = paid,
                 !.mintedFee = @ + MintedValue(value, gt.cost)]]
      /\ UNCHANGED <<now, vault, exchange>>
  BY DEF ProcessGt
<1>2. /\ paid \in Nat /\ value \in Nat /\ amount \in Nat
      /\ MintedValue(value, gt.cost) = amount * gt.cost
      /\ value - MintedValue(value, gt.cost) \in 0..(gt.cost - 1)
  BY <1>1, ProcessGtAmounts
<1>3. user[u] \in UserStates /\ gt.cost \in Nat
  BY DEF StoreTypeOK, GtStates
<1>4. value = paid - user[u].mintedFee
  OBVIOUS
<1> HIDE DEF paid, value, amount
<1> DEFINE got == Receives(user[u], amount)
           new == [got EXCEPT !.paidFee = paid, !.mintedFee = @ + MintedValue(value, gt.cost)]
<1>5. got \in UserStates
  BY <1>2, <1>3, ReceivesType
<1>6. /\ new.minted = got.minted /\ new.amount = got.amount
      /\ new.paidFee = paid /\ new.mintedFee = got.mintedFee + amount * gt.cost
  BY <1>2, <1>5 DEF UserStates
<1>7. user' = [user EXCEPT ![u] = new]
  BY <1>1
<1>8. user'[u] = new /\ \A v \in Users \ {u} : user'[v] = user[v]
  BY <1>7 DEF StoreTypeOK
<1>9. /\ got.minted = user[u].minted + amount
      /\ got.amount = user[u].amount + amount
      /\ got.mintedFee = user[u].mintedFee
  BY <1>2, <1>3, ReceivesFields
<1>10. paid - user'[u].mintedFee \in 0..(gt.cost - 1)
  <2>1. user[u].mintedFee \in Nat
    BY <1>3 DEF UserStates
  <2>2. MintedValue(value, gt.cost) \in Nat
    BY <1>2, <1>3
  <2>3. user'[u].mintedFee = user[u].mintedFee + MintedValue(value, gt.cost)
    BY <1>2, <1>6, <1>8, <1>9
  <2> QED BY <1>2, <1>3, <1>4, <2>1, <2>2, <2>3
<1>11. /\ user'[u].minted = user[u].minted + amount
       /\ user'[u].amount = user[u].amount + amount
       /\ user'[u].paidFee = paid
       /\ user'[u].mintedFee = user[u].mintedFee + amount * gt.cost
  BY <1>6, <1>8, <1>9
<1> QED BY <1>1, <1>2, <1>8, <1>10, <1>11

LEMMA ProcessGtRewardEffect ==
  ASSUME StoreTypeOK, NEW u \in Users, ProcessGtReward(u)
  PROVE  /\ UNCHANGED <<now, vault, exchange>>
         /\ \/ UNCHANGED <<gt, user>>
            \/ \E amount \in Nat, r \in Users :
                 /\ r = Referrer[u]
                 /\ CanMint(gt, amount)
                 /\ gt' = Minted(gt, amount)
                 /\ user'[r].minted = user[r].minted + amount
                 /\ user'[r].amount = user[r].amount + amount
                 /\ user'[r].paidFee = user[r].paidFee
                 /\ user'[r].mintedFee = user[r].mintedFee
                 /\ \A v \in Users \ {r} : user'[v] = user[v]
<1> DEFINE r == Referrer[u]
           amount == IF r = NoUser THEN 0
                     ELSE ApplyFactor(reward[u], RewardFactor[user[r].rank])
<1>1. /\ CanMint(gt, amount) /\ gt' = Minted(gt, amount)
      /\ user' = [v \in Users |-> IF v = r THEN Receives(user[v], amount) ELSE user[v]]
      /\ UNCHANGED <<now, vault, exchange>>
  BY DEF ProcessGtReward
<1>2. CASE r = NoUser
  <2>1. amount = 0 /\ r \notin Users
    BY <1>2, UsersAssumption
  <2>2. gt' = gt
    BY <1>1, <2>1 DEF Minted
  <2>3. user' = user
    BY <1>1, <2>1 DEF StoreTypeOK
  <2> QED BY <1>1, <2>2, <2>3
<1>3. CASE r # NoUser
  <2>1. r \in Users
    BY <1>3, UsersAssumption
  <2>2. user[r] \in UserStates /\ reward[u] \in Nat
    BY <2>1 DEF StoreTypeOK
  <2>3. RewardFactor[user[r].rank] \in Nat
    BY <2>2, RanksAssumption DEF UserStates
  <2>4. amount \in Nat
    BY <1>3, <2>2, <2>3, ApplyFactorType
  <2> HIDE DEF amount
  <2>5. user'[r] = Receives(user[r], amount) /\ \A v \in Users \ {r} : user'[v] = user[v]
    BY <1>1, <2>1
  <2> QED BY <1>1, <2>1, <2>2, <2>4, <2>5, ReceivesFields
<1> QED BY <1>2, <1>3

LEMMA RequestExchangeEffect ==
  ASSUME StoreTypeOK, NEW u \in Users, NEW w \in Windows, NEW amount \in 0..user[u].amount,
         RequestExchange(u, w, amount)
  PROVE  /\ amount \in Nat
         /\ ~vault[w].confirmed
         /\ gt' = [gt EXCEPT !.supply = @ - amount]
         /\ user'[u].minted = user[u].minted
         /\ user'[u].amount = user[u].amount - amount
         /\ user'[u].paidFee = user[u].paidFee
         /\ user'[u].mintedFee = user[u].mintedFee
         /\ \A v \in Users \ {u} : user'[v] = user[v]
         /\ vault'[w].amount = vault[w].amount + amount
         /\ vault'[w].confirmed = vault[w].confirmed
         /\ \A v \in Windows \ {w} : vault'[v] = vault[v] /\ exchange'[v] = exchange[v]
         /\ exchange'[w][u].amount = exchange[w][u].amount + amount
         /\ \A v \in Users \ {u} : exchange'[w][v] = exchange[w][v]
<1>1. /\ Depositable(w)
      /\ gt' = [gt EXCEPT !.supply = @ - amount]
      /\ user' = [user EXCEPT ![u] = Burnt(@, amount)]
      /\ vault' = [vault EXCEPT ![w].amount = @ + amount]
      /\ exchange' = [exchange EXCEPT ![w][u] =
                        [open |-> TRUE, amount |-> @.amount + amount]]
  BY DEF RequestExchange
<1>2. amount \in Nat /\ user[u] \in UserStates /\ vault[w] \in VaultStates
  BY DEF StoreTypeOK, UserStates
<1>3. user'[u] = Burnt(user[u], amount) /\ \A v \in Users \ {u} : user'[v] = user[v]
  BY <1>1 DEF StoreTypeOK
<1>4. /\ vault'[w].amount = vault[w].amount + amount
      /\ vault'[w].confirmed = vault[w].confirmed
      /\ \A v \in Windows \ {w} : vault'[v] = vault[v]
  BY <1>1, <1>2 DEF StoreTypeOK, VaultStates
<1>5. /\ exchange'[w][u].amount = exchange[w][u].amount + amount
      /\ \A v \in Users \ {u} : exchange'[w][v] = exchange[w][v]
      /\ \A v \in Windows \ {w} : exchange'[v] = exchange[v]
  BY <1>1, <1>2 DEF StoreTypeOK
<1> QED BY <1>1, <1>2, <1>3, <1>4, <1>5, BurntFields DEF Depositable

\* A step that is about one user changes the two sums over the users by what
\* it changes of that user; the same for a window and for an exchange.
LEMMA UserSums ==
  ASSUME StoreTypeOK, StoreTypeOK', NEW u \in Users, \A v \in Users \ {u} : user'[v] = user[v]
  PROVE  /\ SumFunction([v \in Users |-> user[v].amount])' =
               SumFunction([v \in Users |-> user[v].amount]) + (user'[u].amount - user[u].amount)
         /\ SumFunction([v \in Users |-> user[v].minted])' =
               SumFunction([v \in Users |-> user[v].minted]) + (user'[u].minted - user[u].minted)
<1>1. IsFiniteSet(Users)
  BY UsersAssumption
<1> DEFINE f == [v \in Users |-> user[v].amount]
           g == [v \in Users |-> user'[v].amount]
           h == [v \in Users |-> user[v].minted]
           i == [v \in Users |-> user'[v].minted]
<1>2. f \in [Users -> Int] /\ g \in [Users -> Int] /\ h \in [Users -> Int] /\ i \in [Users -> Int]
  BY DEF StoreTypeOK, UserStates
<1>3. /\ \A v \in Users \ {u} : g[v] = f[v] /\ i[v] = h[v]
      /\ f[u] = user[u].amount /\ g[u] = user'[u].amount
      /\ h[u] = user[u].minted /\ i[u] = user'[u].minted
  OBVIOUS
<1> HIDE DEF f, g, h, i
<1>4. SumFunction(g) = SumFunction(f) + (g[u] - f[u])
  BY <1>1, <1>2, <1>3, SumFunctionChange
<1>5. SumFunction(i) = SumFunction(h) + (i[u] - h[u])
  BY <1>1, <1>2, <1>3, SumFunctionChange
<1> QED BY <1>3, <1>4, <1>5 DEF f, g, h, i

LEMMA VaultSum ==
  ASSUME StoreTypeOK, StoreTypeOK', NEW w \in Windows,
         \A v \in Windows \ {w} : vault'[v] = vault[v]
  PROVE  SumFunction([v \in Windows |-> vault[v].amount])' =
            SumFunction([v \in Windows |-> vault[v].amount]) + (vault'[w].amount - vault[w].amount)
<1> DEFINE f == [v \in Windows |-> vault[v].amount]
           g == [v \in Windows |-> vault'[v].amount]
<1>1. f \in [Windows -> Int] /\ g \in [Windows -> Int]
  BY DEF StoreTypeOK, VaultStates
<1>2. /\ \A v \in Windows \ {w} : g[v] = f[v]
      /\ f[w] = vault[w].amount /\ g[w] = vault'[w].amount
  OBVIOUS
<1> HIDE DEF f, g
<1>3. SumFunction(g) = SumFunction(f) + (g[w] - f[w])
  BY <1>1, <1>2, WindowsFinite, SumFunctionChange
<1> QED BY <1>2, <1>3 DEF f, g, Windows

LEMMA ExchangedSum ==
  ASSUME StoreTypeOK, StoreTypeOK', NEW w \in Windows, NEW u \in Users,
         \A v \in Users \ {u} : exchange'[w][v] = exchange[w][v]
  PROVE  Exchanged(w)' =
            Exchanged(w) + (exchange'[w][u].amount - exchange[w][u].amount)
<1> DEFINE f == [v \in Users |-> exchange[w][v].amount]
           g == [v \in Users |-> exchange'[w][v].amount]
<1>1. f \in [Users -> Int] /\ g \in [Users -> Int]
  BY DEF StoreTypeOK, ExchangeStates
<1>2. /\ \A v \in Users \ {u} : g[v] = f[v]
      /\ f[u] = exchange[w][u].amount /\ g[u] = exchange'[w][u].amount
  OBVIOUS
<1> HIDE DEF f, g
<1>3. SumFunction(g) = SumFunction(f) + (g[u] - f[u])
  BY <1>1, <1>2, UsersAssumption, SumFunctionChange
<1> QED BY <1>2, <1>3 DEF f, g, Exchanged

LEMMA ExchangedNat ==
  ASSUME StoreTypeOK, NEW w \in Windows
  PROVE  Exchanged(w) \in Nat /\ \A u \in Users : exchange[w][u].amount <= Exchanged(w)
<1> DEFINE f == [v \in Users |-> exchange[w][v].amount]
<1>1. f \in [Users -> Nat] /\ \A u \in Users : f[u] = exchange[w][u].amount
  BY DEF StoreTypeOK, ExchangeStates
<1> HIDE DEF f
<1>2. SumFunction(f) \in Nat /\ \A u \in Users : f[u] <= SumFunction(f)
  BY <1>1, UsersAssumption, SumFunctionNat
<1> QED BY <1>1, <1>2 DEF Exchanged, f

\* The sum over the confirmed vaults, as long as no vault is confirmed.
LEMMA ConfirmedSumSame ==
  ASSUME Confirmed' = Confirmed, \A w \in Confirmed : vault'[w].amount = vault[w].amount
  PROVE  SumFunction([w \in Confirmed |-> vault[w].amount])' =
            SumFunction([w \in Confirmed |-> vault[w].amount])
<1>1. [w \in Confirmed' |-> vault'[w].amount] = [w \in Confirmed |-> vault[w].amount]
  OBVIOUS
<1> QED BY <1>1

\* And when one is.
LEMMA ConfirmedSumAdds ==
  ASSUME StoreTypeOK, NEW w \in Windows, ~vault[w].confirmed,
         Confirmed' = Confirmed \cup {w}, \A v \in Windows : vault'[v].amount = vault[v].amount
  PROVE  SumFunction([v \in Confirmed |-> vault[v].amount])' =
            SumFunction([v \in Confirmed |-> vault[v].amount]) + vault[w].amount
<1> DEFINE f == [v \in Confirmed |-> vault[v].amount]
           g == [v \in Confirmed' |-> vault'[v].amount]
<1>1. Confirmed \subseteq Windows /\ Confirmed' \subseteq Windows /\ w \notin Confirmed
  BY DEF Confirmed
<1>2. IsFiniteSet(Confirmed) /\ IsFiniteSet(Confirmed')
  BY <1>1, WindowsFinite, FS_Subset
<1>3. /\ \A v \in Confirmed' : g[v] \in Int
      /\ \A v \in Confirmed : f[v] \in Int
      /\ w \in Confirmed' /\ g[w] = vault[w].amount /\ vault[w].amount \in Int
  BY <1>1 DEF StoreTypeOK, VaultStates
<1>4. Confirmed' \ {w} = Confirmed
  BY <1>1
<1>5. \A v \in Confirmed : g[v] = f[v]
  BY <1>1
<1>6. DOMAIN f = Confirmed /\ DOMAIN g = Confirmed'
  OBVIOUS
<1>7. SumFunction([v \in Confirmed |-> vault[v].amount])' = SumFunction(g)
  OBVIOUS
<1>8. SumFunction([v \in Confirmed |-> vault[v].amount]) = SumFunction(f)
  OBVIOUS
<1> HIDE DEF f, g
<1>9. SumFunctionOnSet(g, Confirmed') = g[w] + SumFunctionOnSet(g, Confirmed' \ {w})
  BY <1>2, <1>3, SumRemove
<1>10. SumFunctionOnSet(g, Confirmed) = SumFunctionOnSet(f, Confirmed)
  BY <1>2, <1>5, SumSame
<1>11. SumFunctionOnSet(f, Confirmed) \in Int
  BY <1>2, <1>3, SumInt
<1>12. SumFunction(g) = SumFunctionOnSet(g, Confirmed') /\ SumFunction(f) = SumFunctionOnSet(f, Confirmed)
  BY <1>6 DEF SumFunction
<1>13. SumFunctionOnSet(g, Confirmed') = g[w] + SumFunctionOnSet(f, Confirmed)
  BY <1>4, <1>9, <1>10
<1>14. SumFunction(g) = vault[w].amount + SumFunction(f)
  BY <1>3, <1>12, <1>13
<1>15. SumFunction(g) = SumFunction(f) + vault[w].amount
  BY <1>3, <1>11, <1>12, <1>14
<1> QED BY <1>7, <1>8, <1>15

LEMMA SumsInt ==
  ASSUME StoreTypeOK
  PROVE  /\ SumFunction([u \in Users |-> user[u].amount]) \in Int
         /\ SumFunction([u \in Users |-> user[u].minted]) \in Int
         /\ SumFunction([w \in Windows |-> vault[w].amount]) \in Int
<1> DEFINE f == [u \in Users |-> user[u].amount]
           g == [u \in Users |-> user[u].minted]
           h == [w \in Windows |-> vault[w].amount]
<1>1. f \in [Users -> Nat] /\ g \in [Users -> Nat] /\ h \in [Windows -> Nat]
  BY DEF StoreTypeOK, UserStates, VaultStates
<1> HIDE DEF f, g, h
<1>2. SumFunction(f) \in Nat /\ SumFunction(g) \in Nat /\ SumFunction(h) \in Nat
  BY <1>1, UsersAssumption, WindowsFinite, SumFunctionNat
<1> QED BY <1>2 DEF f, g, h

LEMMA GtConservedInit == Init => GtConserved
<1> SUFFICES ASSUME Init PROVE GtConserved
  OBVIOUS
<1> DEFINE f == [u \in Users |-> user[u].amount]
           g == [u \in Users |-> user[u].minted]
           h == [w \in Windows |-> vault[w].amount]
           c == [w \in Confirmed |-> vault[w].amount]
<1>1. f \in [Users -> {0}] /\ g \in [Users -> {0}] /\ h \in [Windows -> {0}]
  BY DEF Init, NoVault
<1>2. Confirmed = {} /\ c \in [Confirmed -> {0}]
  BY DEF Init, NoVault, Confirmed
<1> HIDE DEF f, g, h, c
<1>3. SumFunction(f) = 0 /\ SumFunction(g) = 0 /\ SumFunction(h) = 0
  BY <1>1, UsersAssumption, WindowsFinite, SumFunctionZero
<1>4. SumFunction(c) = 0
  BY <1>2, FS_EmptySet, SumFunctionZero
<1> QED BY <1>3, <1>4 DEF GtConserved, Init, f, g, h, c

LEMMA GtConservedStep ==
  StoreTypeOK /\ StoreTypeOK' /\ GtConserved /\ [Next]_storeVars => GtConserved'
<1> SUFFICES ASSUME StoreTypeOK, StoreTypeOK', GtConserved, [Next]_storeVars
             PROVE  GtConserved'
  OBVIOUS
<1> DEFINE amounts == SumFunction([u \in Users |-> user[u].amount])
           mints == SumFunction([u \in Users |-> user[u].minted])
           stored == SumFunction([w \in Windows |-> vault[w].amount])
           confirmed == SumFunction([w \in Confirmed |-> vault[w].amount])
<1>1. /\ amounts \in Int /\ mints \in Int /\ stored \in Int
      /\ gt \in GtStates /\ gt' \in GtStates
  BY SumsInt DEF StoreTypeOK
<1>2. /\ gt.supply = amounts /\ gt.minted = gt.supply + stored
      /\ gt.minted = mints /\ gt.vault = confirmed
  BY DEF GtConserved
<1>3. SUFFICES /\ gt'.supply = amounts' /\ gt'.minted = gt'.supply + stored'
               /\ gt'.minted = mints' /\ gt'.vault = confirmed'
  BY DEF GtConserved
<1> HIDE DEF amounts, mints, stored, confirmed
<1>4. ASSUME vault' = vault PROVE stored' = stored /\ confirmed' = confirmed
  BY <1>4 DEF stored, confirmed, Confirmed, Windows
<1>5. ASSUME user' = user PROVE amounts' = amounts /\ mints' = mints
  BY <1>5 DEF amounts, mints
<1>6. ASSUME NEW amount \in Nat, gt' = Minted(gt, amount), NEW u \in Users,
             user'[u].minted = user[u].minted + amount,
             user'[u].amount = user[u].amount + amount,
             \A v \in Users \ {u} : user'[v] = user[v], vault' = vault
      PROVE  /\ gt'.supply = amounts' /\ gt'.minted = gt'.supply + stored'
             /\ gt'.minted = mints' /\ gt'.vault = confirmed'
  <2>1. /\ gt'.minted = gt.minted + amount /\ gt'.supply = gt.supply + amount
        /\ gt'.vault = gt.vault
    BY <1>1, <1>6, MintedFields
  <2>2. /\ amounts' = amounts + (user'[u].amount - user[u].amount)
        /\ mints' = mints + (user'[u].minted - user[u].minted)
    BY <1>6, UserSums DEF amounts, mints
  <2>3. user[u].amount \in Nat /\ user[u].minted \in Nat
    BY DEF StoreTypeOK, UserStates
  <2>4. amounts' = amounts + amount /\ mints' = mints + amount
    BY <1>1, <1>6, <2>2, <2>3
  <2> QED BY <1>1, <1>2, <1>4, <1>6, <2>1, <2>4
<1>7. ASSUME NEW u \in Users, NEW fee \in Fees, ProcessGt(u, fee)
      PROVE  /\ gt'.supply = amounts' /\ gt'.minted = gt'.supply + stored'
             /\ gt'.minted = mints' /\ gt'.vault = confirmed'
  BY <1>6, <1>7, ProcessGtEffect
<1>8. ASSUME NEW u \in Users, ProcessGtReward(u)
      PROVE  /\ gt'.supply = amounts' /\ gt'.minted = gt'.supply + stored'
             /\ gt'.minted = mints' /\ gt'.vault = confirmed'
  <2>1. CASE UNCHANGED <<gt, user, vault>>
    BY <2>1, <1>2, <1>4, <1>5
  <2> QED BY <1>6, <1>8, <2>1, ProcessGtRewardEffect
<1>9. ASSUME PrepareVault
      PROVE  /\ gt'.supply = amounts' /\ gt'.minted = gt'.supply + stored'
             /\ gt'.minted = mints' /\ gt'.vault = confirmed'
  <2>1. gt' = gt /\ user' = user /\ vault' = [vault EXCEPT ![WindowAt(now)].init = TRUE]
    BY <1>9 DEF PrepareVault
  <2>2. \A w \in Windows : /\ vault'[w].amount = vault[w].amount
                           /\ vault'[w].confirmed = vault[w].confirmed
    BY <2>1 DEF StoreTypeOK, VaultStates
  <2>3. [w \in Windows |-> vault'[w].amount] = [w \in Windows |-> vault[w].amount]
    BY <2>2
  <2>4. stored' = stored
    BY <2>3 DEF stored, Windows
  <2>5. Confirmed' = Confirmed
    BY <2>2 DEF Confirmed, Windows
  <2>6. confirmed' = confirmed
    BY <2>2, <2>5, ConfirmedSumSame DEF confirmed, Confirmed
  <2> QED BY <1>2, <1>5, <2>1, <2>4, <2>6
<1>10. ASSUME NEW u \in Users, NEW w \in Windows, NEW amount \in 0..user[u].amount,
              RequestExchange(u, w, amount)
       PROVE  /\ gt'.supply = amounts' /\ gt'.minted = gt'.supply + stored'
              /\ gt'.minted = mints' /\ gt'.vault = confirmed'
  <2>1. /\ amount \in Nat
        /\ ~vault[w].confirmed
        /\ gt' = [gt EXCEPT !.supply = @ - amount]
        /\ user'[u].minted = user[u].minted
        /\ user'[u].amount = user[u].amount - amount
        /\ \A v \in Users \ {u} : user'[v] = user[v]
        /\ vault'[w].amount = vault[w].amount + amount
        /\ vault'[w].confirmed = vault[w].confirmed
        /\ \A v \in Windows \ {w} : vault'[v] = vault[v]
    BY <1>10, RequestExchangeEffect
  <2>2. /\ gt'.minted = gt.minted /\ gt'.supply = gt.supply - amount
        /\ gt'.vault = gt.vault
    BY <1>1, <2>1 DEF GtStates
  <2>3. /\ amounts' = amounts + (user'[u].amount - user[u].amount)
        /\ mints' = mints + (user'[u].minted - user[u].minted)
    BY <2>1, UserSums DEF amounts, mints
  <2>4. stored' = stored + (vault'[w].amount - vault[w].amount)
    BY <2>1, VaultSum DEF stored
  <2>5. user[u].amount \in Nat /\ user[u].minted \in Nat /\ vault[w].amount \in Nat
    BY DEF StoreTypeOK, UserStates, VaultStates
  <2>6. amounts' = amounts - amount /\ mints' = mints /\ stored' = stored + amount
    BY <1>1, <2>1, <2>3, <2>4, <2>5
  <2>7. Confirmed' = Confirmed
    BY <2>1 DEF Confirmed, Windows
  <2>8. confirmed' = confirmed
    BY <2>1, <2>7, ConfirmedSumSame DEF confirmed, Confirmed
  <2>9. gt.minted \in Int /\ gt.supply \in Int
    BY <1>1 DEF GtStates
  <2> QED BY <1>1, <1>2, <2>1, <2>2, <2>6, <2>8, <2>9
<1>11. ASSUME NEW w \in Windows, ConfirmVault(w)
       PROVE  /\ gt'.supply = amounts' /\ gt'.minted = gt'.supply + stored'
              /\ gt'.minted = mints' /\ gt'.vault = confirmed'
  <2>1. /\ ~vault[w].confirmed
        /\ vault' = [vault EXCEPT ![w].confirmed = TRUE]
        /\ gt' = [gt EXCEPT !.vault = @ + vault[w].amount]
        /\ user' = user
    BY <1>11 DEF ConfirmVault, Confirmable
  <2>2. /\ \A v \in Windows : vault'[v].amount = vault[v].amount
        /\ \A v \in Windows \ {w} : vault'[v] = vault[v]
        /\ vault'[w].confirmed
    BY <2>1 DEF StoreTypeOK, VaultStates
  <2>3. gt'.minted = gt.minted /\ gt'.supply = gt.supply /\ gt'.vault = gt.vault + vault[w].amount
    BY <1>1, <2>1 DEF GtStates
  <2>4. [v \in Windows |-> vault'[v].amount] = [v \in Windows |-> vault[v].amount]
    BY <2>2
  <2>5. stored' = stored
    BY <2>4 DEF stored, Windows
  <2>6. Confirmed' = Confirmed \cup {w}
    BY <2>2 DEF Confirmed, Windows
  <2>7. confirmed' = confirmed + vault[w].amount
    BY <2>1, <2>2, <2>6, ConfirmedSumAdds DEF confirmed
  <2> QED BY <1>2, <1>5, <2>1, <2>3, <2>5, <2>7
<1>12. CASE Tick \/ (\E u \in Users, w \in Windows : CloseExchange(u, w)) \/ UNCHANGED storeVars
  <2>1. UNCHANGED <<gt, user, vault>>
    BY <1>12 DEF Tick, CloseExchange, storeVars
  <2> QED BY <2>1, <1>2, <1>4, <1>5
<1> QED BY <1>7, <1>8, <1>9, <1>10, <1>11, <1>12 DEF Next, UserNext

\* Every GT ever minted is held by a user or was put into a vault, and
\* gt_vault counts each confirmed vault once: whatever users mint, request and
\* close, and whichever vaults are confirmed (states/gt.rs).
THEOREM GtIsConserved == Spec => []GtConserved
BY StoreTypeCorrect, GtConservedInit, GtConservedStep, PTL DEF Spec

-----------------------------------------------------------------------------
(* The store: vaults cover their exchanges.                                *)

LEMMA VaultCoversInit == Init => VaultCoversExchanges
<1> SUFFICES ASSUME Init, NEW w \in Windows PROVE Exchanged(w) = 0
  BY DEF VaultCoversExchanges, Init, NoVault
<1> DEFINE f == [u \in Users |-> exchange[w][u].amount]
<1>1. f \in [Users -> {0}]
  BY DEF Init, NoExchange
<1> HIDE DEF f
<1>2. SumFunction(f) = 0
  BY <1>1, UsersAssumption, SumFunctionZero
<1> QED BY <1>2 DEF Exchanged, f

LEMMA VaultCoversStep ==
  StoreTypeOK /\ StoreTypeOK' /\ VaultCoversExchanges /\ [Next]_storeVars => VaultCoversExchanges'
<1> DEFINE Covered(v) == IF vault[v].confirmed THEN Exchanged(v) <= vault[v].amount
                         ELSE Exchanged(v) = vault[v].amount
<1> SUFFICES ASSUME StoreTypeOK, StoreTypeOK', VaultCoversExchanges, [Next]_storeVars,
                    NEW v \in Windows
             PROVE  Covered(v)'
  BY DEF VaultCoversExchanges, Windows
<1>1. Covered(v) /\ Exchanged(v) \in Nat /\ Exchanged(v)' \in Nat /\ vault[v] \in VaultStates
  <2>1. Exchanged(v) \in Nat
    BY ExchangedNat
  <2>2. Exchanged(v)' \in Nat
    <3> DEFINE f == [u \in Users |-> exchange'[v][u].amount]
    <3>1. f \in [Users -> Nat]
      BY DEF StoreTypeOK, ExchangeStates
    <3> HIDE DEF f
    <3>2. SumFunction(f) \in Nat
      BY <3>1, UsersAssumption, SumFunctionNat
    <3> QED BY <3>2 DEF f, Exchanged
  <2> QED BY <2>1, <2>2 DEF VaultCoversExchanges, StoreTypeOK
<1>2. ASSUME vault'[v].amount = vault[v].amount, vault'[v].confirmed = vault[v].confirmed,
             exchange'[v] = exchange[v]
      PROVE  Covered(v)'
  <2>1. Exchanged(v)' = Exchanged(v)
    BY <1>2 DEF Exchanged
  <2> QED BY <1>1, <1>2, <2>1
<1>3. ASSUME UNCHANGED <<vault, exchange>> PROVE Covered(v)'
  BY <1>2, <1>3
<1>4. ASSUME PrepareVault PROVE Covered(v)'
  <2>1. /\ vault'[v].amount = vault[v].amount /\ vault'[v].confirmed = vault[v].confirmed
        /\ exchange' = exchange
    BY <1>4, <1>1 DEF PrepareVault, StoreTypeOK, VaultStates
  <2> QED BY <1>2, <2>1
<1>5. ASSUME NEW u \in Users, NEW w \in Windows, NEW amount \in 0..user[u].amount,
             RequestExchange(u, w, amount)
      PROVE  Covered(v)'
  <2>1. /\ amount \in Nat
        /\ ~vault[w].confirmed
        /\ vault'[w].amount = vault[w].amount + amount
        /\ vault'[w].confirmed = vault[w].confirmed
        /\ \A x \in Windows \ {w} : vault'[x] = vault[x] /\ exchange'[x] = exchange[x]
        /\ exchange'[w][u].amount = exchange[w][u].amount + amount
        /\ \A x \in Users \ {u} : exchange'[w][x] = exchange[w][x]
    BY <1>5, RequestExchangeEffect
  <2>2. CASE v # w
    BY <1>2, <2>1, <2>2
  <2>3. CASE v = w
    <3>1. Exchanged(w)' = Exchanged(w) + (exchange'[w][u].amount - exchange[w][u].amount)
      BY <2>1, ExchangedSum
    <3>2. exchange[w][u].amount \in Nat
      BY DEF StoreTypeOK, ExchangeStates
    <3>3. Exchanged(w)' = Exchanged(w) + amount
      BY <1>1, <2>1, <2>3, <3>1, <3>2
    <3> QED BY <1>1, <2>1, <2>3, <3>3
  <2> QED BY <2>2, <2>3
<1>6. ASSUME NEW w \in Windows, ConfirmVault(w) PROVE Covered(v)'
  <2>1. /\ vault' = [vault EXCEPT ![w].confirmed = TRUE] /\ exchange' = exchange
        /\ ~vault[w].confirmed
    BY <1>6 DEF ConfirmVault, Confirmable
  <2>2. vault'[v].amount = vault[v].amount
    BY <2>1 DEF StoreTypeOK, VaultStates
  <2>3. CASE v # w
    <3>1. vault'[v] = vault[v]
      BY <2>1, <2>3 DEF StoreTypeOK
    <3> QED BY <1>2, <2>1, <3>1
  <2>4. CASE v = w
    <3>1. Exchanged(v)' = Exchanged(v)
      BY <2>1 DEF Exchanged
    <3>2. vault'[v].confirmed
      BY <2>1, <2>4 DEF StoreTypeOK, VaultStates
    <3>3. Exchanged(v) = vault[v].amount
      BY <1>1, <2>1, <2>4
    <3> QED BY <1>1, <2>2, <3>1, <3>2, <3>3
  <2> QED BY <2>3, <2>4
<1>7. ASSUME NEW u \in Users, NEW w \in Windows, CloseExchange(u, w) PROVE Covered(v)'
  <2>1. /\ vault' = vault /\ vault[w].confirmed
        /\ exchange' = [exchange EXCEPT ![w][u] = NoExchange]
    BY <1>7 DEF CloseExchange
  <2>2. CASE v # w
    <3>1. exchange'[v] = exchange[v]
      BY <2>1, <2>2 DEF StoreTypeOK
    <3> QED BY <1>2, <2>1, <3>1
  <2>3. CASE v = w
    <3>1. /\ exchange'[w][u].amount = 0
          /\ \A x \in Users \ {u} : exchange'[w][x] = exchange[w][x]
      BY <2>1 DEF StoreTypeOK, NoExchange
    <3>2. Exchanged(w)' = Exchanged(w) + (exchange'[w][u].amount - exchange[w][u].amount)
      BY <3>1, ExchangedSum
    <3>3. exchange[w][u].amount \in Nat
      BY DEF StoreTypeOK, ExchangeStates
    <3>4. Exchanged(v)' <= Exchanged(v)
      BY <1>1, <2>3, <3>1, <3>2, <3>3
    <3>5. Exchanged(v)' <= vault[v].amount
      BY <1>1, <2>1, <2>3, <3>4 DEF VaultStates
    <3> QED BY <2>1, <2>3, <3>5
  <2> QED BY <2>2, <2>3
<1>8. ASSUME NEW u \in Users, NEW fee \in Fees, ProcessGt(u, fee) PROVE Covered(v)'
  <2> HIDE DEF Covered
  <2> QED BY <1>3, <1>8 DEF ProcessGt
<1>9. ASSUME NEW u \in Users, ProcessGtReward(u) PROVE Covered(v)'
  <2> HIDE DEF Covered
  <2> QED BY <1>3, <1>9 DEF ProcessGtReward
<1>10. ASSUME Tick \/ UNCHANGED storeVars PROVE Covered(v)'
  <2> HIDE DEF Covered
  <2> QED BY <1>3, <1>10 DEF Tick, storeVars
<1> HIDE DEF Covered
<1> QED BY <1>4, <1>5, <1>6, <1>7, <1>8, <1>9, <1>10 DEF Next, UserNext

\* The exchanges of a vault never claim more than the vault was confirmed
\* with, and exactly that until it is (unchecked_request_exchange).
THEOREM VaultsCoverExchanges == Spec => []VaultCoversExchanges
BY StoreTypeCorrect, VaultCoversInit, VaultCoversStep, PTL DEF Spec

-----------------------------------------------------------------------------
(* The store: the minting cost.  CostAfter is a recursive function; that   *)
(* it is well defined is shown for longer and longer initial segments.     *)

CostStep(cost, h, i) == IF i = 0 THEN cost ELSE ApplyFactor(h[i - 1], GrowFactor)
Costs(cost, n, h) == h = [i \in 0..n |-> CostStep(cost, h, i)]

LEMMA CostsExist == \A n \in Nat : \A cost : \E h : Costs(cost, n, h)
<1> DEFINE Bad == {n \in Nat : ~\A cost : \E h : Costs(cost, n, h)}
<1> SUFFICES ASSUME Bad # {} PROVE FALSE
  OBVIOUS
<1>1. PICK n \in Bad : \A m \in Bad : n <= m
  BY LeastNatural
<1>2. CASE n = 0
  <2> SUFFICES ASSUME NEW cost PROVE \E h : Costs(cost, n, h)
    OBVIOUS
  <2> DEFINE h == [i \in 0..0 |-> cost]
  <2>1. \A i \in 0..0 : CostStep(cost, h, i) = cost
    BY DEF CostStep
  <2>2. Costs(cost, n, h)
    BY <1>2, <2>1 DEF Costs
  <2> QED BY <2>2
<1>3. CASE n # 0
  <2> SUFFICES ASSUME NEW cost PROVE \E h : Costs(cost, n, h)
    OBVIOUS
  <2>1. n - 1 \in Nat /\ n - 1 \notin Bad
    <3>1. n \in Nat
      OBVIOUS
    <3> HIDE DEF Bad
    <3> QED BY <1>1, <1>3, <3>1
  <2>2. PICK g : Costs(cost, n - 1, g)
    BY <2>1
  <2> DEFINE h == [i \in 0..n |-> CostStep(cost, g, i)]
  <2> HIDE DEF h
  <2>3. \A i \in 0..(n - 1) : h[i] = g[i]
    BY <2>2 DEF Costs, h
  <2>4. \A i \in 0..n : i # 0 => i - 1 \in 0..(n - 1)
    OBVIOUS
  <2>5. \A i \in 0..n : CostStep(cost, h, i) = CostStep(cost, g, i)
    BY <2>3, <2>4 DEF CostStep
  <2>6. Costs(cost, n, h)
    BY <2>5 DEF Costs, h
  <2> QED BY <2>6
<1> QED BY <1>2, <1>3

LEMMA CostsAgree ==
  ASSUME NEW n \in Nat, NEW m \in 0..n, NEW cost,
         NEW h, Costs(cost, n, h), NEW g, Costs(cost, m, g)
  PROVE  \A i \in 0..m : h[i] = g[i]
<1> DEFINE Bad == {i \in 0..m : h[i] # g[i]}
<1> SUFFICES ASSUME Bad # {} PROVE FALSE
  OBVIOUS
<1>1. Bad \subseteq Nat
  OBVIOUS
<1>2. PICK i \in Bad : \A j \in Bad : i <= j
  <2> HIDE DEF Bad
  <2> QED BY <1>1, LeastNatural
<1>3. h[i] = CostStep(cost, h, i) /\ g[i] = CostStep(cost, g, i)
  <2>1. i \in 0..m /\ i \in 0..n
    OBVIOUS
  <2> QED BY <2>1 DEF Costs
<1>4. CASE i = 0
  BY <1>3, <1>4 DEF CostStep
<1>5. CASE i # 0
  <2>1. i - 1 \in 0..m /\ i - 1 \notin Bad
    BY <1>2, <1>5
  <2>2. h[i - 1] = g[i - 1]
    BY <2>1
  <2> QED BY <1>3, <1>5, <2>2 DEF CostStep
<1> QED BY <1>4, <1>5

LEMMA CostAfterAsCosts ==
  ASSUME NEW n \in Nat, NEW cost
  PROVE  \E h : Costs(cost, n, h) /\ CostAfter(cost, n) = h[n]
<1>1. \E h : Costs(cost, n, h)
  BY CostsExist
<1> QED BY <1>1, Zenon DEF CostAfter, Costs, CostStep

LEMMA CostAfterZero == \A cost : CostAfter(cost, 0) = cost
<1> TAKE cost
<1>1. PICK h : Costs(cost, 0, h) /\ CostAfter(cost, 0) = h[0]
  BY CostAfterAsCosts
<1> QED BY <1>1 DEF Costs, CostStep

LEMMA CostAfterNext ==
  ASSUME NEW n \in Nat, NEW cost
  PROVE  CostAfter(cost, n + 1) = ApplyFactor(CostAfter(cost, n), GrowFactor)
<1>1. PICK h : Costs(cost, n + 1, h) /\ CostAfter(cost, n + 1) = h[n + 1]
  BY CostAfterAsCosts
<1>2. PICK g : Costs(cost, n, g) /\ CostAfter(cost, n) = g[n]
  BY CostAfterAsCosts
<1>3. h[n] = g[n]
  BY <1>1, <1>2, CostsAgree
<1>4. h[n + 1] = CostStep(cost, h, n + 1)
  BY <1>1 DEF Costs
<1>5. n + 1 # 0 /\ (n + 1) - 1 = n
  OBVIOUS
<1> QED BY <1>1, <1>2, <1>3, <1>4, <1>5 DEF CostStep

\* Growing by m steps and then by n is growing by m + n steps: rounding at
\* every step makes the order of the mintings irrelevant.
LEMMA CostAfterComposes ==
  ASSUME NEW cost, NEW m \in Nat
  PROVE  \A n \in Nat : CostAfter(CostAfter(cost, m), n) = CostAfter(cost, m + n)
<1> DEFINE Bad == {n \in Nat : CostAfter(CostAfter(cost, m), n) # CostAfter(cost, m + n)}
<1> SUFFICES ASSUME Bad # {} PROVE FALSE
  OBVIOUS
<1>1. PICK n \in Bad : \A k \in Bad : n <= k
  BY LeastNatural
<1>2. CASE n = 0
  BY <1>2, CostAfterZero
<1>3. CASE n # 0
  <2> DEFINE k == n - 1
  <2>1. k \in Nat /\ k \notin Bad /\ n = k + 1 /\ m + k \in Nat /\ m + n = (m + k) + 1
    BY <1>1, <1>3
  <2>2. CostAfter(CostAfter(cost, m), k) = CostAfter(cost, m + k)
    BY <2>1
  <2> HIDE DEF k
  <2>3. CostAfter(CostAfter(cost, m), k + 1) = ApplyFactor(CostAfter(CostAfter(cost, m), k), GrowFactor)
    BY <2>1, CostAfterNext
  <2>4. CostAfter(cost, (m + k) + 1) = ApplyFactor(CostAfter(cost, m + k), GrowFactor)
    BY <2>1, CostAfterNext
  <2> QED BY <2>1, <2>2, <2>3, <2>4
<1> QED BY <1>2, <1>3

\* With a grow factor of 1 or more the cost never falls.
LEMMA CostAfterGrows ==
  ASSUME GrowFactor >= Unit, NEW cost \in Nat
  PROVE  \A n \in Nat : CostAfter(cost, n) \in Nat /\ CostAfter(cost, n) >= cost
<1> DEFINE Bad == {n \in Nat : ~(CostAfter(cost, n) \in Nat /\ CostAfter(cost, n) >= cost)}
<1> SUFFICES ASSUME Bad # {} PROVE FALSE
  OBVIOUS
<1>1. PICK n \in Bad : \A k \in Bad : n <= k
  BY LeastNatural
<1>2. CASE n = 0
  BY <1>2, CostAfterZero
<1>3. CASE n # 0
  <2> DEFINE k == n - 1
  <2>1. k \in Nat /\ k \notin Bad /\ n = k + 1
    BY <1>1, <1>3
  <2> DEFINE c == CostAfter(cost, k)
  <2>2. c \in Nat /\ c >= cost
    BY <2>1
  <2>3. CostAfter(cost, n) = (c * GrowFactor) \div Unit
    BY <2>1, CostAfterNext DEF ApplyFactor
  <2> HIDE DEF k, c
  <2>4. GrowFactor \in Nat /\ Unit \in Nat \ {0}
    BY NumbersAssumption
  <2>5. c * Unit <= c * GrowFactor /\ c * GrowFactor \in Nat
    BY <2>2, <2>4, ProductMonotone
  <2>6. (c * GrowFactor) \div Unit \in Nat /\ c <= (c * GrowFactor) \div Unit
    BY <2>2, <2>4, <2>5, Quotient, QuotientAtLeast
  <2> QED BY <2>2, <2>3, <2>6
<1> QED BY <1>2, <1>3

\* Every step leaves the minting state alone or mints some amount.
LEMMA StepMints ==
  ASSUME StoreTypeOK, [Next]_storeVars
  PROVE  \/ gt'.minted = gt.minted /\ gt'.steps = gt.steps /\ gt'.cost = gt.cost
         \/ \E amount \in Nat : gt' = Minted(gt, amount)
<1>0. gt \in GtStates
  BY DEF StoreTypeOK
<1>1. ASSUME NEW u \in Users, NEW fee \in Fees, ProcessGt(u, fee)
      PROVE  \E amount \in Nat : gt' = Minted(gt, amount)
  BY <1>1, ProcessGtEffect
<1>2. ASSUME NEW u \in Users, ProcessGtReward(u)
      PROVE  gt' = gt \/ \E amount \in Nat : gt' = Minted(gt, amount)
  BY <1>2, ProcessGtRewardEffect
<1>3. ASSUME NEW u \in Users, NEW w \in Windows, NEW amount \in 0..user[u].amount,
             RequestExchange(u, w, amount)
      PROVE  gt'.minted = gt.minted /\ gt'.steps = gt.steps /\ gt'.cost = gt.cost
  BY <1>0, <1>3 DEF RequestExchange, GtStates
<1>4. ASSUME NEW w \in Windows, ConfirmVault(w)
      PROVE  gt'.minted = gt.minted /\ gt'.steps = gt.steps /\ gt'.cost = gt.cost
  BY <1>0, <1>4 DEF ConfirmVault, GtStates
<1>5. CASE PrepareVault \/ Tick \/ (\E u \in Users, w \in Windows : CloseExchange(u, w))
             \/ UNCHANGED storeVars
  BY <1>5 DEF PrepareVault, Tick, CloseExchange, storeVars
<1> QED BY <1>1, <1>2, <1>3, <1>4, <1>5 DEF Next, UserNext

LEMMA CostFollowsInit == Init => CostFollowsTotalMinted
<1> SUFFICES ASSUME Init PROVE CostFollowsTotalMinted
  OBVIOUS
<1>1. 0 \div GrowStep = 0
  BY NumbersAssumption
<1> QED BY <1>1, CostAfterZero DEF Init, CostFollowsTotalMinted

LEMMA CostFollowsStep ==
  StoreTypeOK /\ CostFollowsTotalMinted /\ [Next]_storeVars => CostFollowsTotalMinted'
<1> SUFFICES ASSUME StoreTypeOK, CostFollowsTotalMinted, [Next]_storeVars
             PROVE  CostFollowsTotalMinted'
  OBVIOUS
<1>1. CASE gt'.minted = gt.minted /\ gt'.steps = gt.steps /\ gt'.cost = gt.cost
  BY <1>1 DEF CostFollowsTotalMinted
<1>2. ASSUME NEW amount \in Nat, gt' = Minted(gt, amount) PROVE CostFollowsTotalMinted'
  <2>1. CASE amount = 0
    BY <1>2, <2>1 DEF Minted, CostFollowsTotalMinted
  <2>2. CASE amount # 0
    <3>1. gt \in GtStates /\ gt.minted \in Nat /\ gt.steps \in Nat
      BY DEF StoreTypeOK, GtStates
    <3>2. /\ gt'.minted = gt.minted + amount
          /\ gt'.steps = NextSteps(gt, amount)
          /\ gt'.cost = NextCost(gt, amount)
      BY <1>2, <2>2, <3>1 DEF Minted, GtStates
    <3> DEFINE next == (gt.minted + amount) \div GrowStep
    <3>3. NextSteps(gt, amount) = next
      BY DEF NextSteps
    <3>4. next \in Nat /\ gt.steps <= next
      <4>1. /\ GrowStep \in Nat \ {0}
            /\ gt.steps * GrowStep <= gt.minted
            /\ gt.minted + amount \in Nat /\ gt.minted <= gt.minted + amount
        BY <3>1, NumbersAssumption, Quotient DEF CostFollowsTotalMinted
      <4>2. gt.steps * GrowStep <= gt.minted + amount
        BY <3>1, <4>1
      <4> QED BY <3>1, <4>1, <4>2, Quotient, QuotientAtLeast
    <3>5. gt.cost = CostAfter(InitialCost, gt.steps)
      BY DEF CostFollowsTotalMinted
    <3> HIDE DEF next
    <3>6. NextCost(gt, amount) = CostAfter(InitialCost, next)
      <4>1. CASE next = gt.steps
        BY <3>3, <3>5, <4>1 DEF NextCost
      <4>2. CASE next # gt.steps
        <5>1. next - gt.steps \in Nat /\ gt.steps + (next - gt.steps) = next
          BY <3>1, <3>4
        <5>2. CostAfter(CostAfter(InitialCost, gt.steps), next - gt.steps)
                = CostAfter(InitialCost, gt.steps + (next - gt.steps))
          BY <3>1, <5>1, CostAfterComposes
        <5> QED BY <3>3, <3>5, <4>2, <5>1, <5>2 DEF NextCost
      <4> QED BY <4>1, <4>2
    <3>7. gt'.steps = gt'.minted \div GrowStep /\ gt'.cost = CostAfter(InitialCost, gt'.minted \div GrowStep)
      BY <3>2, <3>3, <3>6 DEF next
    <3> QED BY <3>7 DEF CostFollowsTotalMinted
  <2> QED BY <2>1, <2>2
<1> QED BY <1>1, <1>2, StepMints

\* The minting cost is a function of the total ever minted, however it was
\* cut into orders and rewards and whatever was burnt (next_minting_cost).
THEOREM CostIsOfTotalMinted == Spec => []CostFollowsTotalMinted
BY StoreTypeCorrect, CostFollowsInit, CostFollowsStep, PTL DEF Spec

-----------------------------------------------------------------------------
(* The store: fees.                                                        *)

LEMMA CostNeverFalls ==
  ASSUME StoreTypeOK, CostFollowsTotalMinted, [Next]_storeVars, GrowFactor >= Unit
  PROVE  InitialCost <= gt.cost /\ gt.cost <= gt'.cost
<1>1. /\ gt \in GtStates /\ gt.cost \in Nat /\ gt.minted \in Nat /\ gt.steps \in Nat
      /\ InitialCost \in Nat /\ gt.minted \div GrowStep \in Nat
  BY NumbersAssumption, Quotient DEF StoreTypeOK, GtStates
<1>2. InitialCost <= gt.cost
  BY <1>1, CostAfterGrows DEF CostFollowsTotalMinted
<1>3. ASSUME NEW amount \in Nat, gt' = Minted(gt, amount) PROVE gt.cost <= gt'.cost
  <2>1. CASE amount = 0
    BY <1>1, <1>3, <2>1 DEF Minted
  <2>2. CASE amount # 0
    <3>1. gt'.cost = NextCost(gt, amount)
      BY <1>1, <1>3, <2>2 DEF Minted, GtStates
    <3>2. CASE NextSteps(gt, amount) = gt.steps
      BY <1>1, <3>1, <3>2 DEF NextCost
    <3>3. CASE NextSteps(gt, amount) # gt.steps
      <4>1. NextSteps(gt, amount) - gt.steps \in Nat
        <5>1. /\ GrowStep \in Nat \ {0}
              /\ gt.steps * GrowStep <= gt.minted
              /\ gt.minted + amount \in Nat /\ gt.minted <= gt.minted + amount
          BY <1>1, NumbersAssumption, Quotient DEF CostFollowsTotalMinted
        <5>2. gt.steps * GrowStep <= gt.minted + amount
          BY <1>1, <5>1
        <5>3. NextSteps(gt, amount) \in Nat /\ gt.steps <= NextSteps(gt, amount)
          BY <1>1, <5>1, <5>2, Quotient, QuotientAtLeast DEF NextSteps
        <5> QED BY <1>1, <5>3
      <4>2. NextCost(gt, amount) = CostAfter(gt.cost, NextSteps(gt, amount) - gt.steps)
        BY <3>3 DEF NextCost
      <4> QED BY <1>1, <3>1, <4>1, <4>2, CostAfterGrows
    <3> QED BY <3>2, <3>3
  <2> QED BY <2>1, <2>2
<1> QED BY <1>1, <1>2, <1>3, StepMints

LEMMA FeesMintedOnceStep ==
  StoreTypeOK /\ StoreTypeOK' /\ CostFollowsTotalMinted /\ FeesMintedOnce /\ [Next]_storeVars
    => FeesMintedOnce'
<1> DEFINE Once(v) == /\ user[v].mintedFee <= user[v].paidFee
                      /\ user[v].paidFee - user[v].mintedFee < gt.cost
                      /\ user[v].mintedFee <= user[v].minted * gt.cost
                      /\ (\A x \in Users : Referrer[x] # v) =>
                            user[v].minted * InitialCost <= user[v].mintedFee
<1> SUFFICES ASSUME StoreTypeOK, StoreTypeOK', CostFollowsTotalMinted, FeesMintedOnce,
                    [Next]_storeVars, GrowFactor >= Unit, InitialCost # 0, NEW v \in Users
             PROVE  Once(v)'
  BY DEF FeesMintedOnce
<1>1. Once(v)
  BY DEF FeesMintedOnce
<1>2. InitialCost <= gt.cost /\ gt.cost <= gt'.cost
  BY CostNeverFalls
<1>3. /\ user[v].minted \in Nat /\ user[v].mintedFee \in Nat /\ user[v].paidFee \in Nat
      /\ user'[v].minted \in Nat /\ user'[v].mintedFee \in Nat /\ user'[v].paidFee \in Nat
      /\ gt.cost \in Nat /\ gt'.cost \in Nat /\ InitialCost \in Nat
  BY NumbersAssumption DEF StoreTypeOK, UserStates, GtStates
\* The user's fees are as before, and no fewer GT were minted.
<1>4. ASSUME user'[v].mintedFee = user[v].mintedFee, user'[v].paidFee = user[v].paidFee,
             user[v].minted <= user'[v].minted,
             (\A x \in Users : Referrer[x] # v) => user'[v].minted = user[v].minted
      PROVE  Once(v)'
  <2>1. user[v].minted * gt.cost <= user'[v].minted * gt.cost
    BY <1>3, <1>4, ProductMonotone
  <2>2. user'[v].minted * gt.cost <= user'[v].minted * gt'.cost
    BY <1>2, <1>3, ProductMonotone
  <2>3. user[v].minted * gt.cost \in Nat /\ user'[v].minted * gt.cost \in Nat
        /\ user'[v].minted * gt'.cost \in Nat
    BY <1>3
  <2>4. user'[v].mintedFee <= user'[v].minted * gt'.cost
    BY <1>1, <1>3, <1>4, <2>1, <2>2, <2>3
  <2>5. user'[v].paidFee - user'[v].mintedFee < gt'.cost
    BY <1>1, <1>2, <1>3, <1>4
  <2> QED BY <1>1, <1>4, <2>4, <2>5
<1>5. ASSUME user'[v] = user[v] PROVE Once(v)'
  <2> HIDE DEF Once
  <2> QED BY <1>3, <1>4, <1>5
<1>6. ASSUME NEW u \in Users, NEW fee \in Fees, ProcessGt(u, fee) PROVE Once(v)'
  <2>1. PICK amount \in Nat, paid \in Nat :
            /\ user'[u].minted = user[u].minted + amount
            /\ user'[u].paidFee = paid
            /\ user'[u].mintedFee = user[u].mintedFee + amount * gt.cost
            /\ paid - user'[u].mintedFee \in 0..(gt.cost - 1)
            /\ \A x \in Users \ {u} : user'[x] = user[x]
    BY <1>6, ProcessGtEffect
  <2>2. CASE v # u
    <3> HIDE DEF Once
    <3> QED BY <1>5, <2>1, <2>2
  <2>3. CASE v = u
    <3>1. amount * gt.cost \in Nat /\ user[v].minted * gt.cost \in Nat
          /\ amount * InitialCost \in Nat /\ user[v].minted * InitialCost \in Nat
      BY <1>3
    <3>2. user'[v].minted * gt.cost = user[v].minted * gt.cost + amount * gt.cost
      BY <1>3, <2>1, <2>3
    <3>3. user'[v].minted * gt.cost <= user'[v].minted * gt'.cost
      BY <1>2, <1>3, ProductMonotone
    <3>4. user'[v].mintedFee <= user'[v].minted * gt'.cost
      <4>1. user'[v].mintedFee <= user'[v].minted * gt.cost
        BY <1>1, <1>3, <2>1, <2>3, <3>1, <3>2
      <4>2. user'[v].minted * gt.cost \in Nat /\ user'[v].minted * gt'.cost \in Nat
        BY <1>3
      <4> QED BY <1>3, <3>3, <4>1, <4>2
    <3>5. user'[v].mintedFee <= user'[v].paidFee /\ user'[v].paidFee - user'[v].mintedFee < gt'.cost
      BY <1>2, <1>3, <2>1, <2>3
    <3>6. ASSUME \A x \in Users : Referrer[x] # v
          PROVE  user'[v].minted * InitialCost <= user'[v].mintedFee
      <4>1. amount * InitialCost <= amount * gt.cost
        BY <1>2, <1>3, ProductMonotone
      <4>2. user'[v].minted * InitialCost = user[v].minted * InitialCost + amount * InitialCost
        BY <1>3, <2>1, <2>3
      <4>3. user[v].minted * InitialCost <= user[v].mintedFee
        BY <1>1, <3>6
      <4> QED BY <1>3, <2>1, <2>3, <3>1, <4>1, <4>2, <4>3
    <3> QED BY <3>4, <3>5, <3>6
  <2> QED BY <2>2, <2>3
<1>7. ASSUME NEW u \in Users, ProcessGtReward(u) PROVE Once(v)'
  <2> HIDE DEF Once
  <2>1. CASE user' = user
    BY <1>5, <2>1
  <2>2. ASSUME NEW amount \in Nat, NEW r \in Users, r = Referrer[u],
               user'[r].minted = user[r].minted + amount,
               user'[r].paidFee = user[r].paidFee,
               user'[r].mintedFee = user[r].mintedFee,
               \A x \in Users \ {r} : user'[x] = user[x]
        PROVE  Once(v)'
    <3>1. CASE v # r
      BY <1>5, <2>2, <3>1
    <3>2. CASE v = r
      <4>1. user[v].minted <= user'[v].minted
        BY <1>3, <2>2, <3>2
      <4>2. ~(\A x \in Users : Referrer[x] # v)
        BY <2>2, <3>2
      <4> QED BY <1>4, <2>2, <3>2, <4>1, <4>2
    <3> QED BY <3>1, <3>2
  <2> QED BY <1>7, <2>1, <2>2, ProcessGtRewardEffect
<1>8. ASSUME NEW u \in Users, NEW w \in Windows, NEW amount \in 0..user[u].amount,
             RequestExchange(u, w, amount)
      PROVE  Once(v)'
  <2>1. /\ user'[u].minted = user[u].minted
        /\ user'[u].paidFee = user[u].paidFee
        /\ user'[u].mintedFee = user[u].mintedFee
        /\ \A x \in Users \ {u} : user'[x] = user[x]
    BY <1>8, RequestExchangeEffect
  <2> HIDE DEF Once
  <2>2. CASE v = u
    <3>1. user[v].minted <= user'[v].minted
      BY <1>3, <2>1, <2>2
    <3> QED BY <1>4, <2>1, <2>2, <3>1
  <2> QED BY <1>5, <2>1, <2>2
<1>9. CASE \/ PrepareVault \/ Tick \/ UNCHANGED storeVars
           \/ \E w \in Windows : ConfirmVault(w)
           \/ \E u \in Users, w \in Windows : CloseExchange(u, w)
  <2>1. user' = user
    BY <1>9 DEF PrepareVault, Tick, storeVars, ConfirmVault, CloseExchange
  <2> HIDE DEF Once
  <2> QED BY <1>5, <2>1
<1> HIDE DEF Once
<1> QED BY <1>6, <1>7, <1>8, <1>9 DEF Next, UserNext

LEMMA FeesMintedOnceInit == Init => FeesMintedOnce
<1> SUFFICES ASSUME Init, InitialCost # 0, NEW u \in Users
             PROVE  /\ user[u].mintedFee = 0 /\ user[u].paidFee = 0 /\ user[u].minted = 0
                    /\ 0 < gt.cost /\ gt.cost \in Nat /\ InitialCost \in Nat
  <2>1. ASSUME NEW c \in Nat PROVE 0 * c = 0
    OBVIOUS
  <2> QED BY <2>1 DEF FeesMintedOnce
<1> QED BY NumbersAssumption DEF Init

\* No fee is minted for twice and none is forgotten, for whatever sequence of
\* orders, rewards and changes of the cost (unchecked_process_gt).
THEOREM FeesAreMintedOnce == Spec => []FeesMintedOnce
BY StoreTypeCorrect, CostIsOfTotalMinted, FeesMintedOnceInit, FeesMintedOnceStep, PTL DEF Spec

-----------------------------------------------------------------------------
(* The treasury: the store is used as GtExchange allows.                   *)

LEMMA TreasuryStepIsStoreStep == [TreasuryNext]_allVars => [Next]_storeVars
<1> SUFFICES ASSUME [TreasuryNext]_allVars PROVE [Next]_storeVars
  OBVIOUS
<1>1. CASE UserNext
  BY <1>1 DEF Next
<1>2. CASE AdminNext
  BY <1>2 DEF AdminNext, SetTreasuryVaultConfig, SetGtFactor, SetBuybackFactor,
             InsertToken, RemoveToken, ToggleTokenFlag, Configure
<1>3. ASSUME NEW T \in Treasuries, NEW w \in Windows, NEW price \in [Tokens -> Prices],
             ConfirmGtBuyback(T, w, price)
      PROVE  Next
  BY <1>3 DEF ConfirmGtBuyback, Next
<1>4. CASE \/ \E t \in Tokens, amount \in Revenue : ClaimFees(t, amount)
           \/ \E T \in Treasuries, w \in Windows : PrepareGtBank(T, w)
           \/ \E T \in Treasuries, w \in Windows, t \in Tokens :
                 DepositToTreasuryVault(T, w, t) \/ SyncGtBank(T, w, t)
           \/ \E T \in Treasuries, t \in Tokens :
                 \E amount \in 1..treasury[T][t] : WithdrawFromTreasuryVault(T, t, amount)
  <2>1. ASSUME NEW t, NEW amount, ClaimFees(t, amount) PROVE UNCHANGED storeVars
    BY <2>1 DEF ClaimFees
  <2>2. ASSUME NEW T, NEW w, PrepareGtBank(T, w) PROVE UNCHANGED storeVars
    BY <2>2 DEF PrepareGtBank
  <2>3. ASSUME NEW T, NEW w, NEW t, DepositToTreasuryVault(T, w, t) PROVE UNCHANGED storeVars
    BY <2>3 DEF DepositToTreasuryVault
  <2>4. ASSUME NEW T, NEW w, NEW t, SyncGtBank(T, w, t) PROVE UNCHANGED storeVars
    BY <2>4 DEF SyncGtBank
  <2>5. ASSUME NEW T, NEW t, NEW amount, WithdrawFromTreasuryVault(T, t, amount)
        PROVE  UNCHANGED storeVars
    BY <2>5 DEF WithdrawFromTreasuryVault
  <2> QED BY <1>4, <2>1, <2>2, <2>3, <2>4, <2>5
<1>5. ASSUME NEW T \in Treasuries, NEW w \in Windows, NEW u \in Users,
             CompleteGtExchange(T, w, u)
      PROVE  Next
  BY <1>5 DEF CompleteGtExchange, Next
<1>6. CASE UNCHANGED allVars
  BY <1>6 DEF allVars
<1> QED BY <1>1, <1>2, <1>3, <1>4, <1>5, <1>6 DEF TreasuryNext, KeeperNext

\* The treasury program takes no step that GtExchange does not allow, so what
\* is proved of the store holds with the treasury as its GT_CONTROLLER
\* (confirm_gt_buyback and complete_gt_exchange, the CPIs into the store).
THEOREM TreasuryUsesStore == TreasurySpec => Spec
BY TreasuryStepIsStoreStep, PTL DEF TreasurySpec, TreasuryInit, Spec

-----------------------------------------------------------------------------
(* The treasury: types.                                                    *)

Amounts == [Tokens -> Nat]
BankStates == [init : BOOLEAN, remaining : Nat, tokens : SUBSET Tokens, rec : Amounts]
QuoteStates == [by : Treasuries, price : Amounts, reserve : Amounts]

TreasuryTypeOK ==
    /\ authorized \in Treasuries
    /\ gtFactor \in 0..Unit
    /\ buybackFactor \in 0..Unit
    /\ flags \in [Treasuries -> [Tokens -> SUBSET Flags]]
    /\ receiver \in Amounts
    /\ treasury \in [Treasuries -> Amounts]
    /\ bank \in [Treasuries -> [Windows -> BankStates]]
    /\ held \in [Treasuries -> [Windows -> Amounts]]
    /\ quote \in [Windows -> QuoteStates]

LEMMA NothingType == Nothing \in Amounts
BY DEF Nothing, Amounts

LEMMA BankUpdates ==
  ASSUME NEW b \in BankStates, NEW ts \in SUBSET Tokens, NEW r \in Amounts, NEW n \in Nat
  PROVE  /\ [b EXCEPT !.init = TRUE] \in BankStates
         /\ [b EXCEPT !.remaining = n] \in BankStates
         /\ [b EXCEPT !.tokens = ts, !.rec = r] \in BankStates
         /\ [b EXCEPT !.remaining = n, !.rec = r] \in BankStates
         /\ [b EXCEPT !.rec = r] \in BankStates
BY DEF BankStates

LEMMA TreasuryTypeInit == TreasuryInit => TreasuryTypeOK
<1> SUFFICES ASSUME TreasuryInit PROVE TreasuryTypeOK
  OBVIOUS
<1>1. authorized \in Treasuries /\ gtFactor \in 0..Unit /\ buybackFactor \in 0..Unit
  BY TreasuriesAssumption, TreasuryNumbersAssumption DEF TreasuryInit
<1>2. flags \in [Treasuries -> [Tokens -> SUBSET Flags]]
  BY DEF TreasuryInit
<1>3. /\ receiver \in Amounts
      /\ treasury \in [Treasuries -> Amounts]
      /\ held \in [Treasuries -> [Windows -> Amounts]]
  BY NothingType DEF TreasuryInit
<1>4. NoBank \in BankStates
  BY NothingType DEF NoBank, BankStates
<1>5. NoQuote \in QuoteStates
  BY NothingType, TreasuriesAssumption DEF NoQuote, QuoteStates
<1>6. bank \in [Treasuries -> [Windows -> BankStates]] /\ quote \in [Windows -> QuoteStates]
  BY <1>4, <1>5 DEF TreasuryInit
<1> QED BY <1>1, <1>2, <1>3, <1>6 DEF TreasuryTypeOK

LEMMA SplitType ==
  ASSUME TreasuryTypeOK, NEW t \in Tokens
  PROVE  /\ ApplyFactor(receiver[t], gtFactor) \in Nat
         /\ ApplyFactor(receiver[t], gtFactor) <= receiver[t]
<1>1. receiver[t] \in Nat /\ gtFactor \in Nat /\ gtFactor <= Unit /\ Unit \in Nat \ {0}
  BY NumbersAssumption DEF TreasuryTypeOK, Amounts
<1>2. receiver[t] * gtFactor <= receiver[t] * Unit /\ receiver[t] * gtFactor \in Nat
  BY <1>1, ProductMonotone
<1> QED BY <1>1, <1>2, Quotient, QuotientAtMost DEF ApplyFactor

\* What a deposit adds, as a step on banks and balances.
LEMMA DepositEffect ==
  ASSUME TreasuryTypeOK, NEW T \in Treasuries, NEW w \in Windows, NEW t \in Tokens,
         DepositToTreasuryVault(T, w, t)
  PROVE  \E amount \in Nat :
            /\ amount <= receiver[t]
            /\ Depositable(w)
            /\ bank' = [bank EXCEPT ![T][w].tokens = @ \cup {t},
                                    ![T][w].rec[t] = @ + amount]
            /\ held' = [held EXCEPT ![T][w][t] = @ + amount]
            /\ treasury' = [treasury EXCEPT ![T][t] = @ + (receiver[t] - amount)]
            /\ receiver' = [receiver EXCEPT ![t] = 0]
            /\ UNCHANGED <<storeVars, config, quote>>
<1> DEFINE amount == ApplyFactor(receiver[t], gtFactor)
<1>1. amount \in Nat /\ amount <= receiver[t]
  BY SplitType
<1>2. /\ Depositable(w)
      /\ bank' = [bank EXCEPT ![T][w].tokens = @ \cup {t},
                              ![T][w].rec[t] = @ + amount]
      /\ held' = [held EXCEPT ![T][w][t] = @ + amount]
      /\ treasury' = [treasury EXCEPT ![T][t] = @ + (receiver[t] - amount)]
      /\ receiver' = [receiver EXCEPT ![t] = 0]
      /\ UNCHANGED <<storeVars, config, quote>>
  BY DEF DepositToTreasuryVault
<1> HIDE DEF amount
<1> QED BY <1>1, <1>2

\* What the rounded share of a claim leaves of a record.
LEMMA ShareBounds ==
  ASSUME NEW rec \in Nat, NEW amount \in Nat, NEW rem \in Nat \ {0}, amount <= rem
  PROVE  LET share == (rec * amount) \div rem
         IN  /\ share \in Nat /\ share <= rec
             /\ rec * (rem - amount) <= (rec - share) * rem
             /\ amount = rem => share = rec
<1> DEFINE share == (rec * amount) \div rem
<1>1. rec * amount \in Nat /\ rec * amount <= rec * rem
  BY ProductMonotone
<1>2. share \in Nat /\ share * rem <= rec * amount /\ share <= rec
  BY <1>1, Quotient, QuotientAtMost
<1>3. amount = rem => share = rec
  OBVIOUS
<1> HIDE DEF share
<1>4. rec * (rem - amount) = rec * rem - rec * amount
  OBVIOUS
<1>5. (rec - share) * rem = rec * rem - share * rem
  BY <1>2
<1>6. rec * rem \in Nat /\ share * rem \in Nat
  BY <1>2
<1>7. rec * (rem - amount) <= (rec - share) * rem
  BY <1>1, <1>2, <1>4, <1>5, <1>6
<1> QED BY <1>2, <1>3, <1>7 DEF share

\* What a claim pays, as a step on banks and balances.
PaysOut(T, w, u, share) ==
    /\ \A t \in Tokens :
         LET rec == bank[T][w].rec[t]
             rem == bank[T][w].remaining
         IN  /\ share[t] = (rec * exchange[w][u].amount) \div rem
             /\ share[t] <= held[T][w][t] /\ share[t] <= rec
             /\ rec * (rem - exchange[w][u].amount) <= (rec - share[t]) * rem
             /\ exchange[w][u].amount = rem => share[t] = rec
    /\ held' = [held EXCEPT ![T][w] = [t \in Tokens |-> held[T][w][t] - share[t]]]
    /\ bank' = [bank EXCEPT ![T][w] = [bank[T][w] EXCEPT
                  !.remaining = bank[T][w].remaining - exchange[w][u].amount,
                  !.rec = [t \in Tokens |-> bank[T][w].rec[t] - share[t]]]]
    /\ exchange[w][u].amount <= bank[T][w].remaining
    /\ CloseExchange(u, w)
    /\ UNCHANGED <<config, receiver, treasury, quote>>

LEMMA CompleteEffect ==
  ASSUME StoreTypeOK, TreasuryTypeOK, NEW T \in Treasuries, NEW w \in Windows,
         NEW u \in Users, CompleteGtExchange(T, w, u), exchange[w][u].amount # 0
  PROVE  \E share \in Amounts : PaysOut(T, w, u, share)
<1> DEFINE amount == exchange[w][u].amount
           rem == bank[T][w].remaining
           share == [t \in Tokens |-> (bank[T][w].rec[t] * amount) \div rem]
<1>1. /\ amount <= rem
      /\ CloseExchange(u, w)
      /\ UNCHANGED <<config, receiver, treasury, quote>>
  BY DEF CompleteGtExchange, Payable
<1>2. amount \in Nat \ {0} /\ rem \in Nat /\ \A t \in Tokens : bank[T][w].rec[t] \in Nat
  BY DEF StoreTypeOK, ExchangeStates, TreasuryTypeOK, BankStates, Amounts
<1>3. rem \in Nat \ {0}
  BY <1>1, <1>2
<1>4. \A t \in Tokens : share[t] = Share(T, w, t, amount)
  BY DEF Share
<1>5. /\ \A t \in Tokens : share[t] <= held[T][w][t]
      /\ held' = [held EXCEPT ![T][w] = [t \in Tokens |-> @[t] - share[t]]]
      /\ bank' = [bank EXCEPT ![T][w] = [bank[T][w] EXCEPT
                    !.remaining = rem - amount,
                    !.rec = [t \in Tokens |-> bank[T][w].rec[t] - share[t]]]]
  BY ZenonT(40) DEF CompleteGtExchange, Share, Claimed, TreasuryTypeOK, BankStates
<1>6. \A t \in Tokens :
         LET rec == bank[T][w].rec[t]
         IN  /\ share[t] = (rec * amount) \div rem /\ share[t] \in Nat
             /\ share[t] <= rec
             /\ rec * (rem - amount) <= (rec - share[t]) * rem
             /\ amount = rem => share[t] = rec
  BY <1>1, <1>2, <1>3, ShareBounds, ZenonT(40)
<1>7. share \in Amounts
  BY <1>6 DEF Amounts
<1> HIDE DEF share
<1> QED BY <1>1, <1>5, <1>6, <1>7 DEF PaysOut

LEMMA TreasuryTypeStep ==
  StoreTypeOK /\ TreasuryTypeOK /\ [TreasuryNext]_allVars => TreasuryTypeOK'
<1> SUFFICES ASSUME StoreTypeOK, TreasuryTypeOK, [TreasuryNext]_allVars PROVE TreasuryTypeOK'
  OBVIOUS
<1> USE DEF TreasuryTypeOK
<1>1. CASE UserNext /\ UNCHANGED treasuryVars
  BY <1>1 DEF treasuryVars, config, funds
<1>2. ASSUME NEW T \in Treasuries, SetTreasuryVaultConfig(T) PROVE TreasuryTypeOK'
  BY <1>2 DEF SetTreasuryVaultConfig, Configure, funds
<1>3. ASSUME NEW factor \in Factors, SetGtFactor(factor) \/ SetBuybackFactor(factor)
      PROVE  TreasuryTypeOK'
  <2>1. factor \in 0..Unit
    BY <1>3, TreasuryNumbersAssumption, NumbersAssumption
       DEF SetGtFactor, SetBuybackFactor, ValidFactor
  <2>2. CASE SetGtFactor(factor)
    BY <2>1, <2>2 DEF SetGtFactor, Configure, funds
  <2>3. CASE SetBuybackFactor(factor)
    BY <2>1, <2>3 DEF SetBuybackFactor, Configure, funds
  <2> QED BY <1>3, <2>2, <2>3
<1>4. ASSUME NEW T \in Treasuries, NEW t \in Tokens,
             InsertToken(T, t) \/ RemoveToken(T, t)
               \/ \E flag \in {"deposit", "withdraw"} : ToggleTokenFlag(T, t, flag)
      PROVE  TreasuryTypeOK'
  <2>1. PICK fs \in SUBSET Flags : flags' = [flags EXCEPT ![T][t] = fs]
    <3>1. CASE InsertToken(T, t)
      BY <3>1 DEF InsertToken, Flags
    <3>2. CASE RemoveToken(T, t)
      BY <3>2 DEF RemoveToken
    <3>3. ASSUME NEW flag \in {"deposit", "withdraw"}, ToggleTokenFlag(T, t, flag)
          PROVE  \E fs \in SUBSET Flags : flags' = [flags EXCEPT ![T][t] = fs]
      <4> DEFINE old == flags[T][t]
                 fs == IF flag \in old THEN old \ {flag} ELSE old \cup {flag}
      <4>1. old \subseteq Flags /\ flag \in Flags
        BY DEF Flags
      <4>2. fs \in SUBSET Flags
        BY <4>1
      <4>3. flags' = [flags EXCEPT ![T][t] = fs]
        BY <3>3 DEF ToggleTokenFlag
      <4> QED BY <4>2, <4>3
    <3> QED BY <1>4, <3>1, <3>2, <3>3
  <2>2. flags' \in [Treasuries -> [Tokens -> SUBSET Flags]]
    BY <2>1
  <2>3. UNCHANGED <<authorized, gtFactor, buybackFactor, funds, bank, quote>>
    BY <1>4 DEF InsertToken, RemoveToken, ToggleTokenFlag, Configure
  <2> QED BY <2>2, <2>3 DEF funds
<1>5. ASSUME NEW t \in Tokens, NEW amount \in Revenue, ClaimFees(t, amount)
      PROVE  TreasuryTypeOK'
  <2>1. receiver[t] + amount \in Nat
    BY TreasuryNumbersAssumption DEF Amounts
  <2>2. receiver' \in Amounts
    BY <1>5, <2>1 DEF ClaimFees, Amounts
  <2> QED BY <1>5, <2>2 DEF ClaimFees, config
<1>6. ASSUME NEW T \in Treasuries, NEW w \in Windows, PrepareGtBank(T, w)
      PROVE  TreasuryTypeOK'
  <2>1. bank' \in [Treasuries -> [Windows -> BankStates]]
    <3>1. [bank[T][w] EXCEPT !.init = TRUE] \in BankStates
      <4>1. bank[T][w] \in BankStates
        OBVIOUS
      <4> QED BY <4>1, BankUpdates, NothingType
    <3>2. bank' = [bank EXCEPT ![T][w] = [bank[T][w] EXCEPT !.init = TRUE]]
      BY <1>6 DEF PrepareGtBank
    <3> QED BY <3>1, <3>2
  <2> QED BY <1>6, <2>1 DEF PrepareGtBank, config, funds, Windows
<1>7. ASSUME NEW T \in Treasuries, NEW w \in Windows, NEW t \in Tokens,
             DepositToTreasuryVault(T, w, t)
      PROVE  TreasuryTypeOK'
  <2>1. PICK amount \in Nat :
            /\ amount <= receiver[t]
            /\ bank' = [bank EXCEPT ![T][w].tokens = @ \cup {t},
                                    ![T][w].rec[t] = @ + amount]
            /\ held' = [held EXCEPT ![T][w][t] = @ + amount]
            /\ treasury' = [treasury EXCEPT ![T][t] = @ + (receiver[t] - amount)]
            /\ receiver' = [receiver EXCEPT ![t] = 0]
            /\ UNCHANGED <<storeVars, config, quote>>
    BY <1>7, DepositEffect, ZenonT(40)
  <2>2. /\ bank[T][w].rec[t] + amount \in Nat
        /\ held[T][w][t] + amount \in Nat
        /\ treasury[T][t] + (receiver[t] - amount) \in Nat
    BY <2>1 DEF BankStates, Amounts
  <2>3. bank' \in [Treasuries -> [Windows -> BankStates]]
    <3> DEFINE b == bank[T][w]
               more == [b.rec EXCEPT ![t] = b.rec[t] + amount]
               new == [b EXCEPT !.tokens = b.tokens \cup {t}, !.rec = more]
    <3>1. b \in BankStates
      OBVIOUS
    <3>2. bank' = [bank EXCEPT ![T][w] = new]
      BY <2>1, <3>1 DEF BankStates
    <3> HIDE DEF b
    <3>3. more \in Amounts /\ b.tokens \cup {t} \in SUBSET Tokens
      BY <2>2, <3>1 DEF BankStates, Amounts, b
    <3> HIDE DEF more
    <3>4. new \in BankStates
      BY <3>1, <3>3, BankUpdates
    <3> HIDE DEF new
    <3> QED BY <3>2, <3>4
  <2>4. held' \in [Treasuries -> [Windows -> Amounts]]
    BY <2>1, <2>2 DEF Amounts
  <2>5. treasury' \in [Treasuries -> Amounts] /\ receiver' \in Amounts
    BY <2>1, <2>2 DEF Amounts
  <2> QED BY <2>1, <2>3, <2>4, <2>5 DEF config, Windows
<1>8. ASSUME NEW T \in Treasuries, NEW w \in Windows, NEW t \in Tokens, SyncGtBank(T, w, t)
      PROVE  TreasuryTypeOK'
  <2>1. /\ held[T][w][t] \in Nat /\ bank[T][w].rec[t] \in Nat /\ treasury[T][t] \in Nat
    BY DEF BankStates, Amounts
  <2>2. /\ held[T][w][t] - Excess(T, w, t) \in Nat
        /\ treasury[T][t] + Excess(T, w, t) \in Nat
    BY <1>8, <2>1 DEF SyncGtBank, Excess
  <2>3. held' \in [Treasuries -> [Windows -> Amounts]] /\ treasury' \in [Treasuries -> Amounts]
    BY <1>8, <2>2 DEF SyncGtBank, Amounts
  <2> QED BY <1>8, <2>3 DEF SyncGtBank, config, Windows
<1>9. ASSUME NEW T \in Treasuries, NEW t \in Tokens, NEW amount \in 1..treasury[T][t],
             WithdrawFromTreasuryVault(T, t, amount)
      PROVE  TreasuryTypeOK'
  <2>1. treasury[T][t] - amount \in Nat
    BY DEF Amounts
  <2>2. treasury' \in [Treasuries -> Amounts]
    BY <1>9, <2>1 DEF WithdrawFromTreasuryVault, Amounts
  <2> QED BY <1>9, <2>2 DEF WithdrawFromTreasuryVault, config
<1>10. ASSUME NEW T \in Treasuries, NEW w \in Windows, NEW price \in [Tokens -> Prices],
              ConfirmGtBuyback(T, w, price)
       PROVE  TreasuryTypeOK'
  <2>1. vault[w].amount \in Nat /\ price \in Amounts
    BY TreasuryNumbersAssumption DEF StoreTypeOK, VaultStates, Amounts
  <2> DEFINE res == Reserved(T, w, price)
  <2>2. res.rec \in Amounts /\ res \in BankStates
    <3>1. \A t \in Tokens : res.rec[t] \in Nat
      BY <1>10 DEF ConfirmGtBuyback, BankStates, Amounts
    <3>2. CASE BuybackValue(T, w, price) = 0
      <4>1. res = Cleared(bank[T][w])
        BY <3>2 DEF Reserved
      <4> HIDE DEF res
      <4>2. Cleared(bank[T][w]) \in BankStates
        <5>1. bank[T][w] \in BankStates /\ {} \in SUBSET Tokens
          OBVIOUS
        <5> QED BY <5>1, NothingType, BankUpdates DEF Cleared
      <4> QED BY <4>1, <4>2 DEF BankStates
    <3>3. CASE BuybackValue(T, w, price) # 0
      <4> DEFINE rec == [t \in Tokens |-> (bank[T][w].rec[t] * BuybackValue(T, w, price))
                                             \div Value(bank[T][w].rec, price)]
      <4>1. res = [bank[T][w] EXCEPT !.rec = rec]
        BY <3>3 DEF Reserved
      <4>2. DOMAIN rec = Tokens /\ rec = [t \in Tokens |-> rec[t]]
        OBVIOUS
      <4> HIDE DEF res, rec
      <4>3. res.rec = rec
        BY <4>1 DEF BankStates
      <4>4. rec \in Amounts
        BY <3>1, <4>2, <4>3 DEF Amounts
      <4>5. bank[T][w] \in BankStates
        OBVIOUS
      <4> QED BY <4>1, <4>3, <4>4, <4>5, BankUpdates
    <3> QED BY <3>2, <3>3
  <2>3. /\ bank' = [bank EXCEPT ![T][w] = [res EXCEPT !.remaining = vault[w].amount]]
        /\ quote' = [quote EXCEPT ![w] = [by |-> T, price |-> price, reserve |-> res.rec]]
        /\ UNCHANGED <<config, funds>>
    BY <1>10 DEF ConfirmGtBuyback
  <2> HIDE DEF res
  <2>4. [res EXCEPT !.remaining = vault[w].amount] \in BankStates
    BY <2>1, <2>2 DEF BankStates
  <2>5. [by |-> T, price |-> price, reserve |-> res.rec] \in QuoteStates
    BY <2>1, <2>2 DEF QuoteStates
  <2>6. bank' \in [Treasuries -> [Windows -> BankStates]] /\ quote' \in [Windows -> QuoteStates]
    BY <2>3, <2>4, <2>5
  <2> QED BY <2>3, <2>6 DEF config, funds, Windows
<1>11. ASSUME NEW T \in Treasuries, NEW w \in Windows, NEW u \in Users,
              CompleteGtExchange(T, w, u)
       PROVE  TreasuryTypeOK'
  <2>1. CASE exchange[w][u].amount = 0
    BY <1>11, <2>1 DEF CompleteGtExchange, config
  <2>2. CASE exchange[w][u].amount # 0
    <3>1. PICK share \in Amounts : PaysOut(T, w, u, share)
      BY <1>11, <2>2, CompleteEffect
    <3> DEFINE left == [t \in Tokens |-> bank[T][w].rec[t] - share[t]]
               paid == [t \in Tokens |-> held[T][w][t] - share[t]]
               new == [bank[T][w] EXCEPT !.remaining = bank[T][w].remaining - exchange[w][u].amount,
                                         !.rec = left]
    <3>2. left \in Amounts /\ paid \in Amounts
      BY <3>1 DEF PaysOut, BankStates, Amounts
    <3>3. held' = [held EXCEPT ![T][w] = paid]
      BY <3>1 DEF PaysOut
    <3>4. bank' = [bank EXCEPT ![T][w] = new]
      BY <3>1 DEF PaysOut
    <3> HIDE DEF left, paid
    <3>5. bank[T][w].remaining - exchange[w][u].amount \in Nat
      BY <3>1 DEF PaysOut, StoreTypeOK, ExchangeStates, BankStates
    <3>6. new \in BankStates
      <4>1. bank[T][w] \in BankStates
        OBVIOUS
      <4> QED BY <3>2, <3>5, <4>1, BankUpdates
    <3> HIDE DEF new
    <3>7. bank' \in [Treasuries -> [Windows -> BankStates]]
      BY <3>4, <3>6
    <3>8. held' \in [Treasuries -> [Windows -> Amounts]]
      BY <3>2, <3>3
    <3> QED BY <3>1, <3>7, <3>8 DEF PaysOut, config, Windows
  <2> QED BY <2>1, <2>2
<1>12. CASE UNCHANGED allVars
  BY <1>12 DEF allVars, treasuryVars, config, funds
<1> QED BY <1>1, <1>2, <1>3, <1>4, <1>5, <1>6, <1>7, <1>8, <1>9, <1>10, <1>11, <1>12
        DEF TreasuryNext, AdminNext, KeeperNext

\* The state of the treasury stays well typed: no balance, record or factor
\* is ever negative, and no factor exceeds one (deposit_to_treasury_vault,
\* sync_gt_bank, set_gt_factor, set_buyback_factor).
THEOREM TreasuryTypeCorrect == TreasurySpec => []TreasuryTypeOK
<1>1. TreasuryInit => TreasuryTypeOK
  BY TreasuryTypeInit
<1>2. StoreTypeOK /\ TreasuryTypeOK /\ [TreasuryNext]_allVars => TreasuryTypeOK'
  BY TreasuryTypeStep
<1> QED BY <1>1, <1>2, TreasuryUsesStore, StoreTypeCorrect, PTL DEF TreasurySpec

-----------------------------------------------------------------------------
(* The treasury: the banks.                                                *)

\* Only the bank that bought the GT of a window back has claims to pay.
ClaimsOpen ==
    \A T \in Treasuries, w \in Windows :
        bank[T][w].remaining # 0 => vault[w].confirmed /\ quote[w].by = T

\* What is left of the reserve is no smaller a share of it than what is left
\* to be claimed is of the vault's GT.
ReserveLasts ==
    \A w \in Windows : vault[w].confirmed =>
        LET b == bank[quote[w].by][w]
        IN  /\ b.remaining <= vault[w].amount
            /\ \A t \in Tokens :
                  quote[w].reserve[t] * b.remaining <= b.rec[t] * vault[w].amount

BankInv == RecordedIsHeld /\ ClaimsOpen /\ ReserveLasts /\ ReservePaidOut

LEMMA BankInit == TreasuryInit => BankInv
<1> SUFFICES ASSUME TreasuryInit PROVE BankInv
  OBVIOUS
<1>1. \A T \in Treasuries, w \in Windows :
        bank[T][w].remaining = 0 /\ bank[T][w].rec = Nothing /\ held[T][w] = Nothing
  BY DEF TreasuryInit, NoBank
<1>2. \A w \in Windows : ~vault[w].confirmed
  BY DEF TreasuryInit, Init, NoVault
<1> QED BY <1>1, <1>2 DEF BankInv, RecordedIsHeld, ClaimsOpen, ReserveLasts, ReservePaidOut, Nothing

\* A step that leaves the banks, the quotes and what is confirmed alone.
LEMMA BankSame ==
  ASSUME BankInv, UNCHANGED <<bank, quote>>, RecordedIsHeld',
         \A w \in Windows : /\ vault'[w].confirmed = vault[w].confirmed
                            /\ vault[w].confirmed => vault'[w].amount = vault[w].amount
  PROVE  BankInv'
<1>1. Windows' = Windows
  BY DEF Windows
<1>2. ClaimsOpen' /\ ReservePaidOut'
  BY DEF BankInv, ClaimsOpen, ReservePaidOut, Windows
<1>3. ReserveLasts'
  BY DEF BankInv, ReserveLasts, Windows
<1> QED BY <1>2, <1>3 DEF BankInv

LEMMA UserNextVaults ==
  ASSUME StoreTypeOK, UserNext
  PROVE  \A w \in Windows : /\ vault'[w].confirmed = vault[w].confirmed
                            /\ vault[w].confirmed => vault'[w].amount = vault[w].amount
<1>1. CASE \/ \E u \in Users, fee \in Fees : ProcessGt(u, fee)
           \/ \E u \in Users : ProcessGtReward(u)
           \/ Tick
  <2>1. vault' = vault
    BY <1>1 DEF ProcessGt, ProcessGtReward, Tick
  <2> QED BY <2>1
<1>2. CASE PrepareVault
  BY <1>2 DEF PrepareVault, StoreTypeOK, VaultStates
<1>3. ASSUME NEW u \in Users, NEW w \in Windows, NEW amount \in 0..user[u].amount,
             RequestExchange(u, w, amount)
      PROVE  \A x \in Windows : /\ vault'[x].confirmed = vault[x].confirmed
                                /\ vault[x].confirmed => vault'[x].amount = vault[x].amount
  BY <1>3 DEF RequestExchange, Depositable, StoreTypeOK, VaultStates
<1> QED BY <1>1, <1>2, <1>3 DEF UserNext

\* Reserving everything for no GT clears the record.
LEMMA ReservedForNothing ==
  ASSUME TreasuryTypeOK, NEW T \in Treasuries, NEW w \in Windows, NEW price,
         vault[w].amount = 0
  PROVE  Reserved(T, w, price).rec = Nothing
<1>1. BuybackValue(T, w, price) = 0
  BY DEF BuybackValue
<1>2. bank[T][w] \in BankStates
  BY DEF TreasuryTypeOK
<1>3. Reserved(T, w, price) = Cleared(bank[T][w])
  BY <1>1 DEF Reserved
<1> QED BY <1>2, <1>3 DEF Cleared, BankStates

LEMMA RemainsShared ==
  ASSUME NEW v \in Nat, NEW rem \in Nat, NEW left \in Nat, NEW amount \in Nat \ {0},
         NEW reserve \in Nat, NEW rec \in Nat,
         amount <= rem, left * rem >= rec * (rem - amount), reserve * rem <= rec * v
  PROVE  reserve * (rem - amount) <= left * v
<1>1. rem \in Nat \ {0} /\ rem - amount \in Nat
  OBVIOUS
<1>2. (reserve * rem) * (rem - amount) <= (rec * v) * (rem - amount)
  BY <1>1, ProductMonotone
<1>3. (rec * (rem - amount)) * v <= (left * rem) * v
  BY <1>1, ProductMonotone
<1>4. (reserve * (rem - amount)) * rem = (reserve * rem) * (rem - amount)
      /\ (rec * v) * (rem - amount) = (rec * (rem - amount)) * v
      /\ (left * v) * rem = (left * rem) * v
  BY <1>1
<1>5. reserve * (rem - amount) \in Nat /\ left * v \in Nat /\ rec * v \in Nat
      /\ (rec * (rem - amount)) * v \in Nat /\ (reserve * rem) * (rem - amount) \in Nat
      /\ (left * rem) * v \in Nat
  BY <1>1
<1>6. (reserve * (rem - amount)) * rem <= (left * v) * rem
  BY <1>2, <1>3, <1>4, <1>5
<1> QED BY <1>1, <1>5, <1>6, ProductCancel

LEMMA ConfirmKeepsBanks ==
  ASSUME StoreTypeOK, TreasuryTypeOK, BankInv, NEW T \in Treasuries, NEW w \in Windows,
         NEW price \in [Tokens -> Prices], ConfirmGtBuyback(T, w, price), TreasuryTypeOK'
  PROVE  BankInv'
<1> DEFINE res == Reserved(T, w, price)
<1>1. /\ ConfirmVault(w)
      /\ \A t \in Tokens : res.rec[t] \in 0..bank[T][w].rec[t]
      /\ bank' = [bank EXCEPT ![T][w] = [res EXCEPT !.remaining = vault[w].amount]]
      /\ quote' = [quote EXCEPT ![w] = [by |-> T, price |-> price, reserve |-> res.rec]]
      /\ UNCHANGED held
  BY DEF ConfirmGtBuyback, funds
<1>2. /\ vault'[w].confirmed /\ vault'[w].amount = vault[w].amount /\ ~vault[w].confirmed
      /\ \A x \in Windows \ {w} : vault'[x] = vault[x]
  BY <1>1 DEF ConfirmVault, Confirmable, StoreTypeOK, VaultStates
<1>3. vault[w].amount \in Nat /\ bank[T][w] \in BankStates
  BY DEF StoreTypeOK, VaultStates, TreasuryTypeOK
<1>4. bank'[T][w] = [res EXCEPT !.remaining = vault[w].amount]
  BY <1>1 DEF TreasuryTypeOK
<1>5. res = [bank[T][w] EXCEPT !.tokens = res.tokens, !.rec = res.rec]
  <2> DEFINE b == bank[T][w]
             v == BuybackValue(T, w, price)
             f == [t \in Tokens |-> (b.rec[t] * v) \div Value(b.rec, price)]
  <2>1. res = IF v = 0 THEN Cleared(b) ELSE [b EXCEPT !.rec = f]
    BY DEF Reserved
  <2> HIDE DEF f, v, res
  <2> QED BY <1>3, <2>1 DEF BankStates, Cleared
<1>6. bank'[T][w].remaining = vault[w].amount /\ bank'[T][w].rec = res.rec
  <2> HIDE DEF res
  <2> QED BY <1>3, <1>4, <1>5 DEF BankStates
<1>7. \A S \in Treasuries, x \in Windows : <<S, x>> # <<T, w>> => bank'[S][x] = bank[S][x]
  BY <1>1 DEF TreasuryTypeOK
<1>8. /\ quote'[w].by = T /\ quote'[w].reserve = res.rec
      /\ \A x \in Windows \ {w} : quote'[x] = quote[x]
  BY <1>1 DEF TreasuryTypeOK
<1>9. vault[w].amount = 0 => res.rec = Nothing
  BY ReservedForNothing
<1>10. \A t \in Tokens : res.rec[t] \in Nat /\ res.rec[t] <= bank[T][w].rec[t]
  BY <1>1, <1>3 DEF BankStates, Amounts
<1> HIDE DEF res
<1>11. RecordedIsHeld'
  <2> SUFFICES ASSUME NEW S \in Treasuries, NEW x \in Windows, NEW t \in Tokens
               PROVE  bank'[S][x].rec[t] <= held'[S][x][t]
    BY DEF RecordedIsHeld, Windows
  <2>1. bank[S][x].rec[t] <= held[S][x][t] /\ held'[S][x][t] = held[S][x][t]
        /\ bank[S][x].rec[t] \in Nat /\ held[S][x][t] \in Nat
    BY <1>1 DEF BankInv, RecordedIsHeld, TreasuryTypeOK, BankStates, Amounts
  <2>2. CASE S = T /\ x = w
    BY <1>6, <1>10, <2>1, <2>2
  <2>3. CASE ~(S = T /\ x = w)
    BY <1>7, <2>1, <2>3
  <2> QED BY <2>2, <2>3
<1>12. ClaimsOpen'
  BY <1>2, <1>6, <1>7, <1>8 DEF BankInv, ClaimsOpen, Windows
<1>13. ReserveLasts'
  <2> SUFFICES ASSUME NEW x \in Windows, vault'[x].confirmed
               PROVE  LET b == bank'[quote'[x].by][x]
                      IN  /\ b.remaining <= vault'[x].amount
                          /\ \A t \in Tokens :
                                quote'[x].reserve[t] * b.remaining <= b.rec[t] * vault'[x].amount
    BY DEF ReserveLasts, Windows
  <2>1. CASE x = w
    BY <1>2, <1>3, <1>6, <1>8, <1>10, <2>1
  <2>2. CASE x # w
    <3>1. bank'[quote'[x].by][x] = bank[quote[x].by][x]
      BY <1>7, <1>8, <2>2 DEF TreasuryTypeOK, QuoteStates
    <3> QED BY <1>2, <1>8, <2>2, <3>1 DEF BankInv, ReserveLasts
  <2> QED BY <2>1, <2>2
<1>14. ReservePaidOut'
  <2> SUFFICES ASSUME NEW x \in Windows, vault'[x].confirmed, bank'[quote'[x].by][x].remaining = 0
               PROVE  bank'[quote'[x].by][x].rec = Nothing
    BY DEF ReservePaidOut, Windows, Nothing
  <2>1. CASE x = w
    BY <1>6, <1>8, <1>9, <2>1
  <2>2. CASE x # w
    <3>1. bank'[quote'[x].by][x] = bank[quote[x].by][x]
      BY <1>7, <1>8, <2>2 DEF TreasuryTypeOK, QuoteStates
    <3> QED BY <1>2, <2>2, <1>8, <3>1 DEF BankInv, ReservePaidOut
  <2> QED BY <2>1, <2>2
<1> QED BY <1>11, <1>12, <1>13, <1>14 DEF BankInv

LEMMA CompleteKeepsBanks ==
  ASSUME StoreTypeOK, TreasuryTypeOK, BankInv, NEW T \in Treasuries, NEW w \in Windows,
         NEW u \in Users, CompleteGtExchange(T, w, u)
  PROVE  BankInv'
<1>1. UNCHANGED <<vault, quote>>
  BY DEF CompleteGtExchange, CloseExchange
<1>2. CASE exchange[w][u].amount = 0
  <2>1. UNCHANGED <<bank, held>>
    BY <1>2 DEF CompleteGtExchange
  <2>2. RecordedIsHeld'
    BY <2>1 DEF BankInv, RecordedIsHeld, Windows
  <2> QED BY <1>1, <2>1, <2>2, BankSame
<1>3. CASE exchange[w][u].amount # 0
  <2> DEFINE amount == exchange[w][u].amount
             b == bank[T][w]
  <2>1. PICK share \in Amounts : PaysOut(T, w, u, share)
    BY <1>3, CompleteEffect
  <2>2. b \in BankStates /\ amount \in Nat \ {0} /\ held[T][w] \in Amounts
    BY <1>3 DEF TreasuryTypeOK, StoreTypeOK, ExchangeStates
  <2>3. /\ bank'[T][w].remaining = b.remaining - amount
        /\ \A t \in Tokens : bank'[T][w].rec[t] = b.rec[t] - share[t]
        /\ bank'[T][w].rec = [t \in Tokens |-> b.rec[t] - share[t]]
    <3> DEFINE left == [t \in Tokens |-> b.rec[t] - share[t]]
    <3>1. bank'[T][w] = [b EXCEPT !.remaining = b.remaining - amount, !.rec = left]
      BY <2>1 DEF PaysOut, TreasuryTypeOK
    <3>2. \A t \in Tokens : left[t] = b.rec[t] - share[t]
      OBVIOUS
    <3> HIDE DEF left
    <3>3. bank'[T][w].remaining = b.remaining - amount /\ bank'[T][w].rec = left
      BY <2>2, <3>1 DEF BankStates
    <3> QED BY <3>2, <3>3 DEF left
  <2>4. \A t \in Tokens : held'[T][w][t] = held[T][w][t] - share[t]
    BY <2>1 DEF PaysOut, TreasuryTypeOK
  <2>5. \A S \in Treasuries, x \in Windows : <<S, x>> # <<T, w>> =>
           bank'[S][x] = bank[S][x] /\ held'[S][x] = held[S][x]
    BY <2>1 DEF PaysOut, TreasuryTypeOK
  <2>6. b.remaining \in Nat \ {0} /\ amount <= b.remaining
        /\ \A t \in Tokens : b.rec[t] \in Nat /\ share[t] \in Nat /\ held[T][w][t] \in Nat
    BY <2>1, <2>2 DEF PaysOut, BankStates, Amounts
  <2>7. vault[w].confirmed /\ quote[w].by = T
    BY <2>6 DEF BankInv, ClaimsOpen
  <2>8. RecordedIsHeld'
    <3> SUFFICES ASSUME NEW S \in Treasuries, NEW x \in Windows, NEW t \in Tokens
                 PROVE  bank'[S][x].rec[t] <= held'[S][x][t]
      BY DEF RecordedIsHeld, Windows
    <3>1. bank[S][x].rec[t] <= held[S][x][t]
      BY DEF BankInv, RecordedIsHeld
    <3>2. CASE S = T /\ x = w
      BY <2>3, <2>4, <2>6, <3>1, <3>2
    <3>3. CASE ~(S = T /\ x = w)
      BY <2>5, <3>1, <3>3
    <3> QED BY <3>2, <3>3
  <2>9. ClaimsOpen'
    <3> SUFFICES ASSUME NEW S \in Treasuries, NEW x \in Windows, bank'[S][x].remaining # 0
                 PROVE  vault[x].confirmed /\ quote[x].by = S
      BY <1>1 DEF ClaimsOpen, Windows
    <3>1. CASE S = T /\ x = w
      BY <2>7, <3>1
    <3>2. CASE ~(S = T /\ x = w)
      BY <2>5, <3>2 DEF BankInv, ClaimsOpen
    <3> QED BY <3>1, <3>2
  <2>10. ReserveLasts'
    <3> SUFFICES ASSUME NEW x \in Windows, vault[x].confirmed
                 PROVE  LET a == bank'[quote[x].by][x]
                        IN  /\ a.remaining <= vault[x].amount
                            /\ \A t \in Tokens :
                                  quote[x].reserve[t] * a.remaining <= a.rec[t] * vault[x].amount
      BY <1>1 DEF ReserveLasts, Windows
    <3>1. CASE x = w
      <4>1. b.remaining <= vault[w].amount /\ vault[w].amount \in Nat
        BY <2>7 DEF BankInv, ReserveLasts, StoreTypeOK, VaultStates
      <4>2. bank'[T][w].remaining <= vault[w].amount
        BY <2>2, <2>3, <2>6, <4>1
      <4>3. ASSUME NEW t \in Tokens
            PROVE  quote[w].reserve[t] * bank'[T][w].remaining <= bank'[T][w].rec[t] * vault[w].amount
        <5>1. quote[w].reserve[t] \in Nat
          BY DEF TreasuryTypeOK, QuoteStates, Amounts
        <5>2. quote[w].reserve[t] * b.remaining <= b.rec[t] * vault[w].amount
          BY <2>7 DEF BankInv, ReserveLasts
        <5>3. b.rec[t] * (b.remaining - amount) <= (b.rec[t] - share[t]) * b.remaining
              /\ share[t] <= b.rec[t]
          BY <2>1 DEF PaysOut
        <5> HIDE DEF amount, b
        <5>4. b.rec[t] - share[t] \in Nat /\ b.rec[t] \in Nat
          BY <2>6, <5>3
        <5>5. (b.rec[t] - share[t]) * b.remaining >= b.rec[t] * (b.remaining - amount)
          BY <2>2, <2>6, <5>3, <5>4
        <5>6. quote[w].reserve[t] * (b.remaining - amount) <= (b.rec[t] - share[t]) * vault[w].amount
          BY <2>2, <2>6, <4>1, <5>1, <5>2, <5>4, <5>5, RemainsShared
        <5> QED BY <2>3, <5>6 DEF b
      <4> QED BY <2>7, <3>1, <4>2, <4>3
    <3>2. CASE x # w
      <4>1. bank'[quote[x].by][x] = bank[quote[x].by][x]
        BY <2>5, <3>2 DEF TreasuryTypeOK, QuoteStates
      <4> QED BY <4>1 DEF BankInv, ReserveLasts
    <3> QED BY <3>1, <3>2
  <2>11. ReservePaidOut'
    <3> SUFFICES ASSUME NEW x \in Windows, vault[x].confirmed, bank'[quote[x].by][x].remaining = 0
                 PROVE  bank'[quote[x].by][x].rec = Nothing
      BY <1>1 DEF ReservePaidOut, Windows, Nothing
    <3>1. CASE x = w
      <4>1. b.remaining = amount
        <5>1. b.remaining - amount = 0
          BY <2>3, <2>7, <3>1
        <5> HIDE DEF b, amount
        <5> QED BY <2>2, <2>6, <5>1
      <4>2. \A t \in Tokens : b.rec[t] - share[t] = 0
        BY <2>1, <2>6, <4>1 DEF PaysOut
      <4>3. bank'[T][w].rec = Nothing
        BY <2>3, <4>2 DEF Nothing
      <4> QED BY <2>7, <3>1, <4>3
    <3>2. CASE x # w
      <4>1. bank'[quote[x].by][x] = bank[quote[x].by][x]
        BY <2>5, <3>2 DEF TreasuryTypeOK, QuoteStates
      <4> QED BY <4>1 DEF BankInv, ReservePaidOut
    <3> QED BY <3>1, <3>2
  <2> QED BY <2>8, <2>9, <2>10, <2>11 DEF BankInv
<1> QED BY <1>2, <1>3

LEMMA BankStep ==
  StoreTypeOK /\ TreasuryTypeOK /\ TreasuryTypeOK' /\ BankInv /\ [TreasuryNext]_allVars
    => BankInv'
<1> SUFFICES ASSUME StoreTypeOK, TreasuryTypeOK, TreasuryTypeOK', BankInv,
                    [TreasuryNext]_allVars
             PROVE  BankInv'
  OBVIOUS
<1>1. ASSUME UNCHANGED <<bank, held, quote>>,
             \A w \in Windows : /\ vault'[w].confirmed = vault[w].confirmed
                                /\ vault[w].confirmed => vault'[w].amount = vault[w].amount
      PROVE  BankInv'
  <2>1. RecordedIsHeld'
    BY <1>1 DEF BankInv, RecordedIsHeld, Windows
  <2> QED BY <1>1, <2>1, BankSame
<1>2. CASE UserNext /\ UNCHANGED treasuryVars
  <2>1. UNCHANGED <<bank, held, quote>>
    BY <1>2 DEF treasuryVars, funds
  <2> QED BY <1>1, <1>2, <2>1, UserNextVaults
<1>3. CASE AdminNext
  <2>1. UNCHANGED <<storeVars, funds, bank, quote>>
    BY <1>3 DEF AdminNext, SetTreasuryVaultConfig, SetGtFactor, SetBuybackFactor,
               InsertToken, RemoveToken, ToggleTokenFlag, Configure
  <2>2. UNCHANGED <<bank, held, quote, vault>>
    BY <2>1 DEF storeVars, funds
  <2> QED BY <1>1, <2>2
<1>4. ASSUME NEW t \in Tokens, NEW amount \in Revenue, ClaimFees(t, amount)
      PROVE  BankInv'
  <2>1. UNCHANGED <<bank, held, quote, vault>>
    BY <1>4 DEF ClaimFees, storeVars
  <2> QED BY <1>1, <2>1
<1>5. ASSUME NEW T \in Treasuries, NEW t \in Tokens, NEW amount \in 1..treasury[T][t],
             WithdrawFromTreasuryVault(T, t, amount)
      PROVE  BankInv'
  <2>1. UNCHANGED <<bank, held, quote, vault>>
    BY <1>5 DEF WithdrawFromTreasuryVault, storeVars
  <2> QED BY <1>1, <2>1
<1>6. ASSUME NEW T \in Treasuries, NEW w \in Windows, PrepareGtBank(T, w)
      PROVE  BankInv'
  <2>1. UNCHANGED <<held, quote, vault>>
    BY <1>6 DEF PrepareGtBank, storeVars, funds
  <2>2. \A S \in Treasuries, x \in Windows :
           bank'[S][x].remaining = bank[S][x].remaining /\ bank'[S][x].rec = bank[S][x].rec
    <3>1. bank[T][w] \in BankStates
      BY DEF TreasuryTypeOK
    <3>2. bank' = [bank EXCEPT ![T][w] = [bank[T][w] EXCEPT !.init = TRUE]]
      BY <1>6 DEF PrepareGtBank
    <3> QED BY <3>1, <3>2 DEF TreasuryTypeOK, BankStates
  <2>3. RecordedIsHeld' /\ ClaimsOpen'
    BY <2>1, <2>2 DEF BankInv, RecordedIsHeld, ClaimsOpen, Windows
  <2>4. ReserveLasts' /\ ReservePaidOut'
    <3>1. \A x \in Windows : quote[x].by \in Treasuries
      BY DEF TreasuryTypeOK, QuoteStates
    <3>2. ReserveLasts'
      BY <2>1, <2>2, <3>1 DEF BankInv, ReserveLasts, Windows
    <3>3. ReservePaidOut'
      BY <2>1, <2>2, <3>1 DEF BankInv, ReservePaidOut, Windows
    <3> QED BY <3>2, <3>3
  <2> QED BY <2>3, <2>4 DEF BankInv
<1>7. ASSUME NEW T \in Treasuries, NEW w \in Windows, NEW t \in Tokens,
             DepositToTreasuryVault(T, w, t)
      PROVE  BankInv'
  <2>1. PICK amount \in Nat :
            /\ Depositable(w)
            /\ bank' = [bank EXCEPT ![T][w].tokens = @ \cup {t},
                                    ![T][w].rec[t] = @ + amount]
            /\ held' = [held EXCEPT ![T][w][t] = @ + amount]
            /\ UNCHANGED <<storeVars, quote>>
    <3> HIDE DEF TreasuryTypeOK
    <3> QED BY <1>7, DepositEffect
  <2>2. UNCHANGED <<vault, quote>> /\ ~vault[w].confirmed
    BY <2>1 DEF storeVars, Depositable
  <2>3. /\ bank'[T][w].remaining = bank[T][w].remaining
        /\ bank'[T][w].rec = [bank[T][w].rec EXCEPT ![t] = bank[T][w].rec[t] + amount]
        /\ \A S \in Treasuries, x \in Windows : <<S, x>> # <<T, w>> => bank'[S][x] = bank[S][x]
    <3>1. bank[T][w] \in BankStates
      BY DEF TreasuryTypeOK
    <3> DEFINE b == bank[T][w]
               more == [b.rec EXCEPT ![t] = b.rec[t] + amount]
               new == [b EXCEPT !.tokens = b.tokens \cup {t}, !.rec = more]
    <3>2. bank' = [bank EXCEPT ![T][w] = new]
      BY <2>1, <3>1 DEF BankStates
    <3>3. new.remaining = b.remaining /\ new.rec = more
      BY <3>1 DEF BankStates
    <3> HIDE DEF new
    <3> QED BY <3>2, <3>3 DEF TreasuryTypeOK
  <2>4. RecordedIsHeld'
    <3> SUFFICES ASSUME NEW S \in Treasuries, NEW x \in Windows, NEW s \in Tokens
                 PROVE  bank'[S][x].rec[s] <= held'[S][x][s]
      BY DEF RecordedIsHeld, Windows
    <3>1. bank[S][x].rec[s] <= held[S][x][s] /\ bank[S][x].rec \in Amounts /\ held[S][x] \in Amounts
      BY DEF BankInv, RecordedIsHeld, TreasuryTypeOK, BankStates
    <3>2. CASE S = T /\ x = w
      <4>1. held'[S][x] = [held[T][w] EXCEPT ![t] = held[T][w][t] + amount]
        BY <2>1, <3>2 DEF TreasuryTypeOK
      <4> QED BY <2>3, <3>1, <3>2, <4>1 DEF Amounts
    <3>3. CASE ~(S = T /\ x = w)
      <4>1. held'[S][x] = held[S][x]
        BY <2>1, <3>3 DEF TreasuryTypeOK
      <4> QED BY <2>3, <3>1, <3>3, <4>1
    <3> QED BY <3>2, <3>3
  <2>5. ClaimsOpen'
    BY <2>2, <2>3 DEF BankInv, ClaimsOpen, Windows
  <2>6. \A x \in Windows : vault[x].confirmed => bank'[quote[x].by][x] = bank[quote[x].by][x]
    BY <2>2, <2>3 DEF TreasuryTypeOK, QuoteStates
  <2>7. ReserveLasts' /\ ReservePaidOut'
    BY <2>2, <2>6 DEF BankInv, ReserveLasts, ReservePaidOut, Windows
  <2> QED BY <2>4, <2>5, <2>7 DEF BankInv
<1>8. ASSUME NEW T \in Treasuries, NEW w \in Windows, NEW t \in Tokens, SyncGtBank(T, w, t)
      PROVE  BankInv'
  <2>1. UNCHANGED <<bank, quote, vault>>
    BY <1>8 DEF SyncGtBank, storeVars
  <2>2. RecordedIsHeld'
    <3> SUFFICES ASSUME NEW S \in Treasuries, NEW x \in Windows, NEW s \in Tokens
                 PROVE  bank[S][x].rec[s] <= held'[S][x][s]
      BY <2>1 DEF RecordedIsHeld, Windows
    <3>1. bank[S][x].rec[s] <= held[S][x][s] /\ bank[S][x].rec \in Amounts /\ held[S][x] \in Amounts
      BY DEF BankInv, RecordedIsHeld, TreasuryTypeOK, BankStates
    <3>2. held'[S][x][s] = IF S = T /\ x = w /\ s = t THEN held[S][x][s] - Excess(S, x, s)
                           ELSE held[S][x][s]
      BY <1>8 DEF SyncGtBank, TreasuryTypeOK, Amounts
    <3> QED BY <3>1, <3>2 DEF Excess, Amounts
  <2> QED BY <2>1, <2>2, BankSame
<1>9. ASSUME NEW T \in Treasuries, NEW w \in Windows, NEW price \in [Tokens -> Prices],
             ConfirmGtBuyback(T, w, price)
      PROVE  BankInv'
  BY <1>9, ConfirmKeepsBanks
<1>10. ASSUME NEW T \in Treasuries, NEW w \in Windows, NEW u \in Users,
              CompleteGtExchange(T, w, u)
       PROVE  BankInv'
  BY <1>10, CompleteKeepsBanks
<1>11. CASE UNCHANGED allVars
  <2>1. UNCHANGED <<bank, held, quote, vault>>
    BY <1>11 DEF allVars, treasuryVars, storeVars, funds
  <2> QED BY <1>1, <2>1
<1> QED BY <1>2, <1>3, <1>4, <1>5, <1>6, <1>7, <1>8, <1>9, <1>10, <1>11
        DEF TreasuryNext, KeeperNext

LEMMA BankInvariant == TreasurySpec => []BankInv
BY BankInit, BankStep, TreasuryUsesStore, StoreTypeCorrect, TreasuryTypeCorrect, PTL
   DEF TreasurySpec

\* A bank always holds what it has recorded (states/gt_bank.rs,
\* unchecked_sync_gt_bank), for any tokens, treasuries and factors.
THEOREM RecordedStaysHeld == TreasurySpec => []RecordedIsHeld
BY BankInvariant, PTL DEF BankInv

\* When everything has been claimed from the bank that bought the GT of a
\* window back, nothing is left in its record, however the shares were
\* rounded (CompleteGtExchange::execute).
THEOREM ReserveIsPaidOut == TreasurySpec => []ReservePaidOut
BY BankInvariant, PTL DEF BankInv

-----------------------------------------------------------------------------
(* The treasury: what a claim is paid and what is reserved.                *)

LEMMA ShareIsEnough ==
  ASSUME NEW reserve \in Nat, NEW rec \in Nat, NEW rem \in Nat \ {0}, NEW v \in Nat \ {0},
         NEW amount \in Nat, reserve * rem <= rec * v
  PROVE  (reserve * amount) \div v <= (rec * amount) \div rem
<1> DEFINE q == (reserve * amount) \div v
<1>1. q \in Nat /\ q * v <= reserve * amount
  BY Quotient
<1> HIDE DEF q
<1>2. (q * v) * rem <= (reserve * amount) * rem
  BY <1>1, ProductMonotone
<1>3. (reserve * rem) * amount <= (rec * v) * amount
  BY ProductMonotone
<1>4. (reserve * amount) * rem = (reserve * rem) * amount
      /\ (q * v) * rem = (q * rem) * v
      /\ (rec * v) * amount = (rec * amount) * v
  BY <1>1
<1>5. (q * rem) * v \in Nat /\ (reserve * rem) * amount \in Nat /\ (rec * amount) * v \in Nat
      /\ q * rem \in Int /\ rec * amount \in Int /\ rec * amount \in Nat
  BY <1>1
<1>6. (q * rem) * v <= (rec * amount) * v
  BY <1>2, <1>3, <1>4, <1>5
<1>7. q * rem <= rec * amount
  BY <1>5, <1>6, ProductCancel
<1> QED BY <1>1, <1>5, <1>7, QuotientAtLeast DEF q

LEMMA ClaimPaysShareStep ==
  StoreTypeOK /\ TreasuryTypeOK /\ BankInv /\ [TreasuryNext]_allVars => ClaimPaysShare
<1> SUFFICES ASSUME StoreTypeOK, TreasuryTypeOK, BankInv, [TreasuryNext]_allVars,
                    NEW w \in Windows, NEW u \in Users,
                    exchange[w][u].open, ~exchange'[w][u].open, exchange[w][u].amount # 0,
                    NEW t \in Tokens
             PROVE  held[quote[w].by][w][t] - held'[quote[w].by][w][t] >=
                       (quote[w].reserve[t] * exchange[w][u].amount) \div vault[w].amount
  BY DEF ClaimPaysShare
<1>1. PICK T \in Treasuries : CompleteGtExchange(T, w, u)
  <2>1. ~(\/ AdminNext \/ UNCHANGED allVars)
    BY DEF AdminNext, SetTreasuryVaultConfig, SetGtFactor, SetBuybackFactor, InsertToken,
           RemoveToken, ToggleTokenFlag, Configure, allVars, storeVars
  <2>2. ~KeeperNext
    <3>1. ASSUME NEW S, NEW x, NEW price, ConfirmGtBuyback(S, x, price) PROVE FALSE
      BY <3>1 DEF ConfirmGtBuyback, ConfirmVault
    <3>2. ASSUME NEW S, NEW x, NEW s, DepositToTreasuryVault(S, x, s) \/ SyncGtBank(S, x, s)
          PROVE  FALSE
      BY <3>2 DEF DepositToTreasuryVault, SyncGtBank, storeVars
    <3>3. ASSUME NEW s, NEW a, ClaimFees(s, a) PROVE FALSE
      BY <3>3 DEF ClaimFees, storeVars
    <3>4. ASSUME NEW S, NEW s, NEW a, WithdrawFromTreasuryVault(S, s, a) PROVE FALSE
      BY <3>4 DEF WithdrawFromTreasuryVault, storeVars
    <3>5. ASSUME NEW S, NEW x, PrepareGtBank(S, x) PROVE FALSE
      BY <3>5 DEF PrepareGtBank, storeVars
    <3> QED BY <3>1, <3>2, <3>3, <3>4, <3>5 DEF KeeperNext
  <2>3. ~UserNext
    <3>1. ASSUME NEW v \in Users, NEW x \in Windows, NEW amount, RequestExchange(v, x, amount)
          PROVE  FALSE
      <4>1. exchange'[w][u].open
        BY <3>1 DEF RequestExchange, StoreTypeOK
      <4> QED BY <4>1
    <3>2. ~(\/ \E v \in Users, fee \in Fees : ProcessGt(v, fee)
            \/ \E v \in Users : ProcessGtReward(v)
            \/ PrepareVault \/ Tick)
      BY DEF ProcessGt, ProcessGtReward, PrepareVault, Tick
    <3> QED BY <3>1, <3>2 DEF UserNext
  <2>4. PICK S \in Treasuries, x \in Windows, v \in Users : CompleteGtExchange(S, x, v)
    BY <2>1, <2>2, <2>3 DEF TreasuryNext
  <2>5. x = w /\ v = u
    BY <2>4 DEF CompleteGtExchange, CloseExchange, StoreTypeOK
  <2> QED BY <2>4, <2>5
<1>2. PICK share \in Amounts : PaysOut(T, w, u, share)
  BY <1>1, CompleteEffect
<1> DEFINE amount == exchange[w][u].amount
           b == bank[T][w]
<1>3. amount \in Nat \ {0} /\ b.remaining \in Nat /\ b.rec[t] \in Nat /\ amount <= b.remaining
      /\ vault[w].amount \in Nat /\ quote[w].reserve[t] \in Nat
  BY <1>2 DEF PaysOut, StoreTypeOK, TreasuryTypeOK, ExchangeStates, VaultStates, BankStates,
              QuoteStates, Amounts
<1>4. b.remaining \in Nat \ {0}
  BY <1>3
<1>5. vault[w].confirmed /\ quote[w].by = T
  BY <1>4 DEF BankInv, ClaimsOpen
<1>6. /\ b.remaining <= vault[w].amount
      /\ quote[w].reserve[t] * b.remaining <= b.rec[t] * vault[w].amount
  BY <1>5 DEF BankInv, ReserveLasts
<1>7. (quote[w].reserve[t] * amount) \div vault[w].amount <= (b.rec[t] * amount) \div b.remaining
  BY <1>3, <1>4, <1>6, ShareIsEnough
<1>8. held'[T][w][t] = held[T][w][t] - share[t] /\ share[t] = (b.rec[t] * amount) \div b.remaining
  BY <1>2 DEF PaysOut, TreasuryTypeOK
<1>9. held[T][w][t] \in Nat /\ share[t] \in Nat
  BY DEF TreasuryTypeOK, Amounts
<1>10. held[T][w][t] - held'[T][w][t] = share[t]
  BY <1>8, <1>9
<1>11. (quote[w].reserve[t] * amount) \div vault[w].amount \in Nat
  BY <1>3, <1>4, <1>6, Quotient, SMTT(30)
<1> HIDE DEF amount, b
<1>12. share[t] >= (quote[w].reserve[t] * amount) \div vault[w].amount
  BY <1>7, <1>8, <1>9, <1>11
<1> QED BY <1>5, <1>10, <1>12 DEF amount

\* Each exchange receives at least its rounded share of what was reserved,
\* in whatever order the exchanges of a window are completed
\* (CompleteGtExchange::execute).
THEOREM ClaimsPayTheirShare == TreasurySpec => ShareRespected
BY ClaimPaysShareStep, BankInvariant, TreasuryUsesStore, StoreTypeCorrect, TreasuryTypeCorrect,
   PTL DEF TreasurySpec, ShareRespected

LEMMA ValueNat ==
  ASSUME NEW amounts \in Amounts, NEW price \in Amounts
  PROVE  Value(amounts, price) \in Nat
<1> DEFINE f == [t \in Tokens |-> amounts[t] * price[t]]
<1>1. f \in [Tokens -> Nat]
  BY DEF Amounts
<1> HIDE DEF f
<1>2. SumFunction(f) \in Nat
  BY <1>1, TokensAssumption, SumFunctionNat
<1> QED BY <1>2 DEF Value, f

\* What the listed tokens of a treasury are worth.
ListedValue(T, price) == SumFunction([t \in Listed(T) |-> treasury[T][t] * price[t]])

LEMMA ListedValueBound ==
  ASSUME TreasuryTypeOK, NEW T \in Treasuries, NEW price \in Amounts
  PROVE  /\ ListedValue(T, price) \in Nat
         /\ ListedValue(T, price) <= Value(treasury[T], price)
<1> DEFINE f == [t \in Tokens |-> treasury[T][t] * price[t]]
           g == [t \in Listed(T) |-> treasury[T][t] * price[t]]
<1>1. f \in [Tokens -> Nat] /\ Listed(T) \subseteq Tokens
  BY DEF TreasuryTypeOK, Amounts, Listed
<1>2. g \in [Listed(T) -> Nat] /\ \A t \in Listed(T) : g[t] = f[t]
  BY <1>1
<1>3. IsFiniteSet(Tokens) /\ IsFiniteSet(Listed(T))
  BY <1>1, TokensAssumption, FS_Subset
<1> HIDE DEF f, g
<1>4. SumFunction(g) \in Nat
  BY <1>2, <1>3, SumFunctionNat
<1>5. SumFunctionOnSet(g, Listed(T)) = SumFunctionOnSet(f, Listed(T))
  BY <1>2, <1>3, SumSame
<1>6. SumFunctionOnSet(f, Listed(T)) <= SumFunctionOnSet(f, Tokens)
  BY <1>1, <1>3, SumSubset
<1>7. SumFunction(g) = SumFunctionOnSet(g, Listed(T)) /\ SumFunction(f) = SumFunctionOnSet(f, Tokens)
  BY <1>1, <1>2 DEF SumFunction, SumFunctionOnSet, FoldFunction
<1>8. SumFunction(g) <= SumFunction(f)
  BY <1>5, <1>6, <1>7
<1> QED BY <1>4, <1>8 DEF ListedValue, Value, f, g

\* The value the GT of a window is bought back for.
LEMMA BuybackValueBounds ==
  ASSUME StoreTypeOK, TreasuryTypeOK, NEW T \in Treasuries, NEW w \in Windows,
         NEW price \in Amounts
  PROVE  LET value == BuybackValue(T, w, price)
             inBank == Value(bank[T][w].rec, price)
         IN  /\ value \in Nat /\ inBank \in Nat
             /\ value <= inBank
             /\ value <= vault[w].amount * gt.cost
             /\ value * Unit <= buybackFactor * (inBank + Value(treasury[T], price))
<1> DEFINE v == vault[w].amount
           inBank == Value(bank[T][w].rec, price)
           all == ListedValue(T, price) + inBank
           max == MaxBuybackValue(T, w, price)
           value == BuybackValue(T, w, price)
<1>1. /\ bank[T][w].rec \in Amounts /\ treasury[T] \in Amounts /\ v \in Nat /\ gt.cost \in Nat
      /\ buybackFactor \in Nat /\ Unit \in Nat \ {0}
  BY NumbersAssumption DEF StoreTypeOK, VaultStates, GtStates, TreasuryTypeOK, BankStates
<1>2. inBank \in Nat /\ Value(treasury[T], price) \in Nat
  BY <1>1, ValueNat
<1>3. ListedValue(T, price) \in Nat /\ ListedValue(T, price) <= Value(treasury[T], price)
  BY ListedValueBound
<1>4. max = Min({inBank, ApplyFactor(all, buybackFactor)})
  BY DEF MaxBuybackValue, ListedValue
<1>5. all \in Nat /\ all <= inBank + Value(treasury[T], price)
  BY <1>2, <1>3
<1>6. ApplyFactor(all, buybackFactor) \in Nat
  BY <1>1, <1>5, ApplyFactorType
<1>7. max \in Nat /\ max <= inBank /\ max <= ApplyFactor(all, buybackFactor)
  <2> HIDE DEF max, all, inBank
  <2> QED BY <1>2, <1>4, <1>6, MinOfTwo
<1>8. value = IF v = 0 THEN 0 ELSE v * Min({max \div v, gt.cost})
  BY DEF BuybackValue
<1> HIDE DEF v, inBank, all, max, value
<1>9. value \in Nat /\ value <= max /\ value <= v * gt.cost
  <2>1. CASE v = 0
    BY <1>1, <1>7, <1>8, <2>1
  <2>2. CASE v # 0
    <3> DEFINE q == max \div v
               c == Min({q, gt.cost})
    <3>1. q \in Nat /\ q * v <= max
      BY <1>1, <1>7, <2>2, Quotient
    <3> HIDE DEF q
    <3>2. c \in Nat /\ c <= q /\ c <= gt.cost
      BY <1>1, <3>1, MinOfTwo
    <3>3. value = v * c
      BY <1>8, <2>2 DEF q
    <3> HIDE DEF c
    <3>4. v * c <= v * q /\ v * c <= v * gt.cost /\ v * q = q * v /\ v * c \in Nat /\ q * v \in Nat
      BY <1>1, <3>1, <3>2, ProductMonotone
    <3> QED BY <1>7, <3>1, <3>3, <3>4
  <2> QED BY <2>1, <2>2
<1>10. value * Unit <= buybackFactor * (inBank + Value(treasury[T], price))
  <2> DEFINE total == inBank + Value(treasury[T], price)
             share == ApplyFactor(all, buybackFactor)
  <2>1. share * Unit <= all * buybackFactor
    BY <1>1, <1>5, Quotient DEF ApplyFactor
  <2>2. total \in Nat /\ all <= total
    BY <1>2, <1>5
  <2> HIDE DEF total, share
  <2>3. all * buybackFactor <= total * buybackFactor
    BY <1>1, <1>5, <2>2, ProductMonotone
  <2>4. share \in Nat /\ value <= share
    BY <1>6, <1>7, <1>9 DEF share
  <2>5. value * Unit <= share * Unit
    BY <1>1, <1>9, <2>4, ProductMonotone
  <2>6. value * Unit \in Nat /\ share * Unit \in Nat /\ all * buybackFactor \in Nat
        /\ total * buybackFactor \in Nat /\ total * buybackFactor = buybackFactor * total
    BY <1>1, <1>5, <1>9, <2>2, <2>4
  <2>7. value * Unit <= buybackFactor * total
    BY <2>1, <2>3, <2>5, <2>6
  <2> QED BY <2>7 DEF total
<1>11. value <= inBank
  BY <1>2, <1>7, <1>9
<1> QED BY <1>2, <1>9, <1>10, <1>11 DEF v, inBank, value

\* What is reserved is worth no more than the value it is reserved for.
LEMMA ReservedValue ==
  ASSUME StoreTypeOK, TreasuryTypeOK, NEW T \in Treasuries, NEW w \in Windows,
         NEW price \in Amounts
  PROVE  /\ Value(Reserved(T, w, price).rec, price) \in Nat
         /\ Value(Reserved(T, w, price).rec, price) <= BuybackValue(T, w, price)
<1> DEFINE b == bank[T][w]
           value == BuybackValue(T, w, price)
           inBank == Value(b.rec, price)
           rec == [t \in Tokens |-> (b.rec[t] * value) \div inBank]
<1>1. b \in BankStates /\ b.rec \in Amounts
  BY DEF TreasuryTypeOK, BankStates
<1>2. value \in Nat /\ inBank \in Nat /\ value <= inBank
  BY BuybackValueBounds
<1>3. CASE value = 0
  <2>1. Reserved(T, w, price).rec = Nothing
    BY <1>1, <1>3 DEF Reserved, Cleared, BankStates
  <2> DEFINE f == [t \in Tokens |-> Nothing[t] * price[t]]
  <2>2. f \in [Tokens -> {0}]
    BY DEF Nothing, Amounts
  <2> HIDE DEF f
  <2>3. SumFunction(f) = 0
    BY <2>2, TokensAssumption, SumFunctionZero
  <2>4. Value(Nothing, price) = 0
    BY <2>3 DEF Value, f
  <2> QED BY <1>3, <2>1, <2>4
<1>4. CASE value # 0
  <2>1. Reserved(T, w, price) = [b EXCEPT !.rec = rec]
    BY <1>4 DEF Reserved
  <2>2. Reserved(T, w, price).rec = rec
    BY <1>1, <2>1 DEF BankStates
  <2>3. inBank \in Nat \ {0}
    BY <1>2, <1>4
  <2>4. \A t \in Tokens : rec[t] = (b.rec[t] * value) \div inBank
    OBVIOUS
  <2>5. inBank = SumFunction([t \in Tokens |-> b.rec[t] * price[t]])
    BY DEF Value
  <2> HIDE DEF b, value, inBank
  <2>6. ASSUME NEW t \in Tokens
        PROVE  /\ rec[t] \in Nat /\ price[t] \in Nat /\ b.rec[t] \in Nat
               /\ (rec[t] * price[t]) * inBank <= (b.rec[t] * price[t]) * value
    <3>1. price[t] \in Nat /\ b.rec[t] \in Nat
      BY <1>1 DEF Amounts
    <3>2. b.rec[t] * value \in Nat
      BY <1>2, <3>1
    <3>3. rec[t] \in Nat /\ rec[t] * inBank <= b.rec[t] * value
      BY <2>3, <2>4, <3>2, Quotient
    <3> HIDE DEF rec
    <3>4. (rec[t] * inBank) * price[t] <= (b.rec[t] * value) * price[t]
      <4>1. rec[t] * inBank \in Nat
        BY <2>3, <3>3
      <4> QED BY <3>1, <3>2, <3>3, <4>1, ProductMonotone
    <3>5. (rec[t] * inBank) * price[t] = (rec[t] * price[t]) * inBank
          /\ (b.rec[t] * value) * price[t] = (b.rec[t] * price[t]) * value
      BY <1>2, <3>1, <3>3
    <3> QED BY <3>1, <3>3, <3>4, <3>5
  <2>7. rec \in Amounts
    BY <2>6 DEF Amounts
  <2> HIDE DEF rec
  <2> DEFINE f == [t \in Tokens |-> rec[t] * price[t]]
             f2 == [t \in Tokens |-> f[t] * inBank]
             g == [t \in Tokens |-> b.rec[t] * price[t]]
             g2 == [t \in Tokens |-> g[t] * value]
  <2>8. f \in [Tokens -> Nat] /\ g \in [Tokens -> Nat]
    BY <2>6
  <2>9. \A t \in Tokens : f2[t] \in Int /\ g2[t] \in Int /\ f2[t] <= g2[t]
    <3> TAKE t \in Tokens
    <3>1. f[t] = rec[t] * price[t] /\ g[t] = b.rec[t] * price[t] /\ f[t] \in Nat /\ g[t] \in Nat
      BY <2>8
    <3>2. f2[t] = f[t] * inBank /\ g2[t] = g[t] * value
      OBVIOUS
    <3> HIDE DEF f, f2, g, g2
    <3> QED BY <1>2, <2>6, <3>1, <3>2
  <2>10. \A t \in Tokens : /\ f[t] \in Int /\ f2[t] = f[t] * inBank
                           /\ g[t] \in Int /\ g2[t] = g[t] * value
    BY <2>8
  <2>11. DOMAIN f = Tokens /\ DOMAIN g = Tokens
    OBVIOUS
  <2>12. inBank = SumFunction(g) /\ Value(rec, price) = SumFunction(f)
    BY <2>5 DEF Value
  <2> HIDE DEF f, f2, g, g2
  <2>13. SumFunctionOnSet(f2, Tokens) <= SumFunctionOnSet(g2, Tokens)
    BY <2>9, TokensAssumption, SumMonotone
  <2>14. SumFunctionOnSet(f2, Tokens) = SumFunctionOnSet(f, Tokens) * inBank
    BY <1>2, <2>10, TokensAssumption, SumScale
  <2>15. SumFunctionOnSet(g2, Tokens) = SumFunctionOnSet(g, Tokens) * value
    BY <1>2, <2>10, TokensAssumption, SumScale
  <2>16. SumFunction(f) = SumFunctionOnSet(f, Tokens) /\ SumFunction(g) = SumFunctionOnSet(g, Tokens)
    BY <2>11 DEF SumFunction, SumFunctionOnSet, FoldFunction
  <2>17. SumFunction(f) \in Nat
    BY <2>8, TokensAssumption, SumFunctionNat
  <2>18. SumFunction(f) * inBank <= value * inBank
    BY <1>2, <2>12, <2>13, <2>14, <2>15, <2>16, <2>17
  <2>19. SumFunction(f) <= value
    BY <1>2, <2>3, <2>17, <2>18, ProductCancel
  <2> QED BY <2>2, <2>12, <2>17, <2>19 DEF value
<1> QED BY <1>3, <1>4

LEMMA ReservesNoMoreStep ==
  StoreTypeOK /\ TreasuryTypeOK /\ [TreasuryNext]_allVars => ReservesNoMore
<1> SUFFICES ASSUME StoreTypeOK, TreasuryTypeOK, [TreasuryNext]_allVars,
                    NEW w \in Windows, ~vault[w].confirmed, vault'[w].confirmed
             PROVE  LET T == quote'[w].by
                        price == quote'[w].price
                        reserved == Value(bank'[T][w].rec, price)
                    IN  /\ reserved <= vault[w].amount * gt.cost
                        /\ reserved * Unit <= buybackFactor *
                             (Value(bank[T][w].rec, price) + Value(treasury[T], price))
  BY DEF ReservesNoMore
<1>1. PICK T \in Treasuries, price \in [Tokens -> Prices] : ConfirmGtBuyback(T, w, price)
  <2>1. ~(\/ AdminNext \/ UNCHANGED allVars)
    BY DEF AdminNext, SetTreasuryVaultConfig, SetGtFactor, SetBuybackFactor, InsertToken,
           RemoveToken, ToggleTokenFlag, Configure, allVars, storeVars
  <2>2. ~UserNext
    BY UserNextVaults
  <2>3. ASSUME NEW S, NEW x, NEW u, CompleteGtExchange(S, x, u) PROVE FALSE
    BY <2>3 DEF CompleteGtExchange, CloseExchange
  <2>4. ASSUME NEW S, NEW x, NEW s, DepositToTreasuryVault(S, x, s) \/ SyncGtBank(S, x, s)
        PROVE  FALSE
    BY <2>4 DEF DepositToTreasuryVault, SyncGtBank, storeVars
  <2>5. ASSUME NEW s, NEW a, ClaimFees(s, a) PROVE FALSE
    BY <2>5 DEF ClaimFees, storeVars
  <2>6. ASSUME NEW S, NEW s, NEW a, WithdrawFromTreasuryVault(S, s, a) PROVE FALSE
    BY <2>6 DEF WithdrawFromTreasuryVault, storeVars
  <2>7. ASSUME NEW S, NEW x, PrepareGtBank(S, x) PROVE FALSE
    BY <2>7 DEF PrepareGtBank, storeVars
  <2>8. PICK S \in Treasuries, x \in Windows, p \in [Tokens -> Prices] : ConfirmGtBuyback(S, x, p)
    BY <2>1, <2>2, <2>3, <2>4, <2>5, <2>6, <2>7 DEF TreasuryNext, KeeperNext
  <2>9. x = w
    BY <2>8 DEF ConfirmGtBuyback, ConfirmVault, StoreTypeOK
  <2> QED BY <2>8, <2>9
<1> DEFINE res == Reserved(T, w, price)
           value == BuybackValue(T, w, price)
           reserved == Value(res.rec, price)
<1>2. price \in Amounts
  BY TreasuryNumbersAssumption DEF Amounts
<1>3. /\ bank' = [bank EXCEPT ![T][w] = [res EXCEPT !.remaining = vault[w].amount]]
      /\ quote' = [quote EXCEPT ![w] = [by |-> T, price |-> price, reserve |-> res.rec]]
  BY <1>1 DEF ConfirmGtBuyback
<1>4. quote'[w].by = T /\ quote'[w].price = price
  BY <1>3 DEF TreasuryTypeOK
<1>5. bank'[T][w].rec = res.rec
  <2>1. bank'[T][w] = [res EXCEPT !.remaining = vault[w].amount]
    BY <1>3 DEF TreasuryTypeOK
  <2>2. bank[T][w] \in BankStates
    BY DEF TreasuryTypeOK
  <2> DEFINE b == bank[T][w]
             rec == [t \in Tokens |-> (b.rec[t] * value) \div Value(b.rec, price)]
  <2>3. res = Cleared(b) \/ res = [b EXCEPT !.rec = rec]
    BY DEF Reserved
  <2> HIDE DEF res, rec
  <2> QED BY <2>1, <2>2, <2>3 DEF BankStates, Cleared
<1>6. reserved \in Nat /\ reserved <= value
  BY <1>2, ReservedValue
<1>7. /\ value \in Nat
      /\ value <= vault[w].amount * gt.cost
      /\ value * Unit <= buybackFactor * (Value(bank[T][w].rec, price) + Value(treasury[T], price))
      /\ Value(bank[T][w].rec, price) \in Nat
  BY <1>2, BuybackValueBounds
<1> HIDE DEF value, res, reserved
<1>8. vault[w].amount * gt.cost \in Nat /\ Unit \in Nat /\ buybackFactor \in Nat
      /\ Value(treasury[T], price) \in Nat
  BY <1>2, NumbersAssumption, ValueNat DEF StoreTypeOK, TreasuryTypeOK, VaultStates, GtStates
<1>9. reserved <= vault[w].amount * gt.cost
  BY <1>6, <1>7, <1>8
<1>10. reserved * Unit <= buybackFactor * (Value(bank[T][w].rec, price) + Value(treasury[T], price))
  <2> DEFINE cap == buybackFactor * (Value(bank[T][w].rec, price) + Value(treasury[T], price))
  <2>1. cap \in Nat /\ value * Unit <= cap
    BY <1>7, <1>8
  <2>2. reserved * Unit <= value * Unit /\ reserved * Unit \in Nat /\ value * Unit \in Nat
    BY <1>6, <1>7, <1>8, ProductMonotone
  <2> HIDE DEF cap
  <2>3. reserved * Unit <= cap
    BY <2>1, <2>2
  <2> QED BY <2>3 DEF cap
<1> QED BY <1>4, <1>5, <1>9, <1>10 DEF reserved

\* What a confirmation reserves is worth no more than the window's GT at the
\* minting cost, and no more than the buyback factor's share of the bank and
\* the treasury, at any prices (ConfirmGtBuyback::update_balances).
THEOREM BuybackIsCapped == TreasurySpec => BuybackCapped
BY ReservesNoMoreStep, TreasuryUsesStore, StoreTypeCorrect, TreasuryTypeCorrect,
   PTL DEF TreasurySpec, BuybackCapped
=============================================================================
