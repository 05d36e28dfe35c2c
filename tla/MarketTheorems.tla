--------------------------- MODULE MarketTheorems ----------------------------
(***************************************************************************)
(* What is proved about the operators of the market model, for every       *)
(* configuration, all prices and all amounts: the types of what they       *)
(* compute, what each operation of a market keeps (Keeps), what an order   *)
(* books (Posts), and how an operation moves the tokens that the recorded  *)
(* balances of a two-token market back (Moves, Funds, Executes).           *)
(***************************************************************************)
EXTENDS PositionModel, NumberTheorems

-----------------------------------------------------------------------------
(* The arithmetic of MarketMath.                                           *)

LEMMA IntOps ==
  \A i, j \in Int : i + j \in Int /\ i - j \in Int /\ -i \in Int /\ i * j \in Int
OBVIOUS

LEMMA NatOps == \A i, j \in Nat : i + j \in Nat /\ i * j \in Nat
OBVIOUS

LEMMA NatInt == \A i \in Nat : i \in Int
OBVIOUS

LEMMA LeastInt ==
  ASSUME NEW i \in Int, NEW j \in Int
  PROVE  /\ Least(i, j) \in Int /\ Least(i, j) <= i /\ Least(i, j) <= j
         /\ Greatest(i, j) \in Int /\ i <= Greatest(i, j) /\ j <= Greatest(i, j)
         /\ Magnitude(i) \in Nat
BY DEF Least, Greatest, Magnitude

LEMMA LeastNat ==
  ASSUME NEW i \in Nat, NEW j \in Nat
  PROVE  Least(i, j) \in Nat /\ Greatest(i, j) \in Nat
BY DEF Least, Greatest

LEMMA DivisionInt ==
  ASSUME NEW i \in Int, NEW n \in Nat \ {0}
  PROVE  /\ i \div n \in Int /\ TruncDiv(i, n) \in Int
         /\ CeilDiv(i, n) \in Int /\ CeilMagnitudeDiv(i, n) \in Int
<1>1. \A j \in Int : j \div n \in Int
  OBVIOUS
<1>2. \A j \in Int : CeilDiv(j, n) \in Int
  BY <1>1 DEF CeilDiv
<1> QED BY <1>1, <1>2 DEF TruncDiv, CeilMagnitudeDiv

LEMMA DivisionNat ==
  ASSUME NEW i \in Nat, NEW n \in Nat \ {0}
  PROVE  /\ i \div n \in Nat /\ TruncDiv(i, n) \in Nat /\ CeilDiv(i, n) \in Nat
<1>1. \A j \in Nat : j \div n \in Nat
  BY Quotient
<1>2. i + n - 1 \in Nat
  OBVIOUS
<1>3. ~(i < 0)
  OBVIOUS
<1> QED BY <1>1, <1>2, <1>3 DEF TruncDiv, CeilDiv

LEMMA MulDivInt ==
  ASSUME NEW i \in Int, NEW j \in Int, NEW n \in Nat \ {0}
  PROVE  /\ MulDiv(i, j, n) \in Int /\ MulDivCeil(i, j, n) \in Int
         /\ MulDivSigned(i, j, n) \in Int
<1> DEFINE k == i * j
<1>1. k \in Int
  OBVIOUS
<1> HIDE DEF k
<1>2. k \div n \in Int /\ CeilDiv(k, n) \in Int /\ TruncDiv(k, n) \in Int
  BY <1>1, DivisionInt
<1> QED BY <1>2 DEF MulDiv, MulDivCeil, MulDivSigned, k

LEMMA MulDivNat ==
  ASSUME NEW i \in Nat, NEW j \in Nat, NEW n \in Nat \ {0}
  PROVE  /\ MulDiv(i, j, n) \in Nat /\ MulDivCeil(i, j, n) \in Nat
         /\ MulDivSigned(i, j, n) \in Nat
<1> DEFINE k == i * j
<1>1. k \in Nat
  OBVIOUS
<1> HIDE DEF k
<1>2. k \div n \in Nat /\ CeilDiv(k, n) \in Nat /\ TruncDiv(k, n) \in Nat
  BY <1>1, DivisionNat
<1> QED BY <1>2 DEF MulDiv, MulDivCeil, MulDivSigned, k

LEMMA FactorInt == \A i, j \in Int : ApplyFactor(i, j) \in Int
BY MulDivInt, UnitAssumption DEF ApplyFactor

LEMMA FactorNat == \A i, j \in Nat : ApplyFactor(i, j) \in Nat
BY MulDivNat, UnitAssumption DEF ApplyFactor

LEMMA ToFactorNat ==
  ASSUME NEW i \in Nat, NEW n \in Nat
  PROVE  DivToFactor(i, n) \in Nat
<1> DEFINE k == i * Unit
<1>1. k \in Nat
  BY UnitAssumption
<1> HIDE DEF k
<1>2. n # 0 => TruncDiv(k, n) \in Nat
  BY <1>1, DivisionNat
<1> QED BY <1>2 DEF DivToFactor, k

LEMMA BoundInt ==
  ASSUME NEW i \in Int, NEW lo \in Nat, NEW hi \in Nat
  PROVE  BoundMagnitude(i, lo, hi) \in Int
BY DEF BoundMagnitude, Least, Greatest, Magnitude

-----------------------------------------------------------------------------
(* The power of a number is a recursive function; that it is well defined  *)
(* is shown for longer and longer initial segments.                        *)
PowerStep(i, h, n) == IF n = 0 THEN Unit ELSE MulDiv(h[n - 1], i, Unit)
Powers(i, n, h) == h = [j \in 0..n |-> PowerStep(i, h, j)]

LEMMA PowersExist == \A n \in Nat : \A i : \E h : Powers(i, n, h)
<1> DEFINE Bad == {n \in Nat : ~\A i : \E h : Powers(i, n, h)}
<1> SUFFICES ASSUME Bad # {} PROVE FALSE
  OBVIOUS
<1>1. PICK n \in Bad : \A k \in Bad : n <= k
  BY LeastNatural
<1>2. CASE n = 0
  <2> SUFFICES ASSUME NEW i PROVE \E h : Powers(i, n, h)
    OBVIOUS
  <2> DEFINE h == [j \in 0..0 |-> Unit]
  <2>1. \A j \in 0..0 : PowerStep(i, h, j) = Unit
    BY DEF PowerStep
  <2>2. Powers(i, n, h)
    BY <1>2, <2>1 DEF Powers
  <2> QED BY <2>2
<1>3. CASE n # 0
  <2> SUFFICES ASSUME NEW i PROVE \E h : Powers(i, n, h)
    OBVIOUS
  <2>1. n - 1 \in Nat /\ n - 1 \notin Bad
    <3>1. n \in Nat
      OBVIOUS
    <3> HIDE DEF Bad
    <3> QED BY <1>1, <1>3, <3>1
  <2>2. PICK g : Powers(i, n - 1, g)
    BY <2>1
  <2> DEFINE h == [j \in 0..n |-> PowerStep(i, g, j)]
  <2> HIDE DEF h
  <2>3. \A j \in 0..(n - 1) : h[j] = g[j]
    BY <2>2 DEF Powers, h
  <2>4. \A j \in 0..n : j # 0 => j - 1 \in 0..(n - 1)
    OBVIOUS
  <2>5. \A j \in 0..n : PowerStep(i, h, j) = PowerStep(i, g, j)
    BY <2>3, <2>4 DEF PowerStep
  <2>6. Powers(i, n, h)
    BY <2>5 DEF Powers, h
  <2> QED BY <2>6
<1> QED BY <1>2, <1>3

LEMMA PowerNat ==
  ASSUME NEW i \in Nat, NEW e \in Nat
  PROVE  PowFixed(i, e) \in Nat
<1> DEFINE times == e \div Unit
<1>1. times \in Nat
  BY Quotient, UnitAssumption
<1>2. \E h : Powers(i, times, h)
  BY <1>1, PowersExist
<1>3. \E h : Powers(i, times, h) /\ PowFixed(i, e) = h[times]
  BY <1>2, Zenon DEF PowFixed, Powers, PowerStep
<1>4. PICK h : Powers(i, times, h) /\ PowFixed(i, e) = h[times]
  BY <1>3
<1> HIDE DEF times
<1> DEFINE Bad == {n \in 0..times : h[n] \notin Nat}
<1> SUFFICES ASSUME Bad # {} PROVE FALSE
  BY <1>1, <1>4
<1>5. PICK n \in Bad : \A k \in Bad : n <= k
  <2>1. Bad \subseteq Nat
    BY <1>1
  <2> HIDE DEF Bad
  <2> QED BY <2>1, LeastNatural
<1>6. h[n] = PowerStep(i, h, n)
  BY <1>4 DEF Powers
<1>7. n # 0
  BY <1>6, UnitAssumption DEF PowerStep
<1>8. n - 1 \in 0..times /\ n - 1 \notin Bad
  BY <1>1, <1>5, <1>7
<1>9. h[n - 1] \in Nat
  BY <1>8
<1>10. MulDiv(h[n - 1], i, Unit) \in Nat
  BY <1>9, MulDivNat, UnitAssumption
<1> QED BY <1>6, <1>7, <1>10 DEF PowerStep

LEMMA ExponentNat ==
  ASSUME NEW i \in Nat, NEW e \in Nat
  PROVE  ApplyExponentFactor(i, e) \in Nat
BY PowerNat, UnitAssumption DEF ApplyExponentFactor

\* The price impact of a change of the two sides is a number.
LEMMA PriceImpactInt ==
  ASSUME NEW cur \in [BOOLEAN -> Int], NEW next \in [BOOLEAN -> Int],
         NEW params \in ImpactParams
  PROVE  PriceImpact(cur, next, params) \in Int
<1>1. /\ params.exponent \in Nat /\ params.positive \in Nat /\ params.negative \in Nat
  BY DEF ImpactParams
<1>2. PositiveFactor(params) \in Nat
  BY <1>1, LeastNat DEF PositiveFactor
<1>3. \A f \in Nat, i \in Nat : ImpactOfDiff(i, f, params) \in Nat
  <2> SUFFICES ASSUME NEW f \in Nat, NEW i \in Nat PROVE ImpactOfDiff(i, f, params) \in Nat
    OBVIOUS
  <2>1. ApplyExponentFactor(i, params.exponent) \in Nat
    BY <1>1, ExponentNat
  <2> QED BY <2>1, FactorNat DEF ImpactOfDiff, ApplyFactors
<1>4. SideDiff(cur) \in Nat /\ SideDiff(next) \in Nat
  <2>1. cur[TRUE] \in Int /\ cur[FALSE] \in Int /\ next[TRUE] \in Int /\ next[FALSE] \in Int
    OBVIOUS
  <2>2. cur[TRUE] - cur[FALSE] \in Int /\ next[TRUE] - next[FALSE] \in Int
    BY <2>1, IntOps
  <2> QED BY <2>2, LeastInt DEF SideDiff
<1>5. CrossOverImpact(cur, next, params) \in Int
  BY <1>1, <1>2, <1>3, <1>4, IntOps, NatInt DEF CrossOverImpact
<1>6. SameSideImpact(cur, next, params) \in Int
  <2>1. \A f \in Nat : Magnitude(ImpactOfDiff(SideDiff(cur), f, params)
                                   - ImpactOfDiff(SideDiff(next), f, params)) \in Int
    <3> TAKE f \in Nat
    <3>1. ImpactOfDiff(SideDiff(cur), f, params) - ImpactOfDiff(SideDiff(next), f, params) \in Int
      BY <1>3, <1>4, IntOps, NatInt
    <3> QED BY <3>1, LeastInt
  <2> QED BY <1>1, <1>2, <2>1 DEF SameSideImpact
<1> QED BY <1>5, <1>6 DEF PriceImpact

-----------------------------------------------------------------------------
(* Markets as records.  A market that an operation refuses is dropped, so  *)
(* nothing is said of its amounts.                                         *)
IsMarket(a) ==
  /\ a = [pure |-> a.pure, supply |-> a.supply, factor |-> a.factor, ok |-> a.ok,
          pool |-> a.pool, bal |-> a.bal, clock |-> a.clock]
  /\ a.pure \in BOOLEAN
  /\ a.pool = [k \in PoolKinds |-> [s \in BOOLEAN |-> a.pool[k][s]]]
  /\ a.clock = [c \in ClockKinds |-> a.clock[c]]

Sound(a) ==
  /\ IsMarket(a) /\ a.ok
  /\ \A k \in PoolKinds, s \in BOOLEAN : a.pool[k][s] \in Nat
  /\ a.factor \in Int
  /\ \A c \in ClockKinds : a.clock[c] \in Int

(* The pools of liquidity and fees, the ones that mirror the positions and *)
(* the ones that only ever grow.                                           *)
LiquidityPools == {Primary, SwapImpact, ClaimableFee, PositionImpact}
BookPools ==
  ({"OpenInterest", "OpenInterestInTokens", "CollateralSum"} \X BOOLEAN) \cup {TotalBorrowing}
Accumulators ==
  ({"FundingAmountPerSize", "ClaimableFundingAmountPerSize"} \X BOOLEAN) \cup {BorrowingFactor}

(* What everything but an order does to a market.                          *)
Keeps(a, b) ==
  IsMarket(a) =>
    /\ IsMarket(b) /\ b.pure = a.pure
    /\ b.ok => a.ok
    /\ Sound(a) /\ b.ok =>
         /\ Sound(b)
         /\ \A k \in BookPools, s \in BOOLEAN : b.pool[k][s] = a.pool[k][s]
         /\ \A k \in Accumulators, s \in BOOLEAN : a.pool[k][s] <= b.pool[k][s]

LEMMA PoolsSplit ==
  /\ LiquidityPools \subseteq PoolKinds /\ BookPools \subseteq PoolKinds
  /\ Accumulators \subseteq PoolKinds
  /\ \A k \in LiquidityPools : k \notin BookPools /\ k \notin Accumulators
  /\ \A k \in BookPools : k \notin Accumulators
<1>1. /\ Primary \in PoolKinds /\ SwapImpact \in PoolKinds
      /\ ClaimableFee \in PoolKinds /\ PositionImpact \in PoolKinds
      /\ BorrowingFactor \in PoolKinds /\ TotalBorrowing \in PoolKinds
  BY Zenon DEF PoolKinds, Primary, SwapImpact, ClaimableFee, PositionImpact,
               BorrowingFactor, TotalBorrowing
<1>2. /\ {"OpenInterest", "OpenInterestInTokens", "CollateralSum"} \X BOOLEAN \subseteq PoolKinds
      /\ {"FundingAmountPerSize", "ClaimableFundingAmountPerSize"} \X BOOLEAN \subseteq PoolKinds
  BY DEF PoolKinds
<1>3. /\ Primary[1] = "Primary" /\ SwapImpact[1] = "SwapImpact"
      /\ ClaimableFee[1] = "ClaimableFee" /\ PositionImpact[1] = "PositionImpact"
      /\ BorrowingFactor[1] = "BorrowingFactor" /\ TotalBorrowing[1] = "TotalBorrowing"
  BY DEF Primary, SwapImpact, ClaimableFee, PositionImpact, BorrowingFactor, TotalBorrowing
<1>4. \A k \in {"OpenInterest", "OpenInterestInTokens", "CollateralSum"} \X BOOLEAN :
        k[1] \in {"OpenInterest", "OpenInterestInTokens", "CollateralSum"}
  OBVIOUS
<1>5. \A k \in {"FundingAmountPerSize", "ClaimableFundingAmountPerSize"} \X BOOLEAN :
        k[1] \in {"FundingAmountPerSize", "ClaimableFundingAmountPerSize"}
  OBVIOUS
<1>6. LiquidityPools \subseteq PoolKinds /\ BookPools \subseteq PoolKinds
      /\ Accumulators \subseteq PoolKinds
  BY <1>1, <1>2 DEF LiquidityPools, BookPools, Accumulators
<1>7. \A k \in LiquidityPools :
        k[1] \in {"Primary", "SwapImpact", "ClaimableFee", "PositionImpact"}
  BY <1>3 DEF LiquidityPools
<1>8. \A k \in BookPools :
        k[1] \in {"OpenInterest", "OpenInterestInTokens", "CollateralSum", "TotalBorrowing"}
  BY <1>3, <1>4 DEF BookPools
<1>9. \A k \in Accumulators :
        k[1] \in {"FundingAmountPerSize", "ClaimableFundingAmountPerSize", "BorrowingFactor"}
  BY <1>3, <1>5 DEF Accumulators
<1> QED BY <1>6, <1>7, <1>8, <1>9

LEMMA KeepsItself == \A a : Keeps(a, a)
<1> SUFFICES ASSUME NEW a, Sound(a)
             PROVE  \A k \in Accumulators, s \in BOOLEAN : a.pool[k][s] <= a.pool[k][s]
  BY DEF Keeps
<1> QED BY PoolsSplit DEF Sound

LEMMA KeepsTransitive ==
  ASSUME NEW a, NEW b, NEW c, Keeps(a, b), Keeps(b, c)
  PROVE  Keeps(a, c)
<1> SUFFICES ASSUME IsMarket(a) PROVE Keeps(a, c)
  BY DEF Keeps
<1>1. IsMarket(b) /\ IsMarket(c) /\ b.pure = a.pure /\ c.pure = a.pure
  BY DEF Keeps
<1>2. c.ok => b.ok /\ a.ok
  BY <1>1 DEF Keeps
<1>3. ASSUME Sound(a), c.ok
      PROVE  /\ Sound(c)
             /\ \A k \in BookPools, s \in BOOLEAN : c.pool[k][s] = a.pool[k][s]
             /\ \A k \in Accumulators, s \in BOOLEAN : a.pool[k][s] <= c.pool[k][s]
  <2>1. Sound(b) /\ Sound(c)
    BY <1>1, <1>2, <1>3 DEF Keeps
  <2>2. \A k \in BookPools, s \in BOOLEAN : c.pool[k][s] = a.pool[k][s]
    BY <1>1, <1>2, <1>3, <2>1 DEF Keeps
  <2>3. ASSUME NEW k \in Accumulators, NEW s \in BOOLEAN PROVE a.pool[k][s] <= c.pool[k][s]
    <3>1. a.pool[k][s] <= b.pool[k][s] /\ b.pool[k][s] <= c.pool[k][s]
      BY <1>1, <1>2, <1>3, <2>1 DEF Keeps
    <3>2. a.pool[k][s] \in Nat /\ b.pool[k][s] \in Nat /\ c.pool[k][s] \in Nat
      BY <1>3, <2>1, PoolsSplit DEF Sound
    <3> QED BY <3>1, <3>2
  <2> QED BY <2>1, <2>2, <2>3
<1> QED BY <1>1, <1>2, <1>3 DEF Keeps

LEMMA CheckShape ==
  ASSUME NEW a, NEW cond, IsMarket(a)
  PROVE  /\ IsMarket(Check(a, cond))
         /\ Check(a, cond).ok = (a.ok /\ cond)
         /\ Check(a, cond).pool = a.pool /\ Check(a, cond).pure = a.pure
         /\ Check(a, cond).clock = a.clock /\ Check(a, cond).factor = a.factor
         /\ Check(a, cond).bal = a.bal /\ Check(a, cond).supply = a.supply
<1> DEFINE b == Check(a, cond)
<1>1. b = [pure |-> a.pure, supply |-> a.supply, factor |-> a.factor, ok |-> (a.ok /\ cond),
           pool |-> a.pool, bal |-> a.bal, clock |-> a.clock]
  BY DEF IsMarket, Check
<1> HIDE DEF b
<1>2. /\ b.pure = a.pure /\ b.supply = a.supply /\ b.factor = a.factor
      /\ b.ok = (a.ok /\ cond) /\ b.pool = a.pool /\ b.bal = a.bal /\ b.clock = a.clock
  BY <1>1
<1>3. IsMarket(b)
  BY <1>1, <1>2 DEF IsMarket
<1> QED BY <1>2, <1>3 DEF b

LEMMA CheckKeeps ==
  ASSUME NEW a, NEW cond
  PROVE  Keeps(a, Check(a, cond)) /\ (IsMarket(a) /\ Check(a, cond).ok => cond)
<1> SUFFICES ASSUME IsMarket(a)
             PROVE  Keeps(a, Check(a, cond)) /\ (Check(a, cond).ok => cond)
  BY DEF Keeps
<1> DEFINE b == Check(a, cond)
<1>1. /\ IsMarket(b) /\ b.ok = (a.ok /\ cond) /\ b.pool = a.pool /\ b.pure = a.pure
      /\ b.clock = a.clock /\ b.factor = a.factor
  BY CheckShape
<1> HIDE DEF b
<1>2. b.ok => a.ok /\ cond
  BY <1>1
<1>3. Sound(a) /\ b.ok => Sound(b)
  BY <1>1 DEF Sound
<1>4. Keeps(a, a)
  BY KeepsItself
<1>5. Keeps(a, b)
  BY <1>1, <1>2, <1>3, <1>4 DEF Keeps
<1> QED BY <1>2, <1>5 DEF b

LEMMA RefusedNotOk == \A a : IsMarket(a) => ~Refused(a).ok
BY CheckKeeps DEF Refused

LEMMA RefusedKeeps == \A a : Keeps(a, Refused(a))
BY CheckKeeps DEF Refused

\* The side of a pool that an amount is booked to.
DeltaSide(a, k, s) == s \/ IsPure(a, k)

LEMMA DeltaSideBoolean == \A a, k, s : DeltaSide(a, k, s) \in BOOLEAN
BY Zenon DEF DeltaSide

LEMMA DeltaShape ==
  ASSUME NEW a, NEW k \in PoolKinds, NEW s \in BOOLEAN, NEW d, IsMarket(a),
         NEW side \in BOOLEAN, side = DeltaSide(a, k, s)
  PROVE  /\ IsMarket(ApplyDelta(a, k, s, d))
         /\ ApplyDelta(a, k, s, d).ok => a.ok /\ a.pool[k][side] + d \in Nat
         /\ ApplyDelta(a, k, s, d).pure = a.pure
         /\ ApplyDelta(a, k, s, d).clock = a.clock
         /\ ApplyDelta(a, k, s, d).factor = a.factor
         /\ ApplyDelta(a, k, s, d).bal = a.bal /\ ApplyDelta(a, k, s, d).supply = a.supply
         /\ ApplyDelta(a, k, s, d).pool[k][side] = a.pool[k][side] + d
         /\ \A l \in PoolKinds, t \in BOOLEAN :
              l # k \/ t # side => ApplyDelta(a, k, s, d).pool[l][t] = a.pool[l][t]
<1> DEFINE b == ApplyDelta(a, k, s, d)
           fit == a.pool[k][side] + d \in Nat
           pool == [a.pool EXCEPT ![k] = [a.pool[k] EXCEPT ![side] = a.pool[k][side] + d]]
<1>1. b = [[a EXCEPT !.pool = pool] EXCEPT !.ok = a.ok /\ fit]
  BY DEF ApplyDelta, IsMarket, DeltaSide
<1> HIDE DEF pool, fit, b
<1>2. b = [pure |-> a.pure, supply |-> a.supply, factor |-> a.factor, ok |-> (a.ok /\ fit),
           pool |-> pool, bal |-> a.bal, clock |-> a.clock]
  BY <1>1 DEF IsMarket
<1>3. /\ b.pure = a.pure /\ b.supply = a.supply /\ b.factor = a.factor
      /\ b.ok = (a.ok /\ fit) /\ b.pool = pool /\ b.bal = a.bal /\ b.clock = a.clock
  BY <1>2
<1>4. pool[k][side] = a.pool[k][side] + d
  BY DEF IsMarket, pool
<1>5. \A l \in PoolKinds, t \in BOOLEAN : l # k \/ t # side => pool[l][t] = a.pool[l][t]
  BY DEF IsMarket, pool
<1>6. pool = [l \in PoolKinds |-> [t \in BOOLEAN |-> pool[l][t]]]
  BY DEF IsMarket, pool
<1>7. IsMarket(b)
  BY <1>2, <1>3, <1>6 DEF IsMarket
<1>8. b.ok => a.ok /\ fit
  BY <1>3
<1> QED BY <1>3, <1>4, <1>5, <1>7, <1>8 DEF b, fit

\* A pool that grows, or one of liquidity that changes, keeps the books.
LEMMA DeltaKeeps ==
  ASSUME NEW a, NEW k, NEW s \in BOOLEAN, NEW d,
         \/ k \in LiquidityPools
         \/ k \in Accumulators /\ (Sound(a) /\ ApplyDelta(a, k, s, d).ok => d \in Nat)
  PROVE  Keeps(a, ApplyDelta(a, k, s, d))
<1> SUFFICES ASSUME IsMarket(a) PROVE Keeps(a, ApplyDelta(a, k, s, d))
  BY DEF Keeps
<1> DEFINE b == ApplyDelta(a, k, s, d)
<1>1. k \in PoolKinds /\ k \notin BookPools
  BY PoolsSplit
<1>2. PICK side \in BOOLEAN : side = DeltaSide(a, k, s)
  BY DeltaSideBoolean
<1>3. /\ IsMarket(b)
      /\ b.ok => a.ok /\ a.pool[k][side] + d \in Nat
      /\ b.pure = a.pure /\ b.clock = a.clock /\ b.factor = a.factor
      /\ b.pool[k][side] = a.pool[k][side] + d
      /\ \A l \in PoolKinds, t \in BOOLEAN : l # k \/ t # side => b.pool[l][t] = a.pool[l][t]
  BY <1>1, <1>2, DeltaShape
<1> HIDE DEF b
<1>4. ASSUME Sound(a), b.ok
      PROVE  /\ Sound(b)
             /\ \A l \in BookPools, t \in BOOLEAN : b.pool[l][t] = a.pool[l][t]
             /\ \A l \in Accumulators, t \in BOOLEAN : a.pool[l][t] <= b.pool[l][t]
  <2>1. \A l \in PoolKinds, t \in BOOLEAN : b.pool[l][t] \in Nat
    BY <1>3, <1>4 DEF Sound
  <2>2. Sound(b)
    BY <1>3, <1>4, <2>1 DEF Sound
  <2>3. \A l \in BookPools, t \in BOOLEAN : b.pool[l][t] = a.pool[l][t]
    BY <1>1, <1>3, PoolsSplit
  <2>4. ASSUME NEW l \in Accumulators, NEW t \in BOOLEAN PROVE a.pool[l][t] <= b.pool[l][t]
    <3>1. a.pool[l][t] \in Nat /\ l \in PoolKinds
      BY <1>4, PoolsSplit DEF Sound
    <3>2. CASE l # k \/ t # side
      BY <1>3, <3>1, <3>2
    <3>3. CASE l = k /\ t = side
      <4>1. d \in Nat
        BY <1>4, <3>3, PoolsSplit DEF b
      <4> QED BY <1>3, <3>1, <3>3, <4>1
    <3> QED BY <3>2, <3>3
  <2> QED BY <2>2, <2>3, <2>4
<1>5. Keeps(a, b)
  BY <1>3, <1>4 DEF Keeps
<1> QED BY <1>5 DEF b

LEMMA LiquidityDelta ==
  ASSUME NEW a, NEW b, Keeps(a, b), NEW k \in LiquidityPools, NEW s \in BOOLEAN, NEW d
  PROVE  Keeps(a, ApplyDelta(b, k, s, d))
BY DeltaKeeps, KeepsTransitive

LEMMA AccumulatorDelta ==
  ASSUME NEW a, NEW b, Keeps(a, b), NEW k \in Accumulators, NEW s \in BOOLEAN, NEW d,
         Sound(a) /\ ApplyDelta(b, k, s, d).ok => d \in Nat
  PROVE  Keeps(a, ApplyDelta(b, k, s, d))
<1> SUFFICES ASSUME IsMarket(a) PROVE Keeps(a, ApplyDelta(b, k, s, d))
  BY DEF Keeps
<1> DEFINE c == ApplyDelta(b, k, s, d)
<1>1. CASE Sound(a)
  <2>1. Keeps(b, c)
    BY <1>1, DeltaKeeps
  <2> QED BY <2>1, KeepsTransitive
<1>2. CASE ~Sound(a)
  <2>1. IsMarket(b) /\ b.pure = a.pure /\ (b.ok => a.ok)
    BY DEF Keeps
  <2>2. k \in PoolKinds
    BY PoolsSplit
  <2>3. PICK side \in BOOLEAN : side = DeltaSide(b, k, s)
    BY DeltaSideBoolean
  <2>4. IsMarket(c) /\ (c.ok => b.ok /\ b.pool[k][side] + d \in Nat) /\ c.pure = b.pure
    <3>1. IsMarket(c)
      BY <2>1, <2>2, <2>3, DeltaShape, ZenonT(40)
    <3>2. c.ok => b.ok /\ b.pool[k][side] + d \in Nat
      BY <2>1, <2>2, <2>3, DeltaShape
    <3>3. c.pure = b.pure
      BY <2>1, <2>2, <2>3, DeltaShape
    <3> HIDE DEF c
    <3> QED BY <3>1, <3>2, <3>3
  <2> HIDE DEF c
  <2>5. Keeps(a, c)
    BY <1>2, <2>1, <2>4 DEF Keeps
  <2> QED BY <2>5 DEF c
<1> QED BY <1>1, <1>2

LEMMA LiquidityCheck ==
  ASSUME NEW a, NEW b, Keeps(a, b), NEW cond
  PROVE  Keeps(a, Check(b, cond))
BY CheckKeeps, KeepsTransitive

LEMMA LiquidityNames ==
  /\ Primary \in LiquidityPools /\ SwapImpact \in LiquidityPools
  /\ ClaimableFee \in LiquidityPools /\ PositionImpact \in LiquidityPools
BY DEF LiquidityPools

\* The supply and the recorded balances are of no concern to the pools.
LEMMA SameExceptBalances ==
  ASSUME NEW a, NEW b, NEW supply, NEW bal, NEW ok, ok => a.ok,
         IsMarket(a) => b = [pure |-> a.pure, supply |-> supply, factor |-> a.factor, ok |-> ok,
                             pool |-> a.pool, bal |-> bal, clock |-> a.clock]
  PROVE  Keeps(a, b)
<1> SUFFICES ASSUME IsMarket(a) PROVE Keeps(a, b)
  BY DEF Keeps
<1>1. /\ b.pure = a.pure /\ b.supply = supply /\ b.factor = a.factor
      /\ b.ok = ok /\ b.pool = a.pool /\ b.bal = bal /\ b.clock = a.clock
  OBVIOUS
<1>2. IsMarket(b)
  BY <1>1 DEF IsMarket
<1>3. b.ok => a.ok
  BY <1>1
<1>4. Sound(a) /\ b.ok => Sound(b)
  BY <1>1, <1>2 DEF Sound
<1>5. Keeps(a, a)
  BY KeepsItself
<1> QED BY <1>1, <1>2, <1>3, <1>4, <1>5 DEF Keeps

LEMMA TransferInKeeps ==
  ASSUME NEW a, NEW s, NEW amount
  PROVE  Keeps(a, TransferIn(a, s, amount))
<1> DEFINE bal == [a.bal EXCEPT ![s \/ a.pure] = a.bal[s \/ a.pure] + amount]
<1>1. IsMarket(a) => TransferIn(a, s, amount) =
         [pure |-> a.pure, supply |-> a.supply, factor |-> a.factor, ok |-> a.ok,
          pool |-> a.pool, bal |-> bal, clock |-> a.clock]
  <2>1. TransferIn(a, s, amount) = [a EXCEPT !.bal = bal]
    BY Zenon DEF TransferIn
  <2> HIDE DEF bal
  <2> QED BY <2>1 DEF IsMarket
<1> HIDE DEF bal
<1> QED BY <1>1, SameExceptBalances

LEMMA TransferOutKeeps ==
  ASSUME NEW a, NEW amounts
  PROVE  Keeps(a, TransferOut(a, amounts))
<1> DEFINE out(s) == IF a.pure THEN IF s THEN amounts[TRUE] + amounts[FALSE] ELSE 0
                     ELSE amounts[s]
           bal == [s \in BOOLEAN |-> a.bal[s] - out(s)]
           enough == \A s \in BOOLEAN : a.bal[s] >= out(s)
<1>1. TransferOut(a, amounts) = [[a EXCEPT !.bal = bal] EXCEPT !.ok = a.ok /\ enough]
  BY DEF TransferOut
<1> HIDE DEF bal, enough
<1>2. IsMarket(a) => TransferOut(a, amounts) =
         [pure |-> a.pure, supply |-> a.supply, factor |-> a.factor, ok |-> (a.ok /\ enough),
          pool |-> a.pool, bal |-> bal, clock |-> a.clock]
  BY <1>1 DEF IsMarket
<1>3. PICK ok : ok = (a.ok /\ enough)
  OBVIOUS
<1>4. IsMarket(a) => TransferOut(a, amounts) =
         [pure |-> a.pure, supply |-> a.supply, factor |-> a.factor, ok |-> ok,
          pool |-> a.pool, bal |-> bal, clock |-> a.clock]
  BY <1>2, <1>3
<1>5. ok => a.ok
  BY <1>3
<1> QED BY <1>4, <1>5, SameExceptBalances

LEMMA PaidKeeps ==
  ASSUME NEW a, NEW amounts
  PROVE  Keeps(a, Covered(a)) /\ Keeps(a, Paid(a, amounts))
<1>1. Keeps(a, Covered(a))
  BY CheckKeeps DEF Covered
<1>2. Keeps(TransferOut(a, amounts), Covered(TransferOut(a, amounts)))
  BY CheckKeeps DEF Covered
<1> QED BY <1>1, <1>2, TransferOutKeeps, KeepsTransitive DEF Paid

-----------------------------------------------------------------------------
(* Swaps, deposits and withdrawals only move liquidity and fees.           *)
LEMMA SwapKeeps ==
  ASSUME NEW a, NEW x, NEW s \in BOOLEAN, NEW amount, NEW fees
  PROVE  Keeps(a, Swap(a, x, s, amount, fees).m)
<1> USE LiquidityNames
<1>1. (~s) \in BOOLEAN
  OBVIOUS
<1>2. ASSUME NEW b, Keeps(a, b), NEW after, NEW impact
      PROVE  Keeps(a, SwapGain(b, x, s, after, impact).m)
  BY <1>1, <1>2, LiquidityDelta DEF SwapGain
<1>3. ASSUME NEW b, Keeps(a, b), NEW after, NEW impact
      PROVE  Keeps(a, SwapLoss(b, x, s, after, impact).m)
  BY <1>3, LiquidityDelta, LiquidityCheck DEF SwapLoss
<1>4. ASSUME NEW b, Keeps(a, b) PROVE Keeps(a, SwapAllowed(b, x, s))
  BY <1>4, LiquidityCheck DEF SwapAllowed
<1>5. CASE ~(amount = 0 \/ ~ValidPrices(x) \/
             [[MidValues(a, x) EXCEPT ![s] = @ + amount * Mid(TokenPrice(x, s))]
                EXCEPT ![~s] = @ - amount * Mid(TokenPrice(x, s))][~s] < 0)
  <2> DEFINE cur == MidValues(a, x)
             moved == amount * Mid(TokenPrice(x, s))
             next == [cur EXCEPT ![s] = @ + moved, ![~s] = @ - moved]
             impact == PriceImpact(cur, next, SwapImpactParams)
             f == ApplyFees(fees, impact > 0, amount)
             paid == ApplyDelta(a, ClaimableFee, s, f.receiver)
             r == IF impact > 0 THEN SwapGain(paid, x, s, f.after, impact)
                  ELSE SwapLoss(paid, x, s, f.after, impact)
  <2>1. Keeps(a, paid)
    BY KeepsItself, LiquidityDelta
  <2>2. Keeps(a, r.m)
    <3> HIDE DEF impact, f, paid
    <3> QED BY <1>2, <1>3, <2>1
  <2>3. Keeps(a, ApplyDelta(ApplyDelta(r.m, Primary, s, r.in + f.pool), Primary, ~s, -r.poolOut))
    <3> HIDE DEF r, f
    <3> QED BY <1>1, <2>2, LiquidityDelta
  <2>4. Swap(a, x, s, amount, fees).m
          = SwapAllowed(ApplyDelta(ApplyDelta(r.m, Primary, s, r.in + f.pool),
                                   Primary, ~s, -r.poolOut), x, s)
    BY <1>5 DEF Swap
  <2> HIDE DEF r, f
  <2> QED BY <1>4, <2>3, <2>4
<1>6. CASE amount = 0 \/ ~ValidPrices(x) \/
             [[MidValues(a, x) EXCEPT ![s] = @ + amount * Mid(TokenPrice(x, s))]
                EXCEPT ![~s] = @ - amount * Mid(TokenPrice(x, s))][~s] < 0
  <2>1. Swap(a, x, s, amount, fees).m = Refused(a)
    BY <1>6 DEF Swap
  <2> QED BY <2>1, RefusedKeeps
<1> QED BY <1>5, <1>6

LEMMA DepositOneKeeps ==
  ASSUME NEW a, NEW x, NEW s \in BOOLEAN, NEW amount, NEW value, NEW share, NEW fees
  PROVE  Keeps(a, DepositOne(a, x, s, amount, value, share, fees).m)
<1> USE LiquidityNames
<1> DEFINE f == ApplyFees(fees, share > 0, amount)
           impact == IF share > 0 /\ a.supply = 0 THEN 0 ELSE share
           gain == IF impact > 0
                   THEN SwapImpactAmount(a, ~s, TokenPrice(x, ~s), impact).amount ELSE 0
           loss == IF impact < 0
                   THEN -SwapImpactAmount(a, s, TokenPrice(x, s), impact).amount ELSE 0
           paid == ApplyDelta(a, ClaimableFee, s, f.receiver)
           moved == IF impact > 0
                    THEN ApplyDelta(ApplyDelta(paid, SwapImpact, ~s, -gain), Primary, ~s, gain)
                    ELSE ApplyDelta(paid, SwapImpact, s, loss)
           n == ApplyDelta(moved, Primary, s, f.after - loss + f.pool)
           cond == /\ impact > 0 => ValidPoolAmount(moved, ~s)
                   /\ ValidPoolAmount(n, s)
                   /\ ValidPoolValueForDeposit(n, x, s)
<1>1. \/ DepositOneSide(a, x, s, amount, value, share, fees).m = Refused(a)
      \/ DepositOneSide(a, x, s, amount, value, share, fees).m = Check(n, cond)
  BY DEF DepositOneSide
<1>2. Keeps(a, paid)
  BY KeepsItself, LiquidityDelta
<1>3. (~s) \in BOOLEAN
  OBVIOUS
<1> HIDE DEF cond, f, gain, loss, impact
<1>4. Keeps(a, moved)
  <2> HIDE DEF paid
  <2> QED BY <1>2, <1>3, LiquidityDelta
<1>5. Keeps(a, Check(n, cond))
  <2> HIDE DEF moved
  <2> QED BY <1>4, LiquidityDelta, LiquidityCheck
<1> HIDE DEF n
<1>6. Keeps(a, DepositOneSide(a, x, s, amount, value, share, fees).m)
  BY <1>1, <1>5, RefusedKeeps
<1> QED BY <1>6, KeepsItself DEF DepositOne

LEMMA MintingKeeps ==
  ASSUME NEW a, NEW minted
  PROVE  Keeps(a, Minting(a, minted).m)
<1> DEFINE supply == a.supply + minted
<1>1. Minting(a, minted).m = [a EXCEPT !.supply = supply]
  BY DEF Minting
<1> HIDE DEF supply
<1>2. IsMarket(a) => Minting(a, minted).m =
        [pure |-> a.pure, supply |-> supply, factor |-> a.factor, ok |-> a.ok,
         pool |-> a.pool, bal |-> a.bal, clock |-> a.clock]
  BY <1>1 DEF IsMarket
<1> QED BY <1>2, SameExceptBalances

LEMMA DepositKeeps ==
  ASSUME NEW a, NEW x, NEW amount, NEW fees
  PROVE  Keeps(a, Deposit(a, x, amount, fees).m)
<1>1. ASSUME NEW value, NEW share
      PROVE  Keeps(a, DepositBoth(a, x, amount, value, share, fees).m)
  <2> DEFINE long == DepositOne(a, x, TRUE, amount[TRUE], value, share[TRUE], fees)
             short == DepositOne(long.m, x, FALSE, amount[FALSE], value, share[FALSE], fees)
  <2>1. Keeps(a, long.m)
    BY DepositOneKeeps
  <2>2. Keeps(long.m, short.m)
    BY DepositOneKeeps
  <2>3. DepositBoth(a, x, amount, value, share, fees) = Minting(short.m, long.minted + short.minted)
    BY DEF DepositBoth, DepositShort
  <2> HIDE DEF long, short
  <2> QED BY <2>1, <2>2, <2>3, MintingKeeps, KeepsTransitive
<1>2. ASSUME NEW cur, NEW added, NEW value
      PROVE  Keeps(a, DepositValued(a, x, amount, cur, added, value, fees).m)
  <2>1. CASE value < 0
    BY <2>1, RefusedKeeps DEF DepositValued
  <2>2. CASE ~(value < 0)
    BY <1>1, <2>2 DEF DepositValued
  <2> QED BY <2>1, <2>2
<1>3. \/ Deposit(a, x, amount, fees).m = Refused(a)
      \/ \E cur, added, value :
           Deposit(a, x, amount, fees).m = DepositValued(a, x, amount, cur, added, value, fees).m
  BY DEF Deposit
<1> QED BY <1>2, <1>3, RefusedKeeps

LEMMA WithdrawKeeps ==
  ASSUME NEW a, NEW x, NEW burnt, NEW fees
  PROVE  Keeps(a, Withdraw(a, x, burnt, fees).m)
<1> USE LiquidityNames
<1>1. ASSUME NEW b, Keeps(a, b), NEW s \in BOOLEAN, NEW f PROVE Keeps(a, PayWithdrawal(b, s, f))
  BY <1>1, LiquidityDelta DEF PayWithdrawal
<1>2. ASSUME NEW f PROVE Keeps(a, WithdrawPaid(a, x, burnt, f).m)
  <2> DEFINE b == PayWithdrawal(PayWithdrawal(a, TRUE, f[TRUE]), FALSE, f[FALSE])
             supply == b.supply - burnt
             c == [b EXCEPT !.supply = supply]
  <2>1. Keeps(a, b)
    BY <1>1, KeepsItself
  <2>2. WithdrawPaid(a, x, burnt, f).m = WithdrawAllowed(c, x)
    BY DEF WithdrawPaid
  <2> HIDE DEF b, supply
  <2>3. IsMarket(b) => c =
          [pure |-> b.pure, supply |-> supply, factor |-> b.factor, ok |-> b.ok,
           pool |-> b.pool, bal |-> b.bal, clock |-> b.clock]
    BY DEF IsMarket
  <2>4. Keeps(a, c)
    BY <2>1, <2>3, SameExceptBalances, KeepsTransitive
  <2> HIDE DEF c
  <2> QED BY <2>2, <2>4, LiquidityCheck DEF WithdrawAllowed
<1>3. \/ Withdraw(a, x, burnt, fees).m = Refused(a)
      \/ \E f : Withdraw(a, x, burnt, fees).m = WithdrawPaid(a, x, burnt, f).m
  BY DEF Withdraw, WithdrawCharged
<1> QED BY <1>2, <1>3, RefusedKeeps

-----------------------------------------------------------------------------
(* The amounts of a market, and what accrues with time.                    *)
Oracles == [index : Prices, long : Prices, short : Prices, now : Int]

LEMMA OraclePrices ==
  ASSUME NEW x \in Oracles, NEW s \in BOOLEAN
  PROVE  /\ x.index.min \in Nat /\ x.index.max \in Nat
         /\ TokenPrice(x, s).min \in Nat /\ TokenPrice(x, s).max \in Nat
         /\ x.now \in Int
         /\ PickPrice(x.index, s) \in Nat
         /\ \A t \in BOOLEAN : PickPrice(TokenPrice(x, t), s) \in Nat
         /\ ValidPrices(x) =>
              /\ x.index.min # 0 /\ x.index.max # 0
              /\ TokenPrice(x, s).min # 0 /\ TokenPrice(x, s).max # 0
<1>1. \A p \in Prices : p.min \in Nat /\ p.max \in Nat
  BY DEF Prices
<1>2. x.index \in Prices /\ x.long \in Prices /\ x.short \in Prices /\ x.now \in Int
  BY DEF Oracles
<1>3. \A t \in BOOLEAN : TokenPrice(x, t) \in Prices
  BY <1>2 DEF TokenPrice
<1>4. \A p \in Prices : PickPrice(p, s) \in Nat
  BY <1>1 DEF PickPrice
<1>5. ValidPrices(x) =>
         /\ x.index.min # 0 /\ x.index.max # 0
         /\ TokenPrice(x, s).min # 0 /\ TokenPrice(x, s).max # 0
  BY DEF ValidPrices, ValidPrice, TokenPrice
<1> QED BY <1>1, <1>2, <1>3, <1>4, <1>5

LEMMA BorrowingConfig ==
  ASSUME NEW s \in BOOLEAN
  PROVE  /\ Config.open_interest_reserve_factor \in Nat
         /\ Config.max_open_interest[s] \in Nat
         /\ BorrowingFeeParams.exponent[s] \in Nat /\ BorrowingFeeParams.factor[s] \in Nat
         /\ BorrowingFeeParams.receiver \in Nat
         /\ BorrowingFeeKinkParams(s).optimal \in Nat
         /\ BorrowingFeeKinkParams(s).base \in Nat
         /\ BorrowingFeeKinkParams(s).above \in Nat
BY ConfigAssumption DEF Configs, BorrowingFeeParams, BorrowingFeeKinkParams

LEMMA FundingConfig ==
  /\ FundingFeeParams.exponent \in Nat /\ FundingFeeParams.factor \in Nat
  /\ FundingFeeParams.increase_factor \in Nat /\ FundingFeeParams.decrease_factor \in Nat
  /\ FundingFeeParams.max_factor \in Nat /\ FundingFeeParams.min_factor \in Nat
BY ConfigAssumption DEF Configs, FundingFeeParams

LEMMA AmountNat ==
  ASSUME NEW a, Sound(a), NEW k \in PoolKinds, NEW s \in BOOLEAN
  PROVE  Amount(a, k, s) \in Nat
<1>1. a.pool[k][s] \in Nat /\ a.pool[k][TRUE] \in Nat
  BY DEF Sound
<1>2. CeilDiv(a.pool[k][TRUE], 2) \in Nat /\ a.pool[k][TRUE] \div 2 \in Nat
  <2>1. 2 \in Nat \ {0}
    OBVIOUS
  <2>2. \A i \in Nat : CeilDiv(i, 2) \in Nat /\ i \div 2 \in Nat
    BY <2>1, DivisionNat
  <2> QED BY <1>1, <2>2
<1> QED BY <1>1, <1>2 DEF Amount

LEMMA SideKinds ==
  ASSUME NEW s \in BOOLEAN
  PROVE  /\ <<"OpenInterest", s>> \in BookPools /\ <<"OpenInterestInTokens", s>> \in BookPools
         /\ <<"CollateralSum", s>> \in BookPools /\ TotalBorrowing \in BookPools
         /\ <<"FundingAmountPerSize", s>> \in Accumulators
         /\ <<"ClaimableFundingAmountPerSize", s>> \in Accumulators
         /\ BorrowingFactor \in Accumulators
BY DEF BookPools, Accumulators

LEMMA InterestNat ==
  ASSUME NEW a, Sound(a), NEW s \in BOOLEAN
  PROVE  OpenInterest(a, s) \in Nat /\ OpenInterestInTokens(a, s) \in Nat
<1>1. <<"OpenInterest", s>> \in PoolKinds /\ <<"OpenInterestInTokens", s>> \in PoolKinds
  BY SideKinds, PoolsSplit
<1>2. \A t \in BOOLEAN : /\ Amount(a, <<"OpenInterest", s>>, t) \in Nat
                         /\ Amount(a, <<"OpenInterestInTokens", s>>, t) \in Nat
  BY <1>1, AmountNat
<1> QED BY <1>2, NatOps, Zenon DEF OpenInterest, OpenInterestInTokens, BothSides

LEMMA ValuesNat ==
  ASSUME NEW a, Sound(a), NEW x \in Oracles, NEW s \in BOOLEAN, NEW max \in BOOLEAN
  PROVE  SideValue(a, x, s, max) \in Nat /\ ReservedValue(a, x, s) \in Nat
<1>1. Amount(a, Primary, s) \in Nat
  BY AmountNat, LiquidityNames, PoolsSplit
<1>2. PickPrice(TokenPrice(x, s), max) \in Nat /\ x.index.max \in Nat
  BY OraclePrices
<1>3. SideValue(a, x, s, max) \in Nat
  BY <1>1, <1>2, NatOps DEF SideValue
<1>4. OpenInterest(a, FALSE) \in Nat /\ OpenInterestInTokens(a, TRUE) \in Nat
  BY InterestNat
<1>5. ReservedValue(a, x, s) \in Nat
  BY <1>2, <1>4, NatOps DEF ReservedValue
<1> QED BY <1>3, <1>5

LEMMA BorrowingRateNat ==
  ASSUME NEW a, Sound(a), NEW x \in Oracles, NEW s \in BOOLEAN
  PROVE  BorrowingFactorPerSecond(a, x, s) \in Nat
<1> DEFINE reserved == ReservedValue(a, x, s)
           value == SideValue(a, x, s, FALSE)
           kink == BorrowingFeeKinkParams(s)
           usage == UsageFactor(a, s, reserved, value)
<1>1. reserved \in Nat /\ value \in Nat
  BY ValuesNat
<1>2. kink.optimal \in Nat /\ kink.base \in Nat /\ kink.above \in Nat
  BY BorrowingConfig
<1> HIDE DEF reserved, value, kink
<1>3. usage \in Nat
  <2>1. ApplyFactor(value, Config.open_interest_reserve_factor) \in Nat
    BY <1>1, FactorNat, BorrowingConfig
  <2>2. DivToFactor(reserved, ApplyFactor(value, Config.open_interest_reserve_factor)) \in Nat
    BY <1>1, <2>1, ToFactorNat
  <2>3. DivToFactor(OpenInterest(a, s), Config.max_open_interest[s]) \in Nat
    BY InterestNat, ToFactorNat, BorrowingConfig
  <2> QED BY <2>2, <2>3, LeastNat DEF UsageFactor
<1> HIDE DEF usage
<1>4. KinkFactor(kink, usage) \in Nat
  <2> DEFINE base == ApplyFactor(usage, kink.base)
             extra == Greatest(kink.above - kink.base, 0)
  <2>1. base \in Nat
    BY <1>2, <1>3, FactorNat
  <2>2. extra \in Nat
    BY <1>2 DEF Greatest
  <2> HIDE DEF base, extra
  <2>3. ASSUME usage > kink.optimal, Unit > kink.optimal
        PROVE  base + MulDiv(extra, usage - kink.optimal, Unit - kink.optimal) \in Nat
    <3>1. usage - kink.optimal \in Nat /\ Unit - kink.optimal \in Nat \ {0}
      BY <1>2, <1>3, <2>3, UnitAssumption
    <3>2. MulDiv(extra, usage - kink.optimal, Unit - kink.optimal) \in Nat
      BY <2>2, <3>1, MulDivNat
    <3> QED BY <2>1, <3>2, NatOps
  <2> QED BY <2>1, <2>3 DEF KinkFactor, base, extra
<1>5. ApplyFactor(DivToFactor(ApplyExponentFactor(reserved, BorrowingFeeParams.exponent[s]),
                              value), BorrowingFeeParams.factor[s]) \in Nat
  <2>1. ApplyExponentFactor(reserved, BorrowingFeeParams.exponent[s]) \in Nat
    BY <1>1, ExponentNat, BorrowingConfig
  <2>2. DivToFactor(ApplyExponentFactor(reserved, BorrowingFeeParams.exponent[s]), value) \in Nat
    BY <1>1, <2>1, ToFactorNat
  <2> QED BY <2>2, FactorNat, BorrowingConfig
<1> QED BY <1>4, <1>5 DEF BorrowingFactorPerSecond, reserved, value, kink, usage

LEMMA PassedNat ==
  ASSUME NEW a, Sound(a), NEW x \in Oracles, NEW c \in ClockKinds
  PROVE  Passed(a, c, x) \in Nat
<1>1. a.clock[c] \in Int /\ x.now \in Int
  BY DEF Sound, Oracles
<1> QED BY <1>1 DEF Passed, Greatest

LEMMA BorrowingDeltaNat ==
  ASSUME NEW a, Sound(a), NEW x \in Oracles, NEW s \in BOOLEAN
  PROVE  BorrowingDelta(a, x, s) \in Nat
BY BorrowingRateNat, PassedNat, NatOps DEF BorrowingDelta, ClockKinds

LEMMA RestartedKeeps ==
  ASSUME NEW a, NEW x \in Oracles, NEW c \in ClockKinds
  PROVE  Keeps(a, Restarted(a, c, x))
<1> SUFFICES ASSUME IsMarket(a) PROVE Keeps(a, Restarted(a, c, x))
  BY DEF Keeps
<1>1. CASE Passed(a, c, x) > 0
  <2> DEFINE clock == [a.clock EXCEPT ![c] = x.now]
             b == [a EXCEPT !.clock = clock]
  <2>1. Restarted(a, c, x) = b
    BY <1>1 DEF Restarted
  <2>2. clock = [d \in ClockKinds |-> clock[d]]
    BY DEF IsMarket
  <2>3. \A d \in ClockKinds : clock[d] = IF d = c THEN x.now ELSE a.clock[d]
    BY DEF IsMarket
  <2> HIDE DEF clock
  <2>4. b = [pure |-> a.pure, supply |-> a.supply, factor |-> a.factor, ok |-> a.ok,
             pool |-> a.pool, bal |-> a.bal, clock |-> clock]
    BY DEF IsMarket
  <2> HIDE DEF b
  <2>5. /\ b.pure = a.pure /\ b.supply = a.supply /\ b.factor = a.factor
        /\ b.ok = a.ok /\ b.pool = a.pool /\ b.bal = a.bal /\ b.clock = clock
    BY <2>4
  <2>6. IsMarket(b)
    BY <2>2, <2>4, <2>5 DEF IsMarket
  <2>7. x.now \in Int
    BY DEF Oracles
  <2>8. Sound(a) => Sound(b)
    BY <2>3, <2>5, <2>6, <2>7 DEF Sound
  <2>9. Keeps(a, a)
    BY KeepsItself
  <2>10. Keeps(a, b)
    BY <2>5, <2>6, <2>8, <2>9 DEF Keeps
  <2> QED BY <2>1, <2>10
<1>2. CASE ~(Passed(a, c, x) > 0)
  BY <1>2, KeepsItself DEF Restarted
<1> QED BY <1>1, <1>2

LEMMA DistributeKeeps ==
  ASSUME NEW a, NEW x \in Oracles
  PROVE  Keeps(a, DistributePositionImpact(a, x))
<1>1. Keeps(a, Restarted(a, "PriceImpactDistribution", x))
  BY RestartedKeeps DEF ClockKinds
<1> QED BY <1>1, LiquidityDelta, LiquidityNames DEF DistributePositionImpact

LEMMA UpdateBorrowingKeeps ==
  ASSUME NEW a, NEW x \in Oracles
  PROVE  Keeps(a, UpdateBorrowing(a, x))
<1> SUFFICES ASSUME IsMarket(a) PROVE Keeps(a, UpdateBorrowing(a, x))
  BY DEF Keeps
<1> DEFINE delta(s) == IF BorrowingKnown(a, x, s) THEN BorrowingDelta(a, x, s) ELSE 0
           b == Restarted(Check(a, ValidPrices(x)), "Borrowing", x)
           c == BorrowOneSide(b, x, TRUE, delta(TRUE))
           d == BorrowOneSide(c, x, FALSE, delta(FALSE))
<1>1. UpdateBorrowing(a, x) = d
  BY DEF UpdateBorrowing
<1>2. Sound(a) => \A s \in BOOLEAN : delta(s) \in Nat
  BY BorrowingDeltaNat
<1> HIDE DEF delta
<1>3. Keeps(a, b)
  <2>1. Keeps(a, Check(a, ValidPrices(x)))
    BY CheckKeeps
  <2>2. Keeps(Check(a, ValidPrices(x)), b)
    BY RestartedKeeps DEF ClockKinds
  <2> QED BY <2>1, <2>2, KeepsTransitive
<1> HIDE DEF b
<1>4. ASSUME NEW e, Keeps(a, e), NEW s \in BOOLEAN
      PROVE  Keeps(a, BorrowOneSide(e, x, s, delta(s)))
  <2> DEFINE f == Check(e, BorrowingKnown(e, x, s))
  <2>1. Keeps(e, f)
    BY CheckKeeps
  <2> HIDE DEF f
  <2>2. Keeps(a, f)
    BY <1>4, <2>1, KeepsTransitive
  <2> QED BY <1>2, <2>2, AccumulatorDelta, SideKinds DEF BorrowOneSide, f
<1>5. Keeps(a, c)
  BY <1>3, <1>4
<1> HIDE DEF c
<1>6. Keeps(a, d)
  BY <1>4, <1>5
<1> QED BY <1>1, <1>6

LEMMA NextFundingTypes ==
  ASSUME NEW a, Sound(a), NEW duration \in Nat, NEW long \in Nat, NEW short \in Nat
  PROVE  /\ NextFundingFactor(a, duration, long, short).charged \in Nat
         /\ NextFundingFactor(a, duration, long, short).longsPay \in BOOLEAN
         /\ NextFundingFactor(a, duration, long, short).next \in Int
<1> DEFINE f == FundingFeeParams
           diff == Magnitude(long - short)
           diffFactor == DivToFactor(ApplyExponentFactor(diff, f.exponent), long + short)
           rise == ApplyFactor(diffFactor, f.increase_factor) * duration
           change == FundingChange(a.factor, long, short, diffFactor)
           moved == CASE change = "Increase" ->
                           a.factor + (IF long < short THEN -rise ELSE rise)
                      [] change = "Decrease" /\ a.factor # 0 ->
                           DecreasedFactor(a.factor, f.decrease_factor * duration)
                      [] OTHER -> a.factor
           next == BoundMagnitude(moved, 0, f.max_factor)
           charged == BoundMagnitude(next, f.min_factor, f.max_factor)
<1>1. /\ f.exponent \in Nat /\ f.factor \in Nat /\ f.increase_factor \in Nat
      /\ f.decrease_factor \in Nat /\ f.max_factor \in Nat /\ f.min_factor \in Nat
  BY FundingConfig
<1>2. a.factor \in Int
  BY DEF Sound
<1>3. diff \in Nat
  BY IntOps, NatInt, LeastInt
<1> HIDE DEF diff, f
<1>4. diffFactor \in Nat
  <2>1. ApplyExponentFactor(diff, f.exponent) \in Nat
    BY <1>1, <1>3, ExponentNat
  <2>2. long + short \in Nat
    OBVIOUS
  <2> QED BY <2>1, <2>2, ToFactorNat
<1> HIDE DEF diffFactor
<1>5. rise \in Nat
  BY <1>1, <1>4, FactorNat, NatOps
<1> HIDE DEF rise, change
<1>6. a.factor # 0 => DecreasedFactor(a.factor, f.decrease_factor * duration) \in Int
  <2> DEFINE by == f.decrease_factor * duration
             g == a.factor
  <2>1. by \in Nat /\ g \in Int
    BY <1>1, <1>2, NatOps
  <2> HIDE DEF by, g
  <2>2. g # 0 => Magnitude(g) \in Nat \ {0}
    BY <2>1 DEF Magnitude
  <2>3. g # 0 => TruncDiv(g, Magnitude(g)) \in Int
    BY <2>1, <2>2, DivisionInt
  <2>4. g + by \in Int /\ g - by \in Int
    BY <2>1
  <2>5. g # 0 => DecreasedFactor(g, by) \in Int
    BY <2>3, <2>4 DEF DecreasedFactor
  <2> QED BY <2>5 DEF by, g
<1>7. moved \in Int
  <2>1. a.factor + (IF long < short THEN -rise ELSE rise) \in Int
    BY <1>2, <1>5
  <2> QED BY <1>2, <1>6, <2>1
<1> HIDE DEF moved
<1>8. next \in Int
  BY <1>1, <1>7, BoundInt
<1> HIDE DEF next
<1>9. charged \in Int
  BY <1>1, <1>8, BoundInt
<1> HIDE DEF charged
<1>10. Least(ApplyFactor(diffFactor, f.factor), f.max_factor) \in Nat
  BY <1>1, <1>4, FactorNat, LeastNat
<1>11. Magnitude(charged) \in Nat
  BY <1>9, LeastInt
<1>12. NextFundingFactor(a, duration, long, short) =
         CASE diff = 0 /\ f.increase_factor = 0 ->
                [charged |-> 0, longsPay |-> TRUE, next |-> 0]
           [] f.increase_factor = 0 /\ diff # 0 ->
                [charged |-> Least(ApplyFactor(diffFactor, f.factor), f.max_factor),
                 longsPay |-> long > short, next |-> 0]
           [] OTHER ->
                [charged |-> Magnitude(charged), longsPay |-> charged > 0, next |-> next]
  BY DEF NextFundingFactor, f, diff, diffFactor, rise, change, moved, next, charged
<1> DEFINE r == NextFundingFactor(a, duration, long, short)
<1> HIDE DEF r
<1>13. CASE diff = 0 /\ f.increase_factor = 0
  <2>1. r = [charged |-> 0, longsPay |-> TRUE, next |-> 0]
    BY <1>12, <1>13 DEF r
  <2>2. r.charged = 0 /\ r.longsPay = TRUE /\ r.next = 0
    BY <2>1
  <2>3. 0 \in Nat /\ 0 \in Int
    OBVIOUS
  <2> QED BY <2>2, <2>3, Zenon DEF r
<1>14. CASE f.increase_factor = 0 /\ diff # 0
  <2> DEFINE least == Least(ApplyFactor(diffFactor, f.factor), f.max_factor)
  <2> HIDE DEF least
  <2>1. r = [charged |-> least, longsPay |-> long > short, next |-> 0]
    BY <1>12, <1>14, Zenon DEF r, least
  <2>2. r.charged = least /\ r.longsPay = (long > short) /\ r.next = 0
    BY <2>1
  <2>3. (long > short) \in BOOLEAN
    OBVIOUS
  <2> QED BY <1>10, <2>2, <2>3 DEF r, least
<1>15. CASE f.increase_factor # 0
  <2> DEFINE size == Magnitude(charged)
  <2> HIDE DEF size
  <2>1. r = [charged |-> size, longsPay |-> charged > 0, next |-> next]
    BY <1>12, <1>15, Zenon DEF r, size
  <2>2. r.charged = size /\ r.longsPay = (charged > 0) /\ r.next = next
    BY <2>1
  <2>3. (charged > 0) \in BOOLEAN
    OBVIOUS
  <2> QED BY <1>8, <1>11, <2>2, <2>3 DEF r, size
<1> QED BY <1>13, <1>14, <1>15

LEMMA LongsPayBoolean ==
  ASSUME NEW a, NEW duration, NEW long, NEW short
  PROVE  NextFundingFactor(a, duration, long, short).longsPay \in BOOLEAN
<1>1. \A i, j : (i > j) \in BOOLEAN
  OBVIOUS
<1>2. \E i, j, charged, next :
         \/ NextFundingFactor(a, duration, long, short)
               = [charged |-> charged, longsPay |-> TRUE, next |-> next]
         \/ NextFundingFactor(a, duration, long, short)
               = [charged |-> charged, longsPay |-> i > j, next |-> next]
  BY ZenonT(40) DEF NextFundingFactor
<1>3. PICK i, j, charged, next :
         \/ NextFundingFactor(a, duration, long, short)
               = [charged |-> charged, longsPay |-> TRUE, next |-> next]
         \/ NextFundingFactor(a, duration, long, short)
               = [charged |-> charged, longsPay |-> i > j, next |-> next]
  BY <1>2
<1>4. PICK b \in BOOLEAN : b = (i > j)
  BY <1>1
<1>5. \A p : [charged |-> charged, longsPay |-> p, next |-> next].longsPay = p
  OBVIOUS
<1> QED BY <1>1, <1>3, <1>4, <1>5, Zenon

LEMMA PackFundingNat ==
  ASSUME NEW value \in Nat, NEW interest \in Nat, NEW price \in Nat \ {0}, NEW up \in BOOLEAN
  PROVE  PackFunding(value, interest, price, up) \in Nat
<1>1. Adjustment * Unit \in Nat
  BY ConfigAssumption, UnitAssumption, NatOps
<1>2. CASE value # 0 /\ interest # 0
  <2>1. /\ MulDivCeil(value, Adjustment * Unit, interest) \in Nat
        /\ MulDiv(value, Adjustment * Unit, interest) \in Nat
    BY <1>1, <1>2, MulDivNat
  <2>2. /\ CeilDiv(MulDivCeil(value, Adjustment * Unit, interest), price) \in Nat
        /\ MulDiv(value, Adjustment * Unit, interest) \div price \in Nat
    BY <2>1, DivisionNat
  <2> QED BY <2>2 DEF PackFunding
<1>3. CASE value = 0 \/ interest = 0
  BY <1>3 DEF PackFunding
<1> QED BY <1>2, <1>3

LEMMA ChargeFundingKeeps ==
  ASSUME NEW a, NEW b, Keeps(a, b), NEW x \in Oracles, NEW payer \in BOOLEAN,
         NEW c \in BOOLEAN, NEW value, Sound(a) => value \in Nat, b.ok => ValidPrices(x)
  PROVE  /\ Keeps(a, ChargeFunding(b, x, payer, c, value))
         /\ IsMarket(a) => (ChargeFunding(b, x, payer, c, value).ok => ValidPrices(x))
<1> SUFFICES ASSUME IsMarket(a)
             PROVE  /\ Keeps(a, ChargeFunding(b, x, payer, c, value))
                    /\ ChargeFunding(b, x, payer, c, value).ok => ValidPrices(x)
  BY DEF Keeps
<1>1. PICK other \in BOOLEAN : other = ~payer
  BY Zenon
<1> DEFINE price == TokenPrice(x, c).max
           interest == Amount(b, <<"OpenInterest", payer>>, c)
           owed == PackFunding(value, interest, price, TRUE)
           claim == PackFunding(value, OpenInterest(b, ~payer), price, FALSE)
           k == <<"FundingAmountPerSize", payer>>
           l == <<"ClaimableFundingAmountPerSize", other>>
           d == ApplyDelta(b, k, c, owed)
           e == ApplyDelta(d, l, c, claim)
<1>2. ChargeFunding(b, x, payer, c, value) = e
  BY <1>1 DEF ChargeFunding
<1>3. k \in Accumulators /\ l \in Accumulators /\ <<"OpenInterest", payer>> \in PoolKinds
  BY SideKinds, PoolsSplit
<1>4. IsMarket(b) /\ (b.ok => a.ok) /\ (Sound(a) /\ b.ok => Sound(b))
  BY DEF Keeps
<1>5. ASSUME Sound(a), b.ok PROVE owed \in Nat /\ claim \in Nat
  <2>1. price \in Nat \ {0}
    BY <1>5, OraclePrices
  <2>2. interest \in Nat /\ OpenInterest(b, ~payer) \in Nat
    BY <1>1, <1>3, <1>4, <1>5, AmountNat, InterestNat
  <2> HIDE DEF price, interest
  <2> QED BY <1>5, <2>1, <2>2, PackFundingNat
<1> HIDE DEF owed, claim, k, l
<1>6. d.ok => b.ok
  <2>1. k \in PoolKinds
    BY <1>3, PoolsSplit
  <2>2. PICK side \in BOOLEAN : side = DeltaSide(b, k, c)
    BY DeltaSideBoolean
  <2>3. d.ok => b.ok /\ b.pool[k][side] + owed \in Nat
    BY <1>4, <2>1, <2>2, DeltaShape
  <2> QED BY <2>3
<1>7. Keeps(a, d)
  BY <1>3, <1>5, <1>6, AccumulatorDelta
<1>8. IsMarket(d)
  BY <1>7 DEF Keeps
<1> HIDE DEF d
<1>9. e.ok => d.ok
  <2>1. l \in PoolKinds
    BY <1>3, PoolsSplit
  <2>2. PICK side \in BOOLEAN : side = DeltaSide(d, l, c)
    BY DeltaSideBoolean
  <2>3. e.ok => d.ok /\ d.pool[l][side] + claim \in Nat
    BY <1>8, <2>1, <2>2, DeltaShape
  <2> QED BY <2>3
<1>10. Keeps(a, e)
  BY <1>3, <1>5, <1>6, <1>7, <1>9, AccumulatorDelta
<1> QED BY <1>2, <1>6, <1>9, <1>10

LEMMA FactorKeeps ==
  ASSUME NEW a, NEW b, Keeps(a, b), NEW factor, Sound(a) => factor \in Int
  PROVE  Keeps(a, [b EXCEPT !.factor = factor])
<1> SUFFICES ASSUME IsMarket(a) PROVE Keeps(a, [b EXCEPT !.factor = factor])
  BY DEF Keeps
<1> DEFINE c == [b EXCEPT !.factor = factor]
<1>1. IsMarket(b) /\ b.pure = a.pure /\ (b.ok => a.ok)
  BY DEF Keeps
<1>2. c = [pure |-> b.pure, supply |-> b.supply, factor |-> factor, ok |-> b.ok,
           pool |-> b.pool, bal |-> b.bal, clock |-> b.clock]
  BY <1>1 DEF IsMarket
<1> HIDE DEF c
<1>3. /\ c.pure = b.pure /\ c.supply = b.supply /\ c.factor = factor
      /\ c.ok = b.ok /\ c.pool = b.pool /\ c.bal = b.bal /\ c.clock = b.clock
  BY <1>2
<1>4. IsMarket(c)
  BY <1>1, <1>2, <1>3 DEF IsMarket
<1>5. Sound(a) /\ Sound(b) => Sound(c)
  BY <1>3, <1>4 DEF Sound
<1>6. Keeps(a, c)
  BY <1>1, <1>3, <1>4, <1>5 DEF Keeps
<1> QED BY <1>6 DEF c

LEMMA UpdateFundingKeeps ==
  ASSUME NEW a, NEW x \in Oracles
  PROVE  /\ Keeps(a, UpdateFunding(a, x))
         /\ IsMarket(a) => (UpdateFunding(a, x).ok => ValidPrices(x))
<1> SUFFICES ASSUME IsMarket(a)
             PROVE  Keeps(a, UpdateFunding(a, x)) /\ (UpdateFunding(a, x).ok => ValidPrices(x))
  BY DEF Keeps
<1> DEFINE checked == Check(a, ValidPrices(x))
           r == Restarted(checked, "Funding", x)
           long == OpenInterest(a, TRUE)
           short == OpenInterest(a, FALSE)
           duration == Passed(a, "Funding", x)
           f == NextFundingFactor(a, duration, long, short)
           total == ApplyFactor(Greatest(long, short), duration * f.charged)
           share(c) == MulDiv(total, Amount(a, <<"OpenInterest", f.longsPay>>, c),
                              OpenInterest(a, f.longsPay))
           first == ChargeFunding(r, x, f.longsPay, TRUE, share(TRUE))
           second == ChargeFunding(first, x, f.longsPay, FALSE, share(FALSE))
<1>1. UpdateFunding(a, x) =
        IF long = 0 \/ short = 0 THEN [r EXCEPT !.factor = 0]
        ELSE [second EXCEPT !.factor = f.next]
  BY DEF UpdateFunding
<1>2. Keeps(a, r) /\ (r.ok => ValidPrices(x)) /\ IsMarket(r)
  <2>1. Keeps(a, checked) /\ (checked.ok => ValidPrices(x))
    BY CheckKeeps
  <2>2. Keeps(checked, r)
    BY RestartedKeeps DEF ClockKinds
  <2>3. IsMarket(checked)
    BY <2>1 DEF Keeps
  <2> HIDE DEF checked, r
  <2>4. IsMarket(r) /\ (r.ok => checked.ok)
    BY <2>2, <2>3 DEF Keeps
  <2> QED BY <2>1, <2>2, <2>4, KeepsTransitive
<1> HIDE DEF r
<1>3. CASE long = 0 \/ short = 0
  <2>1. 0 \in Int
    OBVIOUS
  <2>2. Keeps(a, [r EXCEPT !.factor = 0])
    BY <1>2, <2>1, FactorKeeps
  <2>3. [r EXCEPT !.factor = 0].ok = r.ok
    BY <1>2 DEF IsMarket
  <2> QED BY <1>1, <1>2, <1>3, <2>2, <2>3
<1>4. CASE ~(long = 0 \/ short = 0)
  <2>1. f.longsPay \in BOOLEAN
    BY LongsPayBoolean
  <2>2. ASSUME Sound(a)
        PROVE  f.next \in Int /\ \A c \in BOOLEAN : share(c) \in Nat
    <3>1. long \in Nat \ {0} /\ short \in Nat \ {0} /\ duration \in Nat
      BY <1>4, <2>2, InterestNat, PassedNat DEF ClockKinds
    <3>2. f.charged \in Nat /\ f.next \in Int
      <4> HIDE DEF long, short, duration
      <4> QED BY <2>2, <3>1, NextFundingTypes
    <3>3. total \in Nat
      <4> HIDE DEF long, short, duration, f
      <4> QED BY <3>1, <3>2, LeastNat, NatOps, FactorNat
    <3>4. \A p \in BOOLEAN : OpenInterest(a, p) \in Nat \ {0}
      BY <3>1
    <3> HIDE DEF f, total, long, short, duration
    <3>5. ASSUME NEW c \in BOOLEAN PROVE share(c) \in Nat
      <4>1. <<"OpenInterest", f.longsPay>> \in PoolKinds
        BY <2>1, SideKinds, PoolsSplit
      <4>2. Amount(a, <<"OpenInterest", f.longsPay>>, c) \in Nat
        BY <2>2, <4>1, AmountNat
      <4>3. OpenInterest(a, f.longsPay) \in Nat \ {0}
        BY <2>1, <3>4
      <4> QED BY <3>3, <4>2, <4>3, MulDivNat
    <3> HIDE DEF share
    <3> QED BY <3>2, <3>5
  <2> HIDE DEF share, f
  <2>6. Keeps(a, first) /\ (first.ok => ValidPrices(x))
    BY <1>2, <2>1, <2>2, ChargeFundingKeeps
  <2> HIDE DEF first
  <2>7. Keeps(a, second) /\ (second.ok => ValidPrices(x))
    BY <2>1, <2>2, <2>6, ChargeFundingKeeps
  <2>8. IsMarket(second)
    BY <2>7 DEF Keeps
  <2> HIDE DEF second
  <2>9. Keeps(a, [second EXCEPT !.factor = f.next])
    BY <2>2, <2>7, FactorKeeps
  <2>10. [second EXCEPT !.factor = f.next].ok = second.ok
    BY <2>8 DEF IsMarket
  <2> QED BY <1>1, <1>4, <2>7, <2>9, <2>10
<1> QED BY <1>3, <1>4

\* What every execution does first.
LEMMA PreExecuteKeeps ==
  ASSUME NEW a, NEW x \in Oracles
  PROVE  /\ Keeps(a, PreExecute(a, x))
         /\ IsMarket(a) => (PreExecute(a, x).ok => ValidPrices(x))
<1> DEFINE b == UpdateBorrowing(DistributePositionImpact(a, x), x)
<1>1. Keeps(a, b)
  BY DistributeKeeps, UpdateBorrowingKeeps, KeepsTransitive
<1>2. IsMarket(a) => IsMarket(b)
  BY <1>1 DEF Keeps
<1> HIDE DEF b
<1>3. /\ Keeps(b, UpdateFunding(b, x))
      /\ IsMarket(b) => (UpdateFunding(b, x).ok => ValidPrices(x))
  BY UpdateFundingKeeps
<1> QED BY <1>1, <1>2, <1>3, KeepsTransitive DEF PreExecute, b

-----------------------------------------------------------------------------
(* Positions, and the amounts that an order computes for one.              *)
PositionStates ==
  [long : BOOLEAN, cl : BOOLEAN, size : Nat, tokens : Nat, collateral : Int,
   borrowing : Nat, funding : Nat, claimable : [BOOLEAN -> Nat]]

LEMMA PositionFields ==
  ASSUME NEW p \in PositionStates
  PROVE  /\ p.long \in BOOLEAN /\ p.cl \in BOOLEAN /\ p.size \in Nat /\ p.tokens \in Nat
         /\ p.collateral \in Int /\ p.borrowing \in Nat /\ p.funding \in Nat
         /\ p.claimable \in [BOOLEAN -> Nat]
BY DEF PositionStates

LEMMA PositionReads ==
  ASSUME NEW a, Sound(a), NEW p \in PositionStates
  PROVE  /\ FundingPerSize(a, p) \in Nat /\ CumulativeBorrowing(a, p) \in Nat
         /\ \A s \in BOOLEAN : ClaimablePerSize(a, p, s) \in Nat
         /\ SettleFunding(a, p).claimable = [s \in BOOLEAN |-> ClaimablePerSize(a, p, s)]
         /\ FundingFee(a, p) \in Int
<1>1. p.long \in BOOLEAN /\ p.cl \in BOOLEAN /\ p.size \in Nat /\ p.funding \in Nat
  BY PositionFields
<1>2. /\ <<"FundingAmountPerSize", p.long>> \in PoolKinds /\ BorrowingFactor \in PoolKinds
      /\ <<"ClaimableFundingAmountPerSize", p.long>> \in PoolKinds
  BY <1>1, SideKinds, PoolsSplit
<1>3. FundingPerSize(a, p) \in Nat /\ CumulativeBorrowing(a, p) \in Nat
  BY <1>1, <1>2, AmountNat DEF FundingPerSize, CumulativeBorrowing
<1>4. \A s \in BOOLEAN : ClaimablePerSize(a, p, s) \in Nat
  BY <1>2, AmountNat DEF ClaimablePerSize
<1>5. SettleFunding(a, p).claimable = [s \in BOOLEAN |-> ClaimablePerSize(a, p, s)]
  BY DEF SettleFunding, PositionStates
<1>6. FundingFee(a, p) \in Int
  <2>1. FundingPerSize(a, p) - p.funding \in Int
    BY <1>1, <1>3, IntOps, NatInt
  <2>2. Adjustment * Unit \in Nat \ {0}
    <3>1. \A i, j \in Nat \ {0} : i * j \in Nat \ {0}
      OBVIOUS
    <3> QED BY <3>1, ConfigAssumption, UnitAssumption
  <2> QED BY <1>1, <2>1, <2>2, MulDivInt, NatInt DEF FundingFee, UnpackFunding
<1> QED BY <1>3, <1>4, <1>5, <1>6

LEMMA FeeInt ==
  ASSUME NEW params \in FeeParams, NEW positive, NEW amount \in Int
  PROVE  /\ Fee(params, positive, amount) \in Int
         /\ ApplyFees(params, positive, amount).after \in Int
         /\ ApplyFees(params, positive, amount).pool \in Int
         /\ ApplyFees(params, positive, amount).receiver \in Int
<1>1. /\ params.positive \in Nat /\ params.negative \in Nat
      /\ params.receiver \in Nat /\ params.discount \in Nat
  BY DEF FeeParams
<1> DEFINE factor == IF positive THEN params.positive ELSE params.negative
           raw == ApplyFactor(amount, factor)
           fee == Fee(params, positive, amount)
           receiver == ApplyFactor(fee, params.receiver)
<1>2. factor \in Int
  BY <1>1
<1> HIDE DEF factor
<1>3. raw \in Int
  BY <1>2, FactorInt
<1>4. fee = raw - ApplyFactor(raw, params.discount)
  BY DEF Fee, factor
<1> HIDE DEF raw, fee
<1>5. ApplyFactor(raw, params.discount) \in Int
  BY <1>1, <1>3, FactorInt, NatInt
<1>6. fee \in Int
  BY <1>3, <1>4, <1>5, IntOps
<1>7. receiver \in Int
  BY <1>1, <1>6, FactorInt, NatInt
<1> HIDE DEF receiver
<1>8. ApplyFees(params, positive, amount)
        = [after |-> amount - fee, pool |-> fee - receiver, receiver |-> receiver]
  BY DEF ApplyFees, fee, receiver
<1> QED BY <1>6, <1>7, <1>8, IntOps DEF fee

LEMMA OrderConfig ==
  /\ OrderFeeParams \in FeeParams /\ Config.swap_fee \in FeeParams
  /\ SwapImpactParams \in ImpactParams /\ PositionImpactParams \in ImpactParams
  /\ LiquidationFeeParams.factor \in Nat /\ LiquidationFeeParams.receiver \in Nat
  /\ Config.max_positive_position_impact_factor \in Nat
  /\ Config.max_negative_position_impact_factor \in Nat
  /\ \A k \in PnlFactorKinds, s \in BOOLEAN : PnlFactorConfig(k, s) \in Nat
BY ConfigAssumption DEF Configs, OrderFeeParams, SwapImpactParams, PositionImpactParams,
     LiquidationFeeParams, PnlFactorConfig

LEMMA CollateralPrices ==
  ASSUME NEW x \in Oracles, ValidPrices(x), NEW p \in PositionStates
  PROVE  /\ CollateralPrice(x, p).min \in Nat \ {0} /\ CollateralPrice(x, p).max \in Nat \ {0}
         /\ TokenPrice(x, p.long).min \in Nat \ {0} /\ TokenPrice(x, p.long).max \in Nat \ {0}
         /\ x.index.min \in Nat \ {0} /\ x.index.max \in Nat \ {0}
<1>1. p.cl \in BOOLEAN /\ p.long \in BOOLEAN
  BY PositionFields
<1> QED BY <1>1, OraclePrices DEF CollateralPrice

LEMMA FeesInt ==
  ASSUME NEW a, Sound(a), NEW x \in Oracles, ValidPrices(x), NEW p \in PositionStates,
         NEW delta \in Nat, NEW positive, NEW liquidation,
         NEW fees, fees = PositionFees(a, x, p, delta, positive, liquidation)
  PROVE  fees.receiver \in Int /\ fees.pool \in Int /\ fees.funding \in Int /\ TotalCost(fees) \in Int
<1> DEFINE order == OrderFeeAmount(x, p, delta, positive)
           borrowing == BorrowingFeeAmount(a, x, p)
           liq == IF liquidation THEN LiquidationFeeAmount(x, p, delta) ELSE 0
           receiver == ApplyFactor(order, OrderFeeParams.receiver)
                         + ApplyFactor(borrowing, BorrowingFeeParams.receiver)
                         + ApplyFactor(liq, LiquidationFeeParams.receiver)
           pool == order + borrowing + liq - receiver
           funding == FundingFee(a, p)
           claim == [s \in BOOLEAN |-> FundingClaim(a, p, s)]
<1>1. CollateralPrice(x, p).min \in Nat \ {0} /\ p.size \in Int /\ p.borrowing \in Int /\ delta \in Int
  BY CollateralPrices, PositionFields, NatInt
<1>2. order \in Int
  BY <1>1, FeeInt, DivisionInt, OrderConfig DEF OrderFeeAmount
<1>3. borrowing \in Int
  <2>1. CumulativeBorrowing(a, p) - p.borrowing \in Int
    BY <1>1, PositionReads, IntOps, NatInt
  <2>2. ApplyFactor(p.size, CumulativeBorrowing(a, p) - p.borrowing) \in Int
    BY <1>1, <2>1, FactorInt
  <2> QED BY <1>1, <2>2, DivisionInt DEF BorrowingFeeAmount
<1>4. liq \in Int
  <2>1. ApplyFactor(delta, LiquidationFeeParams.factor) \in Int
    BY <1>1, FactorInt, OrderConfig, NatInt
  <2>2. LiquidationFeeAmount(x, p, delta) \in Int
    BY <1>1, <2>1, DivisionInt DEF LiquidationFeeAmount
  <2> QED BY <2>2
<1> HIDE DEF order, borrowing, liq
<1>5. receiver \in Int
  <2>1. /\ OrderFeeParams.receiver \in Int /\ BorrowingFeeParams.receiver \in Int
        /\ LiquidationFeeParams.receiver \in Int
    BY OrderConfig, BorrowingConfig, NatInt DEF FeeParams
  <2>2. /\ ApplyFactor(order, OrderFeeParams.receiver) \in Int
        /\ ApplyFactor(borrowing, BorrowingFeeParams.receiver) \in Int
        /\ ApplyFactor(liq, LiquidationFeeParams.receiver) \in Int
    BY <1>2, <1>3, <1>4, <2>1, FactorInt
  <2> QED BY <2>2, IntOps
<1> HIDE DEF receiver
<1>6. pool \in Int
  BY <1>2, <1>3, <1>4, <1>5, IntOps
<1> HIDE DEF pool
<1>7. funding \in Int
  BY PositionReads
<1> HIDE DEF funding, claim
<1>8. fees = [receiver |-> receiver, pool |-> pool, funding |-> funding, claim |-> claim]
  BY DEF PositionFees, order, borrowing, liq, receiver, pool, funding, claim
<1>9. fees.receiver \in Int /\ fees.pool \in Int /\ fees.funding \in Int
  BY <1>5, <1>6, <1>7, <1>8
<1> QED BY <1>9, IntOps DEF TotalCost

LEMMA ImpactInt ==
  ASSUME NEW a, Sound(a), NEW x \in Oracles, NEW p \in PositionStates, NEW delta \in Int
  PROVE  /\ PositionPriceImpact(a, p, delta) \in Int
         /\ \A impact \in Int : CapPositiveImpact(a, x, delta, impact) \in Int
<1> DEFINE cur == [s \in BOOLEAN |-> OpenInterest(a, s)]
           next == [cur EXCEPT ![p.long] = @ + delta]
<1>1. p.long \in BOOLEAN
  BY PositionFields
<1>2. \A s \in BOOLEAN : OpenInterest(a, s) \in Int
  BY InterestNat, NatInt
<1>3. cur \in [BOOLEAN -> Int]
  BY <1>2
<1>4. cur[p.long] + delta \in Int
  BY <1>1, <1>2, IntOps
<1> HIDE DEF cur
<1>5. next \in [BOOLEAN -> Int]
  BY <1>1, <1>3, <1>4
<1> HIDE DEF next
<1>6. PositionPriceImpact(a, p, delta) \in Int
  BY <1>3, <1>5, PriceImpactInt, OrderConfig DEF PositionPriceImpact, cur, next
<1>7. ASSUME NEW impact \in Int PROVE CapPositiveImpact(a, x, delta, impact) \in Int
  <2>1. Amount(a, PositionImpact, TRUE) * x.index.min \in Int
    BY AmountNat, OraclePrices, LiquidityNames, PoolsSplit, NatOps, NatInt
  <2>2. ApplyFactor(Magnitude(delta), Config.max_positive_position_impact_factor) \in Int
    BY LeastInt, FactorInt, OrderConfig, NatInt
  <2> QED BY <2>1, <2>2, LeastInt DEF CapPositiveImpact
<1> QED BY <1>6, <1>7

LEMMA CapNegativeInt ==
  ASSUME NEW delta \in Int, NEW factor \in Nat, NEW impact \in Int
  PROVE  CapNegativeImpact(delta, factor, impact) \in Int
BY LeastInt, FactorInt, NatInt, IntOps DEF CapNegativeImpact

LEMMA IncreaseInt ==
  ASSUME NEW a, Sound(a), NEW x \in Oracles, ValidPrices(x), NEW p \in PositionStates,
         NEW delta \in Nat
  PROVE  /\ IncreaseImpact(a, x, p, delta) \in Int
         /\ \A impact \in Int : ImpactAmount(x, impact) \in Int
                                  /\ IncreaseTokens(x, p, delta, impact) \in Int
<1>1. delta \in Int /\ 0 \in Int
  OBVIOUS
<1>2. IncreaseImpact(a, x, p, delta) \in Int
  BY <1>1, ImpactInt DEF IncreaseImpact
<1>3. x.index.min \in Nat \ {0} /\ x.index.max \in Nat \ {0}
  BY CollateralPrices
<1>4. \A impact \in Int : ImpactAmount(x, impact) \in Int
  BY <1>3, DivisionInt DEF ImpactAmount
<1>5. delta \div x.index.max \in Int /\ CeilDiv(delta, x.index.min) \in Int
  BY <1>1, <1>3, DivisionInt
<1>6. ASSUME NEW impact \in Int PROVE IncreaseTokens(x, p, delta, impact) \in Int
  BY <1>1, <1>4, <1>5, IntOps DEF IncreaseTokens
<1> QED BY <1>2, <1>4, <1>6

LEMMA TokensDecreased ==
  ASSUME NEW p \in PositionStates, p.size # 0, NEW delta \in Nat, delta <= p.size
  PROVE  SizeDeltaInTokens(p, delta) \in Nat /\ SizeDeltaInTokens(p, delta) <= p.tokens
<1>1. p.size \in Nat \ {0} /\ p.tokens \in Nat
  BY PositionFields
<1> DEFINE t == p.tokens
           z == p.size
           k == t * delta
<1>2. t \in Nat /\ z \in Nat \ {0}
  BY <1>1
<1> HIDE DEF t, z
<1>3. k \in Nat /\ k <= t * z
  BY <1>2, ProductMonotone DEF z
<1> HIDE DEF k
<1>4. k \div z \in Nat /\ k \div z <= t
  BY <1>2, <1>3, QuotientAtMost, Quotient
<1>5. CeilDiv(k, z) \in Nat /\ CeilDiv(k, z) <= t
  <2> DEFINE q == (k + z - 1) \div z
             n == k + z - 1
  <2>1. n \in Nat
    BY <1>2, <1>3
  <2>2. q \in Nat /\ q * z <= n
    BY <1>2, <2>1, Quotient
  <2> HIDE DEF q
  <2>3. q * z < t * z + z
    <3>1. t * z \in Nat /\ q * z \in Nat
      BY <1>2, <2>2
    <3> QED BY <1>2, <1>3, <2>2, <3>1
  <2>4. q < t + 1
    <3> SUFFICES ASSUME t + 1 <= q PROVE FALSE
      BY <1>2, <2>2
    <3>1. (t + 1) * z <= q * z
      BY <1>2, <2>2, ProductMonotone
    <3>2. (t + 1) * z = t * z + z
      BY <1>2
    <3>3. t * z \in Nat /\ q * z \in Nat
      BY <1>2, <2>2
    <3> QED BY <1>2, <2>3, <3>1, <3>2, <3>3
  <2>5. q <= t
    BY <1>2, <2>2, <2>4
  <2> QED BY <2>2, <2>5 DEF q, CeilDiv
<1>6. MulDivCeil(p.tokens, delta, p.size) = CeilDiv(k, z) /\ MulDiv(p.tokens, delta, p.size) = k \div z
  BY DEF MulDivCeil, MulDiv, k, t, z
<1> QED BY <1>1, <1>4, <1>5, <1>6 DEF SizeDeltaInTokens, t

LEMMA PnlInt ==
  ASSUME NEW a, Sound(a), NEW x \in Oracles, NEW p \in PositionStates,
         p.size # 0, p.tokens # 0, NEW delta \in Nat, delta <= p.size
  PROVE  PnlOf(a, x, p, delta) \in Int
<1>1. p.long \in BOOLEAN /\ p.size \in Nat \ {0} /\ p.tokens \in Nat \ {0}
  BY PositionFields
<1>2. \A s, t \in BOOLEAN : PickPriceForPnl(x.index, s, t) \in Int
  <2>1. \A s, t \in BOOLEAN : (s = t) \in BOOLEAN
    OBVIOUS
  <2> QED BY <2>1, OraclePrices, NatInt DEF PickPriceForPnl
<1> DEFINE value == p.tokens * PickPriceForPnl(x.index, p.long, FALSE)
           pnl == IF p.long THEN value - p.size ELSE p.size - value
           poolPnl == Pnl(a, x, p.long, TRUE)
           side == SideValue(a, x, p.long, FALSE)
           capped == CapPnl(p.long, poolPnl, side, "MaxForTrader")
<1>3. pnl \in Int
  <2>1. value \in Int
    BY <1>1, <1>2, IntOps, NatInt
  <2> HIDE DEF value
  <2> QED BY <1>1, <2>1, IntOps, NatInt
<1>4. poolPnl \in Int
  <2> DEFINE oi == OpenInterest(a, p.long)
             worth == OpenInterestInTokens(a, p.long) * PickPriceForPnl(x.index, p.long, TRUE)
  <2>1. oi \in Int /\ worth \in Int
    BY <1>1, <1>2, InterestNat, IntOps, NatInt
  <2> HIDE DEF oi, worth
  <2>2. worth - oi \in Int /\ oi - worth \in Int
    BY <2>1, IntOps
  <2> QED BY <2>2 DEF Pnl, oi, worth
<1>5. side \in Int
  BY <1>1, ValuesNat, NatInt
<1> HIDE DEF pnl, poolPnl, side
<1>6. capped \in Int
  <2>1. PnlFactorConfig("MaxForTrader", p.long) \in Int
    BY <1>1, OrderConfig, NatInt DEF PnlFactorKinds
  <2>2. ApplyFactor(side, PnlFactorConfig("MaxForTrader", p.long)) \in Int
    BY <1>5, <2>1, FactorInt
  <2> QED BY <1>4, <2>2, LeastInt DEF CapPnl
<1> HIDE DEF capped
<1>7. TotalPnl(a, x, p) \in Int
  <2>1. poolPnl > 0 => MulDiv(capped, pnl, poolPnl) \in Int
    BY <1>3, <1>4, <1>6, MulDivInt
  <2> QED BY <1>3, <2>1 DEF TotalPnl, pnl, poolPnl, side, capped
<1>8. SizeDeltaInTokens(p, delta) \in Int
  BY TokensDecreased, NatInt
<1> QED BY <1>1, <1>7, <1>8, MulDivInt DEF PnlOf

-----------------------------------------------------------------------------
(* What an order for position p books: how much it adds to the open        *)
(* interest in USD and in tokens, to the collateral and to the total       *)
(* borrowing.  Everything else that mirrors positions stays, and the       *)
(* accumulators do not fall.                                               *)
Posts(a, b, p, size, tokens, collateral, borrowing) ==
  /\ Sound(a) /\ Sound(b) /\ b.pure = a.pure
  /\ \A s, c \in BOOLEAN :
       /\ b.pool[<<"OpenInterest", s>>][c] = a.pool[<<"OpenInterest", s>>][c]
            + (IF s = p.long /\ c = p.cl THEN size ELSE 0)
       /\ b.pool[<<"OpenInterestInTokens", s>>][c] = a.pool[<<"OpenInterestInTokens", s>>][c]
            + (IF s = p.long /\ c = p.cl THEN tokens ELSE 0)
       /\ b.pool[<<"CollateralSum", s>>][c] = a.pool[<<"CollateralSum", s>>][c]
            + (IF s = p.long /\ c = p.cl THEN collateral ELSE 0)
  /\ \A s \in BOOLEAN : b.pool[TotalBorrowing][s] = a.pool[TotalBorrowing][s]
                           + (IF s = p.long THEN borrowing ELSE 0)
  /\ \A k \in Accumulators, s \in BOOLEAN : a.pool[k][s] <= b.pool[k][s]

LEMMA BookNat ==
  ASSUME NEW a, Sound(a), NEW s \in BOOLEAN, NEW c \in BOOLEAN
  PROVE  /\ a.pool[<<"OpenInterest", s>>][c] \in Nat
         /\ a.pool[<<"OpenInterestInTokens", s>>][c] \in Nat
         /\ a.pool[<<"CollateralSum", s>>][c] \in Nat
         /\ a.pool[TotalBorrowing][c] \in Nat /\ a.pool[BorrowingFactor][c] \in Nat
BY SideKinds, PoolsSplit DEF Sound

LEMMA KeepsPosts ==
  ASSUME NEW a, NEW b, NEW p, Sound(a), b.ok, Keeps(a, b)
  PROVE  Posts(a, b, p, 0, 0, 0, 0)
<1>1. IsMarket(a)
  BY DEF Sound
<1>2. /\ Sound(b) /\ b.pure = a.pure
      /\ \A k \in BookPools, s \in BOOLEAN : b.pool[k][s] = a.pool[k][s]
      /\ \A k \in Accumulators, s \in BOOLEAN : a.pool[k][s] <= b.pool[k][s]
  BY <1>1 DEF Keeps
<1>3. \A i \in Nat : i + 0 = i
  OBVIOUS
<1>4. ASSUME NEW s \in BOOLEAN, NEW c \in BOOLEAN
      PROVE  /\ b.pool[<<"OpenInterest", s>>][c] = a.pool[<<"OpenInterest", s>>][c] + 0
             /\ b.pool[<<"OpenInterestInTokens", s>>][c] = a.pool[<<"OpenInterestInTokens", s>>][c] + 0
             /\ b.pool[<<"CollateralSum", s>>][c] = a.pool[<<"CollateralSum", s>>][c] + 0
             /\ b.pool[TotalBorrowing][c] = a.pool[TotalBorrowing][c] + 0
  BY <1>2, <1>3, SideKinds, BookNat
<1>5. \A q : (IF q THEN 0 ELSE 0) = 0
  OBVIOUS
<1> QED BY <1>2, <1>4, <1>5 DEF Posts

LEMMA PostsTransitive ==
  ASSUME NEW a, NEW b, NEW c, NEW p,
         NEW s1 \in Int, NEW t1 \in Int, NEW c1 \in Int, NEW b1 \in Int,
         NEW s2 \in Int, NEW t2 \in Int, NEW c2 \in Int, NEW b2 \in Int,
         Posts(a, b, p, s1, t1, c1, b1), Posts(b, c, p, s2, t2, c2, b2)
  PROVE  Posts(a, c, p, s1 + s2, t1 + t2, c1 + c2, b1 + b2)
<1>1. Sound(a) /\ Sound(b) /\ Sound(c) /\ c.pure = a.pure
  BY DEF Posts
<1>2. \A k \in Accumulators, s \in BOOLEAN : a.pool[k][s] <= c.pool[k][s]
  <2> TAKE k \in Accumulators, s \in BOOLEAN
  <2>1. a.pool[k][s] \in Nat /\ b.pool[k][s] \in Nat /\ c.pool[k][s] \in Nat
    BY <1>1, PoolsSplit DEF Sound
  <2>2. a.pool[k][s] <= b.pool[k][s] /\ b.pool[k][s] <= c.pool[k][s]
    BY DEF Posts
  <2> QED BY <2>1, <2>2
<1>3. \A q, i \in Nat, j \in Int, k \in Int :
         (i + (IF q THEN j ELSE 0)) + (IF q THEN k ELSE 0) = i + (IF q THEN j + k ELSE 0)
  OBVIOUS
<1>4. ASSUME NEW s \in BOOLEAN, NEW d \in BOOLEAN
      PROVE  /\ c.pool[<<"OpenInterest", s>>][d] = a.pool[<<"OpenInterest", s>>][d]
                  + (IF s = p.long /\ d = p.cl THEN s1 + s2 ELSE 0)
             /\ c.pool[<<"OpenInterestInTokens", s>>][d] = a.pool[<<"OpenInterestInTokens", s>>][d]
                  + (IF s = p.long /\ d = p.cl THEN t1 + t2 ELSE 0)
             /\ c.pool[<<"CollateralSum", s>>][d] = a.pool[<<"CollateralSum", s>>][d]
                  + (IF s = p.long /\ d = p.cl THEN c1 + c2 ELSE 0)
  <2>1. /\ a.pool[<<"OpenInterest", s>>][d] \in Nat
        /\ a.pool[<<"OpenInterestInTokens", s>>][d] \in Nat
        /\ a.pool[<<"CollateralSum", s>>][d] \in Nat
    BY <1>1, BookNat
  <2>2. c.pool[<<"OpenInterest", s>>][d] = (a.pool[<<"OpenInterest", s>>][d]
          + (IF s = p.long /\ d = p.cl THEN s1 ELSE 0)) + (IF s = p.long /\ d = p.cl THEN s2 ELSE 0)
    <3>1. b.pool[<<"OpenInterest", s>>][d] = a.pool[<<"OpenInterest", s>>][d]
            + (IF s = p.long /\ d = p.cl THEN s1 ELSE 0)
      BY Zenon DEF Posts
    <3>2. c.pool[<<"OpenInterest", s>>][d] = b.pool[<<"OpenInterest", s>>][d]
            + (IF s = p.long /\ d = p.cl THEN s2 ELSE 0)
      BY Zenon DEF Posts
    <3> QED BY <3>1, <3>2, Zenon
  <2>3. c.pool[<<"OpenInterestInTokens", s>>][d] = (a.pool[<<"OpenInterestInTokens", s>>][d]
          + (IF s = p.long /\ d = p.cl THEN t1 ELSE 0)) + (IF s = p.long /\ d = p.cl THEN t2 ELSE 0)
    <3>1. b.pool[<<"OpenInterestInTokens", s>>][d] = a.pool[<<"OpenInterestInTokens", s>>][d]
            + (IF s = p.long /\ d = p.cl THEN t1 ELSE 0)
      BY Zenon DEF Posts
    <3>2. c.pool[<<"OpenInterestInTokens", s>>][d] = b.pool[<<"OpenInterestInTokens", s>>][d]
            + (IF s = p.long /\ d = p.cl THEN t2 ELSE 0)
      BY Zenon DEF Posts
    <3> QED BY <3>1, <3>2, Zenon
  <2>4. c.pool[<<"CollateralSum", s>>][d] = (a.pool[<<"CollateralSum", s>>][d]
          + (IF s = p.long /\ d = p.cl THEN c1 ELSE 0)) + (IF s = p.long /\ d = p.cl THEN c2 ELSE 0)
    <3>1. b.pool[<<"CollateralSum", s>>][d] = a.pool[<<"CollateralSum", s>>][d]
            + (IF s = p.long /\ d = p.cl THEN c1 ELSE 0)
      BY Zenon DEF Posts
    <3>2. c.pool[<<"CollateralSum", s>>][d] = b.pool[<<"CollateralSum", s>>][d]
            + (IF s = p.long /\ d = p.cl THEN c2 ELSE 0)
      BY Zenon DEF Posts
    <3> QED BY <3>1, <3>2, Zenon
  <2> QED BY <1>3, <2>1, <2>2, <2>3, <2>4
<1>5. ASSUME NEW s \in BOOLEAN
      PROVE  c.pool[TotalBorrowing][s] = a.pool[TotalBorrowing][s]
                  + (IF s = p.long THEN b1 + b2 ELSE 0)
  <2>1. a.pool[TotalBorrowing][s] \in Nat
    BY <1>1, BookNat
  <2>2. c.pool[TotalBorrowing][s] = (a.pool[TotalBorrowing][s]
          + (IF s = p.long THEN b1 ELSE 0)) + (IF s = p.long THEN b2 ELSE 0)
    BY DEF Posts
  <2> QED BY <1>3, <2>1, <2>2
<1> QED BY <1>1, <1>2, <1>4, <1>5 DEF Posts

LEMMA DeltaOk ==
  ASSUME NEW a, IsMarket(a), NEW k \in PoolKinds, NEW s \in BOOLEAN, NEW d
  PROVE  IsMarket(ApplyDelta(a, k, s, d)) /\ (ApplyDelta(a, k, s, d).ok => a.ok)
<1>1. PICK side \in BOOLEAN : side = DeltaSide(a, k, s)
  BY DeltaSideBoolean
<1>2. /\ IsMarket(ApplyDelta(a, k, s, d))
      /\ ApplyDelta(a, k, s, d).ok => a.ok /\ a.pool[k][side] + d \in Nat
  BY <1>1, DeltaShape
<1> QED BY <1>2

LEMMA BookDelta ==
  ASSUME NEW a, Sound(a), NEW k \in BookPools, NEW s \in BOOLEAN, NEW d,
         NEW side \in BOOLEAN, side = DeltaSide(a, k, s),
         NEW b, b = ApplyDelta(a, k, s, d), b.ok
  PROVE  /\ Sound(b) /\ b.pure = a.pure
         /\ b.pool[k][side] = a.pool[k][side] + d
         /\ \A l \in PoolKinds, t \in BOOLEAN : l # k \/ t # side => b.pool[l][t] = a.pool[l][t]
         /\ \A l \in Accumulators, t \in BOOLEAN : a.pool[l][t] <= b.pool[l][t]
<1>1. IsMarket(a) /\ k \in PoolKinds
  BY PoolsSplit DEF Sound
<1>2. /\ IsMarket(b)
      /\ b.ok => a.ok /\ a.pool[k][side] + d \in Nat
      /\ b.pure = a.pure /\ b.clock = a.clock /\ b.factor = a.factor
      /\ b.pool[k][side] = a.pool[k][side] + d
      /\ \A l \in PoolKinds, t \in BOOLEAN : l # k \/ t # side => b.pool[l][t] = a.pool[l][t]
  BY <1>1, DeltaShape
<1>3. \A l \in PoolKinds, t \in BOOLEAN : b.pool[l][t] \in Nat
  BY <1>2 DEF Sound
<1>4. Sound(b)
  BY <1>2, <1>3 DEF Sound
<1>5. ASSUME NEW l \in Accumulators, NEW t \in BOOLEAN PROVE a.pool[l][t] <= b.pool[l][t]
  <2>1. l # k /\ l \in PoolKinds
    BY PoolsSplit
  <2>2. a.pool[l][t] \in Nat /\ b.pool[l][t] = a.pool[l][t]
    BY <1>2, <2>1 DEF Sound
  <2> QED BY <2>2
<1> QED BY <1>2, <1>4, <1>5

\* The pool names differ.
LEMMA NamesDiffer ==
  ASSUME NEW s \in BOOLEAN, NEW t \in BOOLEAN
  PROVE  /\ <<"OpenInterest", s>> # <<"OpenInterestInTokens", t>>
         /\ <<"OpenInterest", s>> # <<"CollateralSum", t>>
         /\ <<"OpenInterestInTokens", s>> # <<"CollateralSum", t>>
         /\ <<"OpenInterest", s>> # TotalBorrowing
         /\ <<"OpenInterestInTokens", s>> # TotalBorrowing
         /\ <<"CollateralSum", s>> # TotalBorrowing
         /\ BorrowingFactor # TotalBorrowing
         /\ \A n \in {"OpenInterest", "OpenInterestInTokens", "CollateralSum"} :
              <<n, s>> = <<n, t>> => s = t
<1>1. TotalBorrowing[1] = "TotalBorrowing" /\ BorrowingFactor[1] = "BorrowingFactor"
  BY DEF TotalBorrowing, BorrowingFactor
<1>2. \A n, b : <<n, b>>[1] = n /\ <<n, b>>[2] = b
  OBVIOUS
<1> QED BY <1>1, <1>2

\* In a pure market every collateral is the long token.
Fits(a, p) == p \in PositionStates /\ (a.pure => p.cl)

LEMMA PositionSide ==
  ASSUME NEW a, Sound(a), NEW p, Fits(a, p), NEW k \in BookPools
  PROVE  /\ p.long \in BOOLEAN /\ p.cl \in BOOLEAN
         /\ p.cl = DeltaSide(a, k, p.cl)
         /\ p.long = DeltaSide(a, TotalBorrowing, p.long)
<1>1. p.long \in BOOLEAN /\ p.cl \in BOOLEAN
  BY PositionFields DEF Fits
<1>2. a.pure \in BOOLEAN /\ (a.pure => p.cl)
  BY DEF Sound, IsMarket, Fits
<1>3. p.cl = (p.cl \/ IsPure(a, k))
  BY <1>1, <1>2, Zenon DEF IsPure
<1>4. p.long = (p.long \/ IsPure(a, TotalBorrowing))
  BY <1>1, Zenon DEF IsPure
<1> QED BY <1>1, <1>3, <1>4 DEF DeltaSide

LEMMA SizePosts ==
  ASSUME NEW a, Sound(a), NEW p, Fits(a, p), NEW d,
         ApplyDelta(a, <<"OpenInterest", p.long>>, p.cl, d).ok
  PROVE  Posts(a, ApplyDelta(a, <<"OpenInterest", p.long>>, p.cl, d), p, d, 0, 0, 0)
<1> DEFINE k == <<"OpenInterest", p.long>>
           b == ApplyDelta(a, k, p.cl, d)
<1>1. k \in BookPools /\ p.long \in BOOLEAN /\ p.cl \in BOOLEAN
  BY PositionFields, SideKinds DEF Fits
<1>2. p.cl = DeltaSide(a, k, p.cl)
  BY <1>1, PositionSide
<1>3. /\ Sound(b) /\ b.pure = a.pure
      /\ b.pool[k][p.cl] = a.pool[k][p.cl] + d
      /\ \A l \in PoolKinds, t \in BOOLEAN : l # k \/ t # p.cl => b.pool[l][t] = a.pool[l][t]
      /\ \A l \in Accumulators, t \in BOOLEAN : a.pool[l][t] <= b.pool[l][t]
  BY <1>1, <1>2, BookDelta
<1> HIDE DEF b
<1>4. \A i \in Nat : i + 0 = i
  OBVIOUS
<1>5. \A q : (IF q THEN 0 ELSE 0) = 0
  OBVIOUS
<1>6. ASSUME NEW s \in BOOLEAN, NEW c \in BOOLEAN
      PROVE  b.pool[<<"OpenInterest", s>>][c] = a.pool[<<"OpenInterest", s>>][c]
                + (IF s = p.long /\ c = p.cl THEN d ELSE 0)
  <2>1. CASE s = p.long /\ c = p.cl
    BY <1>3, <2>1
  <2>2. CASE ~(s = p.long /\ c = p.cl)
    <3>1. <<"OpenInterest", s>> # k \/ c # p.cl
      BY <1>1, <2>2, NamesDiffer
    <3>2. b.pool[<<"OpenInterest", s>>][c] = a.pool[<<"OpenInterest", s>>][c]
      BY <1>3, <3>1, SideKinds, PoolsSplit
    <3> QED BY <1>4, <2>2, <3>2, BookNat
  <2> QED BY <2>1, <2>2
<1>7. ASSUME NEW s \in BOOLEAN, NEW c \in BOOLEAN
      PROVE  /\ b.pool[<<"OpenInterestInTokens", s>>][c] = a.pool[<<"OpenInterestInTokens", s>>][c] + 0
             /\ b.pool[<<"CollateralSum", s>>][c] = a.pool[<<"CollateralSum", s>>][c] + 0
             /\ b.pool[TotalBorrowing][c] = a.pool[TotalBorrowing][c] + 0
  <2>1. <<"OpenInterestInTokens", s>> # k /\ <<"CollateralSum", s>> # k /\ TotalBorrowing # k
    BY <1>1, NamesDiffer
  <2>2. /\ <<"OpenInterestInTokens", s>> \in PoolKinds /\ <<"CollateralSum", s>> \in PoolKinds
        /\ TotalBorrowing \in PoolKinds
    BY SideKinds, PoolsSplit
  <2>3. /\ b.pool[<<"OpenInterestInTokens", s>>][c] = a.pool[<<"OpenInterestInTokens", s>>][c]
        /\ b.pool[<<"CollateralSum", s>>][c] = a.pool[<<"CollateralSum", s>>][c]
        /\ b.pool[TotalBorrowing][c] = a.pool[TotalBorrowing][c]
    BY <1>3, <2>1, <2>2
  <2> QED BY <1>4, <2>3, BookNat
<1>8. Posts(a, b, p, d, 0, 0, 0)
  BY <1>3, <1>5, <1>6, <1>7 DEF Posts
<1> QED BY <1>8 DEF b

LEMMA TokensPosts ==
  ASSUME NEW a, Sound(a), NEW p, Fits(a, p), NEW d,
         ApplyDelta(a, <<"OpenInterestInTokens", p.long>>, p.cl, d).ok
  PROVE  Posts(a, ApplyDelta(a, <<"OpenInterestInTokens", p.long>>, p.cl, d), p, 0, d, 0, 0)
<1> DEFINE k == <<"OpenInterestInTokens", p.long>>
           b == ApplyDelta(a, k, p.cl, d)
<1>1. k \in BookPools /\ p.long \in BOOLEAN /\ p.cl \in BOOLEAN
  BY PositionFields, SideKinds DEF Fits
<1>2. p.cl = DeltaSide(a, k, p.cl)
  BY <1>1, PositionSide
<1>3. /\ Sound(b) /\ b.pure = a.pure
      /\ b.pool[k][p.cl] = a.pool[k][p.cl] + d
      /\ \A l \in PoolKinds, t \in BOOLEAN : l # k \/ t # p.cl => b.pool[l][t] = a.pool[l][t]
      /\ \A l \in Accumulators, t \in BOOLEAN : a.pool[l][t] <= b.pool[l][t]
  BY <1>1, <1>2, BookDelta
<1> HIDE DEF b
<1>4. \A i \in Nat : i + 0 = i
  OBVIOUS
<1>5. \A q : (IF q THEN 0 ELSE 0) = 0
  OBVIOUS
<1>6. ASSUME NEW s \in BOOLEAN, NEW c \in BOOLEAN
      PROVE  b.pool[<<"OpenInterestInTokens", s>>][c] = a.pool[<<"OpenInterestInTokens", s>>][c]
                + (IF s = p.long /\ c = p.cl THEN d ELSE 0)
  <2>1. CASE s = p.long /\ c = p.cl
    BY <1>3, <2>1
  <2>2. CASE ~(s = p.long /\ c = p.cl)
    <3>1. <<"OpenInterestInTokens", s>> # k \/ c # p.cl
      BY <1>1, <2>2, NamesDiffer
    <3>2. b.pool[<<"OpenInterestInTokens", s>>][c] = a.pool[<<"OpenInterestInTokens", s>>][c]
      BY <1>3, <3>1, SideKinds, PoolsSplit
    <3> QED BY <1>4, <2>2, <3>2, BookNat
  <2> QED BY <2>1, <2>2
<1>7. ASSUME NEW s \in BOOLEAN, NEW c \in BOOLEAN
      PROVE  /\ b.pool[<<"OpenInterest", s>>][c] = a.pool[<<"OpenInterest", s>>][c] + 0
             /\ b.pool[<<"CollateralSum", s>>][c] = a.pool[<<"CollateralSum", s>>][c] + 0
             /\ b.pool[TotalBorrowing][c] = a.pool[TotalBorrowing][c] + 0
  <2>1. <<"OpenInterest", s>> # k /\ <<"CollateralSum", s>> # k /\ TotalBorrowing # k
    BY <1>1, NamesDiffer
  <2>2. /\ <<"OpenInterest", s>> \in PoolKinds /\ <<"CollateralSum", s>> \in PoolKinds
        /\ TotalBorrowing \in PoolKinds
    BY SideKinds, PoolsSplit
  <2>3. /\ b.pool[<<"OpenInterest", s>>][c] = a.pool[<<"OpenInterest", s>>][c]
        /\ b.pool[<<"CollateralSum", s>>][c] = a.pool[<<"CollateralSum", s>>][c]
        /\ b.pool[TotalBorrowing][c] = a.pool[TotalBorrowing][c]
    BY <1>3, <2>1, <2>2
  <2> QED BY <1>4, <2>3, BookNat
<1>8. Posts(a, b, p, 0, d, 0, 0)
  BY <1>3, <1>5, <1>6, <1>7 DEF Posts
<1> QED BY <1>8 DEF b

LEMMA CollateralPosts ==
  ASSUME NEW a, Sound(a), NEW p, Fits(a, p), NEW d,
         ApplyDelta(a, <<"CollateralSum", p.long>>, p.cl, d).ok
  PROVE  Posts(a, ApplyDelta(a, <<"CollateralSum", p.long>>, p.cl, d), p, 0, 0, d, 0)
<1> DEFINE k == <<"CollateralSum", p.long>>
           b == ApplyDelta(a, k, p.cl, d)
<1>1. k \in BookPools /\ p.long \in BOOLEAN /\ p.cl \in BOOLEAN
  BY PositionFields, SideKinds DEF Fits
<1>2. p.cl = DeltaSide(a, k, p.cl)
  BY <1>1, PositionSide
<1>3. /\ Sound(b) /\ b.pure = a.pure
      /\ b.pool[k][p.cl] = a.pool[k][p.cl] + d
      /\ \A l \in PoolKinds, t \in BOOLEAN : l # k \/ t # p.cl => b.pool[l][t] = a.pool[l][t]
      /\ \A l \in Accumulators, t \in BOOLEAN : a.pool[l][t] <= b.pool[l][t]
  BY <1>1, <1>2, BookDelta
<1> HIDE DEF b
<1>4. \A i \in Nat : i + 0 = i
  OBVIOUS
<1>5. \A q : (IF q THEN 0 ELSE 0) = 0
  OBVIOUS
<1>6. ASSUME NEW s \in BOOLEAN, NEW c \in BOOLEAN
      PROVE  b.pool[<<"CollateralSum", s>>][c] = a.pool[<<"CollateralSum", s>>][c]
                + (IF s = p.long /\ c = p.cl THEN d ELSE 0)
  <2>1. CASE s = p.long /\ c = p.cl
    BY <1>3, <2>1
  <2>2. CASE ~(s = p.long /\ c = p.cl)
    <3>1. <<"CollateralSum", s>> # k \/ c # p.cl
      BY <1>1, <2>2, NamesDiffer
    <3>2. b.pool[<<"CollateralSum", s>>][c] = a.pool[<<"CollateralSum", s>>][c]
      BY <1>3, <3>1, SideKinds, PoolsSplit
    <3> QED BY <1>4, <2>2, <3>2, BookNat
  <2> QED BY <2>1, <2>2
<1>7. ASSUME NEW s \in BOOLEAN, NEW c \in BOOLEAN
      PROVE  /\ b.pool[<<"OpenInterest", s>>][c] = a.pool[<<"OpenInterest", s>>][c] + 0
             /\ b.pool[<<"OpenInterestInTokens", s>>][c] = a.pool[<<"OpenInterestInTokens", s>>][c] + 0
             /\ b.pool[TotalBorrowing][c] = a.pool[TotalBorrowing][c] + 0
  <2>1. <<"OpenInterest", s>> # k /\ <<"OpenInterestInTokens", s>> # k /\ TotalBorrowing # k
    BY <1>1, NamesDiffer
  <2>2. /\ <<"OpenInterest", s>> \in PoolKinds /\ <<"OpenInterestInTokens", s>> \in PoolKinds
        /\ TotalBorrowing \in PoolKinds
    BY SideKinds, PoolsSplit
  <2>3. /\ b.pool[<<"OpenInterest", s>>][c] = a.pool[<<"OpenInterest", s>>][c]
        /\ b.pool[<<"OpenInterestInTokens", s>>][c] = a.pool[<<"OpenInterestInTokens", s>>][c]
        /\ b.pool[TotalBorrowing][c] = a.pool[TotalBorrowing][c]
    BY <1>3, <2>1, <2>2
  <2> QED BY <1>4, <2>3, BookNat
<1>8. Posts(a, b, p, 0, 0, d, 0)
  BY <1>3, <1>5, <1>6, <1>7 DEF Posts
<1> QED BY <1>8 DEF b

LEMMA BorrowingPosts ==
  ASSUME NEW a, Sound(a), NEW p, Fits(a, p), NEW d,
         ApplyDelta(a, TotalBorrowing, p.long, d).ok
  PROVE  Posts(a, ApplyDelta(a, TotalBorrowing, p.long, d), p, 0, 0, 0, d)
<1> DEFINE k == TotalBorrowing
           b == ApplyDelta(a, k, p.long, d)
<1>1. k \in BookPools /\ p.long \in BOOLEAN /\ p.cl \in BOOLEAN
  BY PositionFields, SideKinds DEF Fits
<1>2. p.long = DeltaSide(a, k, p.long)
  BY <1>1, PositionSide
<1>3. /\ Sound(b) /\ b.pure = a.pure
      /\ b.pool[k][p.long] = a.pool[k][p.long] + d
      /\ \A l \in PoolKinds, t \in BOOLEAN : l # k \/ t # p.long => b.pool[l][t] = a.pool[l][t]
      /\ \A l \in Accumulators, t \in BOOLEAN : a.pool[l][t] <= b.pool[l][t]
  BY <1>1, <1>2, BookDelta
<1> HIDE DEF b
<1>4. \A i \in Nat : i + 0 = i
  OBVIOUS
<1>5. \A q : (IF q THEN 0 ELSE 0) = 0
  OBVIOUS
<1>6. ASSUME NEW s \in BOOLEAN
      PROVE  b.pool[TotalBorrowing][s] = a.pool[TotalBorrowing][s] + (IF s = p.long THEN d ELSE 0)
  <2>1. CASE s = p.long
    BY <1>3, <2>1
  <2>2. CASE s # p.long
    <3>1. b.pool[TotalBorrowing][s] = a.pool[TotalBorrowing][s]
      BY <1>1, <1>3, <2>2, PoolsSplit
    <3> QED BY <1>4, <2>2, <3>1, BookNat
  <2> QED BY <2>1, <2>2
<1>7. ASSUME NEW s \in BOOLEAN, NEW c \in BOOLEAN
      PROVE  /\ b.pool[<<"OpenInterest", s>>][c] = a.pool[<<"OpenInterest", s>>][c] + 0
             /\ b.pool[<<"OpenInterestInTokens", s>>][c] = a.pool[<<"OpenInterestInTokens", s>>][c] + 0
             /\ b.pool[<<"CollateralSum", s>>][c] = a.pool[<<"CollateralSum", s>>][c] + 0
  BY <1>1, <1>3, <1>4, NamesDiffer, SideKinds, PoolsSplit, BookNat
<1>8. Posts(a, b, p, 0, 0, 0, d)
  BY <1>3, <1>5, <1>6, <1>7 DEF Posts
<1> QED BY <1>8 DEF b

LEMMA BorrowingSame ==
  ASSUME NEW a, Sound(a), NEW p, Fits(a, p), NEW k \in BookPools, NEW s \in BOOLEAN, NEW d,
         ApplyDelta(a, k, s, d).ok
  PROVE  CumulativeBorrowing(ApplyDelta(a, k, s, d), p) = CumulativeBorrowing(a, p)
<1> DEFINE b == ApplyDelta(a, k, s, d)
<1>1. PICK side \in BOOLEAN : side = DeltaSide(a, k, s)
  BY DeltaSideBoolean
<1>2. \A l \in PoolKinds, t \in BOOLEAN : l # k \/ t # side => b.pool[l][t] = a.pool[l][t]
  BY <1>1, BookDelta
<1>3. BorrowingFactor # k /\ BorrowingFactor \in PoolKinds /\ p.long \in BOOLEAN
  BY PoolsSplit, SideKinds, PositionFields DEF Fits
<1>4. b.pool[BorrowingFactor][p.long] = a.pool[BorrowingFactor][p.long]
  BY <1>2, <1>3
<1> HIDE DEF b
<1>5. ~IsPure(a, BorrowingFactor) /\ ~IsPure(b, BorrowingFactor)
  BY Zenon DEF IsPure
<1>6. CumulativeBorrowing(b, p) = CumulativeBorrowing(a, p)
  BY <1>4, <1>5 DEF CumulativeBorrowing, Amount
<1> QED BY <1>6 DEF b

\* A market that was refused stays refused.
LEMMA PaysOk ==
  ASSUME NEW a, IsMarket(a), NEW p \in PositionStates, NEW x, NEW fees, NEW change, NEW impact
  PROVE  /\ IsMarket(PayIncrease(a, x, p, fees, change, impact))
         /\ PayIncrease(a, x, p, fees, change, impact).ok => a.ok
<1>1. p.long \in BOOLEAN /\ p.cl \in BOOLEAN
  BY PositionFields
<1>2. /\ ClaimableFee \in PoolKinds /\ Primary \in PoolKinds /\ PositionImpact \in PoolKinds
      /\ <<"CollateralSum", p.long>> \in PoolKinds
  BY <1>1, SideKinds, PoolsSplit, LiquidityNames
<1> DEFINE m1 == ApplyDelta(a, ClaimableFee, p.cl, fees.receiver)
           m2 == ApplyDelta(m1, Primary, p.cl, fees.pool)
           m3 == ApplyDelta(m2, <<"CollateralSum", p.long>>, p.cl, change)
           m4 == ApplyDelta(m3, PositionImpact, TRUE, -ImpactAmount(x, impact))
<1>3. IsMarket(m1) /\ (m1.ok => a.ok)
  BY <1>1, <1>2, DeltaOk
<1> HIDE DEF m1
<1>4. IsMarket(m2) /\ (m2.ok => m1.ok)
  BY <1>1, <1>2, <1>3, DeltaOk
<1> HIDE DEF m2
<1>5. IsMarket(m3) /\ (m3.ok => m2.ok)
  BY <1>1, <1>2, <1>4, DeltaOk
<1> HIDE DEF m3
<1>6. IsMarket(m4) /\ (m4.ok => m3.ok)
  BY <1>2, <1>5, DeltaOk
<1>7. PayIncrease(a, x, p, fees, change, impact) = m4
  BY DEF PayIncrease, m1, m2, m3
<1> HIDE DEF m4
<1> QED BY <1>3, <1>4, <1>5, <1>6, <1>7

LEMMA PaysPosts ==
  ASSUME NEW a, Sound(a), NEW p, Fits(a, p), NEW x, NEW fees, NEW change \in Int, NEW impact,
         PayIncrease(a, x, p, fees, change, impact).ok
  PROVE  Posts(a, PayIncrease(a, x, p, fees, change, impact), p, 0, 0, change, 0)
<1>1. p \in PositionStates /\ p.long \in BOOLEAN /\ p.cl \in BOOLEAN /\ IsMarket(a)
  BY PositionFields DEF Fits, Sound
<1>2. /\ ClaimableFee \in PoolKinds /\ Primary \in PoolKinds /\ PositionImpact \in PoolKinds
      /\ <<"CollateralSum", p.long>> \in PoolKinds
  BY <1>1, SideKinds, PoolsSplit, LiquidityNames
<1> DEFINE m1 == ApplyDelta(a, ClaimableFee, p.cl, fees.receiver)
           m2 == ApplyDelta(m1, Primary, p.cl, fees.pool)
           m3 == ApplyDelta(m2, <<"CollateralSum", p.long>>, p.cl, change)
           m4 == ApplyDelta(m3, PositionImpact, TRUE, -ImpactAmount(x, impact))
<1>3. PayIncrease(a, x, p, fees, change, impact) = m4
  BY DEF PayIncrease
<1>4. Keeps(a, m1)
  BY <1>1, KeepsItself, LiquidityDelta, LiquidityNames
<1>5. Keeps(a, m2)
  BY <1>1, <1>4, LiquidityDelta, LiquidityNames
<1> HIDE DEF m1
<1>6. IsMarket(m2)
  BY <1>1, <1>5 DEF Keeps
<1> HIDE DEF m2
<1>7. IsMarket(m3) /\ (m3.ok => m2.ok)
  BY <1>1, <1>2, <1>6, DeltaOk
<1>8. Keeps(m3, m4)
  BY KeepsItself, LiquidityDelta, LiquidityNames
<1>9. m4.ok /\ (m4.ok => m3.ok)
  BY <1>3, <1>7, <1>8 DEF Keeps
<1>10. Posts(a, m2, p, 0, 0, 0, 0)
  BY <1>5, <1>7, <1>9, KeepsPosts
<1>11. Sound(m2) /\ Fits(m2, p)
  BY <1>10 DEF Posts, Fits
<1>12. Posts(m2, m3, p, 0, 0, change, 0)
  BY <1>7, <1>9, <1>11, CollateralPosts
<1>13. Sound(m3)
  BY <1>12 DEF Posts
<1> HIDE DEF m3
<1>14. Posts(m3, m4, p, 0, 0, 0, 0)
  BY <1>8, <1>9, <1>13, KeepsPosts
<1> HIDE DEF m4
<1>15. Posts(a, m3, p, 0 + 0, 0 + 0, 0 + change, 0 + 0)
  BY <1>10, <1>12, PostsTransitive
<1>16. 0 + 0 = 0 /\ 0 + change = change /\ change + 0 = change
  OBVIOUS
<1>17. Posts(a, m3, p, 0, 0, change, 0)
  BY <1>15, <1>16
<1>18. Posts(a, m4, p, 0 + 0, 0 + 0, change + 0, 0 + 0)
  BY <1>14, <1>17, PostsTransitive
<1> QED BY <1>3, <1>16, <1>18

LEMMA InterestOk ==
  ASSUME NEW a, IsMarket(a), NEW p \in PositionStates, NEW delta, NEW tokens
  PROVE  /\ IsMarket(UpdateOpenInterest(a, p, delta, tokens))
         /\ UpdateOpenInterest(a, p, delta, tokens).ok => a.ok
<1>1. p.long \in BOOLEAN /\ p.cl \in BOOLEAN
  BY PositionFields
<1>2. /\ <<"OpenInterest", p.long>> \in PoolKinds
      /\ <<"OpenInterestInTokens", p.long>> \in PoolKinds
  BY <1>1, SideKinds, PoolsSplit
<1> DEFINE n == ApplyDelta(a, <<"OpenInterest", p.long>>, p.cl, delta)
           cond == delta > 0 => OpenInterest(n, p.long) <= Config.max_open_interest[p.long]
           c == Check(n, cond)
           t == ApplyDelta(c, <<"OpenInterestInTokens", p.long>>, p.cl, tokens)
<1>3. UpdateOpenInterest(a, p, delta, tokens) = IF delta = 0 THEN a ELSE t
  BY DEF UpdateOpenInterest
<1>4. IsMarket(n) /\ (n.ok => a.ok)
  BY <1>1, <1>2, DeltaOk
<1> HIDE DEF n, cond
<1>5. IsMarket(c) /\ (c.ok => n.ok)
  BY <1>4, CheckShape
<1> HIDE DEF c
<1>6. IsMarket(t) /\ (t.ok => c.ok)
  BY <1>1, <1>2, <1>5, DeltaOk
<1> HIDE DEF t
<1> QED BY <1>3, <1>4, <1>5, <1>6

LEMMA InterestPosts ==
  ASSUME NEW a, Sound(a), NEW p, Fits(a, p), NEW delta \in Int, NEW tokens \in Int,
         delta = 0 => tokens = 0, UpdateOpenInterest(a, p, delta, tokens).ok
  PROVE  Posts(a, UpdateOpenInterest(a, p, delta, tokens), p, delta, tokens, 0, 0)
<1>1. p \in PositionStates /\ p.long \in BOOLEAN /\ p.cl \in BOOLEAN /\ IsMarket(a)
  BY PositionFields DEF Fits, Sound
<1>2. /\ <<"OpenInterest", p.long>> \in PoolKinds
      /\ <<"OpenInterestInTokens", p.long>> \in PoolKinds
  BY <1>1, SideKinds, PoolsSplit
<1> DEFINE n == ApplyDelta(a, <<"OpenInterest", p.long>>, p.cl, delta)
           cond == delta > 0 => OpenInterest(n, p.long) <= Config.max_open_interest[p.long]
           c == Check(n, cond)
           t == ApplyDelta(c, <<"OpenInterestInTokens", p.long>>, p.cl, tokens)
<1>3. UpdateOpenInterest(a, p, delta, tokens) = IF delta = 0 THEN a ELSE t
  BY DEF UpdateOpenInterest
<1>4. CASE delta = 0
  <2>1. a.ok
    BY DEF Sound
  <2>2. Posts(a, a, p, 0, 0, 0, 0)
    BY <2>1, KeepsItself, KeepsPosts
  <2> QED BY <1>3, <1>4, <2>2
<1>5. CASE delta # 0
  <2>1. IsMarket(n)
    BY <1>1, <1>2, DeltaOk
  <2> HIDE DEF cond
  <2>2. IsMarket(c) /\ (c.ok => n.ok)
    BY <2>1, CheckShape
  <2>3. IsMarket(t) /\ (t.ok => c.ok)
    BY <1>1, <1>2, <2>2, DeltaOk
  <2>4. t.ok /\ c.ok /\ n.ok
    BY <1>3, <1>5, <2>2, <2>3
  <2>5. Posts(a, n, p, delta, 0, 0, 0)
    BY <2>4, SizePosts
  <2>6. Sound(n) /\ Fits(n, p)
    BY <2>5 DEF Posts, Fits
  <2> HIDE DEF n
  <2>7. Posts(n, c, p, 0, 0, 0, 0)
    BY <2>4, <2>6, CheckKeeps, KeepsPosts
  <2>8. Sound(c) /\ Fits(c, p)
    BY <2>6, <2>7 DEF Posts, Fits
  <2> HIDE DEF c
  <2>9. Posts(c, t, p, 0, tokens, 0, 0)
    BY <2>4, <2>8, TokensPosts
  <2> HIDE DEF t
  <2>10. Posts(a, c, p, delta + 0, 0 + 0, 0 + 0, 0 + 0)
    BY <2>5, <2>7, PostsTransitive
  <2>11. 0 + 0 = 0 /\ delta + 0 = delta /\ 0 + tokens = tokens
    OBVIOUS
  <2>12. Posts(a, c, p, delta, 0, 0, 0)
    BY <2>10, <2>11
  <2>13. Posts(a, t, p, delta + 0, 0 + tokens, 0 + 0, 0 + 0)
    BY <2>9, <2>12, PostsTransitive
  <2> QED BY <1>3, <1>5, <2>11, <2>13
<1> QED BY <1>4, <1>5

-----------------------------------------------------------------------------
(* What a position has settled stays behind the market.                    *)
LEMMA AmountMonotone ==
  ASSUME NEW a, Sound(a), NEW b, Sound(b), b.pure = a.pure, NEW k \in PoolKinds, NEW s \in BOOLEAN,
         \A t \in BOOLEAN : a.pool[k][t] <= b.pool[k][t]
  PROVE  Amount(a, k, s) <= Amount(b, k, s)
<1>1. /\ a.pool[k][TRUE] \in Nat /\ b.pool[k][TRUE] \in Nat
      /\ a.pool[k][TRUE] <= b.pool[k][TRUE] /\ a.pool[k][s] <= b.pool[k][s]
  BY DEF Sound
<1>2. \A i, j \in Nat : i <= j => i \div 2 <= j \div 2 /\ (i + 2 - 1) \div 2 <= (j + 2 - 1) \div 2
  OBVIOUS
<1>3. /\ CeilDiv(a.pool[k][TRUE], 2) <= CeilDiv(b.pool[k][TRUE], 2)
      /\ a.pool[k][TRUE] \div 2 <= b.pool[k][TRUE] \div 2
  BY <1>1, <1>2 DEF CeilDiv
<1>4. IsPure(a, k) = IsPure(b, k)
  BY DEF IsPure
<1> QED BY <1>1, <1>3, <1>4 DEF Amount

LEMMA SettleableMonotone ==
  ASSUME NEW a, Sound(a), NEW b, Sound(b), b.pure = a.pure, NEW p \in PositionStates,
         \A k \in Accumulators, s \in BOOLEAN : a.pool[k][s] <= b.pool[k][s], Settleable(a, p)
  PROVE  Settleable(b, p)
<1>1. p.long \in BOOLEAN /\ p.cl \in BOOLEAN
  BY PositionFields
<1>2. /\ <<"FundingAmountPerSize", p.long>> \in Accumulators /\ BorrowingFactor \in Accumulators
      /\ <<"ClaimableFundingAmountPerSize", p.long>> \in Accumulators
  BY <1>1, SideKinds
<1>3. Accumulators \subseteq PoolKinds
  BY PoolsSplit
<1>4. \A k \in Accumulators, s \in BOOLEAN : Amount(a, k, s) <= Amount(b, k, s)
  BY <1>3, AmountMonotone
<1>5. /\ CumulativeBorrowing(a, p) <= CumulativeBorrowing(b, p)
      /\ FundingPerSize(a, p) <= FundingPerSize(b, p)
      /\ \A s \in BOOLEAN : ClaimablePerSize(a, p, s) <= ClaimablePerSize(b, p, s)
  BY <1>1, <1>2, <1>4 DEF CumulativeBorrowing, FundingPerSize, ClaimablePerSize
<1>6. /\ CumulativeBorrowing(a, p) \in Nat /\ CumulativeBorrowing(b, p) \in Nat
      /\ FundingPerSize(a, p) \in Nat /\ FundingPerSize(b, p) \in Nat
      /\ \A s \in BOOLEAN : ClaimablePerSize(a, p, s) \in Nat /\ ClaimablePerSize(b, p, s) \in Nat
  BY PositionReads
<1>7. p.borrowing \in Nat /\ p.funding \in Nat /\ \A s \in BOOLEAN : p.claimable[s] \in Nat
  BY PositionFields
<1>8. \A i, j, k \in Nat : i <= j /\ j <= k => i <= k
  OBVIOUS
<1>9. p.borrowing <= CumulativeBorrowing(b, p) /\ p.funding <= FundingPerSize(b, p)
  BY <1>5, <1>6, <1>7, <1>8 DEF Settleable
<1>10. \A s \in BOOLEAN : p.claimable[s] <= ClaimablePerSize(b, p, s)
  BY <1>5, <1>6, <1>7, <1>8 DEF Settleable
<1> QED BY <1>9, <1>10 DEF Settleable

\* A position as a record: what settling its funding fees changes of it.
LEMMA SettledFields ==
  ASSUME NEW a, Sound(a), NEW p \in PositionStates
  PROVE  /\ SettleFunding(a, p) \in PositionStates
         /\ SettleFunding(a, p).long = p.long /\ SettleFunding(a, p).cl = p.cl
         /\ SettleFunding(a, p).size = p.size /\ SettleFunding(a, p).tokens = p.tokens
         /\ SettleFunding(a, p).collateral = p.collateral
         /\ SettleFunding(a, p).borrowing = p.borrowing
<1> DEFINE claims == [s \in BOOLEAN |-> ClaimablePerSize(a, p, s)]
           per == FundingPerSize(a, p)
<1>1. claims \in [BOOLEAN -> Nat] /\ per \in Nat
  BY PositionReads
<1> HIDE DEF claims, per
<1>2. SettleFunding(a, p) = [p EXCEPT !.funding = per, !.claimable = claims]
  BY DEF SettleFunding, claims, per
<1> QED BY <1>1, <1>2 DEF PositionStates

LEMMA RaisedPosition ==
  \A a, p, change, delta, tokens, q :
    Sound(a) /\ p \in PositionStates /\ change \in Int /\ delta \in Nat /\ tokens \in Nat
      /\ q = Raised(a, p, change, delta, tokens) =>
        /\ q \in PositionStates /\ q.long = p.long /\ q.cl = p.cl
        /\ q.size = p.size + delta /\ q.tokens = p.tokens + tokens
        /\ q.collateral = p.collateral + change
        /\ q.borrowing = CumulativeBorrowing(a, p)
<1> SUFFICES ASSUME NEW a, NEW p, NEW change, NEW delta, NEW tokens, NEW q,
                    Sound(a), p \in PositionStates, change \in Int, delta \in Nat,
                    tokens \in Nat, q = Raised(a, p, change, delta, tokens)
             PROVE  /\ q \in PositionStates /\ q.long = p.long /\ q.cl = p.cl
                    /\ q.size = p.size + delta /\ q.tokens = p.tokens + tokens
                    /\ q.collateral = p.collateral + change
                    /\ q.borrowing = CumulativeBorrowing(a, p)
  OBVIOUS
<1> DEFINE f == SettleFunding(a, p)
           c == CumulativeBorrowing(a, p)
<1>1. f \in PositionStates /\ c \in Nat
  BY SettledFields, PositionReads
<1>2. /\ f.long = p.long /\ f.cl = p.cl /\ f.size = p.size /\ f.tokens = p.tokens
      /\ f.collateral = p.collateral
  BY SettledFields
<1>3. q = [f EXCEPT !.collateral = @ + change, !.size = @ + delta,
                    !.tokens = @ + tokens, !.borrowing = c]
  BY DEF Raised
<1> HIDE DEF f, c
<1>4. q = [long |-> f.long, cl |-> f.cl, size |-> f.size + delta, tokens |-> f.tokens + tokens,
           collateral |-> f.collateral + change, borrowing |-> c,
           funding |-> f.funding, claimable |-> f.claimable]
  BY <1>1, <1>3 DEF PositionStates
<1>5. /\ f.size \in Nat /\ f.tokens \in Nat /\ f.collateral \in Int /\ f.long \in BOOLEAN
      /\ f.cl \in BOOLEAN /\ f.funding \in Nat /\ f.claimable \in [BOOLEAN -> Nat]
  BY <1>1, PositionFields
<1>6. f.size + delta \in Nat /\ f.tokens + tokens \in Nat /\ f.collateral + change \in Int
  BY <1>5, NatOps, IntOps
<1>7. q \in PositionStates
  BY <1>1, <1>4, <1>5, <1>6 DEF PositionStates
<1> QED BY <1>2, <1>4, <1>7 DEF c

LEMMA TotalBorrowingPosts ==
  ASSUME NEW a, Sound(a), NEW p, Fits(a, p), NEW next \in Nat,
         UpdateTotalBorrowing(a, p, next).ok
  PROVE  /\ CumulativeBorrowing(UpdateTotalBorrowing(a, p, next), p) = CumulativeBorrowing(a, p)
         /\ Posts(a, UpdateTotalBorrowing(a, p, next), p, 0, 0, 0,
                  ApplyFactor(next, CumulativeBorrowing(a, p)) - ApplyFactor(p.size, p.borrowing))
<1>1. p.long \in BOOLEAN /\ TotalBorrowing \in BookPools
  BY PositionFields, SideKinds DEF Fits
<1> QED BY <1>1, BorrowingPosts, BorrowingSame DEF UpdateTotalBorrowing

LEMMA IncreaseAtPosts ==
  ASSUME NEW a, Sound(a), NEW p, Fits(a, p), NEW x, NEW paid \in Int, NEW delta \in Nat,
         NEW impact, NEW tokens \in Int, delta = 0 => tokens = 0,
         NEW fees, TotalCost(fees) \in Int,
         NEW r, r = IncreaseAt(a, x, p, paid, delta, impact, tokens, fees), r.m.ok
  PROVE  /\ r.p \in PositionStates /\ r.p.long = p.long /\ r.p.cl = p.cl
         /\ r.p.size # 0 /\ r.p.tokens # 0 /\ Settleable(r.m, r.p)
         /\ Posts(a, r.m, p, r.p.size - p.size, r.p.tokens - p.tokens,
                  r.p.collateral - p.collateral,
                  ApplyFactor(r.p.size, r.p.borrowing) - ApplyFactor(p.size, p.borrowing))
<1> DEFINE change == paid - TotalCost(fees)
           m4 == PayIncrease(a, x, p, fees, change, impact)
           m5 == UpdateTotalBorrowing(m4, p, p.size + delta)
           m6 == UpdateOpenInterest(m5, p, delta, tokens)
           q == Raised(m5, p, change, delta, tokens)
           cond == /\ delta # 0 => IncreaseAllowed(m6, x, q)
                   /\ ValidPosition(m6, x, q, TRUE)
<1>1. p \in PositionStates /\ p.long \in BOOLEAN /\ p.cl \in BOOLEAN /\ IsMarket(a)
  BY PositionFields DEF Fits, Sound
<1>2. change \in Int /\ p.size + delta \in Nat
  BY <1>1, PositionFields, IntOps, NatOps
<1> HIDE DEF change
<1>3. IsMarket(m4) /\ (m4.ok => a.ok)
  BY <1>1, PaysOk
<1>4. IsMarket(m5) /\ (m5.ok => m4.ok)
  <2>1. TotalBorrowing \in PoolKinds
    BY SideKinds, PoolsSplit
  <2> HIDE DEF m4
  <2> QED BY <1>1, <1>3, <2>1, DeltaOk DEF UpdateTotalBorrowing
<1>5. IsMarket(m6) /\ (m6.ok => m5.ok)
  <2> HIDE DEF m5
  <2> QED BY <1>1, <1>4, InterestOk
<1>6. /\ ~(delta > 0 /\ tokens <= 0) /\ r = CheckIncrease(m6, x, q, delta, fees.claim)
  <2>1. ~Refused(a).ok
    BY <1>1, RefusedNotOk
  <2>2. ASSUME delta > 0 /\ tokens <= 0 PROVE FALSE
    <3>1. r = [m |-> Refused(a), p |-> p, claim |-> fees.claim]
      BY <2>2 DEF IncreaseAt
    <3> QED BY <2>1, <3>1
  <2> QED BY <2>2 DEF IncreaseAt, IncreaseBooks, change
<1> HIDE DEF m4, m5, m6, q, cond
<1>7. m6.ok /\ r = [m |-> Check(m6, cond), p |-> q, claim |-> fees.claim]
  <2>1. ~Refused(m6).ok
    BY <1>5, RefusedNotOk
  <2>2. ASSUME q.collateral < 0 \/ ~m6.ok PROVE FALSE
    <3>1. r = [m |-> Refused(m6), p |-> q, claim |-> fees.claim]
      BY <1>6, <2>2 DEF CheckIncrease
    <3> QED BY <2>1, <3>1
  <2> QED BY <1>6, <2>2 DEF CheckIncrease, cond
<1>8. r.m = Check(m6, cond) /\ r.p = q
  BY <1>7
<1>9. cond /\ m4.ok /\ m5.ok
  <2>1. Check(m6, cond).ok = (m6.ok /\ cond)
    BY <1>5, CheckShape
  <2>2. Check(m6, cond).ok
    BY <1>8
  <2>3. cond
    BY <2>1, <2>2
  <2> QED BY <1>4, <1>5, <1>7, <2>3
<1>10. Posts(a, m4, p, 0, 0, change, 0)
  BY <1>2, <1>9, PaysPosts DEF m4
<1>11. Sound(m4) /\ Fits(m4, p)
  BY <1>10 DEF Posts, Fits
<1> DEFINE borrowed == ApplyFactor(p.size + delta, CumulativeBorrowing(m4, p))
                         - ApplyFactor(p.size, p.borrowing)
<1>12. /\ Posts(m4, m5, p, 0, 0, 0, borrowed)
       /\ CumulativeBorrowing(m5, p) = CumulativeBorrowing(m4, p)
  BY <1>2, <1>9, <1>11, TotalBorrowingPosts DEF m5
<1>13. borrowed \in Int
  <2>1. CumulativeBorrowing(m4, p) \in Nat /\ p.size \in Nat /\ p.borrowing \in Nat
    BY <1>1, <1>11, PositionReads, PositionFields
  <2>2. /\ ApplyFactor(p.size + delta, CumulativeBorrowing(m4, p)) \in Nat
        /\ ApplyFactor(p.size, p.borrowing) \in Nat
    BY <1>2, <2>1, FactorNat
  <2> QED BY <2>2, IntOps, NatInt
<1> HIDE DEF borrowed
<1>14. Sound(m5) /\ Fits(m5, p)
  BY <1>11, <1>12 DEF Posts, Fits
<1>15. Posts(m5, m6, p, delta, tokens, 0, 0)
  BY <1>7, <1>14, InterestPosts DEF m6
<1>16. Sound(m6) /\ m6.pure = m5.pure
  BY <1>15 DEF Posts
<1>17. Posts(m6, r.m, p, 0, 0, 0, 0)
  BY <1>8, <1>16, CheckKeeps, KeepsPosts
<1>18. Posts(a, r.m, p, delta, tokens, change, borrowed)
  <2>1. /\ 0 + 0 = 0 /\ 0 + delta = delta /\ delta + 0 = delta
        /\ 0 + tokens = tokens /\ tokens + 0 = tokens /\ change + 0 = change
        /\ 0 + borrowed = borrowed /\ borrowed + 0 = borrowed /\ delta \in Int
    BY <1>2, <1>13
  <2>2. Posts(a, m5, p, 0 + 0, 0 + 0, change + 0, 0 + borrowed)
    BY <1>2, <1>10, <1>12, <1>13, PostsTransitive
  <2>3. Posts(a, m5, p, 0, 0, change, borrowed)
    BY <2>1, <2>2
  <2>4. Posts(a, m6, p, 0 + delta, 0 + tokens, change + 0, borrowed + 0)
    BY <1>2, <1>13, <1>15, <2>1, <2>3, PostsTransitive
  <2>5. Posts(a, m6, p, delta, tokens, change, borrowed)
    BY <2>1, <2>4
  <2>6. Posts(a, r.m, p, delta + 0, tokens + 0, change + 0, borrowed + 0)
    BY <1>2, <1>13, <1>17, <2>1, <2>5, PostsTransitive
  <2> QED BY <2>1, <2>6
<1>19. tokens \in Nat
  BY <1>6
<1>20. /\ q \in PositionStates /\ q.long = p.long /\ q.cl = p.cl
       /\ q.size = p.size + delta /\ q.tokens = p.tokens + tokens
       /\ q.collateral = p.collateral + change
       /\ q.borrowing = CumulativeBorrowing(m5, p)
  <2>1. q = Raised(m5, p, change, delta, tokens)
    BY DEF q
  <2>2. Sound(m5) /\ p \in PositionStates
    BY <1>1, <1>14
  <2> QED BY <1>2, <1>19, <2>1, <2>2, RaisedPosition
<1>21. /\ q.size - p.size = delta /\ q.tokens - p.tokens = tokens
       /\ q.collateral - p.collateral = change
  BY <1>1, <1>2, <1>20, PositionFields
<1>22. ApplyFactor(q.size, q.borrowing) - ApplyFactor(p.size, p.borrowing) = borrowed
  BY <1>12, <1>20 DEF borrowed
<1>23. q.size # 0 /\ q.tokens # 0 /\ Settleable(m6, q)
  BY <1>9 DEF cond, ValidPosition
<1>24. Settleable(r.m, q)
  BY <1>16, <1>17, <1>20, <1>23, SettleableMonotone DEF Posts
<1> QED BY <1>8, <1>18, <1>20, <1>21, <1>22, <1>23, <1>24

LEMMA PostsSamePosition ==
  ASSUME NEW a, NEW b, NEW p, NEW q, q.long = p.long, q.cl = p.cl,
         NEW size, NEW tokens, NEW collateral, NEW borrowing,
         Posts(a, b, q, size, tokens, collateral, borrowing)
  PROVE  Posts(a, b, p, size, tokens, collateral, borrowing)
BY DEF Posts

LEMMA InitIfEmptyFields ==
  ASSUME NEW a, Sound(a), NEW p \in PositionStates, p.size = 0 => p.tokens = 0
  PROVE  /\ InitIfEmpty(a, p) \in PositionStates
         /\ InitIfEmpty(a, p).long = p.long /\ InitIfEmpty(a, p).cl = p.cl
         /\ InitIfEmpty(a, p).size = p.size /\ InitIfEmpty(a, p).tokens = p.tokens
         /\ InitIfEmpty(a, p).collateral = p.collateral
         /\ InitIfEmpty(a, p).borrowing = p.borrowing
<1>1. CASE p.size = 0
  <2>1. [p EXCEPT !.tokens = 0] = p
    BY <1>1 DEF PositionStates
  <2>2. InitIfEmpty(a, p) = SettleFunding(a, p)
    BY <1>1, <2>1 DEF InitIfEmpty
  <2> QED BY <2>2, SettledFields
<1>2. CASE p.size # 0
  BY <1>2 DEF InitIfEmpty
<1> QED BY <1>1, <1>2

\* An increase that succeeds books exactly what it adds to its position.
LEMMA IncreasePosts ==
  ASSUME NEW a, Sound(a), NEW x \in Oracles, NEW p, Fits(a, p), p.size = 0 => p.tokens = 0,
         NEW paid \in Int, NEW delta \in Nat,
         NEW r, r = Increase(a, x, p, paid, delta), r.m.ok
  PROVE  /\ r.p \in PositionStates /\ r.p.long = p.long /\ r.p.cl = p.cl
         /\ r.p.size # 0 /\ r.p.tokens # 0 /\ Settleable(r.m, r.p)
         /\ Posts(a, r.m, p, r.p.size - p.size, r.p.tokens - p.tokens,
                  r.p.collateral - p.collateral,
                  ApplyFactor(r.p.size, r.p.borrowing) - ApplyFactor(p.size, p.borrowing))
<1> DEFINE q == InitIfEmpty(a, p)
           impact == IncreaseImpact(a, x, p, delta)
           tokens == IncreaseTokens(x, q, delta, impact)
           fees == PositionFees(a, x, q, delta, impact > 0, FALSE)
<1>1. IsMarket(a) /\ p \in PositionStates /\ ~Refused(a).ok
  BY RefusedNotOk DEF Sound, Fits
<1>2. ValidPrices(x) /\ r = IncreasePriced(a, x, q, paid, delta, impact)
  <2>1. ASSUME ~ValidPrices(x) PROVE FALSE
    <3>1. r = [m |-> Refused(a), p |-> p, claim |-> [s \in BOOLEAN |-> 0]]
      BY <2>1 DEF Increase
    <3> QED BY <1>1, <3>1
  <2> QED BY <2>1 DEF Increase
<1>3. /\ q \in PositionStates /\ q.long = p.long /\ q.cl = p.cl /\ q.size = p.size
      /\ q.tokens = p.tokens /\ q.collateral = p.collateral /\ q.borrowing = p.borrowing
  BY <1>1, InitIfEmptyFields
<1> HIDE DEF q
<1>4. impact \in Int
  BY <1>1, <1>2, IncreaseInt
<1> HIDE DEF impact
<1>5. tokens \in Int /\ (delta = 0 => tokens = 0)
  BY <1>2, <1>3, <1>4, IncreaseInt DEF IncreaseTokens
<1>6. TotalCost(fees) \in Int
  BY <1>2, <1>3, FeesInt
<1>7. r = IncreaseAt(a, x, q, paid, delta, impact, tokens, fees)
  <2>1. ASSUME ~Settleable(a, q) PROVE FALSE
    <3>1. r = [m |-> Refused(a), p |-> q, claim |-> [s \in BOOLEAN |-> 0]]
      BY <1>2, <2>1 DEF IncreasePriced
    <3> QED BY <1>1, <3>1
  <2> QED BY <1>2, <2>1 DEF IncreasePriced
<1> HIDE DEF tokens, fees
<1>8. Fits(a, q)
  BY <1>3 DEF Fits
<1>9. /\ r.p \in PositionStates /\ r.p.long = q.long /\ r.p.cl = q.cl
      /\ r.p.size # 0 /\ r.p.tokens # 0 /\ Settleable(r.m, r.p)
      /\ Posts(a, r.m, q, r.p.size - q.size, r.p.tokens - q.tokens,
               r.p.collateral - q.collateral,
               ApplyFactor(r.p.size, r.p.borrowing) - ApplyFactor(q.size, q.borrowing))
  BY <1>5, <1>6, <1>7, <1>8, IncreaseAtPosts
<1>10. Posts(a, r.m, q, r.p.size - p.size, r.p.tokens - p.tokens,
             r.p.collateral - p.collateral,
             ApplyFactor(r.p.size, r.p.borrowing) - ApplyFactor(p.size, p.borrowing))
  BY <1>3, <1>9
<1>11. Posts(a, r.m, p, r.p.size - p.size, r.p.tokens - p.tokens,
             r.p.collateral - p.collateral,
             ApplyFactor(r.p.size, r.p.borrowing) - ApplyFactor(p.size, p.borrowing))
  BY <1>3, <1>10, PostsSamePosition
<1> QED BY <1>3, <1>9, <1>11

-----------------------------------------------------------------------------
(* Decreases.  What a swap pays out is a number.                           *)
LEMMA SwapImpactInt ==
  \A n, s, price, impact :
    Amount(n, SwapImpact, s) \in Nat /\ impact \in Int
      /\ price.min \in Nat \ {0} /\ price.max \in Nat \ {0} =>
      /\ SwapImpactAmount(n, s, price, impact).amount \in Int
      /\ SwapImpactAmount(n, s, price, impact).capped \in Int
<1> SUFFICES ASSUME NEW n, NEW s, NEW price, NEW impact,
                    Amount(n, SwapImpact, s) \in Nat, impact \in Int,
                    price.min \in Nat \ {0}, price.max \in Nat \ {0}
             PROVE  /\ SwapImpactAmount(n, s, price, impact).amount \in Int
                    /\ SwapImpactAmount(n, s, price, impact).capped \in Int
  OBVIOUS
<1> DEFINE wanted == TruncDiv(impact, price.max)
           has == Amount(n, SwapImpact, s)
           above == Greatest(wanted - has, 0)
           loss == CeilMagnitudeDiv(impact, price.min)
<1>1. wanted \in Int /\ loss \in Int /\ has \in Int
  BY DivisionInt, NatInt
<1> HIDE DEF wanted, has, loss
<1>2. Least(wanted, has) \in Int /\ wanted - has \in Int
  BY <1>1, LeastInt, IntOps
<1>3. above \in Int
  BY <1>2, LeastInt
<1> HIDE DEF above
<1>4. above * price.max \in Int
  BY <1>3, IntOps, NatInt
<1>5. SwapImpactAmount(n, s, price, impact) =
        IF impact > 0 THEN [amount |-> Least(wanted, has), capped |-> above * price.max]
        ELSE [amount |-> loss, capped |-> 0]
  BY DEF SwapImpactAmount, wanted, has, above, loss
<1>6. CASE impact > 0
  BY <1>2, <1>4, <1>5, <1>6
<1>7. CASE ~(impact > 0)
  BY <1>1, <1>5, <1>7
<1> QED BY <1>6, <1>7

LEMMA SwapTradeInt ==
  \A n, x, s, after, impact :
    x \in Oracles /\ ValidPrices(x) /\ s \in BOOLEAN /\ after \in Int /\ impact \in Int
      /\ (\A t \in BOOLEAN : Amount(n, SwapImpact, t) \in Nat) =>
      SwapGain(n, x, s, after, impact).out \in Int /\ SwapLoss(n, x, s, after, impact).out \in Int
<1> SUFFICES ASSUME NEW n, NEW x \in Oracles, ValidPrices(x), NEW s \in BOOLEAN,
                    NEW after \in Int, NEW impact \in Int,
                    \A t \in BOOLEAN : Amount(n, SwapImpact, t) \in Nat
             PROVE  /\ SwapGain(n, x, s, after, impact).out \in Int
                    /\ SwapLoss(n, x, s, after, impact).out \in Int
  OBVIOUS
<1>1. (~s) \in BOOLEAN
  OBVIOUS
<1> DEFINE in1 == TokenPrice(x, s)
           out1 == TokenPrice(x, ~s)
<1>2. /\ in1.min \in Nat \ {0} /\ in1.max \in Nat \ {0}
      /\ out1.min \in Nat \ {0} /\ out1.max \in Nat \ {0}
  BY <1>1, OraclePrices
<1> HIDE DEF in1, out1
<1> DEFINE first == SwapImpactAmount(n, ~s, out1, impact)
           second == SwapImpactAmount(n, s, in1, first.capped)
           lost == SwapImpactAmount(n, s, in1, impact)
<1>3. first.amount \in Int /\ first.capped \in Int
  BY <1>1, <1>2, SwapImpactInt
<1> HIDE DEF first
<1>4. second.amount \in Int /\ lost.amount \in Int
  BY <1>2, <1>3, SwapImpactInt
<1> HIDE DEF second, lost
<1>5. SwapGain(n, x, s, after, impact).out \in Int
  <2> DEFINE in == after + (IF first.capped = 0 THEN 0 ELSE second.amount)
             poolOut == MulDiv(in, in1.min, out1.max)
  <2>1. in \in Int
    BY <1>4
  <2> HIDE DEF in
  <2>2. poolOut \in Int
    BY <1>2, <2>1, MulDivInt, NatInt
  <2> HIDE DEF poolOut
  <2>3. SwapGain(n, x, s, after, impact).out = poolOut + first.amount
    BY DEF SwapGain, in, poolOut, first, second, in1, out1
  <2> QED BY <1>3, <2>2, <2>3, IntOps
<1>6. SwapLoss(n, x, s, after, impact).out \in Int
  <2> DEFINE loss == -lost.amount
             in == after - loss
             poolOut == IF in <= 0 THEN 0 ELSE MulDiv(in, in1.min, out1.max)
  <2>1. in \in Int
    BY <1>4
  <2> HIDE DEF in
  <2>2. poolOut \in Int
    BY <1>2, <2>1, MulDivInt, NatInt
  <2> HIDE DEF poolOut
  <2>3. SwapLoss(n, x, s, after, impact).out = poolOut
    BY DEF SwapLoss, in, poolOut, lost, in1, out1
  <2> QED BY <2>2, <2>3
<1> QED BY <1>5, <1>6

LEMMA SwapOutInt ==
  \A a, x, s, amount, fees :
    Sound(a) /\ x \in Oracles /\ ValidPrices(x) /\ s \in BOOLEAN /\ amount \in Int
      /\ fees \in FeeParams => Swap(a, x, s, amount, fees).out \in Int
<1> SUFFICES ASSUME NEW a, Sound(a), NEW x \in Oracles, ValidPrices(x), NEW s \in BOOLEAN,
                    NEW amount \in Int, NEW fees \in FeeParams
             PROVE  Swap(a, x, s, amount, fees).out \in Int
  OBVIOUS
<1> DEFINE cur == MidValues(a, x)
           moved == amount * Mid(TokenPrice(x, s))
           next == [cur EXCEPT ![s] = @ + moved, ![~s] = @ - moved]
           impact == PriceImpact(cur, next, SwapImpactParams)
           f == ApplyFees(fees, impact > 0, amount)
           paid == ApplyDelta(a, ClaimableFee, s, f.receiver)
           trade == IF impact > 0 THEN SwapGain(paid, x, s, f.after, impact)
                    ELSE SwapLoss(paid, x, s, f.after, impact)
<1>1. \A t \in BOOLEAN : Mid(TokenPrice(x, t)) \in Nat
  <2> TAKE t \in BOOLEAN
  <2>1. TokenPrice(x, t).min + TokenPrice(x, t).max \in Nat
    BY OraclePrices, NatOps
  <2> QED BY <2>1, DivisionNat DEF Mid
<1>2. cur \in [BOOLEAN -> Int]
  <2>1. \A t \in BOOLEAN : Amount(a, Primary, t) \in Nat
    BY AmountNat, LiquidityNames, PoolsSplit
  <2>2. \A t \in BOOLEAN : Amount(a, Primary, t) * Mid(TokenPrice(x, t)) \in Int
    BY <1>1, <2>1, NatOps, NatInt
  <2> QED BY <2>2 DEF MidValues
<1> HIDE DEF cur
<1>3. moved \in Int
  BY <1>1, IntOps, NatInt
<1> HIDE DEF moved
<1>4. next \in [BOOLEAN -> Int]
  <2> DEFINE one == [cur EXCEPT ![s] = cur[s] + moved]
  <2>1. one \in [BOOLEAN -> Int]
    BY <1>2, <1>3
  <2>2. next = [one EXCEPT ![~s] = one[~s] - moved]
    BY <1>2
  <2> HIDE DEF one, next
  <2>3. PICK t \in BOOLEAN : t = ~s
    OBVIOUS
  <2>4. next = [one EXCEPT ![t] = one[t] - moved]
    BY <2>2, <2>3
  <2>5. one[t] - moved \in Int
    BY <1>3, <2>1
  <2> QED BY <2>1, <2>4, <2>5
<1> HIDE DEF next
<1>5. impact \in Int
  BY <1>2, <1>4, PriceImpactInt, OrderConfig
<1> HIDE DEF impact
<1>6. f.after \in Int
  BY FeeInt
<1> HIDE DEF f
<1>7. \A t \in BOOLEAN : Amount(paid, SwapImpact, t) \in Nat
  <2>1. PICK side \in BOOLEAN : side = DeltaSide(a, ClaimableFee, s)
    BY DeltaSideBoolean
  <2>2. IsMarket(a) /\ ClaimableFee \in PoolKinds /\ SwapImpact \in PoolKinds
    BY LiquidityNames, PoolsSplit DEF Sound
  <2>3. /\ paid.pure = a.pure
        /\ \A l \in PoolKinds, t \in BOOLEAN :
             l # ClaimableFee \/ t # side => paid.pool[l][t] = a.pool[l][t]
    BY <2>1, <2>2, DeltaShape
  <2>4. SwapImpact # ClaimableFee
    BY DEF SwapImpact, ClaimableFee
  <2>5. \A t \in BOOLEAN : paid.pool[SwapImpact][t] = a.pool[SwapImpact][t]
    BY <2>2, <2>3, <2>4
  <2> HIDE DEF paid
  <2>6. \A t \in BOOLEAN : Amount(paid, SwapImpact, t) = Amount(a, SwapImpact, t)
    <3>1. IsPure(paid, SwapImpact) = IsPure(a, SwapImpact)
      BY <2>3 DEF IsPure
    <3> QED BY <2>5, <3>1 DEF Amount
  <2> QED BY <2>2, <2>6, AmountNat
<1> HIDE DEF paid
<1>8. trade.out \in Int
  BY <1>5, <1>6, <1>7, SwapTradeInt
<1>9. CASE amount = 0 \/ ~ValidPrices(x) \/ next[~s] < 0
  <2>1. Swap(a, x, s, amount, fees) = [m |-> Refused(a), out |-> 0]
    BY <1>9 DEF Swap, next, cur, moved
  <2> QED BY <2>1
<1>10. CASE ~(amount = 0 \/ ~ValidPrices(x) \/ next[~s] < 0)
  <2>1. Swap(a, x, s, amount, fees).out = trade.out
    BY <1>10 DEF Swap, next, cur, moved, impact, f, paid, trade
  <2> QED BY <1>8, <2>1
<1> QED BY <1>9, <1>10

(* The collateral processor works on numbers and, but for the liquidity    *)
(* and the fees, leaves the market a it started from as it was.            *)
Processing(a, st) ==
  /\ st = [m |-> st.m, out |-> st.out, sec |-> st.sec, col |-> st.col, holding |-> st.holding,
           user |-> st.user, unpaid |-> st.unpaid, waived |-> st.waived, short |-> st.short]
  /\ Keeps(a, st.m) /\ st.out \in Int /\ st.sec \in Int /\ st.col \in Int

LEMMA ProcessRecord ==
  \A a, n, i, j, c, holding, user, unpaid, waived, short, st :
    Keeps(a, n) /\ i \in Int /\ j \in Int /\ c \in Int
      /\ st = [m |-> n, out |-> i, sec |-> j, col |-> c, holding |-> holding, user |-> user,
               unpaid |-> unpaid, waived |-> waived, short |-> short] => Processing(a, st)
BY DEF Processing

LEMMA ProcessMarket ==
  \A a, st, n : Processing(a, st) /\ Keeps(a, n) => Processing(a, [st EXCEPT !.m = n])
<1> SUFFICES ASSUME NEW a, NEW st, NEW n, Processing(a, st), Keeps(a, n)
             PROVE  Processing(a, [st EXCEPT !.m = n])
  OBVIOUS
<1>1. [st EXCEPT !.m = n] =
        [m |-> n, out |-> st.out, sec |-> st.sec, col |-> st.col, holding |-> st.holding,
         user |-> st.user, unpaid |-> st.unpaid, waived |-> st.waived, short |-> st.short]
  BY DEF Processing
<1>2. st.out \in Int /\ st.sec \in Int /\ st.col \in Int
  BY DEF Processing
<1> QED BY <1>1, <1>2, ProcessRecord

WithAmounts(st, i, c, j, short) ==
  [st EXCEPT !.out = i, !.col = c, !.sec = j, !.short = short]

LEMMA ProcessAmounts ==
  ASSUME NEW a, NEW st, NEW i \in Int, NEW c \in Int, NEW j \in Int, NEW short,
         Processing(a, st)
  PROVE  /\ Processing(a, WithAmounts(st, i, c, j, short))
         /\ WithAmounts(st, i, c, j, short).m = st.m
<1> DEFINE s1 == [st EXCEPT !.out = i]
           s2 == [s1 EXCEPT !.col = c]
           s3 == [s2 EXCEPT !.sec = j]
           s4 == [s3 EXCEPT !.short = short]
<1>1. s1 = [m |-> st.m, out |-> i, sec |-> st.sec, col |-> st.col, holding |-> st.holding,
            user |-> st.user, unpaid |-> st.unpaid, waived |-> st.waived, short |-> st.short]
  BY DEF Processing
<1> HIDE DEF s1
<1>2. s2 = [m |-> st.m, out |-> i, sec |-> st.sec, col |-> c, holding |-> st.holding,
            user |-> st.user, unpaid |-> st.unpaid, waived |-> st.waived, short |-> st.short]
  BY <1>1
<1> HIDE DEF s2
<1>3. s3 = [m |-> st.m, out |-> i, sec |-> j, col |-> c, holding |-> st.holding,
            user |-> st.user, unpaid |-> st.unpaid, waived |-> st.waived, short |-> st.short]
  BY <1>2
<1> HIDE DEF s3
<1>4. s4 = [m |-> st.m, out |-> i, sec |-> j, col |-> c, holding |-> st.holding,
            user |-> st.user, unpaid |-> st.unpaid, waived |-> st.waived, short |-> short]
  BY <1>3
<1> HIDE DEF s4
<1>5. Keeps(a, st.m)
  BY DEF Processing
<1>6. Processing(a, s4) /\ s4.m = st.m
  BY <1>4, <1>5, ProcessRecord
<1> QED BY <1>6 DEF s1, s2, s3, s4, WithAmounts

LEMMA PayForCostInt ==
  \A a, st, x, p, cost, r :
    Processing(a, st) /\ x \in Oracles /\ ValidPrices(x) /\ p \in PositionStates /\ cost \in Int
      /\ r = PayForCost(st, x, p, cost) =>
        Processing(a, r.st) /\ r.st.m = st.m /\ r.paid \in Int /\ r.paidSec \in Int
<1> SUFFICES ASSUME NEW a, NEW st, Processing(a, st), NEW x \in Oracles, ValidPrices(x),
                    NEW p \in PositionStates, NEW cost \in Int,
                    NEW r, r = PayForCost(st, x, p, cost)
             PROVE  Processing(a, r.st) /\ r.st.m = st.m /\ r.paid \in Int /\ r.paidSec \in Int
  OBVIOUS
<1> DEFINE price == CollateralPrice(x, p).min
           pnlPrice == TokenPrice(x, p.long).min
           need == CeilDiv(cost, price)
           fromOut == Least(st.out, need)
           rest == need - fromOut
           fromCol == Least(st.col, rest)
           last == rest - fromCol
           secNeed == MulDiv(last, price, pnlPrice)
           fromSec == Least(st.sec, secNeed)
<1>1. price \in Nat \ {0} /\ pnlPrice \in Nat \ {0}
  BY CollateralPrices
<1>2. st.out \in Int /\ st.sec \in Int /\ st.col \in Int /\ Keeps(a, st.m)
  BY DEF Processing
<1> HIDE DEF price, pnlPrice
<1>3. need \in Int
  BY <1>1, DivisionInt
<1> HIDE DEF need
<1>4. fromOut \in Int
  BY <1>2, <1>3, LeastInt
<1> HIDE DEF fromOut
<1>5. rest \in Int
  BY <1>3, <1>4, IntOps
<1> HIDE DEF rest
<1>6. fromCol \in Int
  BY <1>2, <1>5, LeastInt
<1> HIDE DEF fromCol
<1>7. last \in Int
  BY <1>5, <1>6, IntOps
<1> HIDE DEF last
<1>8. secNeed \in Int
  BY <1>1, <1>7, MulDivInt, NatInt
<1> HIDE DEF secNeed
<1>9. fromSec \in Int
  BY <1>2, <1>8, LeastInt
<1> HIDE DEF fromSec
<1> DEFINE i == st.out - fromOut
           c == st.col - fromCol
           j == st.sec - fromSec
           short == fromSec < secNeed
           next == WithAmounts(st, i, c, j, short)
<1>10. r = [st |-> next, paid |-> fromOut + fromCol, paidSec |-> fromSec]
  BY DEF PayForCost, WithAmounts, price, pnlPrice, need, fromOut, rest, fromCol, last, secNeed, fromSec
<1>11. i \in Int /\ c \in Int /\ j \in Int /\ fromOut + fromCol \in Int
  BY <1>2, <1>4, <1>6, <1>9, IntOps
<1> HIDE DEF i, c, j, short
<1>12. Processing(a, next) /\ next.m = st.m
  BY <1>11, ProcessAmounts
<1> HIDE DEF next
<1> QED BY <1>9, <1>10, <1>11, <1>12

LEMMA ProcessFields ==
  ASSUME NEW a, NEW st, Processing(a, st), NEW v
  PROVE  /\ Processing(a, [st EXCEPT !.holding = v]) /\ Processing(a, [st EXCEPT !.user = v])
         /\ Processing(a, [st EXCEPT !.unpaid = v]) /\ Processing(a, [st EXCEPT !.waived = v])
         /\ v \in Int => /\ Processing(a, [st EXCEPT !.out = v])
                         /\ Processing(a, [st EXCEPT !.sec = v])
                         /\ Processing(a, [st EXCEPT !.col = v])
<1>1. [st EXCEPT !.holding = v] =
        [m |-> st.m, out |-> st.out, sec |-> st.sec, col |-> st.col, holding |-> v,
         user |-> st.user, unpaid |-> st.unpaid, waived |-> st.waived, short |-> st.short]
  BY DEF Processing
<1>2. [st EXCEPT !.user = v] =
        [m |-> st.m, out |-> st.out, sec |-> st.sec, col |-> st.col, holding |-> st.holding,
         user |-> v, unpaid |-> st.unpaid, waived |-> st.waived, short |-> st.short]
  BY DEF Processing
<1>3. [st EXCEPT !.unpaid = v] =
        [m |-> st.m, out |-> st.out, sec |-> st.sec, col |-> st.col, holding |-> st.holding,
         user |-> st.user, unpaid |-> v, waived |-> st.waived, short |-> st.short]
  BY DEF Processing
<1>4. [st EXCEPT !.waived = v] =
        [m |-> st.m, out |-> st.out, sec |-> st.sec, col |-> st.col, holding |-> st.holding,
         user |-> st.user, unpaid |-> st.unpaid, waived |-> v, short |-> st.short]
  BY DEF Processing
<1>5. [st EXCEPT !.out = v] =
        [m |-> st.m, out |-> v, sec |-> st.sec, col |-> st.col, holding |-> st.holding,
         user |-> st.user, unpaid |-> st.unpaid, waived |-> st.waived, short |-> st.short]
  BY DEF Processing
<1>6. [st EXCEPT !.sec = v] =
        [m |-> st.m, out |-> st.out, sec |-> v, col |-> st.col, holding |-> st.holding,
         user |-> st.user, unpaid |-> st.unpaid, waived |-> st.waived, short |-> st.short]
  BY DEF Processing
<1>7. [st EXCEPT !.col = v] =
        [m |-> st.m, out |-> st.out, sec |-> st.sec, col |-> v, holding |-> st.holding,
         user |-> st.user, unpaid |-> st.unpaid, waived |-> st.waived, short |-> st.short]
  BY DEF Processing
<1>8. Keeps(a, st.m) /\ st.out \in Int /\ st.sec \in Int /\ st.col \in Int
  BY DEF Processing
<1>9. Processing(a, [st EXCEPT !.holding = v]) /\ Processing(a, [st EXCEPT !.user = v])
  BY <1>1, <1>2, <1>8, ProcessRecord
<1>10. Processing(a, [st EXCEPT !.unpaid = v]) /\ Processing(a, [st EXCEPT !.waived = v])
  BY <1>3, <1>4, <1>8, ProcessRecord
<1>11. ASSUME v \in Int
       PROVE  /\ Processing(a, [st EXCEPT !.out = v]) /\ Processing(a, [st EXCEPT !.sec = v])
              /\ Processing(a, [st EXCEPT !.col = v])
  BY <1>5, <1>6, <1>7, <1>8, <1>11, ProcessRecord
<1> QED BY <1>9, <1>10, <1>11

LEMMA ProcessPrimary ==
  ASSUME NEW a, NEW st, Processing(a, st), NEW p \in PositionStates, NEW paid, NEW sec
  PROVE  Processing(a, PayToPrimary(st, p, paid, sec))
<1>1. p.long \in BOOLEAN /\ p.cl \in BOOLEAN
  BY PositionFields
<1> DEFINE n == ApplyDelta(ApplyDelta(st.m, Primary, p.cl, paid), Primary, p.long, sec)
<1>2. Keeps(a, n)
  BY <1>1, LiquidityDelta, LiquidityNames DEF Processing
<1>3. PayToPrimary(st, p, paid, sec) = [st EXCEPT !.m = n]
  BY DEF PayToPrimary
<1> HIDE DEF n
<1> QED BY <1>2, <1>3, ProcessMarket

LEMMA AddProfitProcess ==
  ASSUME NEW a, NEW st, Processing(a, st), NEW x \in Oracles, ValidPrices(x),
         NEW p \in PositionStates, NEW usd \in Int
  PROVE  Processing(a, AddProfit(st, x, p, usd))
<1>1. p.long \in BOOLEAN /\ TokenPrice(x, p.long).max \in Nat \ {0}
  BY PositionFields, CollateralPrices
<1> DEFINE amount == usd \div TokenPrice(x, p.long).max
           n == ApplyDelta(st.m, Primary, p.long, -amount)
           taken == [st EXCEPT !.m = n]
<1>2. amount \in Int
  BY <1>1, DivisionInt
<1> HIDE DEF amount
<1>3. Keeps(a, n)
  BY <1>1, LiquidityDelta, LiquidityNames DEF Processing
<1> HIDE DEF n
<1>4. Processing(a, taken)
  BY <1>3, ProcessMarket
<1> HIDE DEF taken
<1> DEFINE i == taken.out + amount
           j == taken.sec + amount
<1>5. AddProfit(st, x, p, usd) = IF PnlTokenIsCollateral(st.m, p) THEN [taken EXCEPT !.out = i]
                                 ELSE [taken EXCEPT !.sec = j]
  BY DEF AddProfit, amount, n, taken
<1>6. i \in Int /\ j \in Int
  BY <1>2, <1>4, IntOps DEF Processing
<1> HIDE DEF i, j
<1>7. Processing(a, [taken EXCEPT !.out = i]) /\ Processing(a, [taken EXCEPT !.sec = j])
  BY <1>4, <1>6, ProcessFields
<1> QED BY <1>5, <1>7

LEMMA AddPnlProcess ==
  ASSUME NEW a, NEW st, Processing(a, st), NEW x \in Oracles, ValidPrices(x),
         NEW p \in PositionStates, NEW pnl \in Int
  PROVE  Processing(a, AddPnl(st, x, p, pnl)) /\ Processing(a, AddImpact(st, x, p, pnl))
<1>1. Processing(a, AddPnl(st, x, p, pnl))
  BY AddProfitProcess DEF AddPnl
<1> DEFINE n == ApplyDelta(st.m, PositionImpact, TRUE, -CeilDiv(pnl, x.index.min))
           taken == [st EXCEPT !.m = n]
<1>2. Keeps(a, n)
  BY LiquidityDelta, LiquidityNames DEF Processing
<1>3. AddImpact(st, x, p, pnl) = IF pnl > 0 THEN AddProfit(taken, x, p, pnl) ELSE st
  BY DEF AddImpact
<1> HIDE DEF n
<1>4. Processing(a, taken)
  BY <1>2, ProcessMarket
<1> HIDE DEF taken
<1>5. Processing(a, AddProfit(taken, x, p, pnl))
  BY <1>4, AddProfitProcess
<1> QED BY <1>1, <1>3, <1>5

LEMMA SwapProfitProcess ==
  ASSUME NEW a, Sound(a), NEW st, Processing(a, st), NEW x \in Oracles, ValidPrices(x),
         NEW p \in PositionStates, NEW swap
  PROVE  Processing(a, SwapProfit(st, x, p, swap))
<1> DEFINE r == Swap(st.m, x, p.long, st.sec, SwapFeeParams("Swap"))
           one == [st EXCEPT !.m = r.m]
           i == one.out + r.out
           two == [one EXCEPT !.out = i]
           none == 0
           three == [two EXCEPT !.sec = none]
<1>1. p.long \in BOOLEAN /\ Keeps(a, st.m) /\ st.sec \in Int /\ IsMarket(a)
  BY PositionFields DEF Processing, Sound
<1>2. Keeps(st.m, r.m)
  BY <1>1, SwapKeeps
<1>3. Keeps(a, r.m) /\ IsMarket(st.m)
  BY <1>1, <1>2, KeepsTransitive DEF Keeps
<1>4. ASSUME r.m.ok PROVE r.out \in Int
  <2>1. st.m.ok
    BY <1>2, <1>3, <1>4 DEF Keeps
  <2>2. Sound(st.m)
    BY <1>1, <2>1 DEF Keeps
  <2>3. SwapFeeParams("Swap") \in FeeParams
    BY OrderConfig DEF SwapFeeParams
  <2> QED BY <1>1, <2>2, <2>3, SwapOutInt
<1>5. SwapProfit(st, x, p, swap) =
        IF swap = "PnlTokenToCollateralToken" /\ st.sec # 0
        THEN IF r.m.ok THEN three ELSE st ELSE st
  <2>1. three = [st EXCEPT !.m = r.m, !.out = @ + r.out, !.sec = 0]
    BY DEF Processing
  <2> HIDE DEF three
  <2> QED BY <2>1 DEF SwapProfit
<1> HIDE DEF r
<1>6. Processing(a, one)
  BY <1>3, ProcessMarket
<1> HIDE DEF one
<1>7. ASSUME r.m.ok PROVE Processing(a, three)
  <2>1. i \in Int
    BY <1>4, <1>6, <1>7, IntOps DEF Processing
  <2> HIDE DEF i
  <2>2. Processing(a, two)
    BY <1>6, <2>1, ProcessFields
  <2>3. none \in Int
    OBVIOUS
  <2> HIDE DEF two, none
  <2> QED BY <2>2, <2>3, ProcessFields
<1> HIDE DEF three
<1> QED BY <1>5, <1>7

LEMMA PayFundingProcess ==
  ASSUME NEW a, NEW st, Processing(a, st), NEW x \in Oracles, ValidPrices(x),
         NEW p \in PositionStates, NEW fees, fees.funding \in Int
  PROVE  Processing(a, PayFunding(st, x, p, fees))
<1> DEFINE cost == fees.funding * CollateralPrice(x, p).min
           r == PayForCost(st, x, p, cost)
           h == r.st.holding + r.paidSec
           u == Greatest(fees.funding - r.paid, 0)
           one == [r.st EXCEPT !.holding = h]
           two == [one EXCEPT !.unpaid = u]
<1>1. cost \in Int
  BY CollateralPrices, IntOps, NatInt
<1>2. PayFunding(st, x, p, fees) = IF fees.funding = 0 THEN st ELSE two
  BY DEF PayFunding
<1> HIDE DEF cost
<1>3. Processing(a, r.st)
  BY <1>1, PayForCostInt
<1> HIDE DEF r, h, u
<1>4. Processing(a, one)
  BY <1>3, ProcessFields
<1> HIDE DEF one
<1>5. Processing(a, two)
  BY <1>4, ProcessFields
<1> HIDE DEF two
<1> QED BY <1>2, <1>5

LEMMA PayPnlProcess ==
  ASSUME NEW a, NEW st, Processing(a, st), NEW x \in Oracles, ValidPrices(x),
         NEW p \in PositionStates, NEW pnl \in Int
  PROVE  Processing(a, PayPnl(st, x, p, pnl)) /\ Processing(a, PayImpact(st, x, p, pnl))
<1> DEFINE cost == -pnl
           r == PayForCost(st, x, p, cost)
           q == PayToPrimary(r.st, p, r.paid, r.paidSec)
           gained == MulDiv(r.paid, CollateralPrice(x, p).min, x.index.max)
                       + MulDiv(r.paidSec, TokenPrice(x, p.long).min, x.index.max)
           n == ApplyDelta(q.m, PositionImpact, TRUE, gained)
           last == [q EXCEPT !.m = n]
<1>1. cost \in Int
  OBVIOUS
<1>2. /\ PayPnl(st, x, p, pnl) = IF st.short \/ pnl >= 0 THEN st ELSE q
      /\ PayImpact(st, x, p, pnl) = IF st.short \/ pnl >= 0 THEN st ELSE last
  BY DEF PayPnl, PayImpact
<1> HIDE DEF cost
<1>3. Processing(a, r.st)
  BY <1>1, PayForCostInt
<1> HIDE DEF r, gained
<1>4. Processing(a, q)
  BY <1>3, ProcessPrimary
<1> HIDE DEF q
<1>5. Keeps(a, n)
  BY <1>4, LiquidityDelta, LiquidityNames DEF Processing
<1> HIDE DEF n
<1>6. Processing(a, last)
  BY <1>4, <1>5, ProcessMarket
<1> HIDE DEF last
<1> QED BY <1>2, <1>4, <1>6

LEMMA PayFeesProcess ==
  ASSUME NEW a, NEW st, Processing(a, st), NEW x \in Oracles, ValidPrices(x),
         NEW p \in PositionStates, NEW fees, fees.pool \in Int, fees.receiver \in Int
  PROVE  Processing(a, PayFees(st, x, p, fees))
<1> DEFINE cost == fees.pool + fees.receiver
           usd == cost * CollateralPrice(x, p).min
           r == PayForCost(st, x, p, usd)
           full == ~r.st.short /\ r.paidSec = 0
           n == ApplyDelta(ApplyDelta(r.st.m, Primary, p.cl, fees.pool),
                           ClaimableFee, p.cl, fees.receiver)
           w == cost - r.paid
           one == [r.st EXCEPT !.m = n]
           two == [one EXCEPT !.waived = w]
           q == PayToPrimary(r.st, p, r.paid, r.paidSec)
<1>1. usd \in Int
  BY CollateralPrices, IntOps, NatInt
<1>2. PayFees(st, x, p, fees) = IF st.short \/ cost = 0 THEN st ELSE IF full THEN two ELSE q
  BY DEF PayFees
<1> HIDE DEF usd
<1>3. Processing(a, r.st) /\ p.cl \in BOOLEAN
  BY <1>1, PayForCostInt, PositionFields
<1> HIDE DEF r, w
<1>4. Processing(a, q)
  BY <1>3, ProcessPrimary
<1> HIDE DEF q
<1>5. Keeps(a, n)
  BY <1>3, LiquidityDelta, LiquidityNames DEF Processing
<1> HIDE DEF n
<1>6. Processing(a, one)
  BY <1>3, <1>5, ProcessMarket
<1> HIDE DEF one
<1>7. Processing(a, two)
  BY <1>6, ProcessFields
<1> HIDE DEF two
<1> QED BY <1>2, <1>4, <1>7

LEMMA PayDiffProcess ==
  ASSUME NEW a, NEW st, Processing(a, st), NEW x \in Oracles, ValidPrices(x),
         NEW p \in PositionStates, NEW diff \in Int
  PROVE  Processing(a, PayImpactDiff(st, x, p, diff))
<1> DEFINE r == PayForCost(st, x, p, diff)
           u == [s \in BOOLEAN |-> r.st.user[s] + (IF s THEN r.paid ELSE r.paidSec)]
           one == [r.st EXCEPT !.user = u]
<1>1. PayImpactDiff(st, x, p, diff) = IF st.short \/ diff = 0 THEN st ELSE one
  BY DEF PayImpactDiff
<1>2. Processing(a, r.st)
  BY PayForCostInt
<1> HIDE DEF r, u
<1>3. Processing(a, one)
  BY <1>2, ProcessFields
<1> HIDE DEF one
<1> QED BY <1>1, <1>3

LEMMA ReleaseProcess ==
  ASSUME NEW a, NEW st, Processing(a, st), NEW x \in Oracles, ValidPrices(x),
         NEW p \in PositionStates, NEW d, d.withdraw \in Int, NEW diff \in Int
  PROVE  Processing(a, Release(st, x, p, d, diff))
<1> DEFINE asked == AskedAfterDiff(x, p, d, diff)
           amount == Least(asked, st.col)
           c == st.col - amount
           one == [st EXCEPT !.col = c]
           i == one.out + amount
           two == [one EXCEPT !.out = i]
<1>1. asked \in Int
  <2> DEFINE less == d.withdraw - diff \div CollateralPrice(x, p).min
  <2>1. less \in Int
    <3>1. diff \div CollateralPrice(x, p).min \in Int
      BY CollateralPrices, DivisionInt
    <3> QED BY <3>1, IntOps
  <2> HIDE DEF less
  <2>2. Greatest(less, 0) \in Int
    BY <2>1, LeastInt
  <2> QED BY <2>2 DEF AskedAfterDiff, less
<1>2. Release(st, x, p, d, diff) = two
  BY DEF Release, Withdrawn, Processing
<1> HIDE DEF asked
<1>3. amount \in Int /\ st.col \in Int
  BY <1>1, LeastInt DEF Processing
<1> HIDE DEF amount
<1>4. c \in Int
  BY <1>3, IntOps
<1> HIDE DEF c
<1>5. Processing(a, one)
  BY <1>4, ProcessFields
<1> HIDE DEF one
<1>6. i \in Int
  BY <1>3, <1>5, IntOps DEF Processing
<1> HIDE DEF i
<1>7. Processing(a, two)
  BY <1>5, <1>6, ProcessFields
<1> HIDE DEF two
<1> QED BY <1>2, <1>7

\* A decrease settles all its gains and costs on the market it started from.
LEMMA ProcessCollateralKeeps ==
  ASSUME NEW a, Sound(a), NEW x \in Oracles, ValidPrices(x), NEW p \in PositionStates,
         NEW d, d.withdraw \in Int, NEW i, i.impact \in Int, i.diff \in Int,
         NEW fees, fees.funding \in Int, fees.pool \in Int, fees.receiver \in Int,
         NEW swap, PnlOf(a, x, p, d.size) \in Int
  PROVE  Processing(a, ProcessCollateral(a, x, p, d, i, fees, swap))
<1> DEFINE pnl == PnlOf(a, x, p, d.size)
           s0 == NewProcess(a, p)
           s1 == AddPnl(s0, x, p, pnl)
           s2 == AddImpact(s1, x, p, i.impact)
           s3 == SwapProfit(s2, x, p, swap)
           s4 == PayFunding(s3, x, p, fees)
           s5 == PayPnl(s4, x, p, pnl)
           s6 == PayFees(s5, x, p, fees)
           s7 == PayImpact(s6, x, p, i.impact)
           s8 == PayImpactDiff(s7, x, p, i.diff)
           s9 == Release(s8, x, p, d, i.diff)
<1>1. ProcessCollateral(a, x, p, d, i, fees, swap) = s9
  BY DEF ProcessCollateral, ProcessPnl, Gains, Costs
<1> HIDE DEF pnl
<1>2. pnl \in Int
  BY DEF pnl
<1>3. Processing(a, s0)
  <2>1. Keeps(a, a) /\ p.collateral \in Int /\ 0 \in Int
    BY KeepsItself, PositionFields
  <2> QED BY <2>1, ProcessRecord DEF NewProcess
<1> HIDE DEF s0
<1>4. Processing(a, s1)
  BY <1>2, <1>3, AddPnlProcess
<1> HIDE DEF s1
<1>5. Processing(a, s2)
  BY <1>4, AddPnlProcess
<1> HIDE DEF s2
<1>6. Processing(a, s3)
  BY <1>5, SwapProfitProcess
<1> HIDE DEF s3
<1>7. Processing(a, s4)
  BY <1>6, PayFundingProcess
<1> HIDE DEF s4
<1>8. Processing(a, s5)
  BY <1>2, <1>7, PayPnlProcess
<1> HIDE DEF s5
<1>9. Processing(a, s6)
  BY <1>8, PayFeesProcess
<1> HIDE DEF s6
<1>10. Processing(a, s7)
  BY <1>9, PayPnlProcess
<1> HIDE DEF s7
<1>11. Processing(a, s8)
  BY <1>10, PayDiffProcess
<1> HIDE DEF s8
<1>12. Processing(a, s9)
  BY <1>11, ReleaseProcess
<1> HIDE DEF s9
<1> QED BY <1>1, <1>12

LEMMA DecreaseImpactInt ==
  ASSUME NEW a, Sound(a), NEW x \in Oracles, NEW p \in PositionStates, NEW delta \in Nat
  PROVE  DecreaseImpact(a, x, p, delta).impact \in Int /\ DecreaseImpact(a, x, p, delta).diff \in Int
<1> DEFINE raw == IF delta = 0 THEN 0
                  ELSE CapPositiveImpact(a, x, delta, PositionPriceImpact(a, p, -delta))
           capped == CapNegativeImpact(delta, Config.max_negative_position_impact_factor, raw)
<1>1. raw \in Int
  <2>1. -delta \in Int /\ delta \in Int
    OBVIOUS
  <2>2. PositionPriceImpact(a, p, -delta) \in Int
    BY <2>1, ImpactInt
  <2>3. CapPositiveImpact(a, x, delta, PositionPriceImpact(a, p, -delta)) \in Int
    BY <2>1, <2>2, ImpactInt
  <2> QED BY <2>3
<1> HIDE DEF raw
<1>2. capped \in Int
  <2>1. delta \in Int /\ Config.max_negative_position_impact_factor \in Nat
    BY OrderConfig
  <2> QED BY <1>1, <2>1, CapNegativeInt
<1>3. DecreaseImpact(a, x, p, delta) = [impact |-> capped, diff |-> capped - raw]
  BY DEF DecreaseImpact, raw
<1> HIDE DEF capped
<1> QED BY <1>1, <1>2, <1>3, IntOps

\* What is asked for: never more than the position has.
LEMMA DecidedDecrease ==
  ASSUME NEW a, NEW x, NEW p \in PositionStates, NEW req, req.size \in Nat, req.withdraw \in Int,
         CapSize(p, req) <= p.size,
         NEW d, d = CheckClose(p, CheckPartialClose(a, x, p, Asked(p, req)))
  PROVE  d.size \in Nat /\ d.size <= p.size /\ d.withdraw \in Int
<1> DEFINE asked == Asked(p, req)
           size == CapSize(p, req)
           withdraw == Least(req.withdraw, p.collateral)
           c == CheckPartialClose(a, x, p, asked)
<1>1. p.size \in Nat /\ p.collateral \in Int
  BY PositionFields
<1>2. size \in Nat /\ size <= p.size
  BY <1>1, LeastNat DEF CapSize
<1>3. withdraw \in Int
  BY <1>1, LeastInt
<1>4. asked = [size |-> size, withdraw |-> withdraw, ok |-> TRUE]
  BY DEF Asked
<1> HIDE DEF asked, size, withdraw
<1>5. \E z, w, k : /\ c = [size |-> z, withdraw |-> w, ok |-> k]
                   /\ z \in {size, p.size} /\ w \in {withdraw, 0}
  <2>1. CASE asked.size = p.size
    BY <1>4, <2>1 DEF CheckPartialClose
  <2>2. CASE asked.size # p.size
    <3>1. \E pnl, realized, left, sufficient :
             c = PartialClose(x, p, asked, pnl, realized, left, sufficient)
      BY <2>2, Zenon DEF CheckPartialClose, PartialClosePnl, PartialCloseOf, PartialCloseAt
    <3>2. PICK pnl, realized, left, sufficient :
             c = PartialClose(x, p, asked, pnl, realized, left, sufficient)
      BY <3>1, Zenon
    <3> DEFINE rest == left + (IF sufficient THEN 0 ELSE asked.withdraw * CollateralPrice(x, p).min)
                         + pnl - realized
               tooSmall == \/ rest < Config.min_collateral_value
                           \/ p.size - asked.size < Config.min_position_size_usd
               z == IF tooSmall THEN p.size ELSE asked.size
               w == IF sufficient THEN asked.withdraw ELSE 0
               k == sufficient \/ asked.size # 0
    <3>3. c = [size |-> z, withdraw |-> w, ok |-> k]
      BY <3>2 DEF PartialClose
    <3>4. z \in {size, p.size} /\ w \in {withdraw, 0}
      BY <1>4
    <3> HIDE DEF z, w, k
    <3> QED BY <3>3, <3>4
  <2> QED BY <2>1, <2>2
<1>6. PICK z, w, k : /\ c = [size |-> z, withdraw |-> w, ok |-> k]
                     /\ z \in {size, p.size} /\ w \in {withdraw, 0}
  BY <1>5
<1>7. d = CheckClose(p, c)
  BY DEF asked
<1> HIDE DEF c
<1>8. d.size = z /\ d.withdraw \in {w, 0}
  BY <1>6, <1>7 DEF CheckClose
<1> QED BY <1>1, <1>2, <1>3, <1>6, <1>8

LEMMA NoTokensForNothing ==
  ASSUME NEW p \in PositionStates, p.size # 0
  PROVE  SizeDeltaInTokens(p, 0) = 0
<1>1. p.size \in Nat \ {0} /\ p.tokens \in Nat
  BY PositionFields
<1>2. \A t \in Nat : t * 0 = 0
  OBVIOUS
<1>3. \A z \in Nat \ {0} : 0 \div z = 0 /\ (0 + z - 1) \div z = 0
  OBVIOUS
<1> QED BY <1>1, <1>2, <1>3 DEF SizeDeltaInTokens, MulDivCeil, MulDiv, CeilDiv

LEMMA LeftFields ==
  \A p, d, tokens, col, removed, q :
    p \in PositionStates /\ d.size \in Nat /\ d.size <= p.size /\ tokens \in Nat
      /\ tokens <= p.tokens /\ col \in Int /\ q = Left(p, d, tokens, col, removed) =>
        /\ q \in PositionStates /\ q.long = p.long /\ q.cl = p.cl
        /\ removed => q.collateral = 0
        /\ ~removed => /\ q.size = p.size - d.size /\ q.tokens = p.tokens - tokens
                       /\ q.collateral = col
<1> SUFFICES ASSUME NEW p, NEW d, NEW tokens, NEW col, NEW removed, NEW q,
                    p \in PositionStates, d.size \in Nat, d.size <= p.size, tokens \in Nat,
                    tokens <= p.tokens, col \in Int, q = Left(p, d, tokens, col, removed)
             PROVE  /\ q \in PositionStates /\ q.long = p.long /\ q.cl = p.cl
                    /\ removed => q.collateral = 0
                    /\ ~removed => /\ q.size = p.size - d.size /\ q.tokens = p.tokens - tokens
                                   /\ q.collateral = col
  OBVIOUS
<1> DEFINE z == p.size - d.size
           t == p.tokens - tokens
<1>1. /\ p.size \in Nat /\ p.tokens \in Nat /\ p.long \in BOOLEAN /\ p.cl \in BOOLEAN
      /\ p.borrowing \in Nat /\ p.funding \in Nat /\ p.claimable \in [BOOLEAN -> Nat]
  BY PositionFields
<1>2. z \in Nat /\ t \in Nat
  BY <1>1
<1>3. CASE removed
  <2>1. q = [long |-> p.long, cl |-> p.cl, size |-> 0, tokens |-> 0, collateral |-> 0,
             borrowing |-> p.borrowing, funding |-> p.funding, claimable |-> p.claimable]
    BY <1>3 DEF Left, PositionStates
  <2>2. q \in PositionStates
    BY <1>1, <2>1 DEF PositionStates
  <2>3. q.long = p.long /\ q.cl = p.cl /\ q.collateral = 0
    BY <2>1
  <2> QED BY <1>3, <2>2, <2>3, Zenon
<1>4. CASE ~removed
  <2>1. q = [p EXCEPT !.size = z, !.tokens = t, !.collateral = col]
    BY <1>4 DEF Left
  <2> HIDE DEF z, t
  <2>2. q = [long |-> p.long, cl |-> p.cl, size |-> z, tokens |-> t, collateral |-> col,
             borrowing |-> p.borrowing, funding |-> p.funding, claimable |-> p.claimable]
    BY <2>1 DEF PositionStates
  <2>3. q \in PositionStates
    BY <1>1, <1>2, <2>2 DEF PositionStates
  <2> QED BY <1>4, <2>2, <2>3 DEF z, t
<1> QED BY <1>3, <1>4

LEMMA LoweredFields ==
  \A a, p, left, q :
    Sound(a) /\ p \in PositionStates /\ left \in PositionStates /\ q = Lowered(a, p, left) =>
      /\ q \in PositionStates /\ q.long = left.long /\ q.cl = left.cl
      /\ q.size = left.size /\ q.tokens = left.tokens /\ q.collateral = left.collateral
      /\ q.borrowing = CumulativeBorrowing(a, p)
<1> SUFFICES ASSUME NEW a, NEW p, NEW left, NEW q, Sound(a), p \in PositionStates,
                    left \in PositionStates, q = Lowered(a, p, left)
             PROVE  /\ q \in PositionStates /\ q.long = left.long /\ q.cl = left.cl
                    /\ q.size = left.size /\ q.tokens = left.tokens
                    /\ q.collateral = left.collateral
                    /\ q.borrowing = CumulativeBorrowing(a, p)
  OBVIOUS
<1> DEFINE f == SettleFunding(a, left)
           c == CumulativeBorrowing(a, p)
<1>1. f \in PositionStates /\ c \in Nat
  BY SettledFields, PositionReads
<1>2. /\ f.long = left.long /\ f.cl = left.cl /\ f.size = left.size /\ f.tokens = left.tokens
      /\ f.collateral = left.collateral
  BY SettledFields
<1>3. q = [f EXCEPT !.borrowing = c]
  BY DEF Lowered
<1> HIDE DEF f, c
<1>4. q \in PositionStates
  BY <1>1, <1>3 DEF PositionStates
<1>5. q.borrowing = c
  BY <1>1, <1>3 DEF PositionStates
<1>6. /\ q.long = f.long /\ q.cl = f.cl /\ q.size = f.size /\ q.tokens = f.tokens
      /\ q.collateral = f.collateral
  BY <1>1, <1>3 DEF PositionStates
<1> QED BY <1>2, <1>4, <1>5, <1>6 DEF c

\* Settling a decrease books exactly what leaves its position.
LEMMA SettleDecreasePosts ==
  ASSUME NEW a, Sound(a), NEW p, Fits(a, p), p.size # 0, NEW x, NEW d, d.size \in Nat,
         d.size <= p.size, NEW st, Keeps(a, st.m), st.m.ok, st.col \in Int,
         NEW r, r = SettleDecrease(x, p, d, st), r.m.ok
  PROVE  /\ r.p \in PositionStates /\ r.p.long = p.long /\ r.p.cl = p.cl
         /\ r.size = d.size /\ r.removed \in BOOLEAN
         /\ r.p.borrowing <= r.m.pool[BorrowingFactor][p.long]
         /\ r.removed =>
              Posts(a, r.m, p, -r.size, -p.tokens, -p.collateral,
                    ApplyFactor(p.size - r.size, r.p.borrowing) - ApplyFactor(p.size, p.borrowing))
         /\ ~r.removed =>
              /\ r.p.size = p.size - r.size /\ r.p.size # 0 /\ r.p.tokens # 0
              /\ Settleable(r.m, r.p)
              /\ Posts(a, r.m, p, r.p.size - p.size, r.p.tokens - p.tokens,
                       r.p.collateral - p.collateral,
                       ApplyFactor(r.p.size, r.p.borrowing) - ApplyFactor(p.size, p.borrowing))
<1> DEFINE tokens == SizeDeltaInTokens(p, d.size)
           removed == d.size = p.size \/ tokens = p.tokens
           left == Left(p, d, tokens, st.col, removed)
           change == left.collateral - p.collateral
           next == p.size - d.size
           m1 == UpdateTotalBorrowing(st.m, p, next)
           m2 == ApplyDelta(m1, <<"CollateralSum", p.long>>, p.cl, change)
           m3 == UpdateOpenInterest(m2, p, -d.size, -tokens)
           q == Lowered(m2, p, left)
           cond == m3.ok /\ ~removed => ValidPosition(m3, x, q, FALSE)
<1>1. /\ p \in PositionStates /\ p.long \in BOOLEAN /\ p.cl \in BOOLEAN /\ IsMarket(a)
      /\ p.size \in Nat /\ p.tokens \in Nat /\ p.collateral \in Int /\ p.borrowing \in Nat
  BY PositionFields DEF Fits, Sound
<1>2. tokens \in Nat /\ tokens <= p.tokens
  BY <1>1, TokensDecreased
<1>3. -d.size = 0 => -tokens = 0
  <2>1. d.size = 0 => tokens = 0
    BY <1>1, NoTokensForNothing
  <2> HIDE DEF tokens
  <2> QED BY <1>2, <2>1
<1>4. removed \in BOOLEAN
  BY Zenon
<1>5. removed => tokens = p.tokens
  BY DEF SizeDeltaInTokens
<1>6. next \in Nat
  BY <1>1
<1>7. r = [m |-> Check(m3, cond), p |-> q, size |-> d.size, removed |-> removed,
           out |-> st.out + (IF removed THEN st.col ELSE 0), sec |-> st.sec]
  BY DEF SettleDecrease, DecreaseTokens, DecreaseLeaving, DecreaseBooks, CheckDecrease
<1> HIDE DEF tokens, removed
<1>8. /\ left \in PositionStates /\ left.long = p.long /\ left.cl = p.cl
      /\ removed => left.collateral = 0
      /\ ~removed => /\ left.size = p.size - d.size /\ left.tokens = p.tokens - tokens
                     /\ left.collateral = st.col
  BY <1>1, <1>2, LeftFields
<1> HIDE DEF left
<1>9. change \in Int
  BY <1>1, <1>8, PositionFields, IntOps
<1> HIDE DEF change, next
<1>10. IsMarket(st.m)
  BY <1>1 DEF Keeps
<1>11. IsMarket(m1) /\ (m1.ok => st.m.ok)
  <2>1. TotalBorrowing \in PoolKinds
    BY SideKinds, PoolsSplit
  <2> QED BY <1>1, <1>10, <2>1, DeltaOk DEF UpdateTotalBorrowing
<1>12. IsMarket(m2) /\ (m2.ok => m1.ok)
  <2>1. <<"CollateralSum", p.long>> \in PoolKinds
    BY <1>1, SideKinds, PoolsSplit
  <2> HIDE DEF m1
  <2> QED BY <1>1, <1>11, <2>1, DeltaOk
<1>13. IsMarket(m3) /\ (m3.ok => m2.ok)
  <2> HIDE DEF m2
  <2> QED BY <1>1, <1>12, InterestOk
<1> HIDE DEF m1, m2, m3, q, cond
<1>14. r.m = Check(m3, cond) /\ r.p = q /\ r.size = d.size /\ r.removed = removed
  BY <1>7
<1>15. cond /\ m3.ok /\ m2.ok /\ m1.ok
  <2>1. Check(m3, cond).ok = (m3.ok /\ cond)
    BY <1>13, CheckShape
  <2>2. Check(m3, cond).ok
    BY <1>14
  <2>3. m3.ok /\ cond
    BY <2>1, <2>2
  <2> QED BY <1>12, <1>13, <2>3
<1>16. Posts(a, st.m, p, 0, 0, 0, 0)
  BY KeepsPosts
<1>17. Sound(st.m) /\ Fits(st.m, p)
  BY <1>16 DEF Posts, Fits
<1> DEFINE borrowed == ApplyFactor(next, CumulativeBorrowing(st.m, p)) - ApplyFactor(p.size, p.borrowing)
<1>18. /\ Posts(st.m, m1, p, 0, 0, 0, borrowed)
       /\ CumulativeBorrowing(m1, p) = CumulativeBorrowing(st.m, p)
  BY <1>6, <1>15, <1>17, TotalBorrowingPosts DEF m1
<1>19. Sound(m1) /\ Fits(m1, p)
  BY <1>17, <1>18 DEF Posts, Fits
<1>20. /\ Posts(m1, m2, p, 0, 0, change, 0)
       /\ CumulativeBorrowing(m2, p) = CumulativeBorrowing(m1, p)
  <2>1. <<"CollateralSum", p.long>> \in BookPools
    BY <1>1, SideKinds
  <2> QED BY <1>1, <1>15, <1>19, <2>1, CollateralPosts, BorrowingSame DEF m2
<1>21. Sound(m2) /\ Fits(m2, p)
  BY <1>19, <1>20 DEF Posts, Fits
<1> DEFINE size == -d.size
           toks == -tokens
<1>22. size \in Int /\ toks \in Int /\ (size = 0 => toks = 0)
  BY <1>2, <1>3
<1>23. m3 = UpdateOpenInterest(m2, p, size, toks)
  BY DEF m3
<1> HIDE DEF size, toks
<1>24. Posts(m2, m3, p, size, toks, 0, 0)
  BY <1>15, <1>21, <1>22, <1>23, InterestPosts
<1>25. Sound(m3)
  BY <1>24 DEF Posts
<1>26. Posts(m3, r.m, p, 0, 0, 0, 0)
  BY <1>14, <1>25, CheckKeeps, KeepsPosts
<1>27. borrowed \in Int
  <2>1. CumulativeBorrowing(st.m, p) \in Nat
    BY <1>1, <1>17, PositionReads
  <2>2. ApplyFactor(next, CumulativeBorrowing(st.m, p)) \in Nat /\ ApplyFactor(p.size, p.borrowing) \in Nat
    BY <1>1, <1>6, <2>1, FactorNat
  <2> QED BY <2>2, IntOps, NatInt
<1> HIDE DEF borrowed
<1>28. Posts(a, r.m, p, size, toks, change, borrowed)
  <2>1. /\ 0 + 0 = 0 /\ 0 + size = size /\ size + 0 = size /\ 0 + toks = toks /\ toks + 0 = toks
        /\ 0 + change = change /\ change + 0 = change
        /\ 0 + borrowed = borrowed /\ borrowed + 0 = borrowed
    BY <1>9, <1>22, <1>27
  <2>2. Posts(a, m1, p, 0 + 0, 0 + 0, 0 + 0, 0 + borrowed)
    BY <1>16, <1>18, <1>27, PostsTransitive
  <2>3. Posts(a, m1, p, 0, 0, 0, borrowed)
    BY <2>1, <2>2
  <2>4. Posts(a, m2, p, 0 + 0, 0 + 0, 0 + change, borrowed + 0)
    BY <1>9, <1>20, <1>27, <2>3, PostsTransitive
  <2>5. Posts(a, m2, p, 0, 0, change, borrowed)
    BY <2>1, <2>4
  <2>6. Posts(a, m3, p, 0 + size, 0 + toks, change + 0, borrowed + 0)
    BY <1>9, <1>22, <1>24, <1>27, <2>5, PostsTransitive
  <2>7. Posts(a, m3, p, size, toks, change, borrowed)
    BY <2>1, <2>6
  <2>8. Posts(a, r.m, p, size + 0, toks + 0, change + 0, borrowed + 0)
    BY <1>9, <1>22, <1>26, <1>27, <2>7, PostsTransitive
  <2> QED BY <2>1, <2>8
<1>29. /\ q \in PositionStates /\ q.long = left.long /\ q.cl = left.cl
       /\ q.size = left.size /\ q.tokens = left.tokens /\ q.collateral = left.collateral
       /\ q.borrowing = CumulativeBorrowing(m2, p)
  BY <1>1, <1>8, <1>21, LoweredFields DEF q
<1>30. q.borrowing = CumulativeBorrowing(st.m, p)
  BY <1>18, <1>20, <1>29
<1>31. borrowed = ApplyFactor(p.size - r.size, r.p.borrowing) - ApplyFactor(p.size, p.borrowing)
  BY <1>14, <1>30 DEF borrowed, next
<1>32. q.borrowing <= r.m.pool[BorrowingFactor][p.long]
  <2>1. BorrowingFactor \in Accumulators /\ BorrowingFactor \in PoolKinds
    BY SideKinds, PoolsSplit
  <2>2. ~IsPure(st.m, BorrowingFactor)
    BY Zenon DEF IsPure
  <2>3. q.borrowing = st.m.pool[BorrowingFactor][p.long]
    BY <1>30, <2>2 DEF CumulativeBorrowing, Amount
  <2>4. Posts(st.m, r.m, p, size, toks, change, borrowed)
    <3>1. Posts(st.m, m2, p, 0 + 0, 0 + 0, 0 + change, borrowed + 0)
      BY <1>9, <1>18, <1>20, <1>27, PostsTransitive
    <3>2. 0 + 0 = 0 /\ 0 + change = change /\ borrowed + 0 = borrowed /\ change + 0 = change
          /\ 0 + size = size /\ 0 + toks = toks /\ size + 0 = size /\ toks + 0 = toks
      BY <1>9, <1>22, <1>27
    <3>3. Posts(st.m, m2, p, 0, 0, change, borrowed)
      BY <3>1, <3>2
    <3>4. Posts(st.m, m3, p, 0 + size, 0 + toks, change + 0, borrowed + 0)
      BY <1>9, <1>22, <1>24, <1>27, <3>3, PostsTransitive
    <3>5. Posts(st.m, m3, p, size, toks, change, borrowed)
      BY <3>2, <3>4
    <3>6. Posts(st.m, r.m, p, size + 0, toks + 0, change + 0, borrowed + 0)
      BY <1>9, <1>22, <1>26, <1>27, <3>5, PostsTransitive
    <3> QED BY <3>2, <3>6
  <2>5. st.m.pool[BorrowingFactor][p.long] <= r.m.pool[BorrowingFactor][p.long]
    BY <1>1, <2>1, <2>4 DEF Posts
  <2> QED BY <2>3, <2>5
<1>33. ASSUME removed
       PROVE  Posts(a, r.m, p, -r.size, -p.tokens, -p.collateral,
                    ApplyFactor(p.size - r.size, r.p.borrowing) - ApplyFactor(p.size, p.borrowing))
  <2>1. size = -r.size /\ toks = -p.tokens
    BY <1>5, <1>14, <1>33 DEF size, toks
  <2>2. change = -p.collateral
    <3>1. left.collateral = 0
      BY <1>8, <1>33
    <3>2. \A i \in Int : 0 - i = -i
      OBVIOUS
    <3> QED BY <1>1, <3>1, <3>2 DEF change
  <2> QED BY <1>28, <1>31, <2>1, <2>2
<1>34. ASSUME ~removed
       PROVE  /\ q.size = p.size - r.size /\ q.size # 0 /\ q.tokens # 0
              /\ Settleable(r.m, q)
              /\ Posts(a, r.m, p, q.size - p.size, q.tokens - p.tokens,
                       q.collateral - p.collateral,
                       ApplyFactor(q.size, q.borrowing) - ApplyFactor(p.size, p.borrowing))
  <2>1. /\ q.size = p.size - d.size /\ q.tokens = p.tokens - tokens
        /\ q.collateral - p.collateral = change
    BY <1>8, <1>29, <1>34 DEF change
  <2>2. q.size - p.size = size /\ q.tokens - p.tokens = toks
    BY <1>1, <1>2, <2>1 DEF size, toks
  <2>3. ValidPosition(m3, x, q, FALSE)
    BY <1>15, <1>34 DEF cond
  <2>4. q.size # 0 /\ q.tokens # 0 /\ Settleable(m3, q)
    BY <2>3 DEF ValidPosition
  <2>5. Settleable(r.m, q)
    BY <1>25, <1>26, <1>29, <2>4, SettleableMonotone DEF Posts
  <2>6. q.size = p.size - r.size
    BY <1>14, <2>1
  <2>7. borrowed = ApplyFactor(q.size, q.borrowing) - ApplyFactor(p.size, p.borrowing)
    BY <1>14, <1>31, <2>6
  <2> QED BY <1>28, <2>1, <2>2, <2>4, <2>5, <2>6, <2>7
<1> QED BY <1>4, <1>8, <1>14, <1>29, <1>32, <1>33, <1>34

\* Whether or not it succeeds, settling a decrease leaves a market.
LEMMA SettleDecreaseShape ==
  ASSUME NEW a, IsMarket(a), NEW p \in PositionStates, NEW x, NEW d, NEW st, Keeps(a, st.m),
         NEW r, r = SettleDecrease(x, p, d, st)
  PROVE  /\ IsMarket(r.m) /\ r.p.cl = p.cl
         /\ r = [m |-> r.m, p |-> r.p, size |-> r.size, removed |-> r.removed,
                 out |-> r.out, sec |-> r.sec]
<1> DEFINE tokens == SizeDeltaInTokens(p, d.size)
           removed == d.size = p.size \/ tokens = p.tokens
           left == Left(p, d, tokens, st.col, removed)
           m1 == UpdateTotalBorrowing(st.m, p, p.size - d.size)
           m2 == ApplyDelta(m1, <<"CollateralSum", p.long>>, p.cl, left.collateral - p.collateral)
           m3 == UpdateOpenInterest(m2, p, -d.size, -tokens)
           q == Lowered(m2, p, left)
           cond == m3.ok /\ ~removed => ValidPosition(m3, x, q, FALSE)
<1>1. r = [m |-> Check(m3, cond), p |-> q, size |-> d.size, removed |-> removed,
           out |-> st.out + (IF removed THEN st.col ELSE 0), sec |-> st.sec]
  BY DEF SettleDecrease, DecreaseTokens, DecreaseLeaving, DecreaseBooks, CheckDecrease
<1>2. p.long \in BOOLEAN /\ p.cl \in BOOLEAN /\ IsMarket(st.m)
  BY PositionFields DEF Keeps
<1>3. q.cl = p.cl
  <2>1. left.cl = p.cl
    BY DEF Left, PositionStates
  <2>2. q.cl = left.cl
    <3>1. left = [long |-> left.long, cl |-> left.cl, size |-> left.size, tokens |-> left.tokens,
                  collateral |-> left.collateral, borrowing |-> left.borrowing,
                  funding |-> left.funding, claimable |-> left.claimable]
      BY DEF Left, PositionStates
    <3> HIDE DEF left, m2
    <3> QED BY <3>1 DEF Lowered, SettleFunding
  <2> QED BY <2>1, <2>2
<1> HIDE DEF q, cond, removed, left
<1>4. IsMarket(m1)
  <2>1. TotalBorrowing \in PoolKinds
    BY SideKinds, PoolsSplit
  <2> QED BY <1>2, <2>1, DeltaOk DEF UpdateTotalBorrowing
<1> HIDE DEF m1
<1>5. IsMarket(m2)
  <2>1. <<"CollateralSum", p.long>> \in PoolKinds
    BY <1>2, SideKinds, PoolsSplit
  <2> QED BY <1>2, <1>4, <2>1, DeltaOk
<1> HIDE DEF m2
<1>6. IsMarket(m3)
  BY <1>5, InterestOk
<1> HIDE DEF m3
<1>7. IsMarket(Check(m3, cond))
  BY <1>6, CheckKeeps DEF Keeps
<1> QED BY <1>1, <1>3, <1>7

\* Swapping the output changes nothing of the position and its books.
LEMMA SwapOutputKeeps ==
  ASSUME NEW n, IsMarket(n.m), NEW x, NEW swap, n.p.cl \in BOOLEAN,
         n = [m |-> n.m, p |-> n.p, size |-> n.size, removed |-> n.removed,
              out |-> n.out, sec |-> n.sec],
         NEW r, r = SwapOutput(n, x, swap)
  PROVE  /\ Keeps(n.m, r.m) /\ (r.m.ok => n.m.ok)
         /\ r.p = n.p /\ r.size = n.size /\ r.removed = n.removed
<1> DEFINE s == Swap(n.m, x, n.p.cl, n.out, SwapFeeParams("Swap"))
<1>1. Keeps(n.m, s.m)
  BY SwapKeeps
<1>2. r = (IF swap = "CollateralToPnlToken" /\ n.out # 0 /\ s.m.ok
           THEN [n EXCEPT !.m = s.m, !.sec = @ + s.out, !.out = 0] ELSE n)
  BY Zenon DEF SwapOutput
<1> HIDE DEF s
<1>3. Keeps(n.m, n.m)
  <2>1. \A i \in Nat : i <= i
    OBVIOUS
  <2> QED BY <2>1, PoolsSplit DEF Keeps, Sound
<1>4. CASE r = n
  BY <1>3, <1>4
<1>5. CASE r = [n EXCEPT !.m = s.m, !.sec = @ + s.out, !.out = 0]
  <2>1. r.m = s.m /\ r.p = n.p /\ r.size = n.size /\ r.removed = n.removed
    BY <1>5
  <2>2. s.m.ok => n.m.ok
    BY <1>1 DEF Keeps
  <2> QED BY <1>1, <2>1, <2>2
<1> QED BY <1>2, <1>4, <1>5

\* A decrease books exactly what it takes from the position, and what is left of a
\* position that is removed with size remaining stays in the books.
LEMMA DecreasePosts ==
  ASSUME NEW a, Sound(a), NEW x \in Oracles, NEW p, Fits(a, p), p.size # 0 => p.tokens # 0,
         NEW req, req.size \in Nat, req.withdraw \in Int,
         NEW r, r = Decrease(a, x, p, req), r.m.ok
  PROVE  /\ r.p \in PositionStates /\ r.p.long = p.long /\ r.p.cl = p.cl
         /\ r.size \in Nat /\ r.size <= p.size /\ r.removed \in BOOLEAN
         /\ r.p.borrowing <= r.m.pool[BorrowingFactor][p.long]
         /\ r.removed =>
              Posts(a, r.m, p, -r.size, -p.tokens, -p.collateral,
                    ApplyFactor(p.size - r.size, r.p.borrowing) - ApplyFactor(p.size, p.borrowing))
         /\ ~r.removed =>
              /\ r.p.size = p.size - r.size /\ r.p.size # 0 /\ r.p.tokens # 0
              /\ Settleable(r.m, r.p)
              /\ Posts(a, r.m, p, r.p.size - p.size, r.p.tokens - p.tokens,
                       r.p.collateral - p.collateral,
                       ApplyFactor(r.p.size, r.p.borrowing) - ApplyFactor(p.size, p.borrowing))
<1> DEFINE d == CheckClose(p, CheckPartialClose(a, x, p, Asked(p, req)))
           i == DecreaseImpact(a, x, p, d.size)
           fees == PositionFees(a, x, p, d.size, i.impact > 0, req.liquidation)
           swap == DecreaseSwapType(a, p, req)
           st == ProcessCollateral(a, x, p, d, i, fees, swap)
           n == SettleDecrease(x, p, d, st)
           done == SwapOutput(n, x, swap)
<1>1. /\ p \in PositionStates /\ IsMarket(a) /\ p.size \in Nat /\ p.tokens \in Nat
      /\ p.long \in BOOLEAN /\ p.cl \in BOOLEAN /\ p.collateral \in Int /\ p.borrowing \in Nat
  BY PositionFields DEF Fits, Sound
<1>2. NoDecrease(a, p).m.ok = FALSE
  <2>1. PICK no \in BOOLEAN : no = FALSE
    OBVIOUS
  <2>2. Check(a, no).ok = (a.ok /\ no)
    BY <1>1, CheckShape
  <2> QED BY <2>1, <2>2 DEF NoDecrease, Refused
<1>3. r # NoDecrease(a, p)
  BY <1>2
<1>4. /\ ValidPrices(x) /\ p.size # 0 /\ ~(CapSize(p, req) > p.size)
      /\ r = DecreaseDecided(a, x, p, req, d)
  BY <1>3 DEF Decrease
<1>5. CapSize(p, req) <= p.size
  <2>1. CapSize(p, req) \in Nat
    BY <1>1 DEF CapSize, Least
  <2> QED BY <1>1, <1>4, <2>1
<1>6. d.size \in Nat /\ d.size <= p.size /\ d.withdraw \in Int
  BY <1>1, <1>5, DecidedDecrease
<1> HIDE DEF d
<1>7. r = DecreasePriced(a, x, p, req, d, i)
  BY <1>3, <1>4 DEF DecreaseDecided
<1>8. i.impact \in Int /\ i.diff \in Int
  BY <1>1, <1>6, DecreaseImpactInt
<1> HIDE DEF i
<1>9. r = DecreaseCharged(a, x, p, req, d, i, fees)
  BY <1>3, <1>7 DEF DecreasePriced
<1>10. fees.receiver \in Int /\ fees.pool \in Int /\ fees.funding \in Int
  BY <1>1, <1>4, <1>6, FeesInt
<1> HIDE DEF fees
<1>11. r = DecreaseSettled(a, x, p, req, d, fees.claim, st)
  BY <1>9 DEF DecreaseCharged
<1>12. PnlOf(a, x, p, d.size) \in Int
  BY <1>1, <1>4, <1>6, PnlInt
<1>13. Processing(a, st)
  BY <1>1, <1>4, <1>6, <1>8, <1>10, <1>12, ProcessCollateralKeeps
<1> HIDE DEF st, swap
<1>14. st.m.ok /\ r = DecreaseReport(done, st, fees.claim)
  BY <1>3, <1>11 DEF DecreaseSettled, swap
<1>15. Keeps(a, st.m) /\ st.col \in Int
  BY <1>13 DEF Processing
<1>16. /\ IsMarket(n.m) /\ n.p.cl = p.cl
       /\ n = [m |-> n.m, p |-> n.p, size |-> n.size, removed |-> n.removed,
               out |-> n.out, sec |-> n.sec]
  BY <1>1, <1>15, SettleDecreaseShape
<1> DEFINE settled == n
<1>17. settled = SettleDecrease(x, p, d, st)
  OBVIOUS
<1>18. r.m = done.m /\ r.p = done.p /\ r.size = done.size /\ r.removed = done.removed
  BY <1>14 DEF DecreaseReport
<1> HIDE DEF n
<1>19. /\ Keeps(n.m, done.m) /\ (done.m.ok => n.m.ok)
       /\ done.p = n.p /\ done.size = n.size /\ done.removed = n.removed
  BY <1>1, <1>16, SwapOutputKeeps
<1> HIDE DEF done
<1>20. n.m.ok /\ n.p = r.p /\ n.size = r.size /\ n.removed = r.removed /\ Keeps(n.m, r.m)
  BY <1>18, <1>19
<1>21. /\ n.p \in PositionStates /\ n.p.long = p.long /\ n.p.cl = p.cl
       /\ n.size = d.size /\ n.removed \in BOOLEAN
       /\ n.p.borrowing <= n.m.pool[BorrowingFactor][p.long]
       /\ n.removed =>
            Posts(a, n.m, p, -n.size, -p.tokens, -p.collateral,
                  ApplyFactor(p.size - n.size, n.p.borrowing) - ApplyFactor(p.size, p.borrowing))
       /\ ~n.removed =>
            /\ n.p.size = p.size - n.size /\ n.p.size # 0 /\ n.p.tokens # 0
            /\ Settleable(n.m, n.p)
            /\ Posts(a, n.m, p, n.p.size - p.size, n.p.tokens - p.tokens,
                     n.p.collateral - p.collateral,
                     ApplyFactor(n.p.size, n.p.borrowing) - ApplyFactor(p.size, p.borrowing))
  BY <1>4, <1>6, <1>14, <1>15, <1>17, <1>20, SettleDecreasePosts
<1>22. Sound(n.m)
  BY <1>21 DEF Posts
<1>23. Posts(n.m, r.m, p, 0, 0, 0, 0)
  BY <1>20, <1>22, KeepsPosts
<1>24. ASSUME NEW s \in Int, NEW t \in Int, NEW c \in Int, NEW b \in Int,
              Posts(a, n.m, p, s, t, c, b)
       PROVE  Posts(a, r.m, p, s, t, c, b)
  <2>1. s + 0 = s /\ t + 0 = t /\ c + 0 = c /\ b + 0 = b
    OBVIOUS
  <2>2. Posts(a, r.m, p, s + 0, t + 0, c + 0, b + 0)
    BY <1>23, <1>24, PostsTransitive
  <2> QED BY <2>1, <2>2
<1>25. r.p.borrowing <= r.m.pool[BorrowingFactor][p.long]
  <2>1. BorrowingFactor \in Accumulators
    BY SideKinds
  <2>2. n.m.pool[BorrowingFactor][p.long] <= r.m.pool[BorrowingFactor][p.long]
    BY <1>1, <1>23, <2>1 DEF Posts
  <2>3. n.m.pool[BorrowingFactor][p.long] \in Nat /\ r.m.pool[BorrowingFactor][p.long] \in Nat
    BY <1>1, <1>23, BookNat DEF Posts
  <2>4. r.p.borrowing \in Nat
    BY <1>20, <1>21, PositionFields
  <2> QED BY <1>20, <1>21, <2>2, <2>3, <2>4
<1>26. /\ r.p \in PositionStates /\ r.p.long = p.long /\ r.p.cl = p.cl
       /\ r.size = d.size /\ r.removed \in BOOLEAN
  BY <1>20, <1>21
<1>27. /\ r.p.size \in Nat /\ r.p.tokens \in Nat /\ r.p.collateral \in Int /\ r.p.borrowing \in Nat
       /\ p.size - r.size \in Nat
  BY <1>1, <1>6, <1>26, PositionFields
<1>28. /\ ApplyFactor(p.size - r.size, r.p.borrowing) - ApplyFactor(p.size, p.borrowing) \in Int
       /\ ApplyFactor(r.p.size, r.p.borrowing) - ApplyFactor(p.size, p.borrowing) \in Int
       /\ -r.size \in Int /\ -p.tokens \in Int /\ -p.collateral \in Int
       /\ r.p.size - p.size \in Int /\ r.p.tokens - p.tokens \in Int
       /\ r.p.collateral - p.collateral \in Int
  BY <1>1, <1>6, <1>26, <1>27, FactorNat, IntOps, NatInt
<1>29. r.removed =>
         Posts(a, r.m, p, -r.size, -p.tokens, -p.collateral,
               ApplyFactor(p.size - r.size, r.p.borrowing) - ApplyFactor(p.size, p.borrowing))
  BY <1>20, <1>21, <1>24, <1>28
<1>30. ASSUME ~r.removed
       PROVE  /\ r.p.size = p.size - r.size /\ r.p.size # 0 /\ r.p.tokens # 0
              /\ Settleable(r.m, r.p)
              /\ Posts(a, r.m, p, r.p.size - p.size, r.p.tokens - p.tokens,
                       r.p.collateral - p.collateral,
                       ApplyFactor(r.p.size, r.p.borrowing) - ApplyFactor(p.size, p.borrowing))
  <2>1. Settleable(r.m, r.p)
    <3>1. Settleable(n.m, r.p)
      BY <1>20, <1>21, <1>30
    <3> QED BY <1>23, <1>26, <3>1, SettleableMonotone DEF Posts
  <2>2. Posts(a, r.m, p, r.p.size - p.size, r.p.tokens - p.tokens,
              r.p.collateral - p.collateral,
              ApplyFactor(r.p.size, r.p.borrowing) - ApplyFactor(p.size, p.borrowing))
    BY <1>20, <1>21, <1>24, <1>28, <1>30
  <2> QED BY <1>20, <1>21, <1>30, <2>1, <2>2
<1> QED BY <1>6, <1>25, <1>26, <1>29, <1>30

-----------------------------------------------------------------------------
(* Sums over the positions.                                                *)

\* The sum over two disjoint sets.
LEMMA SumUnion ==
  ASSUME NEW A, NEW B, NEW f, IsFiniteSet(A), IsFiniteSet(B), A \cap B = {},
         \A x \in A \cup B : f[x] \in Int
  PROVE  SumFunctionOnSet(f, A \cup B) = SumFunctionOnSet(f, A) + SumFunctionOnSet(f, B)
<1> DEFINE Bad == {s \in SUBSET A : SumFunctionOnSet(f, s \cup B)
                                       # SumFunctionOnSet(f, s) + SumFunctionOnSet(f, B)}
<1> SUFFICES ASSUME Bad # {} PROVE FALSE
  OBVIOUS
<1>1. PICK s \in Bad : \A x \in s : s \ {x} \notin Bad
  BY SmallestSubset
<1>2. IsFiniteSet(s) /\ s \in SUBSET A
  BY FS_Subset
<1>3. SumFunctionOnSet(f, B) \in Int
  BY SumInt
<1>4. s # {}
  <2>1. SumFunctionOnSet(f, {}) = 0 /\ {} \cup B = B
    BY SumEmpty
  <2>2. 0 + SumFunctionOnSet(f, B) = SumFunctionOnSet(f, B)
    BY <1>3
  <2> QED BY <2>1, <2>2
<1>5. PICK x \in s : TRUE
  BY <1>4
<1>6. SumFunctionOnSet(f, (s \ {x}) \cup B) = SumFunctionOnSet(f, s \ {x}) + SumFunctionOnSet(f, B)
  BY <1>1, <1>2, <1>5
<1>7. (s \cup B) \ {x} = (s \ {x}) \cup B
  BY <1>2, <1>5
<1>8. SumFunctionOnSet(f, s) = f[x] + SumFunctionOnSet(f, s \ {x})
  BY <1>2, <1>5, SumRemove
<1>9. SumFunctionOnSet(f, s \cup B) = f[x] + SumFunctionOnSet(f, (s \cup B) \ {x})
  <2>1. IsFiniteSet(s \cup B)
    BY <1>2, FS_Union
  <2>2. x \in s \cup B /\ \A y \in s \cup B : f[y] \in Int
    BY <1>2, <1>5
  <2> QED BY <2>1, <2>2, SumRemove
<1>10. SumFunctionOnSet(f, s \ {x}) \in Int /\ f[x] \in Int
  <2>1. IsFiniteSet(s \ {x}) /\ s \ {x} \subseteq A
    BY <1>2, FS_RemoveElement
  <2> QED BY <1>2, <1>5, <2>1, SumInt
<1>11. SumFunctionOnSet(f, s \cup B) = SumFunctionOnSet(f, s) + SumFunctionOnSet(f, B)
  <2>1. SumFunctionOnSet(f, s \cup B)
          = f[x] + (SumFunctionOnSet(f, s \ {x}) + SumFunctionOnSet(f, B))
    BY <1>6, <1>7, <1>9
  <2>2. \A i, j, k \in Int : i + (j + k) = (i + j) + k
    OBVIOUS
  <2> QED BY <1>3, <1>8, <1>10, <2>1, <2>2
<1> QED BY <1>11

\* One position changes: the sums it is part of change as much.
LEMMA SumWithChange ==
  ASSUME NEW S, IsFiniteSet(S), NEW f, NEW g, NEW k, NEW d,
         \A j \in S : f[j] \in Int, f[k] \in Int, g[k] \in Int, d = g[k] - f[k],
         \A j \in S \ {k} : g[j] = f[j]
  PROVE  SumFunctionOnSet(g, S) = SumFunctionOnSet(f, S) + (IF k \in S THEN d ELSE 0)
<1>1. CASE k \in S
  BY <1>1, SumChange
<1>2. CASE k \notin S
  <2>1. SumFunctionOnSet(f, S) = SumFunctionOnSet(g, S)
    BY <1>2, SumSame
  <2>2. SumFunctionOnSet(f, S) \in Int
    BY SumInt
  <2> QED BY <1>2, <2>1, <2>2
<1> QED BY <1>1, <1>2

-----------------------------------------------------------------------------
(* What the recorded balance of a token has to back in a market of two     *)
(* tokens, and what an operation moves: how much it adds to that, per      *)
(* token, while it leaves the recorded balances, the supply and the        *)
(* funding amounts per size alone.                                         *)
LongCollateral == <<"CollateralSum", TRUE>>
ShortCollateral == <<"CollateralSum", FALSE>>
BackingPools == {Primary, SwapImpact, ClaimableFee, LongCollateral, ShortCollateral}
FundingPools == {"FundingAmountPerSize", "ClaimableFundingAmountPerSize"} \X BOOLEAN

Backing(a, t) ==
  a.pool[Primary][t] + a.pool[SwapImpact][t] + a.pool[ClaimableFee][t]
    + a.pool[LongCollateral][t] + a.pool[ShortCollateral][t]

Whole(a) ==
  IsMarket(a) /\ ~a.pure /\ \A k \in PoolKinds, s \in BOOLEAN : a.pool[k][s] \in Int

Moves(a, b, d) ==
  IsMarket(a) =>
    /\ IsMarket(b) /\ b.pure = a.pure /\ b.bal = a.bal /\ b.supply = a.supply
    /\ Whole(a) =>
         /\ Whole(b)
         /\ \A t \in BOOLEAN : Backing(b, t) = Backing(a, t) + d[t]
         /\ \A k \in FundingPools, t \in BOOLEAN : b.pool[k][t] = a.pool[k][t]

(* Two markets that differ in nothing that backs or is backed.             *)
Same(a, b) ==
  IsMarket(a) => IsMarket(b) /\ b.pure = a.pure /\ b.bal = a.bal /\ b.supply = a.supply
                   /\ b.pool = a.pool

TokenAmounts == [BOOLEAN -> Int]

LEMMA OnlyAt ==
  ASSUME NEW s \in BOOLEAN, NEW i, NEW t \in BOOLEAN
  PROVE  Only(s, i)[t] = (IF t = s THEN i ELSE 0) /\ NoTokens[t] = 0
BY DEF Only, NoTokens

LEMMA PlusAt ==
  ASSUME NEW d, NEW e, NEW t \in BOOLEAN
  PROVE  Plus(d, e)[t] = d[t] + e[t]
BY DEF Plus

LEMMA TokenAmountTypes ==
  /\ NoTokens \in TokenAmounts
  /\ \A s \in BOOLEAN, i \in Int : Only(s, i) \in TokenAmounts
  /\ \A d, e \in TokenAmounts : Plus(d, e) \in TokenAmounts
<1>1. NoTokens \in TokenAmounts
  BY DEF NoTokens, TokenAmounts
<1>2. \A s \in BOOLEAN, i \in Int : Only(s, i) \in TokenAmounts
  BY DEF NoTokens, Only, TokenAmounts
<1>3. \A d, e \in TokenAmounts : Plus(d, e) \in TokenAmounts
  BY DEF Plus, TokenAmounts
<1> QED BY <1>1, <1>2, <1>3

LEMMA BackingNames ==
  /\ Primary \in BackingPools /\ SwapImpact \in BackingPools /\ ClaimableFee \in BackingPools
  /\ LongCollateral \in BackingPools /\ ShortCollateral \in BackingPools
  /\ BackingPools \subseteq PoolKinds /\ FundingPools \subseteq Accumulators
  /\ FundingPools \subseteq PoolKinds
  /\ \A k \in FundingPools : k \notin BackingPools
  /\ Primary # SwapImpact /\ Primary # ClaimableFee /\ SwapImpact # ClaimableFee
  /\ LongCollateral # Primary /\ LongCollateral # SwapImpact /\ LongCollateral # ClaimableFee
  /\ ShortCollateral # Primary /\ ShortCollateral # SwapImpact /\ ShortCollateral # ClaimableFee
  /\ LongCollateral # ShortCollateral
  /\ \A k \in BackingPools : k[1] \in {"Primary", "SwapImpact", "ClaimableFee", "CollateralSum"}
<1>1. /\ Primary[1] = "Primary" /\ SwapImpact[1] = "SwapImpact"
      /\ ClaimableFee[1] = "ClaimableFee" /\ LongCollateral[1] = "CollateralSum"
      /\ ShortCollateral[1] = "CollateralSum"
  BY DEF Primary, SwapImpact, ClaimableFee, LongCollateral, ShortCollateral
<1>2. LongCollateral # ShortCollateral
  BY DEF LongCollateral, ShortCollateral
<1>3. BackingPools \subseteq PoolKinds
  <2>1. LongCollateral \in PoolKinds /\ ShortCollateral \in PoolKinds
    BY SideKinds, PoolsSplit DEF LongCollateral, ShortCollateral
  <2>2. Primary \in PoolKinds /\ SwapImpact \in PoolKinds /\ ClaimableFee \in PoolKinds
    BY LiquidityNames, PoolsSplit
  <2> QED BY <2>1, <2>2 DEF BackingPools
<1>4. FundingPools \subseteq Accumulators /\ FundingPools \subseteq PoolKinds
  BY PoolsSplit DEF FundingPools, Accumulators
<1>5. \A k \in FundingPools : k[1] \in {"FundingAmountPerSize", "ClaimableFundingAmountPerSize"}
  BY DEF FundingPools
<1>6. \A k \in BackingPools : k[1] \in {"Primary", "SwapImpact", "ClaimableFee", "CollateralSum"}
  BY <1>1 DEF BackingPools
<1>7. \A k \in FundingPools : k \notin BackingPools
  BY <1>5, <1>6
<1> QED BY <1>1, <1>2, <1>3, <1>4, <1>6, <1>7 DEF BackingPools

LEMMA CollateralName ==
  ASSUME NEW s \in BOOLEAN
  PROVE  <<"CollateralSum", s>> \in BackingPools
<1>1. CASE s
  BY <1>1 DEF BackingPools, LongCollateral
<1>2. CASE ~s
  BY <1>2 DEF BackingPools, ShortCollateral
<1> QED BY <1>1, <1>2

LEMMA BackingInt == \A a : Whole(a) => \A t \in BOOLEAN : Backing(a, t) \in Int
<1> SUFFICES ASSUME NEW a, Whole(a), NEW t \in BOOLEAN PROVE Backing(a, t) \in Int
  OBVIOUS
<1>1. \A k \in BackingPools : a.pool[k][t] \in Int
  BY BackingNames DEF Whole
<1>2. /\ a.pool[Primary][t] \in Int /\ a.pool[SwapImpact][t] \in Int
      /\ a.pool[ClaimableFee][t] \in Int /\ a.pool[LongCollateral][t] \in Int
      /\ a.pool[ShortCollateral][t] \in Int
  BY <1>1, BackingNames
<1> QED BY <1>2 DEF Backing

LEMMA MovesNothing == \A a : Moves(a, a, NoTokens)
<1> SUFFICES ASSUME NEW a, Whole(a), NEW t \in BOOLEAN
             PROVE  Backing(a, t) = Backing(a, t) + NoTokens[t]
  BY DEF Moves
<1>1. Backing(a, t) \in Int
  BY BackingInt
<1> QED BY <1>1, OnlyAt

LEMMA MovesTransitive ==
  ASSUME NEW a, NEW b, NEW c, NEW d \in TokenAmounts, NEW e \in TokenAmounts,
         Moves(a, b, d), Moves(b, c, e)
  PROVE  Moves(a, c, Plus(d, e))
<1> SUFFICES ASSUME IsMarket(a) PROVE Moves(a, c, Plus(d, e))
  BY DEF Moves
<1>1. /\ IsMarket(b) /\ IsMarket(c) /\ c.pure = a.pure /\ c.bal = a.bal /\ c.supply = a.supply
  BY DEF Moves
<1>2. ASSUME Whole(a)
      PROVE  /\ Whole(b) /\ Whole(c)
             /\ \A t \in BOOLEAN : Backing(c, t) = Backing(a, t) + Plus(d, e)[t]
             /\ \A k \in FundingPools, t \in BOOLEAN : c.pool[k][t] = a.pool[k][t]
  <2>1. Whole(b) /\ Whole(c)
    BY <1>1, <1>2 DEF Moves
  <2>2. ASSUME NEW t \in BOOLEAN PROVE Backing(c, t) = Backing(a, t) + Plus(d, e)[t]
    <3>1. Backing(b, t) = Backing(a, t) + d[t] /\ Backing(c, t) = Backing(b, t) + e[t]
      BY <1>1, <1>2, <2>1 DEF Moves
    <3>2. Backing(a, t) \in Int /\ d[t] \in Int /\ e[t] \in Int
      BY <1>2, BackingInt DEF TokenAmounts
    <3> QED BY <3>1, <3>2, PlusAt
  <2>3. \A k \in FundingPools, t \in BOOLEAN : c.pool[k][t] = a.pool[k][t]
    BY <1>1, <1>2, <2>1 DEF Moves
  <2> QED BY <2>1, <2>2, <2>3
<1> QED BY <1>1, <1>2 DEF Moves

LEMMA MovesEqual ==
  ASSUME NEW a, NEW b, NEW d, NEW e, Moves(a, b, d), \A t \in BOOLEAN : e[t] = d[t]
  PROVE  Moves(a, b, e)
BY DEF Moves

LEMMA MovesSame ==
  ASSUME NEW a, NEW b, NEW c, NEW d, Moves(a, b, d), Same(b, c)
  PROVE  Moves(a, c, d)
<1> SUFFICES ASSUME IsMarket(a) PROVE Moves(a, c, d)
  BY DEF Moves
<1>1. /\ IsMarket(b) /\ b.pure = a.pure /\ b.bal = a.bal /\ b.supply = a.supply
  BY DEF Moves
<1>2. IsMarket(c) /\ c.pure = b.pure /\ c.bal = b.bal /\ c.supply = b.supply /\ c.pool = b.pool
  BY <1>1 DEF Same
<1>3. Whole(b) => Whole(c)
  BY <1>2 DEF Whole
<1>4. \A t : Backing(c, t) = Backing(b, t)
  BY <1>2 DEF Backing
<1> QED BY <1>1, <1>2, <1>3, <1>4 DEF Moves

LEMMA CheckSame == \A a, cond : Same(a, Check(a, cond))
BY CheckShape DEF Same

LEMMA MovesCheck ==
  ASSUME NEW a, NEW b, NEW d, Moves(a, b, d), NEW cond
  PROVE  Moves(a, Check(b, cond), d)
BY CheckSame, MovesSame

\* An amount that is booked to a pool of tokens is backed by that token ...
LEMMA MovesToken ==
  ASSUME NEW a, NEW b, NEW d \in TokenAmounts, Moves(a, b, d), NEW k \in BackingPools,
         NEW s \in BOOLEAN, NEW i \in Int
  PROVE  Moves(a, ApplyDelta(b, k, s, i), Plus(d, Only(s, i)))
<1> SUFFICES ASSUME IsMarket(b) PROVE Moves(b, ApplyDelta(b, k, s, i), Only(s, i))
  <2>1. Only(s, i) \in TokenAmounts
    BY TokenAmountTypes
  <2>2. ~IsMarket(b) => ~IsMarket(a)
    BY DEF Moves
  <2>3. ~IsMarket(a) => Moves(a, ApplyDelta(b, k, s, i), Plus(d, Only(s, i)))
    BY DEF Moves
  <2> QED BY <2>1, <2>2, <2>3, MovesTransitive
<1> DEFINE c == ApplyDelta(b, k, s, i)
<1>1. k \in PoolKinds /\ k \notin FundingPools
  BY BackingNames
<1>2. PICK side \in BOOLEAN : side = DeltaSide(b, k, s)
  BY DeltaSideBoolean
<1>3. /\ IsMarket(c) /\ c.pure = b.pure /\ c.bal = b.bal /\ c.supply = b.supply
      /\ c.pool[k][side] = b.pool[k][side] + i
      /\ \A l \in PoolKinds, t \in BOOLEAN : l # k \/ t # side => c.pool[l][t] = b.pool[l][t]
  BY <1>1, <1>2, DeltaShape
<1> HIDE DEF c
<1>4. ASSUME Whole(b)
      PROVE  /\ Whole(c)
             /\ \A t \in BOOLEAN : Backing(c, t) = Backing(b, t) + Only(s, i)[t]
             /\ \A l \in FundingPools, t \in BOOLEAN : c.pool[l][t] = b.pool[l][t]
  <2>1. side = s
    BY <1>2, <1>4 DEF DeltaSide, IsPure, Whole
  <2>2. Whole(c)
    <3>1. \A l \in PoolKinds, t \in BOOLEAN : c.pool[l][t] \in Int
      BY <1>1, <1>3, <1>4 DEF Whole
    <3> QED BY <1>3, <1>4, <3>1 DEF Whole
  <2>3. ASSUME NEW t \in BOOLEAN, t # s PROVE Backing(c, t) = Backing(b, t) + Only(s, i)[t]
    <3>1. \A l \in BackingPools : c.pool[l][t] = b.pool[l][t]
      BY <1>3, <2>1, <2>3, BackingNames
    <3>2. Backing(c, t) = Backing(b, t)
      BY <3>1, BackingNames DEF Backing
    <3>3. Backing(b, t) \in Int /\ Only(s, i)[t] = 0
      BY <1>4, <2>3, BackingInt, OnlyAt
    <3> QED BY <3>2, <3>3
  <2>4. Backing(c, s) = Backing(b, s) + Only(s, i)[s]
    <3>1. \A l \in BackingPools : l # k => c.pool[l][s] = b.pool[l][s]
      BY <1>3, BackingNames
    <3>2. c.pool[k][s] = b.pool[k][s] + i
      BY <1>3, <2>1
    <3>3. \A l \in BackingPools : b.pool[l][s] \in Int
      BY <1>4, BackingNames DEF Whole
    <3>4. Only(s, i)[s] = i
      BY OnlyAt
    <3>5. /\ b.pool[Primary][s] \in Int /\ b.pool[SwapImpact][s] \in Int
          /\ b.pool[ClaimableFee][s] \in Int /\ b.pool[LongCollateral][s] \in Int
          /\ b.pool[ShortCollateral][s] \in Int
      BY <3>3, BackingNames
    <3>6. \A l \in BackingPools :
            c.pool[l][s] = b.pool[l][s] + (IF l = k THEN i ELSE 0)
      BY <3>1, <3>2, <3>3
    <3>7. /\ c.pool[Primary][s] = b.pool[Primary][s] + (IF Primary = k THEN i ELSE 0)
          /\ c.pool[SwapImpact][s] = b.pool[SwapImpact][s] + (IF SwapImpact = k THEN i ELSE 0)
          /\ c.pool[ClaimableFee][s]
               = b.pool[ClaimableFee][s] + (IF ClaimableFee = k THEN i ELSE 0)
          /\ c.pool[LongCollateral][s]
               = b.pool[LongCollateral][s] + (IF LongCollateral = k THEN i ELSE 0)
          /\ c.pool[ShortCollateral][s]
               = b.pool[ShortCollateral][s] + (IF ShortCollateral = k THEN i ELSE 0)
      BY <3>6, BackingNames
    <3>8. \/ k = Primary \/ k = SwapImpact \/ k = ClaimableFee
          \/ k = LongCollateral \/ k = ShortCollateral
      BY DEF BackingPools
    <3> QED BY <3>4, <3>5, <3>7, <3>8, BackingNames DEF Backing
  <2>5. \A l \in FundingPools, t \in BOOLEAN : c.pool[l][t] = b.pool[l][t]
    BY <1>1, <1>3, BackingNames
  <2> QED BY <2>2, <2>3, <2>4, <2>5
<1>5. Moves(b, c, Only(s, i))
  BY <1>3, <1>4 DEF Moves
<1> QED BY <1>5 DEF c

\* ... and one that is booked to another pool changes nothing of that.
LEMMA MovesOther ==
  ASSUME NEW a, NEW b, NEW d, Moves(a, b, d), NEW k \in PoolKinds,
         k \notin BackingPools, k \notin FundingPools, NEW s \in BOOLEAN, NEW i \in Int
  PROVE  Moves(a, ApplyDelta(b, k, s, i), d)
<1> SUFFICES ASSUME IsMarket(a) PROVE Moves(a, ApplyDelta(b, k, s, i), d)
  BY DEF Moves
<1> DEFINE c == ApplyDelta(b, k, s, i)
<1>1. IsMarket(b) /\ b.pure = a.pure /\ b.bal = a.bal /\ b.supply = a.supply
  BY DEF Moves
<1>2. PICK side \in BOOLEAN : side = DeltaSide(b, k, s)
  BY DeltaSideBoolean
<1>3. /\ IsMarket(c) /\ c.pure = b.pure /\ c.bal = b.bal /\ c.supply = b.supply
      /\ c.pool[k][side] = b.pool[k][side] + i
      /\ \A l \in PoolKinds, t \in BOOLEAN : l # k \/ t # side => c.pool[l][t] = b.pool[l][t]
  BY <1>1, <1>2, DeltaShape
<1> HIDE DEF c
<1>4. \A l \in BackingPools \cup FundingPools, t \in BOOLEAN : c.pool[l][t] = b.pool[l][t]
  BY <1>3, BackingNames
<1>5. \A t \in BOOLEAN : Backing(c, t) = Backing(b, t)
  BY <1>4, BackingNames DEF Backing
<1>6. ASSUME Whole(b) PROVE Whole(c)
  <2>1. \A l \in PoolKinds, t \in BOOLEAN : c.pool[l][t] \in Int
    BY <1>3, <1>6 DEF Whole
  <2> QED BY <1>3, <1>6, <2>1 DEF Whole
<1>7. Moves(a, c, d)
  BY <1>1, <1>3, <1>4, <1>5, <1>6 DEF Moves
<1> QED BY <1>7 DEF c

LEMMA OtherNames ==
  /\ \A k \in {PositionImpact, BorrowingFactor, TotalBorrowing} :
       k \in PoolKinds /\ k \notin BackingPools /\ k \notin FundingPools
  /\ \A s \in BOOLEAN : \A k \in {<<"OpenInterest", s>>, <<"OpenInterestInTokens", s>>} :
       k \in PoolKinds /\ k \notin BackingPools /\ k \notin FundingPools
<1>1. \A k \in BackingPools :
        k[1] \in {"Primary", "SwapImpact", "ClaimableFee", "CollateralSum"}
  BY BackingNames
<1>2. \A k \in FundingPools : k[1] \in {"FundingAmountPerSize", "ClaimableFundingAmountPerSize"}
  BY DEF FundingPools
<1>3. /\ PositionImpact[1] = "PositionImpact" /\ BorrowingFactor[1] = "BorrowingFactor"
      /\ TotalBorrowing[1] = "TotalBorrowing"
      /\ \A s \in BOOLEAN : /\ <<"OpenInterest", s>>[1] = "OpenInterest"
                            /\ <<"OpenInterestInTokens", s>>[1] = "OpenInterestInTokens"
  BY DEF PositionImpact, BorrowingFactor, TotalBorrowing
<1>4. /\ PositionImpact \in PoolKinds /\ BorrowingFactor \in PoolKinds
      /\ TotalBorrowing \in PoolKinds
      /\ \A s \in BOOLEAN : <<"OpenInterest", s>> \in PoolKinds
                              /\ <<"OpenInterestInTokens", s>> \in PoolKinds
  BY LiquidityNames, SideKinds, PoolsSplit
<1> QED BY <1>1, <1>2, <1>3, <1>4

LEMMA SoundWhole == \A a : Sound(a) /\ ~a.pure => Whole(a)
BY DEF Sound, Whole

-----------------------------------------------------------------------------
(* What accrues with time.                                                 *)
LEMMA RestartedSame ==
  ASSUME NEW a, NEW x, NEW c
  PROVE  Same(a, Restarted(a, c, x))
<1> SUFFICES ASSUME IsMarket(a) PROVE Same(a, Restarted(a, c, x))
  BY DEF Same
<1>1. CASE ~(Passed(a, c, x) > 0)
  BY <1>1 DEF Same, Restarted
<1>2. CASE Passed(a, c, x) > 0
  <2> DEFINE clock == [a.clock EXCEPT ![c] = x.now]
             b == [a EXCEPT !.clock = clock]
  <2>1. Restarted(a, c, x) = b
    BY <1>2 DEF Restarted
  <2>2. clock = [d \in ClockKinds |-> clock[d]]
    BY DEF IsMarket
  <2> HIDE DEF clock
  <2>3. b = [pure |-> a.pure, supply |-> a.supply, factor |-> a.factor, ok |-> a.ok,
             pool |-> a.pool, bal |-> a.bal, clock |-> clock]
    BY DEF IsMarket
  <2> HIDE DEF b
  <2>4. /\ b.pure = a.pure /\ b.supply = a.supply /\ b.factor = a.factor
        /\ b.ok = a.ok /\ b.pool = a.pool /\ b.bal = a.bal /\ b.clock = clock
    BY <2>3
  <2>5. IsMarket(b)
    BY <2>2, <2>3, <2>4 DEF IsMarket
  <2> QED BY <2>1, <2>4, <2>5 DEF Same
<1> QED BY <1>1, <1>2

LEMMA FactorSame ==
  ASSUME NEW a, NEW factor
  PROVE  Same(a, [a EXCEPT !.factor = factor])
<1> SUFFICES ASSUME IsMarket(a) PROVE Same(a, [a EXCEPT !.factor = factor])
  BY DEF Same
<1> DEFINE c == [a EXCEPT !.factor = factor]
<1>1. c = [pure |-> a.pure, supply |-> a.supply, factor |-> factor, ok |-> a.ok,
           pool |-> a.pool, bal |-> a.bal, clock |-> a.clock]
  BY DEF IsMarket
<1> HIDE DEF c
<1>2. /\ c.pure = a.pure /\ c.supply = a.supply /\ c.factor = factor
      /\ c.ok = a.ok /\ c.pool = a.pool /\ c.bal = a.bal /\ c.clock = a.clock
  BY <1>1
<1>3. IsMarket(c)
  BY <1>1, <1>2 DEF IsMarket
<1>4. Same(a, c)
  BY <1>2, <1>3 DEF Same
<1> QED BY <1>4 DEF c

LEMMA PendingInt ==
  ASSUME NEW a, Sound(a), NEW x \in Oracles
  PROVE  PendingDistribution(a, x) \in Int
<1> DEFINE amount == Amount(a, PositionImpact, TRUE)
           least == Config.min_position_impact_pool_amount
           due == ApplyFactor(Passed(a, "PriceImpactDistribution", x), Config.distribute_factor)
<1>1. amount \in Int
  BY AmountNat, OtherNames, NatInt
<1>2. least \in Int /\ Config.distribute_factor \in Nat
  BY ConfigAssumption DEF Configs
<1>3. Passed(a, "PriceImpactDistribution", x) \in Nat
  BY PassedNat DEF ClockKinds
<1>4. due \in Int
  BY <1>2, <1>3, FactorInt, NatInt
<1>5. PendingDistribution(a, x) = IF Config.distribute_factor = 0 \/ amount <= least THEN 0
                                  ELSE Least(due, amount - least)
  BY DEF PendingDistribution
<1> HIDE DEF amount, least, due
<1>6. Least(due, amount - least) \in Int
  BY <1>1, <1>2, <1>4, LeastInt
<1> QED BY <1>5, <1>6

LEMMA DistributeMoves ==
  ASSUME NEW a, Sound(a), NEW x \in Oracles
  PROVE  Moves(a, DistributePositionImpact(a, x), NoTokens)
<1>1. PendingDistribution(a, x) \in Int
  BY PendingInt
<1>2. -PendingDistribution(a, x) \in Int
  BY <1>1
<1>3. Moves(a, Restarted(a, "PriceImpactDistribution", x), NoTokens)
  BY MovesNothing, RestartedSame, MovesSame
<1> QED BY <1>2, <1>3, MovesOther, OtherNames DEF DistributePositionImpact

LEMMA BorrowingMoves ==
  ASSUME NEW a, Sound(a), NEW x \in Oracles
  PROVE  Moves(a, UpdateBorrowing(a, x), NoTokens)
<1> DEFINE d == [s \in BOOLEAN |-> IF BorrowingKnown(a, x, s) THEN BorrowingDelta(a, x, s) ELSE 0]
           r == Restarted(Check(a, ValidPrices(x)), "Borrowing", x)
           first == BorrowOneSide(r, x, TRUE, d[TRUE])
<1>1. \A s \in BOOLEAN : d[s] \in Int
  BY BorrowingDeltaNat, NatInt
<1>2. UpdateBorrowing(a, x) = BorrowOneSide(first, x, FALSE, d[FALSE])
  BY DEF UpdateBorrowing
<1> HIDE DEF d
<1>3. Moves(a, r, NoTokens)
  BY MovesNothing, CheckSame, RestartedSame, MovesSame
<1> HIDE DEF r
<1>4. Moves(a, first, NoTokens)
  BY <1>1, <1>3, MovesCheck, MovesOther, OtherNames DEF BorrowOneSide
<1> HIDE DEF first
<1>5. Moves(a, BorrowOneSide(first, x, FALSE, d[FALSE]), NoTokens)
  BY <1>1, <1>4, MovesCheck, MovesOther, OtherNames DEF BorrowOneSide
<1> QED BY <1>2, <1>5

\* Payers are rounded up and receivers down: what the payers of a token owe for it covers
\* what the other side may claim.
LEMMA CeilAtLeast ==
  ASSUME NEW i \in Nat, NEW n \in Nat \ {0}
  PROVE  CeilDiv(i, n) \in Nat /\ CeilDiv(i, n) * n >= i
<1> DEFINE q == (i + n - 1) \div n
<1>1. CeilDiv(i, n) = q /\ q \in Nat
  BY DivisionNat DEF CeilDiv
<1>2. i + n - 1 \in Nat
  OBVIOUS
<1>3. i + n - 1 < (q + 1) * n
  BY <1>2, Quotient
<1> HIDE DEF q
<1>4. (q + 1) * n = q * n + n /\ q * n \in Int
  BY <1>1
<1> QED BY <1>1, <1>3, <1>4

LEMMA FloorAtMost ==
  ASSUME NEW i \in Nat, NEW n \in Nat \ {0}
  PROVE  i \div n \in Nat /\ (i \div n) * n <= i
BY Quotient

LEMMA PackBalanced ==
  ASSUME NEW value \in Nat, NEW i \in Nat, NEW j \in Nat, NEW price \in Nat \ {0},
         i = 0 => value = 0
  PROVE  /\ PackFunding(value, i, price, TRUE) \in Nat
         /\ PackFunding(value, j, price, FALSE) \in Nat
         /\ PackFunding(value, i, price, TRUE) * i >= PackFunding(value, j, price, FALSE) * j
<1> DEFINE up == PackFunding(value, i, price, TRUE)
           down == PackFunding(value, j, price, FALSE)
           v == value * (Adjustment * Unit)
<1>1. up \in Nat /\ down \in Nat
  BY PackFundingNat
<1>2. v \in Nat
  BY ConfigAssumption, UnitAssumption
<1>3. CASE value = 0 \/ j = 0
  <2>1. down * j = 0
    BY <1>1, <1>3 DEF PackFunding
  <2> HIDE DEF up, down
  <2>2. up * i \in Nat
    BY <1>1, NatOps
  <2>3. up * i >= down * j
    BY <2>1, <2>2
  <2> QED BY <1>1, <2>3 DEF up, down
<1>4. CASE value # 0 /\ j # 0
  <2>1. i # 0
    BY <1>4
  <2>2. up = CeilDiv(CeilDiv(v, i), price) /\ down = (v \div j) \div price
    BY <1>4, <2>1 DEF PackFunding, MulDivCeil, MulDiv
  <2> DEFINE high == CeilDiv(v, i)
             low == v \div j
  <2> HIDE DEF v
  <2>3. high \in Nat /\ high * i >= v
    BY <1>2, <2>1, CeilAtLeast
  <2>4. low \in Nat /\ low * j <= v
    BY <1>2, <1>4, FloorAtMost
  <2>5. up * price >= high
    <3> HIDE DEF high
    <3> QED BY <2>2, <2>3, CeilAtLeast DEF high
  <2>6. down * price <= low
    <3> HIDE DEF low
    <3> QED BY <2>2, <2>4, FloorAtMost DEF low
  <2> HIDE DEF high, low, up, down
  <2>7. (up * price) * i >= high * i
    BY <1>1, <2>3, <2>5, ProductMonotone
  <2>8. (down * price) * j <= low * j
    BY <1>1, <2>4, <2>6, ProductMonotone
  <2>9. (up * i) * price = (up * price) * i /\ (down * j) * price = (down * price) * j
    BY <1>1
  <2>10. /\ up * i \in Nat /\ down * j \in Nat /\ high * i \in Nat /\ low * j \in Nat
         /\ (up * price) * i \in Nat /\ (down * price) * j \in Nat
    BY <1>1, <2>3, <2>4, NatOps
  <2>11. (up * i) * price >= (down * j) * price
    BY <1>2, <2>3, <2>4, <2>7, <2>8, <2>9, <2>10
  <2>12. down * j <= up * i
    BY <2>10, <2>11, ProductCancel
  <2>13. up * i >= down * j
    BY <2>10, <2>12
  <2> QED BY <1>1, <2>13 DEF up, down
<1> QED BY <1>3, <1>4

(* What an update of the funding fees does to a market of two tokens: the  *)
(* payers of each token are charged at least what the receivers may claim. *)
FundingPool(s) == <<"FundingAmountPerSize", s>>
ClaimPool(s) == <<"ClaimableFundingAmountPerSize", s>>
InterestPool(s) == <<"OpenInterest", s>>

Grown(a, b, k, t) == b.pool[k][t] - a.pool[k][t]

Charged(a, b, s, t) == Grown(a, b, FundingPool(s), t) * a.pool[InterestPool(s)][t]
Claimed(a, b, s, t) == Grown(a, b, ClaimPool(s), t) * OpenInterest(a, s)

Charges(a, b) ==
  /\ Sound(b) /\ b.pure = a.pure /\ b.bal = a.bal /\ b.supply = a.supply
  /\ \A k \in BookPools, t \in BOOLEAN : b.pool[k][t] = a.pool[k][t]
  /\ ~a.pure =>
       /\ \A t \in BOOLEAN : Backing(b, t) = Backing(a, t)
       /\ \A t \in BOOLEAN : Charged(a, b, TRUE, t) + Charged(a, b, FALSE, t)
                               >= Claimed(a, b, TRUE, t) + Claimed(a, b, FALSE, t)

LEMMA FundingNames ==
  ASSUME NEW s \in BOOLEAN
  PROVE  /\ FundingPool(s) \in FundingPools /\ ClaimPool(s) \in FundingPools
         /\ InterestPool(s) \in PoolKinds /\ InterestPool(s) \in BookPools
         /\ InterestPool(s) \notin FundingPools
         /\ \A t \in BOOLEAN : /\ FundingPool(s) # ClaimPool(t)
                               /\ FundingPool(s) = FundingPool(t) => s = t
                               /\ ClaimPool(s) = ClaimPool(t) => s = t
<1>1. FundingPool(s) \in FundingPools /\ ClaimPool(s) \in FundingPools
  BY DEF FundingPool, ClaimPool, FundingPools
<1>2. /\ InterestPool(s) \in PoolKinds /\ InterestPool(s) \in BookPools
      /\ InterestPool(s) \notin FundingPools
  BY SideKinds, OtherNames DEF InterestPool
<1>3. \A t \in BOOLEAN : /\ FundingPool(s)[1] # ClaimPool(t)[1]
                         /\ FundingPool(t)[2] = t /\ ClaimPool(t)[2] = t
  BY DEF FundingPool, ClaimPool
<1> QED BY <1>1, <1>2, <1>3

LEMMA NotPureAmount ==
  ASSUME NEW a, ~a.pure, NEW k, NEW s
  PROVE  Amount(a, k, s) = a.pool[k][s]
BY DEF Amount, IsPure

LEMMA OpenInterestIs ==
  ASSUME NEW a, ~a.pure, NEW s \in BOOLEAN
  PROVE  OpenInterest(a, s) = a.pool[InterestPool(s)][TRUE] + a.pool[InterestPool(s)][FALSE]
<1> DEFINE k == <<"OpenInterest", s>>
<1>1. OpenInterest(a, s) = Amount(a, k, TRUE) + Amount(a, k, FALSE)
  BY DEF OpenInterest, BothSides
<1>2. Amount(a, k, TRUE) = a.pool[k][TRUE] /\ Amount(a, k, FALSE) = a.pool[k][FALSE]
  BY Zenon DEF Amount, IsPure
<1> QED BY <1>1, <1>2 DEF InterestPool

LEMMA DeltaNotPure ==
  ASSUME NEW a, IsMarket(a), ~a.pure, NEW k \in PoolKinds, NEW s \in BOOLEAN, NEW d,
         NEW b, b = ApplyDelta(a, k, s, d)
  PROVE  /\ IsMarket(b) /\ b.pure = a.pure /\ b.bal = a.bal /\ b.supply = a.supply
         /\ b.clock = a.clock /\ b.factor = a.factor /\ (b.ok => a.ok)
         /\ b.pool[k][s] = a.pool[k][s] + d
         /\ \A l \in PoolKinds, t \in BOOLEAN : l # k \/ t # s => b.pool[l][t] = a.pool[l][t]
<1>1. PICK side \in BOOLEAN : side = DeltaSide(a, k, s)
  BY DeltaSideBoolean
<1>2. side = s
  BY <1>1 DEF DeltaSide, IsPure
<1>3. /\ IsMarket(b) /\ b.pure = a.pure /\ b.bal = a.bal /\ b.supply = a.supply
      /\ b.clock = a.clock /\ b.factor = a.factor /\ (b.ok => a.ok)
      /\ b.pool[k][side] = a.pool[k][side] + d
      /\ \A l \in PoolKinds, t \in BOOLEAN : l # k \/ t # side => b.pool[l][t] = a.pool[l][t]
  BY <1>1, DeltaShape
<1> QED BY <1>2, <1>3

ChargesToken(n, b, payer, c) ==
  /\ b.pure = n.pure /\ b.bal = n.bal /\ b.supply = n.supply
  /\ \A k \in PoolKinds, t \in BOOLEAN :
       t # c \/ (k # FundingPool(payer) /\ k # ClaimPool(~payer)) => b.pool[k][t] = n.pool[k][t]
  /\ Grown(n, b, FundingPool(payer), c) \in Nat /\ Grown(n, b, ClaimPool(~payer), c) \in Nat
  /\ Grown(n, b, FundingPool(payer), c) * n.pool[InterestPool(payer)][c]
       >= Grown(n, b, ClaimPool(~payer), c) * OpenInterest(n, ~payer)

LEMMA ChargeFundingBooks ==
  ASSUME NEW n, Sound(n), ~n.pure, NEW x \in Oracles, ValidPrices(x), NEW payer \in BOOLEAN,
         NEW c \in BOOLEAN, NEW value \in Nat, n.pool[InterestPool(payer)][c] = 0 => value = 0,
         NEW b, b = ChargeFunding(n, x, payer, c, value), b.ok
  PROVE  ChargesToken(n, b, payer, c)
<1> DEFINE other == ~payer
           F == FundingPool(payer)
           C == ClaimPool(other)
           i == n.pool[InterestPool(payer)][c]
           j == OpenInterest(n, other)
           price == TokenPrice(x, c).max
           up == PackFunding(value, i, price, TRUE)
           down == PackFunding(value, j, price, FALSE)
           e == ApplyDelta(n, F, c, up)
<1>1. other \in BOOLEAN /\ other = ~payer
  OBVIOUS
<1>2. F \in PoolKinds /\ C \in PoolKinds /\ F # C /\ F \in FundingPools /\ C \in FundingPools
  BY <1>1, FundingNames, BackingNames
<1>3. i \in Nat /\ j \in Nat /\ price \in Nat \ {0}
  BY <1>1, FundingNames, InterestNat, OraclePrices DEF Sound
<1>4. b = ApplyDelta(e, C, c, down)
  <2>1. Amount(n, <<"OpenInterest", payer>>, c) = i
    BY NotPureAmount DEF InterestPool
  <2> QED BY <2>1 DEF ChargeFunding, FundingPool, ClaimPool
<1> HIDE DEF other
<1>5. up \in Nat /\ down \in Nat /\ up * i >= down * j
  <2> HIDE DEF i, j, price
  <2> QED BY <1>3, PackBalanced DEF i
<1> HIDE DEF up, down, F, C, i, j
<1>6. IsMarket(n)
  BY DEF Sound
<1>7. /\ IsMarket(e) /\ e.pure = n.pure /\ e.bal = n.bal /\ e.supply = n.supply
      /\ e.clock = n.clock /\ e.factor = n.factor
      /\ e.pool[F][c] = n.pool[F][c] + up
      /\ \A l \in PoolKinds, t \in BOOLEAN : l # F \/ t # c => e.pool[l][t] = n.pool[l][t]
  BY <1>2, <1>6, DeltaNotPure
<1> HIDE DEF e
<1>8. /\ IsMarket(b) /\ b.pure = e.pure /\ b.bal = e.bal /\ b.supply = e.supply
      /\ b.clock = e.clock /\ b.factor = e.factor /\ (b.ok => e.ok)
      /\ b.pool[C][c] = e.pool[C][c] + down
      /\ \A l \in PoolKinds, t \in BOOLEAN : l # C \/ t # c => b.pool[l][t] = e.pool[l][t]
  BY <1>2, <1>4, <1>7, DeltaNotPure
<1>9. n.pool[F][c] \in Nat /\ n.pool[C][c] \in Nat
  BY <1>2 DEF Sound
<1>10. b.pool[F][c] = n.pool[F][c] + up /\ b.pool[C][c] = n.pool[C][c] + down
  BY <1>2, <1>7, <1>8
<1>11. \A k \in PoolKinds, t \in BOOLEAN :
         t # c \/ (k # F /\ k # C) => b.pool[k][t] = n.pool[k][t]
  BY <1>7, <1>8
<1>14. Grown(n, b, F, c) = up /\ Grown(n, b, C, c) = down
  BY <1>5, <1>9, <1>10 DEF Grown
<1> QED BY <1>5, <1>7, <1>8, <1>11, <1>14 DEF F, C, i, j, other, ChargesToken

Leaves(a, b) == IsMarket(a) => IsMarket(b) /\ b.bal = a.bal /\ b.supply = a.supply

LEMMA LeavesDelta ==
  ASSUME NEW a, NEW b, Leaves(a, b), NEW k \in PoolKinds, NEW s \in BOOLEAN, NEW d
  PROVE  Leaves(a, ApplyDelta(b, k, s, d))
<1> SUFFICES ASSUME IsMarket(a) PROVE Leaves(a, ApplyDelta(b, k, s, d))
  BY DEF Leaves
<1>1. IsMarket(b) /\ b.bal = a.bal /\ b.supply = a.supply
  BY DEF Leaves
<1>2. PICK side \in BOOLEAN : side = DeltaSide(b, k, s)
  BY DeltaSideBoolean
<1> QED BY <1>1, <1>2, DeltaShape DEF Leaves

LEMMA LeavesSame ==
  ASSUME NEW a, NEW b, NEW c, Leaves(a, b), Same(b, c)
  PROVE  Leaves(a, c)
BY DEF Leaves, Same

LEMMA UpdateFundingCharges ==
  ASSUME NEW a, Sound(a), NEW x \in Oracles, NEW b, b = UpdateFunding(a, x), b.ok
  PROVE  Charges(a, b)
<1> DEFINE r == Restarted(Check(a, ValidPrices(x)), "Funding", x)
           long == OpenInterest(a, TRUE)
           short == OpenInterest(a, FALSE)
           duration == Passed(a, "Funding", x)
           f == NextFundingFactor(a, duration, long, short)
           payer == f.longsPay
           total == ApplyFactor(Greatest(long, short), duration * f.charged)
           share(c) == MulDiv(total, Amount(a, <<"OpenInterest", payer>>, c),
                              OpenInterest(a, payer))
           first == ChargeFunding(r, x, payer, TRUE, share(TRUE))
           second == ChargeFunding(first, x, payer, FALSE, share(FALSE))
<1>1. b = IF long = 0 \/ short = 0 THEN [r EXCEPT !.factor = 0]
          ELSE [second EXCEPT !.factor = f.next]
  BY DEF UpdateFunding
<1>2. IsMarket(a) /\ Keeps(a, b) /\ ValidPrices(x)
  BY UpdateFundingKeeps DEF Sound
<1>3. /\ Sound(b) /\ b.pure = a.pure
      /\ \A k \in BookPools, t \in BOOLEAN : b.pool[k][t] = a.pool[k][t]
  BY <1>2 DEF Keeps
<1>4. Same(a, r) /\ Keeps(a, r)
  <2>1. Same(a, Check(a, ValidPrices(x))) /\ Keeps(a, Check(a, ValidPrices(x)))
    BY CheckSame, CheckKeeps
  <2>2. /\ Same(Check(a, ValidPrices(x)), r) /\ Keeps(Check(a, ValidPrices(x)), r)
    BY RestartedSame, RestartedKeeps DEF ClockKinds
  <2> HIDE DEF r
  <2> QED BY <2>1, <2>2, KeepsTransitive DEF Same
<1>5. /\ IsMarket(r) /\ r.pure = a.pure /\ r.pool = a.pool /\ r.bal = a.bal
      /\ r.supply = a.supply
  BY <1>2, <1>4 DEF Same
<1> HIDE DEF r
<1>6. ASSUME b.pool = a.pool, b.bal = a.bal, b.supply = a.supply PROVE Charges(a, b)
  <2>1. \A t \in BOOLEAN : Backing(b, t) = Backing(a, t)
    BY <1>6 DEF Backing
  <2>2. \A k \in PoolKinds, t \in BOOLEAN : Grown(a, b, k, t) = 0
    BY <1>6 DEF Grown, Sound
  <2>3. \A s, t \in BOOLEAN : Charged(a, b, s, t) = 0 /\ Claimed(a, b, s, t) = 0
    <3> SUFFICES ASSUME NEW s \in BOOLEAN, NEW t \in BOOLEAN
                 PROVE  Charged(a, b, s, t) = 0 /\ Claimed(a, b, s, t) = 0
      OBVIOUS
    <3>1. a.pool[InterestPool(s)][t] \in Nat /\ OpenInterest(a, s) \in Nat
      BY FundingNames, InterestNat DEF Sound
    <3>2. Grown(a, b, FundingPool(s), t) = 0 /\ Grown(a, b, ClaimPool(s), t) = 0
      BY <2>2, FundingNames, BackingNames
    <3> QED BY <3>1, <3>2 DEF Charged, Claimed
  <2>4. \A t \in BOOLEAN : /\ Charged(a, b, TRUE, t) = 0 /\ Charged(a, b, FALSE, t) = 0
                           /\ Claimed(a, b, TRUE, t) = 0 /\ Claimed(a, b, FALSE, t) = 0
    BY <2>3
  <2>5. \A t \in BOOLEAN : Charged(a, b, TRUE, t) + Charged(a, b, FALSE, t)
                             >= Claimed(a, b, TRUE, t) + Claimed(a, b, FALSE, t)
    <3> SUFFICES ASSUME NEW t \in BOOLEAN
                 PROVE  Charged(a, b, TRUE, t) + Charged(a, b, FALSE, t)
                          >= Claimed(a, b, TRUE, t) + Claimed(a, b, FALSE, t)
      OBVIOUS
    <3> DEFINE i == Charged(a, b, TRUE, t)
               j == Charged(a, b, FALSE, t)
               k == Claimed(a, b, TRUE, t)
               l == Claimed(a, b, FALSE, t)
    <3>1. i = 0 /\ j = 0 /\ k = 0 /\ l = 0
      BY <2>4
    <3> HIDE DEF i, j, k, l
    <3>2. i + j >= k + l
      BY <3>1
    <3> QED BY <3>2 DEF i, j, k, l
  <2> QED BY <1>3, <1>6, <2>1, <2>5 DEF Charges
<1>7. CASE long = 0 \/ short = 0
  <2>1. Same(r, b)
    BY <1>1, <1>7, FactorSame, ZenonT(40)
  <2> QED BY <1>5, <1>6, <2>1 DEF Same
<1>8. CASE ~(long = 0 \/ short = 0)
  <2>1. Same(second, b)
    <3>1. b = [second EXCEPT !.factor = f.next]
      BY <1>1, <1>8
    <3> HIDE DEF second, f
    <3> QED BY <3>1, FactorSame
  <2>2. payer \in BOOLEAN
    BY LongsPayBoolean
  <2>3. \A s \in BOOLEAN : OpenInterest(a, s) \in Nat \ {0}
    BY <1>8, InterestNat
  <2>4. \A c \in BOOLEAN :
          /\ share(c) \in Nat
          /\ ~a.pure /\ a.pool[InterestPool(payer)][c] = 0 => share(c) = 0
    <3>1. long \in Nat /\ short \in Nat /\ duration \in Nat
      BY InterestNat, PassedNat DEF ClockKinds
    <3>2. f.charged \in Nat
      <4> HIDE DEF long, short, duration
      <4> QED BY <3>1, NextFundingTypes
    <3>3. total \in Nat
      <4> HIDE DEF long, short, duration, f
      <4> QED BY <3>1, <3>2, LeastNat, NatOps, FactorNat
    <3> HIDE DEF f, total, long, short, duration, payer
    <3>4. ASSUME NEW c \in BOOLEAN
          PROVE  /\ share(c) \in Nat
                 /\ ~a.pure /\ a.pool[InterestPool(payer)][c] = 0 => share(c) = 0
      <4> DEFINE part == Amount(a, <<"OpenInterest", payer>>, c)
                 whole == OpenInterest(a, payer)
      <4>1. part \in Nat
        BY <2>2, SideKinds, PoolsSplit, AmountNat
      <4>2. whole \in Nat \ {0}
        BY <2>2, <2>3
      <4>3. ~a.pure => part = a.pool[InterestPool(payer)][c]
        BY NotPureAmount DEF InterestPool
      <4>4. share(c) = MulDiv(total, part, whole)
        OBVIOUS
      <4> HIDE DEF part, whole, share
      <4>5. share(c) \in Nat
        BY <3>3, <4>1, <4>2, <4>4, MulDivNat
      <4>6. part = 0 => share(c) = 0
        <5> SUFFICES ASSUME part = 0 PROVE (total * part) \div whole = 0
          BY <4>4 DEF MulDiv
        <5>1. total * part = 0
          BY <3>3
        <5> QED BY <4>2, <5>1
      <4> QED BY <4>3, <4>5, <4>6
    <3> QED BY <3>4
  <2> HIDE DEF share, payer
  <2>5. Keeps(a, first) /\ Leaves(a, first)
    <3>1. Keeps(a, first)
      BY <1>2, <1>4, <2>2, <2>4, ChargeFundingKeeps
    <3>2. FundingPool(payer) \in PoolKinds /\ ClaimPool(~payer) \in PoolKinds
      BY <2>2, FundingNames, BackingNames
    <3>3. Leaves(a, r)
      BY <1>5 DEF Leaves
    <3> QED BY <3>1, <3>2, <3>3, LeavesDelta DEF ChargeFunding, FundingPool, ClaimPool
  <2>6. Keeps(a, second) /\ Leaves(a, second) /\ (second.ok => first.ok)
    <3> DEFINE e == ApplyDelta(first, FundingPool(payer), FALSE,
                               PackFunding(share(FALSE), Amount(first, <<"OpenInterest", payer>>, FALSE),
                                           TokenPrice(x, FALSE).max, TRUE))
    <3>1. Keeps(a, second)
      BY <1>2, <2>2, <2>4, <2>5, ChargeFundingKeeps
    <3>2. FundingPool(payer) \in PoolKinds /\ ClaimPool(~payer) \in PoolKinds
      BY <2>2, FundingNames, BackingNames
    <3>3. \E d : second = ApplyDelta(e, ClaimPool(~payer), FALSE, d)
      BY DEF ChargeFunding, FundingPool, ClaimPool
    <3>4. IsMarket(first)
      BY <1>2, <2>5 DEF Keeps
    <3> HIDE DEF first
    <3>5. Leaves(a, e) /\ IsMarket(e) /\ (e.ok => first.ok)
      BY <2>5, <3>2, <3>4, LeavesDelta, DeltaOk
    <3> HIDE DEF e, second
    <3>6. Leaves(a, second) /\ (second.ok => e.ok)
      BY <3>2, <3>3, <3>5, LeavesDelta, DeltaOk
    <3> QED BY <3>1, <3>5, <3>6
  <2>7. /\ IsMarket(second) /\ b.pool = second.pool /\ b.bal = a.bal /\ b.supply = a.supply
    BY <1>2, <2>1, <2>6 DEF Keeps, Same, Leaves
  <2>8. second.ok /\ first.ok /\ Sound(first)
    <3>1. second.ok
      <4>1. b = [second EXCEPT !.factor = f.next]
        BY <1>1, <1>8
      <4> HIDE DEF second
      <4>2. b.ok = second.ok
        BY <2>7, <4>1 DEF IsMarket
      <4> QED BY <4>2
    <3> QED BY <1>2, <2>5, <2>6, <3>1 DEF Keeps
  <2>9. ASSUME ~a.pure
        PROVE  /\ \A t \in BOOLEAN : Backing(b, t) = Backing(a, t)
               /\ \A t \in BOOLEAN : Charged(a, b, TRUE, t) + Charged(a, b, FALSE, t)
                                       >= Claimed(a, b, TRUE, t) + Claimed(a, b, FALSE, t)
    <3> DEFINE other == ~payer
               I == a.pool[InterestPool(payer)]
               J == OpenInterest(a, other)
    <3>1. other \in BOOLEAN /\ payer \in BOOLEAN /\ payer # other
      BY <2>2
    <3>2. Sound(r) /\ ~r.pure
      <4>1. Keeps(r, first)
        <5>1. Keeps(r, r) /\ ValidPrices(x) /\ share(TRUE) \in Nat
          BY <1>2, <2>4, KeepsItself
        <5> QED BY <2>2, <5>1, ChargeFundingKeeps
      <4>2. r.ok
        BY <1>5, <2>8, <4>1 DEF Keeps
      <4> QED BY <1>2, <1>4, <1>5, <2>9, <4>2 DEF Keeps
    <3>3. /\ ~first.pure
          /\ \A k \in PoolKinds, t \in BOOLEAN :
               t # TRUE \/ (k # FundingPool(payer) /\ k # ClaimPool(other))
                 => first.pool[k][t] = r.pool[k][t]
          /\ Grown(r, first, FundingPool(payer), TRUE) \in Nat
          /\ Grown(r, first, ClaimPool(other), TRUE) \in Nat
          /\ Grown(r, first, FundingPool(payer), TRUE) * r.pool[InterestPool(payer)][TRUE]
               >= Grown(r, first, ClaimPool(other), TRUE) * OpenInterest(r, other)
      <4>1. share(TRUE) \in Nat /\ (r.pool[InterestPool(payer)][TRUE] = 0 => share(TRUE) = 0)
        BY <1>5, <2>4, <2>9
      <4>2. ChargesToken(r, first, payer, TRUE)
        BY <1>2, <2>2, <2>8, <3>2, <4>1, ChargeFundingBooks
      <4> HIDE DEF first
      <4> QED BY <3>2, <4>2 DEF ChargesToken
    <3> HIDE DEF first
    <3>4. /\ InterestPool(payer) \in PoolKinds /\ InterestPool(other) \in PoolKinds
          /\ \A s \in BOOLEAN : InterestPool(s) # FundingPool(payer)
                                 /\ InterestPool(s) # ClaimPool(other)
      BY <3>1, FundingNames
    <3>5. \A t \in BOOLEAN, s \in BOOLEAN :
            first.pool[InterestPool(s)][t] = a.pool[InterestPool(s)][t]
      <4> TAKE t \in BOOLEAN, s \in BOOLEAN
      <4>1. InterestPool(s) \in PoolKinds
        BY FundingNames
      <4>2. first.pool[InterestPool(s)][t] = r.pool[InterestPool(s)][t]
        BY <3>3, <3>4, <4>1
      <4> QED BY <1>5, <4>2
    <3>6. OpenInterest(r, other) = J /\ OpenInterest(first, other) = J
      <4>1. /\ OpenInterest(a, other) = a.pool[InterestPool(other)][TRUE]
                                           + a.pool[InterestPool(other)][FALSE]
            /\ OpenInterest(r, other) = r.pool[InterestPool(other)][TRUE]
                                           + r.pool[InterestPool(other)][FALSE]
            /\ OpenInterest(first, other) = first.pool[InterestPool(other)][TRUE]
                                               + first.pool[InterestPool(other)][FALSE]
        BY <2>9, <3>1, <3>2, <3>3, OpenInterestIs
      <4>2. /\ first.pool[InterestPool(other)][TRUE] = a.pool[InterestPool(other)][TRUE]
            /\ first.pool[InterestPool(other)][FALSE] = a.pool[InterestPool(other)][FALSE]
        BY <3>1, <3>5
      <4> HIDE DEF other
      <4> QED BY <1>5, <4>1, <4>2 DEF J
    <3>7. /\ \A k \in PoolKinds, t \in BOOLEAN :
               t # FALSE \/ (k # FundingPool(payer) /\ k # ClaimPool(other))
                 => second.pool[k][t] = first.pool[k][t]
          /\ Grown(first, second, FundingPool(payer), FALSE) \in Nat
          /\ Grown(first, second, ClaimPool(other), FALSE) \in Nat
          /\ Grown(first, second, FundingPool(payer), FALSE) * first.pool[InterestPool(payer)][FALSE]
               >= Grown(first, second, ClaimPool(other), FALSE) * OpenInterest(first, other)
      <4>1. /\ share(FALSE) \in Nat
            /\ first.pool[InterestPool(payer)][FALSE] = 0 => share(FALSE) = 0
        BY <2>2, <2>4, <2>9, <3>5
      <4>2. ChargesToken(first, second, payer, FALSE)
        BY <1>2, <2>2, <2>8, <3>3, <4>1, ChargeFundingBooks
      <4> HIDE DEF second
      <4> QED BY <4>2 DEF ChargesToken
    <3> HIDE DEF second
    <3>8. ASSUME NEW t \in BOOLEAN
          PROVE  /\ Grown(a, b, FundingPool(payer), t) \in Nat
                 /\ Grown(a, b, ClaimPool(other), t) \in Nat
                 /\ Grown(a, b, FundingPool(payer), t) * I[t]
                      >= Grown(a, b, ClaimPool(other), t) * J
      <4>1. FundingPool(payer) \in PoolKinds /\ ClaimPool(other) \in PoolKinds
        BY <3>1, FundingNames, BackingNames
      <4>2. CASE t = TRUE
        <5>1. /\ b.pool[FundingPool(payer)][t] = first.pool[FundingPool(payer)][t]
              /\ b.pool[ClaimPool(other)][t] = first.pool[ClaimPool(other)][t]
          BY <2>7, <3>7, <4>1, <4>2
        <5>2. /\ Grown(a, b, FundingPool(payer), t) = Grown(r, first, FundingPool(payer), TRUE)
              /\ Grown(a, b, ClaimPool(other), t) = Grown(r, first, ClaimPool(other), TRUE)
          BY <1>5, <4>2, <5>1 DEF Grown
        <5>3. r.pool[InterestPool(payer)][TRUE] = I[t]
          BY <1>5, <4>2
        <5> QED BY <3>3, <3>6, <5>2, <5>3
      <4>3. CASE t = FALSE
        <5>1. /\ a.pool[FundingPool(payer)][t] = first.pool[FundingPool(payer)][t]
              /\ a.pool[ClaimPool(other)][t] = first.pool[ClaimPool(other)][t]
          BY <1>5, <3>3, <4>1, <4>3
        <5>2. /\ Grown(a, b, FundingPool(payer), t) = Grown(first, second, FundingPool(payer), FALSE)
              /\ Grown(a, b, ClaimPool(other), t) = Grown(first, second, ClaimPool(other), FALSE)
          BY <2>7, <4>3, <5>1 DEF Grown
        <5>3. first.pool[InterestPool(payer)][FALSE] = I[t]
          BY <2>2, <3>5, <4>3
        <5> QED BY <3>6, <3>7, <5>2, <5>3
      <4> QED BY <4>2, <4>3
    <3>9. \A k \in PoolKinds, t \in BOOLEAN :
            k # FundingPool(payer) /\ k # ClaimPool(other) => b.pool[k][t] = a.pool[k][t]
      <4> SUFFICES ASSUME NEW k \in PoolKinds, NEW t \in BOOLEAN,
                          k # FundingPool(payer), k # ClaimPool(other)
                   PROVE  b.pool[k][t] = a.pool[k][t]
        OBVIOUS
      <4>1. first.pool[k][t] = r.pool[k][t]
        BY <3>3
      <4>2. second.pool[k][t] = first.pool[k][t]
        BY <3>7
      <4> QED BY <1>5, <2>7, <4>1, <4>2
    <3>10. ASSUME NEW t \in BOOLEAN PROVE Backing(b, t) = Backing(a, t)
      <4>1. \A k \in BackingPools : b.pool[k][t] = a.pool[k][t]
        BY <3>1, <3>9, FundingNames, BackingNames
      <4> QED BY <4>1, BackingNames DEF Backing
    <3>11. ASSUME NEW t \in BOOLEAN
           PROVE  Charged(a, b, TRUE, t) + Charged(a, b, FALSE, t)
                    >= Claimed(a, b, TRUE, t) + Claimed(a, b, FALSE, t)
      <4>1. Grown(a, b, FundingPool(other), t) = 0 /\ Grown(a, b, ClaimPool(payer), t) = 0
        <5>1. /\ FundingPool(other) \in PoolKinds /\ ClaimPool(payer) \in PoolKinds
              /\ FundingPool(other) # FundingPool(payer) /\ FundingPool(other) # ClaimPool(other)
              /\ ClaimPool(payer) # FundingPool(payer) /\ ClaimPool(payer) # ClaimPool(other)
          BY <3>1, FundingNames, BackingNames
        <5>2. /\ b.pool[FundingPool(other)][t] = a.pool[FundingPool(other)][t]
              /\ b.pool[ClaimPool(payer)][t] = a.pool[ClaimPool(payer)][t]
          BY <3>9, <5>1
        <5>3. a.pool[FundingPool(other)][t] \in Nat /\ a.pool[ClaimPool(payer)][t] \in Nat
          BY <5>1 DEF Sound
        <5> QED BY <5>2, <5>3 DEF Grown
      <4>2. /\ I[t] \in Nat /\ J \in Nat /\ OpenInterest(a, payer) \in Nat
            /\ a.pool[InterestPool(other)][t] \in Nat
        BY <3>1, <3>4, InterestNat DEF Sound
      <4>3. Charged(a, b, other, t) = 0 /\ Claimed(a, b, payer, t) = 0
        BY <4>1, <4>2 DEF Charged, Claimed
      <4>4. /\ Charged(a, b, payer, t) \in Nat /\ Claimed(a, b, other, t) \in Nat
            /\ Charged(a, b, payer, t) >= Claimed(a, b, other, t)
        <5> DEFINE up == Grown(a, b, FundingPool(payer), t)
                   down == Grown(a, b, ClaimPool(other), t)
        <5>1. up \in Nat /\ down \in Nat /\ up * I[t] >= down * J
          BY <3>8
        <5>2. Charged(a, b, payer, t) = up * I[t] /\ Claimed(a, b, other, t) = down * J
          BY DEF Charged, Claimed
        <5> HIDE DEF up, down, I, J
        <5> QED BY <4>2, <5>1, <5>2, NatOps
      <4> DEFINE i == Charged(a, b, TRUE, t)
                 j == Charged(a, b, FALSE, t)
                 k == Claimed(a, b, TRUE, t)
                 l == Claimed(a, b, FALSE, t)
      <4>5. CASE payer = TRUE
        <5>1. other = FALSE
          BY <4>5
        <5>2. j = 0 /\ k = 0 /\ i \in Nat /\ l \in Nat /\ i >= l
          BY <4>3, <4>4, <4>5, <5>1
        <5> HIDE DEF i, j, k, l
        <5>3. i + j >= k + l
          BY <5>2
        <5> QED BY <5>3 DEF i, j, k, l
      <4>6. CASE payer = FALSE
        <5>1. other = TRUE
          BY <4>6
        <5>2. i = 0 /\ l = 0 /\ j \in Nat /\ k \in Nat /\ j >= k
          BY <4>3, <4>4, <4>6, <5>1
        <5> HIDE DEF i, j, k, l
        <5>3. i + j >= k + l
          BY <5>2
        <5> QED BY <5>3 DEF i, j, k, l
      <4> QED BY <3>1, <4>5, <4>6
    <3> QED BY <3>10, <3>11
  <2> QED BY <1>3, <2>7, <2>9 DEF Charges
<1> QED BY <1>7, <1>8

\* What every execution does first charges the payers of each token at least what the
\* receivers may claim, and moves no token.
LEMMA PreExecuteCharges ==
  ASSUME NEW a, Sound(a), NEW x \in Oracles, NEW c, c = PreExecute(a, x), c.ok
  PROVE  Charges(a, c)
<1> DEFINE e == DistributePositionImpact(a, x)
           b == UpdateBorrowing(e, x)
<1>1. c = UpdateFunding(b, x)
  BY DEF PreExecute
<1>2. Keeps(a, e) /\ Moves(a, e, NoTokens) /\ IsMarket(a)
  BY DistributeKeeps, DistributeMoves DEF Sound
<1> HIDE DEF e
<1>3. Keeps(e, b)
  BY UpdateBorrowingKeeps
<1>4. Keeps(b, c)
  BY <1>1, UpdateFundingKeeps
<1>5. e.ok /\ Sound(e) /\ b.ok /\ Sound(b)
  BY <1>2, <1>3, <1>4 DEF Keeps
<1>6. Moves(e, b, NoTokens)
  BY <1>5, BorrowingMoves
<1> HIDE DEF b
<1>7. Moves(a, b, NoTokens)
  <2>1. Moves(a, b, Plus(NoTokens, NoTokens))
    BY <1>2, <1>6, MovesTransitive, TokenAmountTypes
  <2>2. \A t \in BOOLEAN : NoTokens[t] = Plus(NoTokens, NoTokens)[t]
    BY OnlyAt, PlusAt
  <2> QED BY <2>1, <2>2, MovesEqual
<1>8. Charges(b, c)
  BY <1>1, <1>5, UpdateFundingCharges
<1>9. Keeps(a, b)
  BY <1>2, <1>3, KeepsTransitive
<1>10. /\ b.pure = a.pure /\ b.bal = a.bal /\ b.supply = a.supply
       /\ \A k \in BookPools, t \in BOOLEAN : b.pool[k][t] = a.pool[k][t]
  BY <1>2, <1>5, <1>7, <1>9 DEF Moves, Keeps
<1>11. /\ Sound(c) /\ c.pure = a.pure /\ c.bal = a.bal /\ c.supply = a.supply
       /\ \A k \in BookPools, t \in BOOLEAN : c.pool[k][t] = a.pool[k][t]
  BY <1>8, <1>10 DEF Charges
<1>12. ASSUME ~a.pure
       PROVE  /\ \A t \in BOOLEAN : Backing(c, t) = Backing(a, t)
              /\ \A t \in BOOLEAN : Charged(a, c, TRUE, t) + Charged(a, c, FALSE, t)
                                      >= Claimed(a, c, TRUE, t) + Claimed(a, c, FALSE, t)
  <2>1. Whole(a)
    BY <1>12, SoundWhole
  <2>2. /\ \A t \in BOOLEAN : Backing(b, t) = Backing(a, t) + NoTokens[t]
        /\ \A k \in FundingPools, t \in BOOLEAN : b.pool[k][t] = a.pool[k][t]
    BY <1>2, <1>7, <2>1 DEF Moves
  <2>3. ~b.pure
    BY <1>10, <1>12
  <2>4. \A t \in BOOLEAN : Backing(c, t) = Backing(a, t)
    <3>1. \A t \in BOOLEAN : Backing(a, t) \in Int /\ NoTokens[t] = 0
      BY <2>1, BackingInt, OnlyAt
    <3>2. \A t \in BOOLEAN : Backing(b, t) = Backing(a, t)
      BY <2>2, <3>1
    <3> QED BY <1>8, <2>3, <3>2 DEF Charges
  <2>5. ASSUME NEW s \in BOOLEAN, NEW t \in BOOLEAN
        PROVE  Charged(a, c, s, t) = Charged(b, c, s, t) /\ Claimed(a, c, s, t) = Claimed(b, c, s, t)
    <3>1. /\ Grown(a, c, FundingPool(s), t) = Grown(b, c, FundingPool(s), t)
          /\ Grown(a, c, ClaimPool(s), t) = Grown(b, c, ClaimPool(s), t)
      BY <2>2, FundingNames DEF Grown
    <3>2. \A u \in BOOLEAN : b.pool[InterestPool(s)][u] = a.pool[InterestPool(s)][u]
      BY <1>10, FundingNames
    <3>3. OpenInterest(a, s) = OpenInterest(b, s)
      <4>1. /\ OpenInterest(a, s) = a.pool[InterestPool(s)][TRUE] + a.pool[InterestPool(s)][FALSE]
            /\ OpenInterest(b, s) = b.pool[InterestPool(s)][TRUE] + b.pool[InterestPool(s)][FALSE]
        BY <1>12, <2>3, OpenInterestIs
      <4>2. /\ b.pool[InterestPool(s)][TRUE] = a.pool[InterestPool(s)][TRUE]
            /\ b.pool[InterestPool(s)][FALSE] = a.pool[InterestPool(s)][FALSE]
        BY <3>2
      <4> QED BY <4>1, <4>2
    <3> QED BY <3>1, <3>2, <3>3 DEF Charged, Claimed
  <2>6. ASSUME NEW t \in BOOLEAN
        PROVE  Charged(a, c, TRUE, t) + Charged(a, c, FALSE, t)
                 >= Claimed(a, c, TRUE, t) + Claimed(a, c, FALSE, t)
    <3>1. Charged(b, c, TRUE, t) + Charged(b, c, FALSE, t)
            >= Claimed(b, c, TRUE, t) + Claimed(b, c, FALSE, t)
      BY <1>8, <2>3 DEF Charges
    <3>2. /\ Charged(a, c, TRUE, t) = Charged(b, c, TRUE, t)
          /\ Claimed(a, c, TRUE, t) = Claimed(b, c, TRUE, t)
          /\ Charged(a, c, FALSE, t) = Charged(b, c, FALSE, t)
          /\ Claimed(a, c, FALSE, t) = Claimed(b, c, FALSE, t)
      BY <2>5
    <3> QED BY <3>1, <3>2
  <2> QED BY <2>4, <2>6
<1> QED BY <1>11, <1>12 DEF Charges

-----------------------------------------------------------------------------
(* Swaps, deposits and withdrawals: what comes in is backed, what goes out *)
(* is not any more.                                                        *)
LEMMA OtherSide ==
  ASSUME NEW s \in BOOLEAN, NEW u \in BOOLEAN, u = ~s
  PROVE  s # u /\ \A t \in BOOLEAN : t = s \/ t = u
OBVIOUS

LEMMA FeeParts ==
  ASSUME NEW params \in FeeParams, NEW positive, NEW amount \in Int,
         NEW f, f = ApplyFees(params, positive, amount)
  PROVE  /\ f.after \in Int /\ f.pool \in Int /\ f.receiver \in Int
         /\ f.after + f.pool + f.receiver = amount
<1> DEFINE fee == Fee(params, positive, amount)
           receiver == ApplyFactor(fee, params.receiver)
<1>1. fee \in Int /\ params.receiver \in Int
  BY FeeInt DEF FeeParams
<1>2. f = [after |-> amount - fee, pool |-> fee - receiver, receiver |-> receiver]
  BY DEF ApplyFees
<1> HIDE DEF fee
<1>3. receiver \in Int
  BY <1>1, FactorInt
<1> HIDE DEF receiver
<1>4. f.after = amount - fee /\ f.pool = fee - receiver /\ f.receiver = receiver
  BY <1>2
<1> QED BY <1>1, <1>3, <1>4

LEMMA GainMoves ==
  ASSUME NEW a, NEW n, NEW d \in TokenAmounts, Moves(a, n, d), NEW x \in Oracles, ValidPrices(x),
         NEW s \in BOOLEAN, NEW u \in BOOLEAN, u = ~s, NEW after \in Int, NEW impact \in Int,
         \A t \in BOOLEAN : Amount(n, SwapImpact, t) \in Nat,
         NEW r, r = SwapGain(n, x, s, after, impact)
  PROVE  /\ r.in \in Int /\ r.poolOut \in Int /\ r.out \in Int
         /\ Moves(a, r.m, Plus(Plus(d, Only(u, r.poolOut - r.out)), Only(s, after - r.in)))
<1> DEFINE first == SwapImpactAmount(n, u, TokenPrice(x, u), impact)
           second == SwapImpactAmount(n, s, TokenPrice(x, s), first.capped)
           in == after + (IF first.capped = 0 THEN 0 ELSE second.amount)
           poolOut == MulDiv(in, TokenPrice(x, s).min, TokenPrice(x, u).max)
           b == ApplyDelta(n, SwapImpact, u, -first.amount)
           c == ApplyDelta(b, SwapImpact, s, after - in)
<1>1. /\ TokenPrice(x, s).min \in Nat \ {0} /\ TokenPrice(x, s).max \in Nat \ {0}
      /\ TokenPrice(x, u).min \in Nat \ {0} /\ TokenPrice(x, u).max \in Nat \ {0}
  BY OraclePrices
<1>2. r = [m |-> c, in |-> in, poolOut |-> poolOut, out |-> poolOut + first.amount]
  BY DEF SwapGain
<1>3. first.amount \in Int /\ first.capped \in Int
  BY <1>1, SwapImpactInt
<1> HIDE DEF first
<1>4. second.amount \in Int
  BY <1>1, <1>3, SwapImpactInt
<1> HIDE DEF second
<1>5. in \in Int
  BY <1>4
<1> HIDE DEF in
<1>6. poolOut \in Int
  BY <1>1, <1>5, MulDivInt, NatInt
<1> HIDE DEF poolOut
<1>7. r.m = c /\ r.in = in /\ r.poolOut = poolOut /\ r.out = poolOut + first.amount
  BY <1>2
<1>8. -first.amount \in Int /\ after - in \in Int /\ r.poolOut - r.out = -first.amount
  BY <1>3, <1>5, <1>6, <1>7
<1>9. Moves(a, b, Plus(d, Only(u, -first.amount))) /\ Plus(d, Only(u, -first.amount)) \in TokenAmounts
  BY <1>8, MovesToken, BackingNames, TokenAmountTypes
<1> HIDE DEF b
<1>10. Moves(a, c, Plus(Plus(d, Only(u, -first.amount)), Only(s, after - in)))
  BY <1>8, <1>9, MovesToken, BackingNames
<1> QED BY <1>3, <1>5, <1>6, <1>7, <1>8, <1>10

LEMMA LossMoves ==
  ASSUME NEW a, NEW n, NEW d \in TokenAmounts, Moves(a, n, d), NEW x \in Oracles, ValidPrices(x),
         NEW s \in BOOLEAN, NEW u \in BOOLEAN, u = ~s, NEW after \in Int, NEW impact \in Int,
         \A t \in BOOLEAN : Amount(n, SwapImpact, t) \in Nat,
         NEW r, r = SwapLoss(n, x, s, after, impact)
  PROVE  /\ r.in \in Int /\ r.poolOut \in Int /\ r.out \in Int
         /\ Moves(a, r.m, Plus(Plus(d, Only(u, r.poolOut - r.out)), Only(s, after - r.in)))
<1> DEFINE lost == SwapImpactAmount(n, s, TokenPrice(x, s), impact)
           loss == -lost.amount
           in == after - loss
           poolOut == IF in <= 0 THEN 0
                      ELSE MulDiv(in, TokenPrice(x, s).min, TokenPrice(x, u).max)
           b == ApplyDelta(n, SwapImpact, s, loss)
<1>1. /\ TokenPrice(x, s).min \in Nat \ {0} /\ TokenPrice(x, s).max \in Nat \ {0}
      /\ TokenPrice(x, u).min \in Nat \ {0} /\ TokenPrice(x, u).max \in Nat \ {0}
  BY OraclePrices
<1>2. r = [m |-> Check(b, in > 0), in |-> in, poolOut |-> poolOut, out |-> poolOut]
  BY DEF SwapLoss
<1>3. lost.amount \in Int
  BY <1>1, SwapImpactInt
<1> HIDE DEF lost
<1>4. loss \in Int
  BY <1>3
<1> HIDE DEF loss
<1>5. in \in Int /\ after - in = loss
  BY <1>4
<1> HIDE DEF in
<1>6. poolOut \in Int
  BY <1>1, <1>5, MulDivInt, NatInt
<1> HIDE DEF poolOut
<1>7. r.m = Check(b, in > 0) /\ r.in = in /\ r.poolOut = poolOut /\ r.out = poolOut
  BY <1>2
<1>8. Moves(a, b, Plus(d, Only(s, loss)))
  BY <1>4, MovesToken, BackingNames
<1> HIDE DEF b
<1>9. Moves(a, r.m, Plus(d, Only(s, loss)))
  BY <1>7, <1>8, MovesCheck
<1>10. r.poolOut - r.out = 0 /\ after - r.in = loss
  BY <1>5, <1>6, <1>7
<1>11. \A t \in BOOLEAN : Plus(Plus(d, Only(u, 0)), Only(s, loss))[t] = Plus(d, Only(s, loss))[t]
  <2> SUFFICES ASSUME NEW t \in BOOLEAN
               PROVE  Plus(Plus(d, Only(u, 0)), Only(s, loss))[t] = Plus(d, Only(s, loss))[t]
    OBVIOUS
  <2>1. d[t] \in Int /\ Only(u, 0)[t] = 0
    BY OnlyAt DEF TokenAmounts
  <2> QED BY <2>1, PlusAt
<1>12. Moves(a, r.m, Plus(Plus(d, Only(u, 0)), Only(s, loss)))
  BY <1>9, <1>11, MovesEqual
<1> QED BY <1>5, <1>6, <1>7, <1>10, <1>12

\* What Swap computes, part by part.
IsSwap(a, x, s, u, amount, fees, cur, next, impact, f, trade) ==
  /\ cur = MidValues(a, x)
  /\ next = [cur EXCEPT ![s] = @ + amount * Mid(TokenPrice(x, s)),
                        ![u] = @ - amount * Mid(TokenPrice(x, s))]
  /\ impact = PriceImpact(cur, next, SwapImpactParams)
  /\ f = ApplyFees(fees, impact > 0, amount)
  /\ trade = IF impact > 0
             THEN SwapGain(ApplyDelta(a, ClaimableFee, s, f.receiver), x, s, f.after, impact)
             ELSE SwapLoss(ApplyDelta(a, ClaimableFee, s, f.receiver), x, s, f.after, impact)
  /\ ~(amount = 0 \/ ~ValidPrices(x) \/ next[u] < 0) =>
       Swap(a, x, s, amount, fees)
         = [m |-> SwapAllowed(ApplyDelta(ApplyDelta(trade.m, Primary, s, trade.in + f.pool),
                                         Primary, u, -trade.poolOut), x, s),
            out |-> trade.out]

LEMMA SwapParts ==
  ASSUME NEW a, NEW x, NEW s, NEW u, u = ~s, NEW amount, NEW fees
  PROVE  \E cur, next, impact, f, trade :
           IsSwap(a, x, s, u, amount, fees, cur, next, impact, f, trade)
<1> DEFINE cur == MidValues(a, x)
           next == [cur EXCEPT ![s] = @ + amount * Mid(TokenPrice(x, s)),
                               ![u] = @ - amount * Mid(TokenPrice(x, s))]
           impact == PriceImpact(cur, next, SwapImpactParams)
           f == ApplyFees(fees, impact > 0, amount)
           trade == IF impact > 0
                    THEN SwapGain(ApplyDelta(a, ClaimableFee, s, f.receiver), x, s, f.after, impact)
                    ELSE SwapLoss(ApplyDelta(a, ClaimableFee, s, f.receiver), x, s, f.after, impact)
<1> HIDE DEF cur, next, impact, f, trade
<1>1. cur = MidValues(a, x)
  BY DEF cur
<1>2. next = [cur EXCEPT ![s] = @ + amount * Mid(TokenPrice(x, s)),
                         ![u] = @ - amount * Mid(TokenPrice(x, s))]
  BY DEF next
<1>3. impact = PriceImpact(cur, next, SwapImpactParams)
  BY DEF impact
<1>4. f = ApplyFees(fees, impact > 0, amount)
  BY DEF f
<1>5. trade = IF impact > 0
              THEN SwapGain(ApplyDelta(a, ClaimableFee, s, f.receiver), x, s, f.after, impact)
              ELSE SwapLoss(ApplyDelta(a, ClaimableFee, s, f.receiver), x, s, f.after, impact)
  BY DEF trade
<1>6. ASSUME ~(amount = 0 \/ ~ValidPrices(x) \/ next[u] < 0)
      PROVE  Swap(a, x, s, amount, fees)
               = [m |-> SwapAllowed(ApplyDelta(ApplyDelta(trade.m, Primary, s, trade.in + f.pool),
                                               Primary, u, -trade.poolOut), x, s),
                  out |-> trade.out]
  BY <1>1, <1>2, <1>3, <1>4, <1>5, <1>6 DEF Swap
<1>7. IsSwap(a, x, s, u, amount, fees, cur, next, impact, f, trade)
  BY <1>1, <1>2, <1>3, <1>4, <1>5, <1>6 DEF IsSwap
<1> QED BY <1>7

\* A swap takes the amount in and pays what is reported out.
LEMMA SwapMoves ==
  ASSUME NEW a, Sound(a), NEW x \in Oracles, NEW s \in BOOLEAN, NEW u \in BOOLEAN, u = ~s,
         NEW amount \in Int, NEW fees \in FeeParams,
         NEW r, r = Swap(a, x, s, amount, fees), r.m.ok
  PROVE  r.out \in Int /\ Moves(a, r.m, Plus(Only(s, amount), Only(u, -r.out)))
<1> DEFINE cur == MidValues(a, x)
           moved == amount * Mid(TokenPrice(x, s))
           next == [cur EXCEPT ![s] = @ + moved, ![u] = @ - moved]
           impact == PriceImpact(cur, next, SwapImpactParams)
           f == ApplyFees(fees, impact > 0, amount)
           paid == ApplyDelta(a, ClaimableFee, s, f.receiver)
           trade == IF impact > 0 THEN SwapGain(paid, x, s, f.after, impact)
                    ELSE SwapLoss(paid, x, s, f.after, impact)
           b == ApplyDelta(trade.m, Primary, s, trade.in + f.pool)
           c == ApplyDelta(b, Primary, u, -trade.poolOut)
<1>0. ~(amount = 0 \/ ~ValidPrices(x) \/ next[u] < 0)
  <2> SUFFICES ASSUME amount = 0 \/ ~ValidPrices(x) \/ next[u] < 0 PROVE FALSE
    OBVIOUS
  <2>1. r = [m |-> Refused(a), out |-> 0]
    BY DEF Swap
  <2> QED BY <2>1, RefusedNotOk DEF Sound
<1>x. ValidPrices(x)
  BY <1>0
<1>r. r = [m |-> SwapAllowed(c, x, s), out |-> trade.out]
  <2> HIDE DEF cur, moved, next, impact, f, paid, trade, b, c
  <2>1. PICK v, w, i, g, y : IsSwap(a, x, s, u, amount, fees, v, w, i, g, y)
    BY SwapParts
  <2>2. v = cur /\ w = next
    BY <2>1 DEF IsSwap, cur, next, moved
  <2>3. i = impact
    BY <2>1, <2>2 DEF IsSwap, impact
  <2>4. g = f
    BY <2>1, <2>3 DEF IsSwap, f
  <2>5. y = trade
    BY <2>1, <2>3, <2>4 DEF IsSwap, trade, paid
  <2> QED BY <1>0, <2>1, <2>2, <2>4, <2>5 DEF IsSwap, b, c
<1>1. \A t \in BOOLEAN : Mid(TokenPrice(x, t)) \in Nat
  <2> TAKE t \in BOOLEAN
  <2>1. TokenPrice(x, t).min + TokenPrice(x, t).max \in Nat
    BY <1>x, OraclePrices, NatOps
  <2> QED BY <2>1, DivisionNat DEF Mid
<1>2. cur \in [BOOLEAN -> Int]
  <2>1. \A t \in BOOLEAN : Amount(a, Primary, t) \in Nat
    BY AmountNat, LiquidityNames, PoolsSplit
  <2>2. \A t \in BOOLEAN : Amount(a, Primary, t) * Mid(TokenPrice(x, t)) \in Int
    BY <1>1, <2>1, NatOps, NatInt
  <2> QED BY <2>2 DEF MidValues
<1> HIDE DEF cur
<1>3. moved \in Int
  BY <1>1, IntOps, NatInt
<1> HIDE DEF moved
<1>4. next \in [BOOLEAN -> Int]
  <2> DEFINE one == [cur EXCEPT ![s] = cur[s] + moved]
  <2>1. one \in [BOOLEAN -> Int]
    BY <1>2, <1>3
  <2>2. next = [one EXCEPT ![u] = one[u] - moved]
    BY <1>2
  <2> HIDE DEF one, next
  <2>3. one[u] - moved \in Int
    <3>1. \A t \in BOOLEAN : one[t] \in Int
      BY <2>1
    <3> DEFINE i == one[u]
    <3>2. i \in Int
      BY <3>1, Zenon
    <3> HIDE DEF i
    <3>3. i - moved \in Int
      BY <1>3, <3>2
    <3> QED BY <3>3, Zenon DEF i
  <2> QED BY <2>1, <2>2, <2>3
<1> HIDE DEF next
<1>5. impact \in Int
  BY <1>2, <1>4, PriceImpactInt, OrderConfig
<1> HIDE DEF impact
<1>6. /\ f.after \in Int /\ f.pool \in Int /\ f.receiver \in Int
      /\ f.after + f.pool + f.receiver = amount
  BY FeeParts
<1> HIDE DEF f
<1>7. \A t \in BOOLEAN : Amount(paid, SwapImpact, t) \in Nat
  <2>1. PICK side \in BOOLEAN : side = DeltaSide(a, ClaimableFee, s)
    BY DeltaSideBoolean
  <2>2. IsMarket(a) /\ ClaimableFee \in PoolKinds /\ SwapImpact \in PoolKinds
    BY LiquidityNames, PoolsSplit DEF Sound
  <2>3. /\ paid.pure = a.pure
        /\ \A l \in PoolKinds, t \in BOOLEAN :
             l # ClaimableFee \/ t # side => paid.pool[l][t] = a.pool[l][t]
    BY <2>1, <2>2, DeltaShape
  <2>4. SwapImpact # ClaimableFee
    BY DEF SwapImpact, ClaimableFee
  <2>5. \A t \in BOOLEAN : paid.pool[SwapImpact][t] = a.pool[SwapImpact][t]
    BY <2>2, <2>3, <2>4
  <2> HIDE DEF paid
  <2>6. \A t \in BOOLEAN : Amount(paid, SwapImpact, t) = Amount(a, SwapImpact, t)
    <3>1. IsPure(paid, SwapImpact) = IsPure(a, SwapImpact)
      BY <2>3 DEF IsPure
    <3> QED BY <2>5, <3>1 DEF Amount
  <2> QED BY <2>2, <2>6, AmountNat
<1>8. Moves(a, paid, Plus(NoTokens, Only(s, f.receiver)))
  BY <1>6, MovesNothing, MovesToken, BackingNames, TokenAmountTypes
<1> HIDE DEF paid
<1> DEFINE d0 == Plus(NoTokens, Only(s, f.receiver))
           d1 == Plus(Plus(d0, Only(u, trade.poolOut - trade.out)), Only(s, f.after - trade.in))
           d2 == Plus(d1, Only(s, trade.in + f.pool))
           d3 == Plus(d2, Only(u, -trade.poolOut))
<1>9. d0 \in TokenAmounts
  BY <1>6, TokenAmountTypes
<1>10. /\ trade.in \in Int /\ trade.poolOut \in Int /\ trade.out \in Int
       /\ Moves(a, trade.m, d1)
  <2> HIDE DEF d0
  <2>1. CASE impact > 0
    BY <1>x, <1>5, <1>6, <1>7, <1>8, <1>9, <2>1, GainMoves, ZenonT(40) DEF d0
  <2>2. CASE ~(impact > 0)
    BY <1>x, <1>5, <1>6, <1>7, <1>8, <1>9, <2>2, LossMoves, ZenonT(40) DEF d0
  <2> QED BY <2>1, <2>2
<1> HIDE DEF trade
<1>11. /\ trade.in + f.pool \in Int /\ -trade.poolOut \in Int
       /\ trade.poolOut - trade.out \in Int /\ f.after - trade.in \in Int
  BY <1>6, <1>10
<1>12. d1 \in TokenAmounts /\ d2 \in TokenAmounts
  BY <1>9, <1>11, TokenAmountTypes
<1>13. Moves(a, b, d2)
  <2> HIDE DEF d1
  <2> QED BY <1>10, <1>11, <1>12, MovesToken, BackingNames
<1>14. Moves(a, c, d3)
  <2> HIDE DEF d2, b
  <2> QED BY <1>11, <1>12, <1>13, MovesToken, BackingNames
<1>15. Moves(a, r.m, d3)
  <2>1. r.m = SwapAllowed(c, x, s)
    BY <1>r
  <2> HIDE DEF c, d3
  <2> QED BY <1>14, <2>1, MovesCheck DEF SwapAllowed
<1>16. r.out = trade.out
  BY <1>r
<1>17. ASSUME NEW t \in BOOLEAN PROVE Plus(Only(s, amount), Only(u, -r.out))[t] = d3[t]
  <2>1. s # u /\ (t = s \/ t = u)
    BY OtherSide
  <2> DEFINE at(j, i) == Only(j, i)[t]
  <2>2. d3[t] = NoTokens[t] + at(s, f.receiver) + at(u, trade.poolOut - trade.out)
                  + at(s, f.after - trade.in) + at(s, trade.in + f.pool) + at(u, -trade.poolOut)
    BY PlusAt
  <2>3. Plus(Only(s, amount), Only(u, -r.out))[t] = at(s, amount) + at(u, -r.out)
    BY PlusAt
  <2> HIDE DEF d3
  <2>4. \A i : at(s, i) = (IF t = s THEN i ELSE 0) /\ at(u, i) = (IF t = u THEN i ELSE 0)
    BY OnlyAt
  <2>5. NoTokens[t] = 0
    BY OnlyAt
  <2> HIDE DEF at
  <2>6. CASE t = s
    BY <1>6, <1>10, <1>16, <2>1, <2>2, <2>3, <2>4, <2>5, <2>6
  <2>7. CASE t = u
    BY <1>6, <1>10, <1>16, <2>1, <2>2, <2>3, <2>4, <2>5, <2>7
  <2> QED BY <2>1, <2>6, <2>7
<1>18. Moves(a, r.m, Plus(Only(s, amount), Only(u, -r.out)))
  <2> HIDE DEF d3
  <2> QED BY <1>15, <1>17, MovesEqual
<1> QED BY <1>10, <1>16, <1>18

LEMMA GainNat ==
  ASSUME NEW n, NEW s, NEW price, Amount(n, SwapImpact, s) \in Nat, NEW impact \in Int, impact > 0,
         price.max \in Nat \ {0}
  PROVE  SwapImpactAmount(n, s, price, impact).amount \in Nat
<1> DEFINE wanted == TruncDiv(impact, price.max)
<1>1. wanted \in Nat
  <2>1. impact \in Nat
    OBVIOUS
  <2> QED BY <2>1, DivisionNat
<1>2. SwapImpactAmount(n, s, price, impact).amount = Least(wanted, Amount(n, SwapImpact, s))
  BY DEF SwapImpactAmount
<1> HIDE DEF wanted
<1> QED BY <1>1, <1>2 DEF Least

LEMMA MintNat ==
  ASSUME NEW usd \in Nat, NEW value \in Nat, NEW minted \in Nat, value = 0 => minted = 0
  PROVE  UsdToMarketTokens(usd, value, minted) \in Nat
<1>1. CASE minted = 0
  <2>1. value + usd \in Nat /\ UsdToAmountDivisor \in Nat \ {0}
    BY ConfigAssumption
  <2> QED BY <1>1, <2>1, DivisionNat DEF UsdToMarketTokens
<1>2. CASE minted # 0
  BY <1>2, MulDivNat DEF UsdToMarketTokens
<1> QED BY <1>1, <1>2

\* Of one token of a deposit, the pools and the fees take all of it.
LEMMA DepositOneMoves ==
  ASSUME NEW a, Sound(a), NEW x \in Oracles, ValidPrices(x), NEW s \in BOOLEAN, NEW u \in BOOLEAN,
         u = ~s, NEW amount \in Int, NEW value \in Nat, NEW share \in Int, NEW fees \in FeeParams,
         NEW r, r = DepositOne(a, x, s, amount, value, share, fees), r.m.ok
  PROVE  Moves(a, r.m, Only(s, amount)) /\ (a.supply \in Nat => r.minted \in Nat)
<1>1. CASE amount = 0
  <2>1. r.m = a /\ r.minted = 0
    BY <1>1 DEF DepositOne
  <2>2. \A t \in BOOLEAN : Only(s, amount)[t] = NoTokens[t]
    BY <1>1, OnlyAt
  <2> QED BY <2>1, <2>2, MovesNothing, MovesEqual
<1>2. CASE amount # 0
  <2> DEFINE f == ApplyFees(fees, share > 0, amount)
             impact == IF share > 0 /\ a.supply = 0 THEN 0 ELSE share
             won == SwapImpactAmount(a, u, TokenPrice(x, u), impact)
             lost == SwapImpactAmount(a, s, TokenPrice(x, s), impact)
             gain == IF impact > 0 THEN won.amount ELSE 0
             loss == IF impact < 0 THEN -lost.amount ELSE 0
             paid == ApplyDelta(a, ClaimableFee, s, f.receiver)
             out == ApplyDelta(paid, SwapImpact, u, -gain)
             moved == IF impact > 0 THEN ApplyDelta(out, Primary, u, gain)
                      ELSE ApplyDelta(paid, SwapImpact, s, loss)
             n == ApplyDelta(moved, Primary, s, f.after - loss + f.pool)
             cond == /\ impact > 0 => ValidPoolAmount(moved, u)
                     /\ ValidPoolAmount(n, s)
                     /\ ValidPoolValueForDeposit(n, x, s)
             mint(usd) == UsdToMarketTokens(usd, value, a.supply)
  <2>1. r = DepositOneSide(a, x, s, amount, value, share, fees)
    BY <1>2 DEF DepositOne
  <2>2. ~((value = 0 /\ a.supply # 0) \/ f.after < loss)
    <3> SUFFICES ASSUME (value = 0 /\ a.supply # 0) \/ f.after < loss PROVE FALSE
      OBVIOUS
    <3>1. r = [m |-> Refused(a), minted |-> 0]
      BY <2>1 DEF DepositOneSide
    <3> QED BY <3>1, RefusedNotOk DEF Sound
  <2>3. r = [m |-> Check(n, cond),
             minted |-> mint((f.after - loss) * TokenPrice(x, s).min)
                          + (IF impact > 0 THEN mint(gain * TokenPrice(x, u).max) ELSE 0)]
    BY <2>1, <2>2 DEF DepositOneSide
  <2>4. /\ f.after \in Int /\ f.pool \in Int /\ f.receiver \in Int
        /\ f.after + f.pool + f.receiver = amount
    BY FeeParts
  <2>5. impact \in Int
    OBVIOUS
  <2>6. /\ TokenPrice(x, s).min \in Nat \ {0} /\ TokenPrice(x, s).max \in Nat \ {0}
        /\ TokenPrice(x, u).min \in Nat \ {0} /\ TokenPrice(x, u).max \in Nat \ {0}
    BY OraclePrices
  <2>7. \A t \in BOOLEAN : Amount(a, SwapImpact, t) \in Nat
    BY AmountNat, LiquidityNames, PoolsSplit
  <2> HIDE DEF f, impact
  <2>8. won.amount \in Int /\ lost.amount \in Int /\ (impact > 0 => won.amount \in Nat)
    BY <2>5, <2>6, <2>7, SwapImpactInt, GainNat
  <2> HIDE DEF won, lost
  <2>9. gain \in Nat /\ loss \in Int /\ -gain \in Int /\ (impact > 0 => loss = 0)
    BY <2>5, <2>8
  <2> HIDE DEF gain, loss
  <2>10. Moves(a, paid, Plus(NoTokens, Only(s, f.receiver)))
    BY <2>4, MovesNothing, MovesToken, BackingNames, TokenAmountTypes
  <2> HIDE DEF paid
  <2> DEFINE d0 == Plus(NoTokens, Only(s, f.receiver))
             d1 == Plus(d0, Only(u, -gain))
             d2 == Plus(d1, Only(u, gain))
             e == Plus(d0, Only(s, loss))
             g == IF impact > 0 THEN d2 ELSE e
             i == f.after - loss + f.pool
             h == Plus(g, Only(s, i))
  <2>11. d0 \in TokenAmounts
    BY <2>4, TokenAmountTypes
  <2>12. d1 \in TokenAmounts /\ e \in TokenAmounts
    BY <2>9, <2>11, TokenAmountTypes
  <2>13. d2 \in TokenAmounts
    BY <2>9, <2>12, TokenAmountTypes, NatInt
  <2>14. g \in TokenAmounts /\ i \in Int
    BY <2>4, <2>9, <2>12, <2>13
  <2>15. Moves(a, out, d1) /\ Moves(a, ApplyDelta(paid, SwapImpact, s, loss), e)
    <3> HIDE DEF d0
    <3> QED BY <2>9, <2>10, <2>11, MovesToken, BackingNames DEF d0
  <2>16. Moves(a, ApplyDelta(out, Primary, u, gain), d2)
    <3> HIDE DEF d1, out
    <3> QED BY <2>9, <2>12, <2>15, MovesToken, BackingNames, NatInt
  <2>17. Moves(a, moved, g)
    <3> HIDE DEF d2, e, out
    <3> QED BY <2>15, <2>16
  <2> HIDE DEF moved
  <2>18. Moves(a, n, h)
    <3> HIDE DEF g
    <3> QED BY <2>14, <2>17, MovesToken, BackingNames
  <2>19. r.m = Check(n, cond)
    BY <2>3
  <2> HIDE DEF n, cond
  <2>20. Moves(a, r.m, h)
    BY <2>18, <2>19, MovesCheck
  <2>21. ASSUME NEW t \in BOOLEAN PROVE Only(s, amount)[t] = h[t]
    <3>1. s # u /\ (t = s \/ t = u)
      BY OtherSide
    <3> DEFINE at(j, y) == Only(j, y)[t]
    <3>2. d0[t] = NoTokens[t] + at(s, f.receiver) /\ d1[t] = d0[t] + at(u, -gain)
      BY PlusAt
    <3>3. d2[t] = d1[t] + at(u, gain) /\ e[t] = d0[t] + at(s, loss)
      BY PlusAt
    <3>4. h[t] = g[t] + at(s, i)
      BY PlusAt
    <3>5. \A y : at(s, y) = (IF t = s THEN y ELSE 0) /\ at(u, y) = (IF t = u THEN y ELSE 0)
      BY OnlyAt
    <3>6. NoTokens[t] = 0
      BY OnlyAt
    <3> HIDE DEF at, d0, d1, d2, e, h
    <3>7. d0[t] = (IF t = s THEN f.receiver ELSE 0) /\ d0[t] \in Int
      BY <2>4, <3>2, <3>5, <3>6
    <3>8. d2[t] = d0[t] /\ e[t] = d0[t] + (IF t = s THEN loss ELSE 0)
      BY <2>9, <3>1, <3>2, <3>3, <3>5, <3>7
    <3>9. g[t] = d0[t] + (IF t = s THEN loss ELSE 0)
      <4>1. CASE impact > 0
        BY <2>9, <3>7, <3>8, <4>1
      <4>2. CASE ~(impact > 0)
        BY <3>8, <4>2
      <4> QED BY <4>1, <4>2
    <3> HIDE DEF g
    <3>10. h[t] = IF t = s THEN amount ELSE 0
      BY <2>4, <2>9, <3>4, <3>5, <3>7, <3>9
    <3> QED BY <3>10, OnlyAt
  <2>22. Moves(a, r.m, Only(s, amount))
    <3> HIDE DEF h
    <3> QED BY <2>20, <2>21, MovesEqual
  <2>23. ASSUME a.supply \in Nat PROVE r.minted \in Nat
    <3>1. f.after - loss \in Nat
      BY <2>2, <2>4, <2>9
    <3>2. (f.after - loss) * TokenPrice(x, s).min \in Nat /\ gain * TokenPrice(x, u).max \in Nat
      BY <2>6, <2>9, <3>1, NatOps
    <3>3. \A usd \in Nat : mint(usd) \in Nat
      BY <2>2, <2>23, MintNat
    <3>4. r.minted = mint((f.after - loss) * TokenPrice(x, s).min)
                          + (IF impact > 0 THEN mint(gain * TokenPrice(x, u).max) ELSE 0)
      BY <2>3
    <3> HIDE DEF mint
    <3> QED BY <3>2, <3>3, <3>4
  <2> QED BY <2>22, <2>23
<1> QED BY <1>1, <1>2

LEMMA PoolValueInt ==
  ASSUME NEW a, Sound(a), NEW x \in Oracles, NEW kind \in PnlFactorKinds, NEW max \in BOOLEAN
  PROVE  PoolValue(a, x, kind, max) \in Int
<1> DEFINE value == [s \in BOOLEAN |-> SideValue(a, x, s, max)]
           gain(s) == Pnl(a, x, s, ~max)
           pnl == [s \in BOOLEAN |-> CapPnl(s, gain(s), value[s], kind)]
           due(s) == TotalPendingBorrowing(a, x, s)
           price == PickPrice(x.index, ~max)
           impact == (Amount(a, PositionImpact, TRUE) - PendingDistribution(a, x)) * price
<1>1. PICK min \in BOOLEAN : min = ~max
  OBVIOUS
<1>2. \A s \in BOOLEAN : value[s] \in Int
  BY ValuesNat, NatInt
<1>3. \A s \in BOOLEAN : gain(s) \in Int
  <2> TAKE s \in BOOLEAN
  <2> DEFINE interest == OpenInterest(a, s)
             picked == PickPriceForPnl(x.index, s, min)
             worth == OpenInterestInTokens(a, s) * picked
  <2>1. picked \in Int
    <3>1. PICK t \in BOOLEAN : t = (s = min)
      OBVIOUS
    <3> QED BY <3>1, OraclePrices, NatInt DEF PickPriceForPnl
  <2> HIDE DEF picked
  <2>2. interest \in Int /\ worth \in Int
    BY <2>1, InterestNat, IntOps, NatInt
  <2>3. gain(s) = IF s THEN worth - interest ELSE interest - worth
    BY <1>1 DEF Pnl, picked
  <2> HIDE DEF interest, worth, gain
  <2> QED BY <2>2, <2>3
<1> HIDE DEF value, gain
<1>4. \A s \in BOOLEAN : pnl[s] \in Int
  <2> TAKE s \in BOOLEAN
  <2> DEFINE most == ApplyFactor(value[s], PnlFactorConfig(kind, s))
  <2>1. PnlFactorConfig(kind, s) \in Int
    BY OrderConfig, NatInt
  <2>2. most \in Int
    BY <1>2, <2>1, FactorInt
  <2>3. pnl[s] = IF gain(s) > 0 THEN Least(gain(s), most) ELSE gain(s)
    BY DEF CapPnl
  <2> HIDE DEF most, pnl
  <2> QED BY <1>3, <2>2, <2>3, LeastInt
<1> HIDE DEF pnl
<1>5. \A s \in BOOLEAN : due(s) \in Int
  <2> TAKE s \in BOOLEAN
  <2> DEFINE total == Amount(a, BorrowingFactor, s) + BorrowingDelta(a, x, s)
             owed == ApplyFactor(OpenInterest(a, s), total)
             settled == Amount(a, TotalBorrowing, s)
  <2>1. total \in Int /\ settled \in Int
    BY AmountNat, BorrowingDeltaNat, OtherNames, NatInt, IntOps
  <2> HIDE DEF total
  <2>2. owed \in Int
    BY <2>1, InterestNat, NatInt, FactorInt
  <2>3. due(s) = owed - settled
    BY DEF TotalPendingBorrowing, total
  <2> HIDE DEF owed, settled, due
  <2> QED BY <2>1, <2>2, <2>3
<1> HIDE DEF due
<1>6. price \in Int
  BY <1>1, OraclePrices, NatInt
<1> HIDE DEF price
<1>7. impact \in Int
  BY <1>6, AmountNat, OtherNames, PendingInt, NatInt, IntOps
<1> HIDE DEF impact
<1> DEFINE receiver == BorrowingFeeParams.receiver
           dueLong == due(TRUE)
           dueShort == due(FALSE)
           fees == ApplyFactor(dueLong + dueShort, Unit - receiver)
           valueLong == value[TRUE]
           valueShort == value[FALSE]
           pnlLong == pnl[TRUE]
           pnlShort == pnl[FALSE]
<1>8. receiver \in Nat
  BY BorrowingConfig
<1>9. /\ dueLong \in Int /\ dueShort \in Int /\ valueLong \in Int /\ valueShort \in Int
      /\ pnlLong \in Int /\ pnlShort \in Int
  BY <1>2, <1>4, <1>5, Zenon
<1>10. PoolValue(a, x, kind, max) =
         valueLong + valueShort + fees - (pnlLong + pnlShort) - impact
  BY DEF PoolValue, value, pnl, gain, due, impact, price
<1> HIDE DEF receiver, dueLong, dueShort, valueLong, valueShort, pnlLong, pnlShort
<1>11. dueLong + dueShort \in Int /\ Unit - receiver \in Int
  BY <1>8, <1>9, UnitAssumption
<1>12. fees \in Int
  BY <1>11, FactorInt
<1> HIDE DEF fees
<1> QED BY <1>7, <1>9, <1>10, <1>12

\* A deposit or a withdrawal moves tokens and mints or burns market tokens.
Mints(a, b, d, i) ==
  /\ IsMarket(b) /\ b.pure = a.pure /\ b.bal = a.bal /\ b.supply = a.supply + i
  /\ Whole(a) =>
       /\ Whole(b)
       /\ \A t \in BOOLEAN : Backing(b, t) = Backing(a, t) + d[t]
       /\ \A k \in FundingPools, t \in BOOLEAN : b.pool[k][t] = a.pool[k][t]

LEMMA MovesMints ==
  ASSUME NEW a, IsMarket(a), NEW b, NEW d, Moves(a, b, d), NEW i,
         NEW c, c = [b EXCEPT !.supply = b.supply + i]
  PROVE  Mints(a, c, d, i)
<1> DEFINE supply == b.supply + i
<1>1. IsMarket(b) /\ b.pure = a.pure /\ b.bal = a.bal /\ b.supply = a.supply
  BY DEF Moves
<1>2. c = [pure |-> b.pure, supply |-> supply, factor |-> b.factor, ok |-> b.ok,
           pool |-> b.pool, bal |-> b.bal, clock |-> b.clock]
  BY <1>1 DEF IsMarket
<1> HIDE DEF supply
<1>3. /\ c.pure = b.pure /\ c.supply = supply /\ c.factor = b.factor /\ c.ok = b.ok
      /\ c.pool = b.pool /\ c.bal = b.bal /\ c.clock = b.clock
  BY <1>2
<1>4. IsMarket(c)
  BY <1>1, <1>2, <1>3 DEF IsMarket
<1>5. c.supply = a.supply + i
  BY <1>1, <1>3 DEF supply
<1> QED BY <1>1, <1>3, <1>4, <1>5 DEF Moves, Mints, Whole, Backing

LEMMA DepositBothMoves ==
  ASSUME NEW a, Sound(a), NEW x \in Oracles, ValidPrices(x), NEW amount \in TokenAmounts,
         NEW value \in Nat, NEW share \in TokenAmounts, NEW fees \in FeeParams,
         NEW r, r = DepositBoth(a, x, amount, value, share, fees), r.m.ok
  PROVE  Mints(a, r.m, amount, r.minted) /\ (a.supply \in Nat => r.minted \in Nat)
<1>1. PICK l \in BOOLEAN : l = TRUE
  OBVIOUS
<1>2. PICK h \in BOOLEAN : h = FALSE
  OBVIOUS
<1> DEFINE long == DepositOne(a, x, l, amount[l], value, share[l], fees)
           short == DepositOne(long.m, x, h, amount[h], value, share[h], fees)
           minted == long.minted + short.minted
           c == [short.m EXCEPT !.supply = short.m.supply + minted]
<1>3. r = [m |-> c, minted |-> minted]
  BY <1>1, <1>2 DEF DepositBoth, DepositShort, Minting
<1>4. h = ~l /\ l = ~h /\ amount[l] \in Int /\ amount[h] \in Int /\ share[l] \in Int /\ share[h] \in Int
  BY <1>1, <1>2 DEF TokenAmounts
<1>5. Keeps(a, long.m) /\ Keeps(long.m, short.m)
  BY DepositOneKeeps
<1>6. IsMarket(a) /\ IsMarket(long.m) /\ IsMarket(short.m)
  BY <1>5 DEF Keeps, Sound
<1>7. short.m.ok
  <2> HIDE DEF minted, short
  <2>1. c.ok = short.m.ok
    BY <1>6 DEF IsMarket
  <2> HIDE DEF c
  <2>2. r.m = c
    BY <1>3
  <2> QED BY <2>1, <2>2
<1>8. Sound(long.m) /\ long.m.ok
  BY <1>5, <1>6, <1>7 DEF Keeps
<1>9. Moves(a, long.m, Only(l, amount[l])) /\ (a.supply \in Nat => long.minted \in Nat)
  BY <1>4, <1>8, DepositOneMoves
<1> HIDE DEF long
<1>10. Moves(long.m, short.m, Only(h, amount[h])) /\ (long.m.supply \in Nat => short.minted \in Nat)
  BY <1>4, <1>7, <1>8, DepositOneMoves
<1> HIDE DEF short
<1>11. Only(l, amount[l]) \in TokenAmounts /\ Only(h, amount[h]) \in TokenAmounts
  BY <1>4, TokenAmountTypes
<1>12. Moves(a, short.m, Plus(Only(l, amount[l]), Only(h, amount[h])))
  BY <1>9, <1>10, <1>11, MovesTransitive
<1>13. ASSUME NEW t \in BOOLEAN
       PROVE  amount[t] = Plus(Only(l, amount[l]), Only(h, amount[h]))[t]
  <2>1. l # h /\ (t = l \/ t = h) /\ amount[t] \in Int
    BY <1>4, OtherSide DEF TokenAmounts
  <2>2. Only(l, amount[l])[t] = (IF t = l THEN amount[l] ELSE 0)
    BY OnlyAt
  <2>3. Only(h, amount[h])[t] = (IF t = h THEN amount[h] ELSE 0)
    BY OnlyAt
  <2>4. Plus(Only(l, amount[l]), Only(h, amount[h]))[t]
          = Only(l, amount[l])[t] + Only(h, amount[h])[t]
    BY PlusAt
  <2>5. CASE t = l
    BY <2>1, <2>2, <2>3, <2>4, <2>5
  <2>6. CASE t = h
    BY <2>1, <2>2, <2>3, <2>4, <2>6
  <2> QED BY <2>1, <2>5, <2>6
<1>14. Moves(a, short.m, amount)
  BY <1>12, <1>13, MovesEqual
<1>15. r.m = c /\ r.minted = minted
  BY <1>3
<1>16. a.supply \in Nat => minted \in Nat
  <2>1. long.m.supply = a.supply
    BY <1>6, <1>9 DEF Moves
  <2> QED BY <1>9, <1>10, <2>1
<1> HIDE DEF minted
<1>17. Mints(a, c, amount, minted)
  BY <1>6, <1>14, MovesMints
<1> HIDE DEF c
<1> QED BY <1>15, <1>16, <1>17

\* A deposit takes both amounts in.
LEMMA DepositMoves ==
  ASSUME NEW a, Sound(a), NEW x \in Oracles, ValidPrices(x), NEW amount \in [BOOLEAN -> Nat],
         NEW fees \in FeeParams, NEW r, r = Deposit(a, x, amount, fees), r.m.ok
  PROVE  Mints(a, r.m, amount, r.minted) /\ (a.supply \in Nat => r.minted \in Nat)
<1> DEFINE added == [s \in BOOLEAN |-> amount[s] * Mid(TokenPrice(x, s))]
           cur == MidValues(a, x)
           next == [s \in BOOLEAN |-> cur[s] + added[s]]
           value == PoolValue(a, x, "MaxAfterDeposit", TRUE)
           impact == PriceImpact(cur, next, SwapImpactParams)
           share == DepositShares(added, impact)
           total == added[TRUE] + added[FALSE]
<1>1. \A t \in BOOLEAN : Mid(TokenPrice(x, t)) \in Nat
  <2> TAKE t \in BOOLEAN
  <2>1. TokenPrice(x, t).min + TokenPrice(x, t).max \in Nat
    BY OraclePrices, NatOps
  <2> QED BY <2>1, DivisionNat DEF Mid
<1>2. cur \in [BOOLEAN -> Int]
  <2>1. \A t \in BOOLEAN : Amount(a, Primary, t) \in Nat
    BY AmountNat, LiquidityNames, PoolsSplit
  <2>2. \A t \in BOOLEAN : Amount(a, Primary, t) * Mid(TokenPrice(x, t)) \in Int
    BY <1>1, <2>1, NatOps, NatInt
  <2> QED BY <2>2 DEF MidValues
<1>3. added \in [BOOLEAN -> Nat]
  <2>1. \A t \in BOOLEAN : amount[t] * Mid(TokenPrice(x, t)) \in Nat
    BY <1>1, NatOps
  <2> QED BY <2>1
<1>4. ~(total = 0)
  <2> SUFFICES ASSUME total = 0 PROVE FALSE
    OBVIOUS
  <2>1. r = [m |-> Refused(a), minted |-> 0]
    BY DEF Deposit
  <2> QED BY <2>1, RefusedNotOk DEF Sound
<1>5. r = DepositValued(a, x, amount, cur, added, value, fees)
  <2> SUFFICES ASSUME r # DepositValued(a, x, amount, cur, added, value, fees) PROVE FALSE
    OBVIOUS
  <2>1. r = [m |-> Refused(a), minted |-> 0]
    BY DEF Deposit
  <2> QED BY <2>1, RefusedNotOk DEF Sound
<1>6. value \in Int
  BY PoolValueInt DEF PnlFactorKinds
<1> HIDE DEF value
<1>7. ~(value < 0)
  <2> SUFFICES ASSUME value < 0 PROVE FALSE
    OBVIOUS
  <2>1. r = [m |-> Refused(a), minted |-> 0]
    BY <1>5 DEF DepositValued
  <2> QED BY <2>1, RefusedNotOk DEF Sound
<1>8. value \in Nat
  BY <1>6, <1>7
<1>9. r = DepositBoth(a, x, amount, value, share, fees)
  BY <1>5, <1>7 DEF DepositValued
<1> HIDE DEF cur, added
<1>10. next \in [BOOLEAN -> Int]
  <2>1. \A t \in BOOLEAN : cur[t] + added[t] \in Int
    BY <1>2, <1>3
  <2> QED BY <2>1
<1> HIDE DEF next
<1>11. impact \in Int
  BY <1>2, <1>10, PriceImpactInt, OrderConfig
<1> HIDE DEF impact
<1>12. total \in Nat \ {0}
  <2> DEFINE i == added[TRUE]
             j == added[FALSE]
  <2>1. i \in Nat /\ j \in Nat
    BY <1>3, Zenon
  <2>2. total = i + j
    OBVIOUS
  <2> HIDE DEF i, j, total
  <2> QED BY <1>4, <2>1, <2>2
<1>13. share \in TokenAmounts
  <2> HIDE DEF total
  <2>1. \A s \in BOOLEAN : MulDivSigned(added[s], impact, total) \in Int
    BY <1>3, <1>11, <1>12, MulDivInt, NatInt
  <2> QED BY <2>1 DEF DepositShares, TokenAmounts, total
<1> HIDE DEF share
<1>14. amount \in TokenAmounts
  BY DEF TokenAmounts
<1> QED BY <1>8, <1>9, <1>13, <1>14, DepositBothMoves

Negative(d) == [t \in BOOLEAN |-> -d[t]]

LEMMA PayWithdrawalMoves ==
  ASSUME NEW a, NEW n, NEW d \in TokenAmounts, Moves(a, n, d), NEW s \in BOOLEAN, NEW f,
         f.receiver \in Int, f.after \in Int
  PROVE  Moves(a, PayWithdrawal(n, s, f), Plus(d, Only(s, -f.after)))
<1> DEFINE i == f.receiver
           j == -(f.receiver + f.after)
           b == ApplyDelta(n, ClaimableFee, s, i)
           c == ApplyDelta(b, Primary, s, j)
           e == Plus(d, Only(s, i))
<1>1. PayWithdrawal(n, s, f) = c
  BY DEF PayWithdrawal
<1>2. i \in Int /\ j \in Int /\ i + j = -f.after
  OBVIOUS
<1> HIDE DEF i, j
<1>3. Moves(a, b, e) /\ e \in TokenAmounts
  BY <1>2, MovesToken, BackingNames, TokenAmountTypes
<1> HIDE DEF b
<1>4. Moves(a, c, Plus(e, Only(s, j)))
  <2> HIDE DEF e
  <2> QED BY <1>2, <1>3, MovesToken, BackingNames
<1> HIDE DEF c
<1>5. ASSUME NEW t \in BOOLEAN PROVE Plus(d, Only(s, -f.after))[t] = Plus(e, Only(s, j))[t]
  <2>1. d[t] \in Int
    BY DEF TokenAmounts
  <2>2. Plus(d, Only(s, -f.after))[t] = d[t] + Only(s, -f.after)[t]
    BY PlusAt
  <2>3. Plus(e, Only(s, j))[t] = (d[t] + Only(s, i)[t]) + Only(s, j)[t]
    BY PlusAt
  <2>4. \A y : Only(s, y)[t] = (IF t = s THEN y ELSE 0)
    BY OnlyAt
  <2> QED BY <1>2, <2>1, <2>2, <2>3, <2>4
<1> QED BY <1>1, <1>4, <1>5, MovesEqual

LEMMA ShiftPaysNoFee ==
  ASSUME NEW fees, fees = SwapFeeParams("Shift"), NEW amount \in Nat
  PROVE  ApplyFees(fees, FALSE, amount).after = amount
<1>1. Config.swap_fee \in FeeParams
  BY OrderConfig
<1>2. /\ fees = [Config.swap_fee EXCEPT !.positive = 0, !.negative = 0]
      /\ fees.negative = 0 /\ fees.discount \in Nat
  BY <1>1 DEF SwapFeeParams, FeeParams
<1>3. ApplyFactor(amount, 0) = 0
  <2>1. amount * 0 = 0 /\ 0 \div Unit = 0
    BY UnitAssumption
  <2> QED BY <2>1 DEF ApplyFactor, MulDiv
<1>4. ApplyFactor(0, fees.discount) = 0
  <2>1. 0 * fees.discount = 0 /\ 0 \div Unit = 0
    BY <1>2, UnitAssumption
  <2> QED BY <2>1 DEF ApplyFactor, MulDiv
<1>5. Fee(fees, FALSE, amount) = 0
  BY <1>2, <1>3, <1>4 DEF Fee
<1> DEFINE fee == Fee(fees, FALSE, amount)
<1>6. ApplyFees(fees, FALSE, amount).after = amount - fee
  BY DEF ApplyFees
<1> HIDE DEF fee
<1>7. fee = 0
  BY <1>5 DEF fee
<1>8. amount - fee = amount
  BY <1>7
<1> QED BY <1>6, <1>8, Zenon

LEMMA FeeParamTypes == \A pricing : SwapFeeParams(pricing) \in FeeParams
BY OrderConfig DEF SwapFeeParams, FeeParams

\* A withdrawal pays out what it reports and burns the market tokens.
LEMMA WithdrawMoves ==
  ASSUME NEW a, Sound(a), a.supply \in Nat, NEW x \in Oracles, NEW burnt \in Nat,
         NEW fees \in FeeParams, NEW r, r = Withdraw(a, x, burnt, fees), r.m.ok
  PROVE  /\ r.out \in TokenAmounts /\ Mints(a, r.m, Negative(r.out), -burnt)
         /\ burnt # 0 /\ burnt <= a.supply
         /\ fees = SwapFeeParams("Shift") => r.out \in [BOOLEAN -> Nat]
<1> DEFINE pool == PoolValue(a, x, "MaxAfterWithdrawal", FALSE)
           value == [s \in BOOLEAN |-> SideValue(a, x, s, TRUE)]
           out == OutputAmounts(a, x, burnt)
           usd == MulDiv(pool, burnt, a.supply)
           f == [s \in BOOLEAN |-> ApplyFees(fees, FALSE, out[s])]
<1>0. /\ ~(burnt = 0) /\ ~(burnt > a.supply) /\ ValidPrices(x) /\ ~(pool <= 0)
      /\ ~(value[TRUE] + value[FALSE] = 0)
  <2> SUFFICES ASSUME \/ burnt = 0 \/ burnt > a.supply \/ ~ValidPrices(x) \/ pool <= 0
                      \/ value[TRUE] + value[FALSE] = 0
               PROVE FALSE
    OBVIOUS
  <2>1. r = [m |-> Refused(a), out |-> [s \in BOOLEAN |-> 0]]
    BY DEF Withdraw
  <2> QED BY <2>1, RefusedNotOk DEF Sound
<1>1. burnt # 0 /\ burnt <= a.supply
  BY <1>0
<1>2. r = WithdrawPaid(a, x, burnt, f)
  <2> SUFFICES ASSUME r # WithdrawPaid(a, x, burnt, f) PROVE FALSE
    OBVIOUS
  <2>1. r = [m |-> Refused(a), out |-> [s \in BOOLEAN |-> 0]]
    BY DEF Withdraw, WithdrawCharged
  <2> QED BY <2>1, RefusedNotOk DEF Sound
<1>3. pool \in Nat
  <2>1. pool \in Int
    BY PoolValueInt DEF PnlFactorKinds
  <2> HIDE DEF pool
  <2> QED BY <1>0, <2>1
<1>4. usd \in Nat
  <2> HIDE DEF pool
  <2>1. a.supply \in Nat \ {0}
    BY <1>1
  <2> QED BY <1>3, <2>1, MulDivNat
<1>5. value \in [BOOLEAN -> Nat]
  BY ValuesNat
<1>6. out = OutputShares(x, usd, value)
  BY DEF OutputAmounts
<1> HIDE DEF out, usd, value, pool
<1>7. out \in [BOOLEAN -> Nat]
  <2> DEFINE l == value[TRUE]
             h == value[FALSE]
             total == l + h
             one(s) == MulDiv(usd, value[s], total)
  <2>1. l \in Nat /\ h \in Nat
    BY <1>5, Zenon
  <2>2. l + h # 0
    BY <1>0
  <2> HIDE DEF l, h
  <2>3. total \in Nat \ {0}
    BY <2>1, <2>2
  <2> HIDE DEF total
  <2>4. \A s \in BOOLEAN : one(s) \in Nat
    BY <1>4, <1>5, <2>3, MulDivNat
  <2>5. out = [s \in BOOLEAN |-> one(s) \div TokenPrice(x, s).max]
    BY <1>6 DEF OutputShares, total, l, h
  <2> HIDE DEF one
  <2>6. \A s \in BOOLEAN : TokenPrice(x, s).max \in Nat \ {0}
    BY <1>0, OraclePrices
  <2>7. \A s \in BOOLEAN : one(s) \div TokenPrice(x, s).max \in Nat
    BY <2>4, <2>6, DivisionNat
  <2> QED BY <2>5, <2>7
<1>8. \A s \in BOOLEAN : f[s].after \in Int /\ f[s].receiver \in Int
  BY <1>7, FeeParts, NatInt
<1>9. fees = SwapFeeParams("Shift") => \A s \in BOOLEAN : f[s].after \in Nat
  BY <1>7, ShiftPaysNoFee
<1> HIDE DEF f
<1>10. PICK l \in BOOLEAN : l = TRUE
  OBVIOUS
<1>11. PICK h \in BOOLEAN : h = FALSE
  OBVIOUS
<1> DEFINE b == PayWithdrawal(a, l, f[l])
           c == PayWithdrawal(b, h, f[h])
           i == -burnt
           e == [c EXCEPT !.supply = c.supply + i]
           d0 == Plus(NoTokens, Only(l, -f[l].after))
           d1 == Plus(d0, Only(h, -f[h].after))
<1>12. Moves(a, b, d0) /\ d0 \in TokenAmounts
  BY <1>8, PayWithdrawalMoves, MovesNothing, TokenAmountTypes
<1>13. Moves(a, c, d1)
  <2> HIDE DEF d0, b
  <2> QED BY <1>8, <1>12, PayWithdrawalMoves
<1> HIDE DEF b
<1>14. r.out = [s \in BOOLEAN |-> f[s].after]
  BY <1>2 DEF WithdrawPaid
<1>15. r.m = WithdrawAllowed(e, x)
  <2>1. IsMarket(c) /\ c.supply = a.supply
    BY <1>13 DEF Moves, Sound
  <2>2. r.m = WithdrawAllowed([c EXCEPT !.supply = c.supply - burnt], x)
    <3>1. b = PayWithdrawal(a, TRUE, f[TRUE])
      BY <1>10 DEF b
    <3>2. c = PayWithdrawal(b, FALSE, f[FALSE])
      BY <1>11
    <3> HIDE DEF c
    <3>3. c = PayWithdrawal(PayWithdrawal(a, TRUE, f[TRUE]), FALSE, f[FALSE])
      BY <3>1, <3>2
    <3> QED BY <1>2, <3>3 DEF WithdrawPaid
  <2>3. c.supply - burnt = c.supply + i
    BY <2>1
  <2> HIDE DEF c, i
  <2> QED BY <2>2, <2>3
<1>16. ASSUME NEW t \in BOOLEAN PROVE Negative(r.out)[t] = d1[t]
  <2>1. l # h /\ (t = l \/ t = h) /\ f[t].after \in Int
    BY <1>8, <1>10, <1>11, OtherSide
  <2>2. \A y : Only(l, y)[t] = (IF t = l THEN y ELSE 0) /\ Only(h, y)[t] = (IF t = h THEN y ELSE 0)
    BY OnlyAt
  <2>3. d1[t] = (NoTokens[t] + Only(l, -f[l].after)[t]) + Only(h, -f[h].after)[t]
    BY PlusAt
  <2>4. NoTokens[t] = 0
    BY OnlyAt
  <2>5. Negative(r.out)[t] = -f[t].after
    BY <1>14 DEF Negative
  <2> HIDE DEF d1
  <2>6. CASE t = l
    BY <1>8, <2>1, <2>2, <2>3, <2>4, <2>5, <2>6
  <2>7. CASE t = h
    BY <1>8, <2>1, <2>2, <2>3, <2>4, <2>5, <2>7
  <2> QED BY <2>1, <2>6, <2>7
<1>17. Moves(a, c, Negative(r.out))
  <2> HIDE DEF d1, c
  <2> QED BY <1>13, <1>16, MovesEqual
<1> HIDE DEF c, i
<1>18. Mints(a, e, Negative(r.out), i) /\ IsMarket(e)
  <2>1. IsMarket(a)
    BY DEF Sound
  <2>2. Mints(a, e, Negative(r.out), i)
    BY <1>17, <2>1, MovesMints
  <2> QED BY <2>2 DEF Mints
<1> HIDE DEF e
<1>19. Same(e, r.m) /\ IsMarket(r.m) /\ r.m.pure = e.pure /\ r.m.bal = e.bal
         /\ r.m.supply = e.supply /\ r.m.pool = e.pool
  <2>1. PICK cond : r.m = Check(e, cond)
    BY <1>15 DEF WithdrawAllowed
  <2>2. Same(e, r.m)
    BY <2>1, CheckSame
  <2> QED BY <1>18, <2>2 DEF Same
<1>20. Mints(a, r.m, Negative(r.out), i)
  BY <1>18, <1>19 DEF Mints, Whole, Backing
<1>21. r.out \in TokenAmounts /\ (fees = SwapFeeParams("Shift") => r.out \in [BOOLEAN -> Nat])
  BY <1>8, <1>9, <1>14 DEF TokenAmounts
<1> QED BY <1>1, <1>20, <1>21 DEF i

-----------------------------------------------------------------------------
(* The recorded balances: d is what a transfer adds to them.               *)
Receives(a, b, d) ==
  IsMarket(a) =>
    /\ IsMarket(b) /\ b.pure = a.pure /\ b.pool = a.pool /\ b.supply = a.supply
    /\ a.bal \in TokenAmounts =>
         /\ b.bal \in TokenAmounts
         /\ ~a.pure => \A t \in BOOLEAN : b.bal[t] = a.bal[t] + d[t]

LEMMA ReceivesRecord ==
  ASSUME NEW a, NEW b, NEW ok, NEW bal, NEW d,
         IsMarket(a) => b = [pure |-> a.pure, supply |-> a.supply, factor |-> a.factor, ok |-> ok,
                             pool |-> a.pool, bal |-> bal, clock |-> a.clock],
         IsMarket(a) /\ a.bal \in TokenAmounts =>
           bal \in TokenAmounts /\ (~a.pure => \A t \in BOOLEAN : bal[t] = a.bal[t] + d[t])
  PROVE  Receives(a, b, d)
<1> SUFFICES ASSUME IsMarket(a) PROVE Receives(a, b, d)
  BY DEF Receives
<1>1. /\ b.pure = a.pure /\ b.supply = a.supply /\ b.factor = a.factor
      /\ b.ok = ok /\ b.pool = a.pool /\ b.bal = bal /\ b.clock = a.clock
  OBVIOUS
<1>2. IsMarket(b)
  BY <1>1 DEF IsMarket
<1> QED BY <1>1, <1>2 DEF Receives

LEMMA TransferInReceives ==
  ASSUME NEW a, NEW s \in BOOLEAN, NEW amount \in Int
  PROVE  Receives(a, TransferIn(a, s, amount), Only(s, amount))
<1> DEFINE bal == [a.bal EXCEPT ![s \/ a.pure] = a.bal[s \/ a.pure] + amount]
<1>1. IsMarket(a) => TransferIn(a, s, amount) =
         [pure |-> a.pure, supply |-> a.supply, factor |-> a.factor, ok |-> a.ok,
          pool |-> a.pool, bal |-> bal, clock |-> a.clock]
  <2>1. TransferIn(a, s, amount) = [a EXCEPT !.bal = bal]
    BY Zenon DEF TransferIn
  <2> HIDE DEF bal
  <2> QED BY <2>1 DEF IsMarket
<1>2. ASSUME IsMarket(a), a.bal \in TokenAmounts
      PROVE  bal \in TokenAmounts /\ (~a.pure => \A t \in BOOLEAN : bal[t] = a.bal[t] + Only(s, amount)[t])
  <2>1. PICK side \in BOOLEAN : side = (s \/ a.pure)
    BY <1>2 DEF IsMarket
  <2> DEFINE i == a.bal[side] + amount
  <2>2. bal = [a.bal EXCEPT ![side] = i]
    BY <2>1
  <2> HIDE DEF bal
  <2>3. i \in Int
    BY <1>2 DEF TokenAmounts
  <2>4. bal \in TokenAmounts /\ \A t \in BOOLEAN : bal[t] = IF t = side THEN i ELSE a.bal[t]
    <3> HIDE DEF i
    <3> QED BY <1>2, <2>2, <2>3 DEF TokenAmounts
  <2>5. ASSUME ~a.pure, NEW t \in BOOLEAN PROVE bal[t] = a.bal[t] + Only(s, amount)[t]
    <3>1. side = s
      BY <2>1, <2>5
    <3>2. Only(s, amount)[t] = (IF t = s THEN amount ELSE 0) /\ a.bal[t] \in Int
      BY <1>2, OnlyAt DEF TokenAmounts
    <3> QED BY <2>4, <3>1, <3>2
  <2> QED BY <2>4, <2>5
<1> HIDE DEF bal
<1> QED BY <1>1, <1>2, ReceivesRecord

LEMMA PaidReceives ==
  ASSUME NEW a, NEW amounts \in TokenAmounts
  PROVE  /\ Receives(a, TransferOut(a, amounts), Negative(amounts))
         /\ Receives(a, Paid(a, amounts), Negative(amounts))
<1>1. PICK l \in BOOLEAN : l = TRUE
  OBVIOUS
<1>2. PICK h \in BOOLEAN : h = FALSE
  OBVIOUS
<1> DEFINE both == amounts[l] + amounts[h]
           out(s) == IF a.pure THEN IF s THEN amounts[TRUE] + amounts[FALSE] ELSE 0
                     ELSE amounts[s]
           bal == [s \in BOOLEAN |-> a.bal[s] - out(s)]
           enough == \A s \in BOOLEAN : a.bal[s] >= out(s)
<1>3. TransferOut(a, amounts) = [[a EXCEPT !.bal = bal] EXCEPT !.ok = a.ok /\ enough]
  BY DEF TransferOut
<1>4. \A s \in BOOLEAN : out(s) = (IF a.pure THEN IF s THEN both ELSE 0 ELSE amounts[s])
  BY <1>1, <1>2
<1> HIDE DEF out, enough
<1>5. \A s \in BOOLEAN : out(s) \in Int
  <2>1. \A s \in BOOLEAN : amounts[s] \in Int
    BY DEF TokenAmounts
  <2>2. both \in Int
    BY <2>1
  <2> HIDE DEF both
  <2> QED BY <1>4, <2>1, <2>2
<1> HIDE DEF both
<1>6. ASSUME IsMarket(a), a.bal \in TokenAmounts
      PROVE  bal \in TokenAmounts /\ (~a.pure => \A t \in BOOLEAN : bal[t] = a.bal[t] + Negative(amounts)[t])
  <2>1. \A s \in BOOLEAN : a.bal[s] - out(s) \in Int
    BY <1>5, <1>6 DEF TokenAmounts
  <2>2. bal \in TokenAmounts
    BY <2>1 DEF TokenAmounts
  <2>3. ASSUME ~a.pure, NEW t \in BOOLEAN PROVE bal[t] = a.bal[t] + Negative(amounts)[t]
    <3>1. bal[t] = a.bal[t] - amounts[t]
      BY <1>4, <2>3
    <3>2. a.bal[t] \in Int /\ amounts[t] \in Int
      BY <1>6 DEF TokenAmounts
    <3>3. Negative(amounts)[t] = -amounts[t]
      BY DEF Negative
    <3> HIDE DEF bal
    <3> QED BY <3>1, <3>2, <3>3
  <2> QED BY <2>2, <2>3
<1> HIDE DEF bal
<1>7. PICK ok : ok = (a.ok /\ enough)
  OBVIOUS
<1>8. IsMarket(a) => TransferOut(a, amounts) =
         [pure |-> a.pure, supply |-> a.supply, factor |-> a.factor, ok |-> ok,
          pool |-> a.pool, bal |-> bal, clock |-> a.clock]
  BY <1>3, <1>7 DEF IsMarket
<1>9. Receives(a, TransferOut(a, amounts), Negative(amounts))
  BY <1>6, <1>8, ReceivesRecord
<1> DEFINE b == TransferOut(a, amounts)
<1>10. PICK cond : Paid(a, amounts) = Check(b, cond)
  BY DEF Paid, Covered
<1>11. Same(b, Paid(a, amounts))
  BY <1>10, CheckSame
<1> HIDE DEF b
<1>12. Receives(a, b, Negative(amounts))
  BY <1>9 DEF b
<1>13. Receives(a, Paid(a, amounts), Negative(amounts))
  BY <1>11, <1>12 DEF Receives, Same
<1> QED BY <1>9, <1>13

LEMMA CoveredSame == \A a : Same(a, Covered(a))
BY CheckSame DEF Covered

-----------------------------------------------------------------------------
(* Orders.  A position that was just settled has no funding fees pending.  *)
SettledAt(b, q) ==
  /\ q.funding = b.pool[FundingPool(q.long)][q.cl]
  /\ \A t \in BOOLEAN : q.claimable[t] = b.pool[ClaimPool(q.long)][t]

LEMMA SettleFundingReads ==
  ASSUME NEW a, Sound(a), ~a.pure, NEW p \in PositionStates
  PROVE  /\ SettleFunding(a, p).funding = a.pool[FundingPool(p.long)][p.cl]
         /\ \A t \in BOOLEAN : SettleFunding(a, p).claimable[t] = a.pool[ClaimPool(p.long)][t]
<1> DEFINE claims == [s \in BOOLEAN |-> ClaimablePerSize(a, p, s)]
           per == FundingPerSize(a, p)
<1>1. per = a.pool[FundingPool(p.long)][p.cl]
  BY NotPureAmount DEF FundingPerSize, FundingPool
<1>2. \A t \in BOOLEAN : claims[t] = a.pool[ClaimPool(p.long)][t]
  BY NotPureAmount DEF ClaimablePerSize, ClaimPool
<1>3. SettleFunding(a, p) = [p EXCEPT !.funding = per, !.claimable = claims]
  BY DEF SettleFunding
<1> HIDE DEF claims, per
<1>4. SettleFunding(a, p).funding = per /\ SettleFunding(a, p).claimable = claims
  BY <1>3 DEF PositionStates
<1> QED BY <1>1, <1>2, <1>4

LEMMA RaisedSettled ==
  \A a, p, change, delta, tokens, q :
    Sound(a) /\ ~a.pure /\ p \in PositionStates /\ q = Raised(a, p, change, delta, tokens) =>
      SettledAt(a, q)
<1> SUFFICES ASSUME NEW a, NEW p, NEW change, NEW delta, NEW tokens, NEW q,
                    Sound(a), ~a.pure, p \in PositionStates, q = Raised(a, p, change, delta, tokens)
             PROVE  SettledAt(a, q)
  OBVIOUS
<1> DEFINE f == SettleFunding(a, p)
           c == CumulativeBorrowing(a, p)
<1>1. f \in PositionStates /\ f.long = p.long /\ f.cl = p.cl
  BY SettledFields
<1>2. /\ f.funding = a.pool[FundingPool(p.long)][p.cl]
      /\ \A t \in BOOLEAN : f.claimable[t] = a.pool[ClaimPool(p.long)][t]
  BY SettleFundingReads
<1>3. q = [f EXCEPT !.collateral = @ + change, !.size = @ + delta,
                    !.tokens = @ + tokens, !.borrowing = c]
  BY DEF Raised
<1> HIDE DEF f, c
<1>4. q.long = f.long /\ q.cl = f.cl /\ q.funding = f.funding /\ q.claimable = f.claimable
  BY <1>1, <1>3 DEF PositionStates
<1> QED BY <1>1, <1>2, <1>4 DEF SettledAt

LEMMA SettledStays ==
  ASSUME NEW a, Whole(a), NEW b, NEW d, Moves(a, b, d), NEW q, q.long \in BOOLEAN,
         q.cl \in BOOLEAN, SettledAt(a, q)
  PROVE  SettledAt(b, q)
<1>1. q.long \in BOOLEAN /\ q.cl \in BOOLEAN
  OBVIOUS
<1>2. FundingPool(q.long) \in FundingPools /\ ClaimPool(q.long) \in FundingPools
  BY <1>1, FundingNames
<1>3. \A k \in FundingPools, t \in BOOLEAN : b.pool[k][t] = a.pool[k][t]
  BY DEF Moves, Whole
<1> QED BY <1>1, <1>2, <1>3 DEF SettledAt

LEMMA InterestMoves ==
  ASSUME NEW a, NEW n, NEW d, Moves(a, n, d), NEW p \in PositionStates,
         NEW delta \in Int, NEW tokens \in Int
  PROVE  Moves(a, UpdateOpenInterest(n, p, delta, tokens), d)
<1>1. p.long \in BOOLEAN /\ p.cl \in BOOLEAN
  BY PositionFields
<1> DEFINE size == <<"OpenInterest", p.long>>
           inTokens == <<"OpenInterestInTokens", p.long>>
           b == ApplyDelta(n, size, p.cl, delta)
           cond == delta > 0 => OpenInterest(b, p.long) <= Config.max_open_interest[p.long]
           c == Check(b, cond)
           e == ApplyDelta(c, inTokens, p.cl, tokens)
<1>2. UpdateOpenInterest(n, p, delta, tokens) = IF delta = 0 THEN n ELSE e
  BY DEF UpdateOpenInterest
<1>3. /\ size \in PoolKinds /\ size \notin BackingPools /\ size \notin FundingPools
      /\ inTokens \in PoolKinds /\ inTokens \notin BackingPools /\ inTokens \notin FundingPools
  BY <1>1, OtherNames
<1> HIDE DEF size, inTokens
<1>4. Moves(a, b, d)
  BY <1>1, <1>3, MovesOther
<1> HIDE DEF b, cond
<1>5. Moves(a, c, d)
  BY <1>4, MovesCheck
<1> HIDE DEF c
<1>6. Moves(a, e, d)
  BY <1>1, <1>3, <1>5, MovesOther
<1> HIDE DEF e
<1> QED BY <1>2, <1>6

LEMMA TotalBorrowingMoves ==
  ASSUME NEW a, NEW n, NEW d, Moves(a, n, d), Sound(n), NEW p \in PositionStates, NEW next \in Nat
  PROVE  Moves(a, UpdateTotalBorrowing(n, p, next), d)
<1> DEFINE i == ApplyFactor(next, CumulativeBorrowing(n, p)) - ApplyFactor(p.size, p.borrowing)
<1>1. CumulativeBorrowing(n, p) \in Nat /\ p.size \in Nat /\ p.borrowing \in Nat /\ p.long \in BOOLEAN
  BY PositionReads, PositionFields
<1>2. i \in Int
  <2>1. ApplyFactor(next, CumulativeBorrowing(n, p)) \in Nat /\ ApplyFactor(p.size, p.borrowing) \in Nat
    BY <1>1, FactorNat
  <2> QED BY <2>1, IntOps, NatInt
<1>3. UpdateTotalBorrowing(n, p, next) = ApplyDelta(n, TotalBorrowing, p.long, i)
  BY DEF UpdateTotalBorrowing
<1> HIDE DEF i
<1> QED BY <1>1, <1>2, <1>3, OtherNames, MovesOther

LEMMA PayIncreaseMoves ==
  ASSUME NEW a, NEW x, NEW p \in PositionStates, NEW fees, fees.receiver \in Int, fees.pool \in Int,
         NEW change \in Int, NEW impact, ImpactAmount(x, impact) \in Int
  PROVE  Moves(a, PayIncrease(a, x, p, fees, change, impact),
               Only(p.cl, fees.receiver + fees.pool + change))
<1>1. p.long \in BOOLEAN /\ p.cl \in BOOLEAN
  BY PositionFields
<1> DEFINE kind == <<"CollateralSum", p.long>>
           m1 == ApplyDelta(a, ClaimableFee, p.cl, fees.receiver)
           m2 == ApplyDelta(m1, Primary, p.cl, fees.pool)
           m3 == ApplyDelta(m2, kind, p.cl, change)
           m4 == ApplyDelta(m3, PositionImpact, TRUE, -ImpactAmount(x, impact))
           d1 == Plus(NoTokens, Only(p.cl, fees.receiver))
           d2 == Plus(d1, Only(p.cl, fees.pool))
           d3 == Plus(d2, Only(p.cl, change))
<1>2. kind \in BackingPools /\ -ImpactAmount(x, impact) \in Int
  BY <1>1, CollateralName
<1>3. PayIncrease(a, x, p, fees, change, impact) = m4
  BY DEF PayIncrease
<1> HIDE DEF kind
<1>4. Moves(a, m1, d1) /\ d1 \in TokenAmounts
  BY <1>1, MovesNothing, MovesToken, BackingNames, TokenAmountTypes
<1>5. Moves(a, m2, d2) /\ d2 \in TokenAmounts
  <2> HIDE DEF m1, d1
  <2> QED BY <1>1, <1>4, MovesToken, BackingNames, TokenAmountTypes
<1>6. Moves(a, m3, d3)
  <2> HIDE DEF m2, d2
  <2> QED BY <1>1, <1>2, <1>5, MovesToken
<1>7. Moves(a, m4, d3)
  <2>1. TRUE \in BOOLEAN
    OBVIOUS
  <2> HIDE DEF m3, d3
  <2> QED BY <1>2, <1>6, <2>1, MovesOther, OtherNames
<1>8. ASSUME NEW t \in BOOLEAN
      PROVE  Only(p.cl, fees.receiver + fees.pool + change)[t] = d3[t]
  <2>1. d3[t] = ((NoTokens[t] + Only(p.cl, fees.receiver)[t]) + Only(p.cl, fees.pool)[t])
                   + Only(p.cl, change)[t]
    BY PlusAt
  <2>2. \A i : Only(p.cl, i)[t] = (IF t = p.cl THEN i ELSE 0)
    BY <1>1, OnlyAt
  <2>3. NoTokens[t] = 0
    BY OnlyAt
  <2> HIDE DEF d3
  <2> QED BY <2>1, <2>2, <2>3
<1> HIDE DEF d3, m4
<1> QED BY <1>3, <1>7, <1>8, MovesEqual

\* What an increase settles: the market books what the position paid less the funding fee.
LEMMA IncreaseAtMoves ==
  ASSUME NEW a, Sound(a), NEW p, Fits(a, p), NEW x, NEW paid \in Int, NEW delta \in Nat,
         NEW impact, ImpactAmount(x, impact) \in Int, NEW tokens \in Int,
         NEW fees, fees.receiver \in Int, fees.pool \in Int, fees.funding \in Int,
         NEW r, r = IncreaseAt(a, x, p, paid, delta, impact, tokens, fees), r.m.ok
  PROVE  /\ Moves(a, r.m, Only(p.cl, paid - fees.funding))
         /\ r.claim = fees.claim /\ r.p.size = p.size + delta
         /\ ~a.pure => SettledAt(r.m, r.p)
<1> DEFINE change == paid - TotalCost(fees)
           m4 == PayIncrease(a, x, p, fees, change, impact)
           m5 == UpdateTotalBorrowing(m4, p, p.size + delta)
           m6 == UpdateOpenInterest(m5, p, delta, tokens)
           q == Raised(m5, p, change, delta, tokens)
           cond == /\ delta # 0 => IncreaseAllowed(m6, x, q)
                   /\ ValidPosition(m6, x, q, TRUE)
<1>1. p \in PositionStates /\ p.long \in BOOLEAN /\ p.cl \in BOOLEAN /\ IsMarket(a)
  BY PositionFields DEF Fits, Sound
<1>2. /\ change \in Int /\ p.size + delta \in Nat
      /\ fees.receiver + fees.pool + change = paid - fees.funding
  BY <1>1, PositionFields, NatOps DEF TotalCost
<1> HIDE DEF change
<1>3. IsMarket(m4) /\ Moves(a, m4, Only(p.cl, paid - fees.funding))
  BY <1>1, <1>2, PaysOk, PayIncreaseMoves
<1>4. IsMarket(m5) /\ (m5.ok => m4.ok)
  <2>1. TotalBorrowing \in PoolKinds
    BY SideKinds, PoolsSplit
  <2> HIDE DEF m4
  <2> QED BY <1>1, <1>3, <2>1, DeltaOk DEF UpdateTotalBorrowing
<1>5. IsMarket(m6) /\ (m6.ok => m5.ok)
  <2> HIDE DEF m5
  <2> QED BY <1>1, <1>4, InterestOk
<1>6. r = CheckIncrease(m6, x, q, delta, fees.claim)
  <2>1. ~Refused(a).ok
    BY <1>1, RefusedNotOk
  <2>2. ASSUME delta > 0 /\ tokens <= 0 PROVE FALSE
    <3>1. r = [m |-> Refused(a), p |-> p, claim |-> fees.claim]
      BY <2>2 DEF IncreaseAt
    <3> QED BY <2>1, <3>1
  <2> QED BY <2>2 DEF IncreaseAt, IncreaseBooks, change
<1> HIDE DEF m4, m5, m6, q, cond
<1>7. m6.ok /\ r = [m |-> Check(m6, cond), p |-> q, claim |-> fees.claim]
  <2>1. ~Refused(m6).ok
    BY <1>5, RefusedNotOk
  <2>2. ASSUME q.collateral < 0 \/ ~m6.ok PROVE FALSE
    <3>1. r = [m |-> Refused(m6), p |-> q, claim |-> fees.claim]
      BY <1>6, <2>2 DEF CheckIncrease
    <3> QED BY <2>1, <3>1
  <2> QED BY <1>6, <2>2 DEF CheckIncrease, cond
<1>8. r.m = Check(m6, cond) /\ r.p = q /\ r.claim = fees.claim
  BY <1>7
<1>9. m4.ok /\ m5.ok
  BY <1>4, <1>5, <1>7
<1>10. Sound(m4) /\ Fits(m4, p)
  <2>1. Posts(a, m4, p, 0, 0, change, 0)
    BY <1>2, <1>9, PaysPosts DEF m4
  <2> QED BY <2>1 DEF Posts, Fits
<1>11. Sound(m5) /\ m5.pure = a.pure
  <2> DEFINE borrowed == ApplyFactor(p.size + delta, CumulativeBorrowing(m4, p))
                           - ApplyFactor(p.size, p.borrowing)
  <2>1. Posts(m4, m5, p, 0, 0, 0, borrowed)
    BY <1>2, <1>9, <1>10, TotalBorrowingPosts DEF m5
  <2>2. m4.pure = a.pure
    BY <1>1, <1>3 DEF Moves
  <2> QED BY <2>1, <2>2 DEF Posts
<1>12. Moves(a, m5, Only(p.cl, paid - fees.funding))
  BY <1>1, <1>2, <1>3, <1>10, TotalBorrowingMoves DEF m5
<1>13. Moves(a, r.m, Only(p.cl, paid - fees.funding))
  <2>1. Moves(a, m6, Only(p.cl, paid - fees.funding))
    BY <1>1, <1>12, InterestMoves DEF m6
  <2> QED BY <1>8, <2>1, MovesCheck
<1>14. Moves(m5, r.m, NoTokens)
  <2>1. Moves(m5, m6, NoTokens)
    BY <1>1, MovesNothing, InterestMoves DEF m6
  <2> QED BY <1>8, <2>1, MovesCheck
<1>15. q.size = p.size + delta
  <2> DEFINE f == SettleFunding(m5, p)
             c == CumulativeBorrowing(m5, p)
  <2>1. f \in PositionStates /\ f.size = p.size
    BY <1>1, <1>11, SettledFields
  <2>2. q = [f EXCEPT !.collateral = @ + change, !.size = @ + delta,
                      !.tokens = @ + tokens, !.borrowing = c]
    BY DEF q, Raised
  <2> HIDE DEF f, c
  <2> QED BY <2>1, <2>2 DEF PositionStates
<1>16. ASSUME ~a.pure PROVE SettledAt(r.m, q)
  <2>1. SettledAt(m5, q) /\ Whole(m5)
    BY <1>1, <1>11, <1>16, RaisedSettled, SoundWhole DEF q
  <2>2. q.long = p.long /\ q.cl = p.cl
    <3> DEFINE f == SettleFunding(m5, p)
               c == CumulativeBorrowing(m5, p)
    <3>1. f \in PositionStates /\ f.long = p.long /\ f.cl = p.cl
      BY <1>1, <1>11, SettledFields
    <3>2. q = [f EXCEPT !.collateral = @ + change, !.size = @ + delta,
                        !.tokens = @ + tokens, !.borrowing = c]
      BY DEF q, Raised
    <3> HIDE DEF f, c
    <3> QED BY <3>1, <3>2 DEF PositionStates
  <2> QED BY <1>1, <1>14, <2>1, <2>2, SettledStays
<1> QED BY <1>8, <1>13, <1>15, <1>16

LEMMA IncreaseMoves ==
  ASSUME NEW a, Sound(a), NEW x \in Oracles, NEW p, Fits(a, p), p.size = 0 => p.tokens = 0,
         NEW paid \in Int, NEW delta \in Nat,
         NEW r, r = Increase(a, x, p, paid, delta), r.m.ok,
         NEW q, q = InitIfEmpty(a, p)
  PROVE  /\ Moves(a, r.m, Only(p.cl, paid - FundingFee(a, q)))
         /\ r.claim = [s \in BOOLEAN |-> FundingClaim(a, q, s)]
         /\ Settleable(a, q) /\ r.p.size = p.size + delta
         /\ ~a.pure => SettledAt(r.m, r.p)
<1> DEFINE impact == IncreaseImpact(a, x, p, delta)
           tokens == IncreaseTokens(x, q, delta, impact)
           fees == PositionFees(a, x, q, delta, impact > 0, FALSE)
<1>1. IsMarket(a) /\ p \in PositionStates /\ ~Refused(a).ok
  BY RefusedNotOk DEF Sound, Fits
<1>2. ValidPrices(x) /\ r = IncreasePriced(a, x, q, paid, delta, impact)
  <2>1. ASSUME ~ValidPrices(x) PROVE FALSE
    <3>1. r = [m |-> Refused(a), p |-> p, claim |-> [s \in BOOLEAN |-> 0]]
      BY <2>1 DEF Increase
    <3> QED BY <1>1, <3>1
  <2> QED BY <2>1 DEF Increase
<1>3. /\ q \in PositionStates /\ q.long = p.long /\ q.cl = p.cl /\ q.size = p.size
      /\ q.tokens = p.tokens /\ q.collateral = p.collateral /\ q.borrowing = p.borrowing
  BY <1>1, InitIfEmptyFields
<1>4. impact \in Int
  BY <1>1, <1>2, IncreaseInt
<1> HIDE DEF impact
<1>5. tokens \in Int /\ ImpactAmount(x, impact) \in Int
  BY <1>2, <1>3, <1>4, IncreaseInt
<1>6. fees.receiver \in Int /\ fees.pool \in Int /\ fees.funding \in Int
  BY <1>2, <1>3, FeesInt
<1>7. fees.funding = FundingFee(a, q) /\ fees.claim = [s \in BOOLEAN |-> FundingClaim(a, q, s)]
  BY DEF PositionFees
<1>8. Settleable(a, q) /\ r = IncreaseAt(a, x, q, paid, delta, impact, tokens, fees)
  <2>1. ASSUME ~Settleable(a, q) PROVE FALSE
    <3>1. r = [m |-> Refused(a), p |-> q, claim |-> [s \in BOOLEAN |-> 0]]
      BY <1>2, <2>1 DEF IncreasePriced
    <3> QED BY <1>1, <3>1
  <2> QED BY <1>2, <2>1 DEF IncreasePriced
<1> HIDE DEF tokens, fees
<1>9. Fits(a, q)
  BY <1>3 DEF Fits
<1>10. /\ Moves(a, r.m, Only(q.cl, paid - fees.funding))
       /\ r.claim = fees.claim /\ r.p.size = q.size + delta
       /\ ~a.pure => SettledAt(r.m, r.p)
  BY <1>5, <1>6, <1>8, <1>9, IncreaseAtMoves
<1> QED BY <1>3, <1>7, <1>8, <1>10

-----------------------------------------------------------------------------
(* The collateral processor only moves amounts: what the position brought  *)
(* in, less the funding fee charged, is in its output and its collateral,  *)
(* held or owed to the user, or booked to the market.                      *)
InCollateral(st, p, fee) ==
  p.collateral - fee + st.unpaid + st.waived - st.out - st.user[TRUE] - st.col
InProfit(st) == 0 - (st.sec + st.holding + st.user[FALSE])

Accounted(a, st, p, fee) ==
  /\ Processing(a, st)
  /\ st.holding \in Int /\ st.user \in TokenAmounts /\ st.unpaid \in Int /\ st.waived \in Int
  /\ Moves(a, st.m, Plus(Only(p.cl, InCollateral(st, p, fee)), Only(p.long, InProfit(st))))

LEMMA AccountedInt ==
  ASSUME NEW a, NEW st, NEW p \in PositionStates, NEW fee \in Int, Processing(a, st),
         st.holding \in Int, st.user \in TokenAmounts, st.unpaid \in Int, st.waived \in Int
  PROVE  InCollateral(st, p, fee) \in Int /\ InProfit(st) \in Int
<1>1. st.user[TRUE] \in Int /\ st.user[FALSE] \in Int
  BY DEF TokenAmounts
<1>2. st.out \in Int /\ st.sec \in Int /\ st.col \in Int /\ p.collateral \in Int
  BY PositionFields, NatInt DEF Processing
<1> DEFINE u == st.user[TRUE]
           v == st.user[FALSE]
<1>3. u \in Int /\ v \in Int
  BY <1>1
<1>4. /\ InCollateral(st, p, fee) = p.collateral - fee + st.unpaid + st.waived - st.out - u - st.col
      /\ InProfit(st) = 0 - (st.sec + st.holding + v)
  BY DEF InCollateral, InProfit
<1> HIDE DEF u, v
<1> QED BY <1>2, <1>3, <1>4

LEMMA AccountedStep ==
  ASSUME NEW a, NEW st, NEW p \in PositionStates, NEW fee \in Int, Accounted(a, st, p, fee),
         NEW s2, Processing(a, s2), NEW fee2 \in Int,
         s2.holding \in Int, s2.user \in TokenAmounts, s2.unpaid \in Int, s2.waived \in Int,
         NEW i \in Int, NEW j \in Int, Moves(st.m, s2.m, Plus(Only(p.cl, i), Only(p.long, j))),
         InCollateral(s2, p, fee2) = InCollateral(st, p, fee) + i,
         InProfit(s2) = InProfit(st) + j
  PROVE  Accounted(a, s2, p, fee2)
<1>1. p.long \in BOOLEAN /\ p.cl \in BOOLEAN
  BY PositionFields
<1> DEFINE k == InCollateral(st, p, fee)
           l == InProfit(st)
           k2 == InCollateral(s2, p, fee2)
           l2 == InProfit(s2)
           d == Plus(Only(p.cl, k), Only(p.long, l))
           e == Plus(Only(p.cl, i), Only(p.long, j))
<1>2. k \in Int /\ l \in Int /\ k2 = k + i /\ l2 = l + j
  BY AccountedInt DEF Accounted
<1>3. Moves(a, st.m, d)
  BY DEF Accounted
<1> HIDE DEF k, l, k2, l2
<1>4. d \in TokenAmounts /\ e \in TokenAmounts
  BY <1>1, <1>2, TokenAmountTypes
<1>5. Moves(a, s2.m, Plus(d, e))
  BY <1>3, <1>4, MovesTransitive
<1>6. ASSUME NEW t \in BOOLEAN
      PROVE  Plus(Only(p.cl, k2), Only(p.long, l2))[t] = Plus(d, e)[t]
  <2>1. Plus(d, e)[t] = (Only(p.cl, k)[t] + Only(p.long, l)[t]) + (Only(p.cl, i)[t] + Only(p.long, j)[t])
    BY PlusAt
  <2>2. Plus(Only(p.cl, k2), Only(p.long, l2))[t] = Only(p.cl, k2)[t] + Only(p.long, l2)[t]
    BY PlusAt
  <2>3. \A n : Only(p.cl, n)[t] = (IF t = p.cl THEN n ELSE 0)
               /\ Only(p.long, n)[t] = (IF t = p.long THEN n ELSE 0)
    BY <1>1, OnlyAt
  <2> HIDE DEF d, e
  <2> QED BY <1>2, <2>1, <2>2, <2>3
<1>7. Moves(a, s2.m, Plus(Only(p.cl, k2), Only(p.long, l2)))
  <2> HIDE DEF d, e
  <2> QED BY <1>5, <1>6, MovesEqual
<1> QED BY <1>7 DEF Accounted, k2, l2

LEMMA AmountsRecord ==
  \A a, st, i, c, j, short :
    Processing(a, st) =>
      WithAmounts(st, i, c, j, short) =
        [m |-> st.m, out |-> i, sec |-> j, col |-> c, holding |-> st.holding,
         user |-> st.user, unpaid |-> st.unpaid, waived |-> st.waived, short |-> short]
<1> SUFFICES ASSUME NEW a, NEW st, NEW i, NEW c, NEW j, NEW short, Processing(a, st)
             PROVE  WithAmounts(st, i, c, j, short) =
        [m |-> st.m, out |-> i, sec |-> j, col |-> c, holding |-> st.holding,
         user |-> st.user, unpaid |-> st.unpaid, waived |-> st.waived, short |-> short]
  OBVIOUS
<1> DEFINE s1 == [st EXCEPT !.out = i]
           s2 == [s1 EXCEPT !.col = c]
           s3 == [s2 EXCEPT !.sec = j]
           s4 == [s3 EXCEPT !.short = short]
<1>1. s1 = [m |-> st.m, out |-> i, sec |-> st.sec, col |-> st.col, holding |-> st.holding,
            user |-> st.user, unpaid |-> st.unpaid, waived |-> st.waived, short |-> st.short]
  BY DEF Processing
<1> HIDE DEF s1
<1>2. s2 = [m |-> st.m, out |-> i, sec |-> st.sec, col |-> c, holding |-> st.holding,
            user |-> st.user, unpaid |-> st.unpaid, waived |-> st.waived, short |-> st.short]
  BY <1>1
<1> HIDE DEF s2
<1>3. s3 = [m |-> st.m, out |-> i, sec |-> j, col |-> c, holding |-> st.holding,
            user |-> st.user, unpaid |-> st.unpaid, waived |-> st.waived, short |-> st.short]
  BY <1>2
<1> HIDE DEF s3
<1>4. s4 = [m |-> st.m, out |-> i, sec |-> j, col |-> c, holding |-> st.holding,
            user |-> st.user, unpaid |-> st.unpaid, waived |-> st.waived, short |-> short]
  BY <1>3
<1> HIDE DEF s4
<1> QED BY <1>4 DEF s1, s2, s3, s4, WithAmounts

LEMMA PayForCostPays ==
  ASSUME NEW a, NEW st, Processing(a, st), NEW x \in Oracles, ValidPrices(x),
         NEW p \in PositionStates, NEW cost \in Int, NEW r, r = PayForCost(st, x, p, cost)
  PROVE  /\ r.st.holding = st.holding /\ r.st.user = st.user
         /\ r.st.unpaid = st.unpaid /\ r.st.waived = st.waived
         /\ r.st.out + r.st.col + r.paid = st.out + st.col
         /\ r.st.sec + r.paidSec = st.sec
         /\ r.st.out + r.st.col = st.out + st.col - r.paid
         /\ r.paid <= CeilDiv(cost, CollateralPrice(x, p).min)
<1> DEFINE price == CollateralPrice(x, p).min
           pnlPrice == TokenPrice(x, p.long).min
           need == CeilDiv(cost, price)
           fromOut == Least(st.out, need)
           rest == need - fromOut
           fromCol == Least(st.col, rest)
           last == rest - fromCol
           secNeed == MulDiv(last, price, pnlPrice)
           fromSec == Least(st.sec, secNeed)
<1>1. price \in Nat \ {0} /\ pnlPrice \in Nat \ {0}
  BY CollateralPrices
<1>2. st.out \in Int /\ st.sec \in Int /\ st.col \in Int
  BY DEF Processing
<1> HIDE DEF price, pnlPrice
<1>3. need \in Int
  BY <1>1, DivisionInt
<1> HIDE DEF need
<1>4. fromOut \in Int
  BY <1>2, <1>3, LeastInt
<1> HIDE DEF fromOut
<1>5. rest \in Int /\ rest = need - fromOut
  BY <1>3, <1>4
<1> HIDE DEF rest
<1>6. fromCol \in Int /\ fromCol <= rest
  BY <1>2, <1>5, LeastInt DEF Least
<1> HIDE DEF fromCol
<1>7. last \in Int
  BY <1>5, <1>6
<1> HIDE DEF last
<1>8. secNeed \in Int
  BY <1>1, <1>7, MulDivInt, NatInt
<1> HIDE DEF secNeed
<1>9. fromSec \in Int
  BY <1>2, <1>8, LeastInt
<1> HIDE DEF fromSec
<1> DEFINE i == st.out - fromOut
           c == st.col - fromCol
           j == st.sec - fromSec
           short == fromSec < secNeed
           next == WithAmounts(st, i, c, j, short)
<1>10. r = [st |-> next, paid |-> fromOut + fromCol, paidSec |-> fromSec]
  BY DEF PayForCost, WithAmounts, price, pnlPrice, need, fromOut, rest, fromCol, last, secNeed, fromSec
<1>11. i \in Int /\ c \in Int /\ j \in Int
  BY <1>2, <1>4, <1>6, <1>9, IntOps
<1>12. i + fromOut = st.out /\ c + fromCol = st.col /\ j + fromSec = st.sec
  BY <1>2, <1>4, <1>6, <1>9
<1> HIDE DEF i, c, j, short
<1>13. next = [m |-> st.m, out |-> i, sec |-> j, col |-> c, holding |-> st.holding,
               user |-> st.user, unpaid |-> st.unpaid, waived |-> st.waived, short |-> short]
  BY AmountsRecord
<1> HIDE DEF next
<1>14. /\ r.st = next /\ r.paid = fromOut + fromCol /\ r.paidSec = fromSec
  BY <1>10
<1>15. /\ r.st.holding = st.holding /\ r.st.user = st.user
       /\ r.st.unpaid = st.unpaid /\ r.st.waived = st.waived
       /\ r.st.out = i /\ r.st.col = c /\ r.st.sec = j
  BY <1>13, <1>14
<1>16. r.st.out + r.st.col + r.paid = st.out + st.col /\ r.st.sec + r.paidSec = st.sec
  BY <1>2, <1>4, <1>6, <1>9, <1>11, <1>12, <1>14, <1>15
<1>17. r.paid <= need
  BY <1>3, <1>4, <1>5, <1>6, <1>14
<1>18. r.st.out + r.st.col = st.out + st.col - r.paid
  BY <1>2, <1>4, <1>6, <1>9, <1>11, <1>12, <1>14, <1>15
<1> QED BY <1>15, <1>16, <1>17, <1>18 DEF need, price

LEMMA CashRearranged ==
  \A c, fee, unpaid, waived, out, u, col \in Int :
    c - fee + unpaid + waived - out - u - col = (c - u) - (out + col - unpaid - waived + fee)
OBVIOUS

\* A step that owes the user nothing new.
LEMMA AccountedSameUser ==
  ASSUME NEW a, NEW st, NEW p \in PositionStates, NEW fee \in Int, Accounted(a, st, p, fee),
         NEW s2, Processing(a, s2), NEW fee2 \in Int, s2.user = st.user,
         s2.holding \in Int, s2.unpaid \in Int, s2.waived \in Int,
         NEW i \in Int, NEW j \in Int, Moves(st.m, s2.m, Plus(Only(p.cl, i), Only(p.long, j))),
         s2.out + s2.col - s2.unpaid - s2.waived + fee2 + i = st.out + st.col - st.unpaid - st.waived + fee,
         s2.sec + s2.holding + j = st.sec + st.holding
  PROVE  Accounted(a, s2, p, fee2)
<1>1. /\ st.holding \in Int /\ st.user \in TokenAmounts /\ st.unpaid \in Int /\ st.waived \in Int
      /\ st.out \in Int /\ st.sec \in Int /\ st.col \in Int
      /\ s2.out \in Int /\ s2.sec \in Int /\ s2.col \in Int /\ p.collateral \in Int
  BY PositionFields, NatInt DEF Accounted, Processing
<1> DEFINE u == st.user[TRUE]
           v == st.user[FALSE]
<1>2. u \in Int /\ v \in Int
  BY <1>1 DEF TokenAmounts
<1>3. /\ InCollateral(st, p, fee) = p.collateral - fee + st.unpaid + st.waived - st.out - u - st.col
      /\ InProfit(st) = 0 - (st.sec + st.holding + v)
      /\ InCollateral(s2, p, fee2) = p.collateral - fee2 + s2.unpaid + s2.waived - s2.out - u - s2.col
      /\ InProfit(s2) = 0 - (s2.sec + s2.holding + v)
  BY DEF InCollateral, InProfit
<1> HIDE DEF u, v
<1>4. InCollateral(s2, p, fee2) = InCollateral(st, p, fee) + i
  <2> DEFINE held == st.out + st.col - st.unpaid - st.waived + fee
             held2 == s2.out + s2.col - s2.unpaid - s2.waived + fee2
             rest == p.collateral - u
  <2>1. InCollateral(st, p, fee) = rest - held
    BY <1>1, <1>2, <1>3, CashRearranged
  <2>2. InCollateral(s2, p, fee2) = rest - held2
    BY <1>1, <1>2, <1>3, CashRearranged
  <2>3. held \in Int /\ held2 \in Int /\ rest \in Int /\ held2 + i = held
    BY <1>1, <1>2
  <2> HIDE DEF held, held2, rest
  <2> QED BY <2>1, <2>2, <2>3
<1>5. InProfit(s2) = InProfit(st) + j
  BY <1>1, <1>2, <1>3
<1> QED BY <1>1, <1>4, <1>5, AccountedStep

LEMMA MovesBoth ==
  ASSUME NEW a, NEW k \in BackingPools, NEW l \in BackingPools, NEW s \in BOOLEAN, NEW u \in BOOLEAN,
         NEW i \in Int, NEW j \in Int
  PROVE  Moves(a, ApplyDelta(ApplyDelta(a, k, s, i), l, u, j), Plus(Only(s, i), Only(u, j)))
<1> DEFINE b == ApplyDelta(a, k, s, i)
           c == ApplyDelta(b, l, u, j)
           d1 == Plus(NoTokens, Only(s, i))
           d2 == Plus(d1, Only(u, j))
<1>1. Moves(a, b, d1) /\ d1 \in TokenAmounts
  BY MovesNothing, MovesToken, TokenAmountTypes
<1> HIDE DEF b
<1>2. Moves(a, c, d2)
  <2> HIDE DEF d1
  <2> QED BY <1>1, MovesToken
<1>3. ASSUME NEW t \in BOOLEAN PROVE Plus(Only(s, i), Only(u, j))[t] = d2[t]
  <2>1. d2[t] = (NoTokens[t] + Only(s, i)[t]) + Only(u, j)[t]
    BY PlusAt
  <2>2. Plus(Only(s, i), Only(u, j))[t] = Only(s, i)[t] + Only(u, j)[t]
    BY PlusAt
  <2>3. NoTokens[t] = 0 /\ Only(s, i)[t] = (IF t = s THEN i ELSE 0)
    BY OnlyAt
  <2> HIDE DEF d2
  <2> QED BY <2>1, <2>2, <2>3
<1> HIDE DEF c, d2
<1>4. Moves(a, c, Plus(Only(s, i), Only(u, j)))
  BY <1>2, <1>3, MovesEqual
<1> QED BY <1>4 DEF b, c

LEMMA MovesNoSide ==
  ASSUME NEW a, NEW b, Moves(a, b, NoTokens), NEW s \in BOOLEAN, NEW u \in BOOLEAN
  PROVE  Moves(a, b, Plus(Only(s, 0), Only(u, 0)))
<1>1. ASSUME NEW t \in BOOLEAN PROVE Plus(Only(s, 0), Only(u, 0))[t] = NoTokens[t]
  <2>1. Plus(Only(s, 0), Only(u, 0))[t] = Only(s, 0)[t] + Only(u, 0)[t]
    BY PlusAt
  <2>2. Only(s, 0)[t] = 0 /\ Only(u, 0)[t] = 0 /\ NoTokens[t] = 0
    BY OnlyAt
  <2> QED BY <2>1, <2>2
<1> QED BY <1>1, MovesEqual

LEMMA MarketFields ==
  \A a, st, n : Processing(a, st) /\ Keeps(a, n) =>
    /\ Processing(a, [st EXCEPT !.m = n])
    /\ [st EXCEPT !.m = n].m = n /\ [st EXCEPT !.m = n].out = st.out
    /\ [st EXCEPT !.m = n].sec = st.sec /\ [st EXCEPT !.m = n].col = st.col
    /\ [st EXCEPT !.m = n].holding = st.holding /\ [st EXCEPT !.m = n].user = st.user
    /\ [st EXCEPT !.m = n].unpaid = st.unpaid /\ [st EXCEPT !.m = n].waived = st.waived
    /\ [st EXCEPT !.m = n].short = st.short
<1> SUFFICES ASSUME NEW a, NEW st, NEW n, Processing(a, st), Keeps(a, n), NEW q, q = [st EXCEPT !.m = n]
             PROVE  /\ Processing(a, q) /\ q.m = n /\ q.out = st.out
                    /\ q.sec = st.sec /\ q.col = st.col /\ q.holding = st.holding /\ q.user = st.user
                    /\ q.unpaid = st.unpaid /\ q.waived = st.waived /\ q.short = st.short
  OBVIOUS
<1>1. q = [m |-> n, out |-> st.out, sec |-> st.sec, col |-> st.col, holding |-> st.holding,
           user |-> st.user, unpaid |-> st.unpaid, waived |-> st.waived, short |-> st.short]
  BY DEF Processing
<1> QED BY <1>1, ProcessMarket

\* What is paid from the output, the collateral and the profit goes to the liquidity.
LEMMA PrimaryAccounted ==
  ASSUME NEW a, NEW st, NEW p \in PositionStates, NEW fee \in Int, Accounted(a, st, p, fee),
         NEW x \in Oracles, ValidPrices(x), NEW cost \in Int,
         NEW r, r = PayForCost(st, x, p, cost)
  PROVE  Accounted(a, PayToPrimary(r.st, p, r.paid, r.paidSec), p, fee)
<1>1. p.long \in BOOLEAN /\ p.cl \in BOOLEAN
  BY PositionFields
<1>2. Processing(a, r.st) /\ r.st.m = st.m /\ r.paid \in Int /\ r.paidSec \in Int
  BY PayForCostInt DEF Accounted
<1>3. /\ r.st.holding = st.holding /\ r.st.user = st.user
      /\ r.st.unpaid = st.unpaid /\ r.st.waived = st.waived
      /\ r.st.out + r.st.col + r.paid = st.out + st.col
      /\ r.st.sec + r.paidSec = st.sec
  BY PayForCostPays DEF Accounted
<1> DEFINE n == ApplyDelta(ApplyDelta(st.m, Primary, p.cl, r.paid), Primary, p.long, r.paidSec)
           s2 == [r.st EXCEPT !.m = n]
<1>4. Keeps(a, n)
  BY <1>1, LiquidityDelta, LiquidityNames DEF Processing, Accounted
<1>5. Moves(st.m, n, Plus(Only(p.cl, r.paid), Only(p.long, r.paidSec)))
  BY <1>1, <1>2, MovesBoth, BackingNames
<1>6. PayToPrimary(r.st, p, r.paid, r.paidSec) = s2
  BY <1>2 DEF PayToPrimary
<1> HIDE DEF n
<1>7. /\ Processing(a, s2) /\ s2.m = n /\ s2.out = r.st.out /\ s2.sec = r.st.sec /\ s2.col = r.st.col
      /\ s2.holding = st.holding /\ s2.user = st.user /\ s2.unpaid = st.unpaid /\ s2.waived = st.waived
  BY <1>2, <1>3, <1>4, MarketFields
<1> HIDE DEF s2
<1>8. /\ st.holding \in Int /\ st.unpaid \in Int /\ st.waived \in Int
      /\ st.out \in Int /\ st.sec \in Int /\ st.col \in Int
      /\ s2.out \in Int /\ s2.sec \in Int /\ s2.col \in Int
  BY <1>7 DEF Accounted, Processing
<1>9. /\ s2.out + s2.col - s2.unpaid - s2.waived + fee + r.paid = st.out + st.col - st.unpaid - st.waived + fee
      /\ s2.sec + s2.holding + r.paidSec = st.sec + st.holding
  <2>1. \A i, c, k, l, b, j, o, w \in Int : i + c + b = j + o =>
           i + c - k - l + w + b = j + o - k - l + w
    OBVIOUS
  <2>2. \A i, b, j, k \in Int : i + b = j => i + k + b = j + k
    OBVIOUS
  <2>3. s2.out + s2.col + r.paid = st.out + st.col /\ s2.sec + r.paidSec = st.sec
    BY <1>3, <1>7
  <2>4. s2.unpaid = st.unpaid /\ s2.waived = st.waived /\ s2.holding = st.holding
    BY <1>7
  <2>5. s2.out + s2.col - st.unpaid - st.waived + fee + r.paid
          = st.out + st.col - st.unpaid - st.waived + fee
    BY <1>2, <1>8, <2>1, <2>3
  <2>6. s2.sec + st.holding + r.paidSec = st.sec + st.holding
    BY <1>2, <1>8, <2>2, <2>3
  <2> QED BY <2>4, <2>5, <2>6
<1>10. Accounted(a, s2, p, fee)
  BY <1>2, <1>5, <1>7, <1>8, <1>9, AccountedSameUser
<1> QED BY <1>6, <1>10

LEMMA OutputFields ==
  ASSUME NEW a, NEW st, Processing(a, st), NEW v \in Int, NEW q, q = [st EXCEPT !.out = v]
  PROVE  /\ Processing(a, q) /\ q.m = st.m /\ q.out = v /\ q.sec = st.sec
         /\ q.col = st.col /\ q.holding = st.holding /\ q.user = st.user
         /\ q.unpaid = st.unpaid /\ q.waived = st.waived /\ q.short = st.short
<1>1. q = [m |-> st.m, out |-> v, sec |-> st.sec, col |-> st.col,
           holding |-> st.holding, user |-> st.user, unpaid |-> st.unpaid, waived |-> st.waived, short |-> st.short]
  BY DEF Processing
<1>2. Processing(a, q)
  BY ProcessFields
<1> QED BY <1>1, <1>2

LEMMA ProfitFields ==
  ASSUME NEW a, NEW st, Processing(a, st), NEW v \in Int, NEW q, q = [st EXCEPT !.sec = v]
  PROVE  /\ Processing(a, q) /\ q.m = st.m /\ q.out = st.out /\ q.sec = v
         /\ q.col = st.col /\ q.holding = st.holding /\ q.user = st.user
         /\ q.unpaid = st.unpaid /\ q.waived = st.waived /\ q.short = st.short
<1>1. q = [m |-> st.m, out |-> st.out, sec |-> v, col |-> st.col,
           holding |-> st.holding, user |-> st.user, unpaid |-> st.unpaid, waived |-> st.waived, short |-> st.short]
  BY DEF Processing
<1>2. Processing(a, q)
  BY ProcessFields
<1> QED BY <1>1, <1>2

LEMMA CollateralFields ==
  ASSUME NEW a, NEW st, Processing(a, st), NEW v \in Int, NEW q, q = [st EXCEPT !.col = v]
  PROVE  /\ Processing(a, q) /\ q.m = st.m /\ q.out = st.out /\ q.sec = st.sec
         /\ q.col = v /\ q.holding = st.holding /\ q.user = st.user
         /\ q.unpaid = st.unpaid /\ q.waived = st.waived /\ q.short = st.short
<1>1. q = [m |-> st.m, out |-> st.out, sec |-> st.sec, col |-> v,
           holding |-> st.holding, user |-> st.user, unpaid |-> st.unpaid, waived |-> st.waived, short |-> st.short]
  BY DEF Processing
<1>2. Processing(a, q)
  BY ProcessFields
<1> QED BY <1>1, <1>2

LEMMA HoldingFields ==
  ASSUME NEW a, NEW st, Processing(a, st), NEW v, NEW q, q = [st EXCEPT !.holding = v]
  PROVE  /\ Processing(a, q) /\ q.m = st.m /\ q.out = st.out /\ q.sec = st.sec
         /\ q.col = st.col /\ q.holding = v /\ q.user = st.user
         /\ q.unpaid = st.unpaid /\ q.waived = st.waived /\ q.short = st.short
<1>1. q = [m |-> st.m, out |-> st.out, sec |-> st.sec, col |-> st.col,
           holding |-> v, user |-> st.user, unpaid |-> st.unpaid, waived |-> st.waived, short |-> st.short]
  BY DEF Processing
<1>2. Processing(a, q)
  BY ProcessFields
<1> QED BY <1>1, <1>2

LEMMA UserFields ==
  ASSUME NEW a, NEW st, Processing(a, st), NEW v, NEW q, q = [st EXCEPT !.user = v]
  PROVE  /\ Processing(a, q) /\ q.m = st.m /\ q.out = st.out /\ q.sec = st.sec
         /\ q.col = st.col /\ q.holding = st.holding /\ q.user = v
         /\ q.unpaid = st.unpaid /\ q.waived = st.waived /\ q.short = st.short
<1>1. q = [m |-> st.m, out |-> st.out, sec |-> st.sec, col |-> st.col,
           holding |-> st.holding, user |-> v, unpaid |-> st.unpaid, waived |-> st.waived, short |-> st.short]
  BY DEF Processing
<1>2. Processing(a, q)
  BY ProcessFields
<1> QED BY <1>1, <1>2

LEMMA UnpaidFields ==
  ASSUME NEW a, NEW st, Processing(a, st), NEW v, NEW q, q = [st EXCEPT !.unpaid = v]
  PROVE  /\ Processing(a, q) /\ q.m = st.m /\ q.out = st.out /\ q.sec = st.sec
         /\ q.col = st.col /\ q.holding = st.holding /\ q.user = st.user
         /\ q.unpaid = v /\ q.waived = st.waived /\ q.short = st.short
<1>1. q = [m |-> st.m, out |-> st.out, sec |-> st.sec, col |-> st.col,
           holding |-> st.holding, user |-> st.user, unpaid |-> v, waived |-> st.waived, short |-> st.short]
  BY DEF Processing
<1>2. Processing(a, q)
  BY ProcessFields
<1> QED BY <1>1, <1>2

LEMMA WaivedFields ==
  ASSUME NEW a, NEW st, Processing(a, st), NEW v, NEW q, q = [st EXCEPT !.waived = v]
  PROVE  /\ Processing(a, q) /\ q.m = st.m /\ q.out = st.out /\ q.sec = st.sec
         /\ q.col = st.col /\ q.holding = st.holding /\ q.user = st.user
         /\ q.unpaid = st.unpaid /\ q.waived = v /\ q.short = st.short
<1>1. q = [m |-> st.m, out |-> st.out, sec |-> st.sec, col |-> st.col,
           holding |-> st.holding, user |-> st.user, unpaid |-> st.unpaid, waived |-> v, short |-> st.short]
  BY DEF Processing
<1>2. Processing(a, q)
  BY ProcessFields
<1> QED BY <1>1, <1>2

\* The profit of a position is taken from the liquidity of its side.
LEMMA AddProfitAccounted ==
  ASSUME NEW a, IsMarket(a), ~a.pure, NEW st, NEW p \in PositionStates, NEW fee \in Int,
         Accounted(a, st, p, fee), NEW x \in Oracles, ValidPrices(x), NEW usd \in Int,
         NEW s2, s2 = AddProfit(st, x, p, usd)
  PROVE  Accounted(a, s2, p, fee) /\ s2.unpaid = st.unpaid /\ s2.waived = st.waived
<1>1. p.long \in BOOLEAN /\ p.cl \in BOOLEAN /\ TokenPrice(x, p.long).max \in Nat \ {0}
  BY PositionFields, CollateralPrices
<1> DEFINE amount == usd \div TokenPrice(x, p.long).max
           n == ApplyDelta(st.m, Primary, p.long, -amount)
           taken == [st EXCEPT !.m = n]
<1>2. amount \in Int /\ -amount \in Int
  <2>1. amount \in Int
    BY <1>1, DivisionInt
  <2> HIDE DEF amount
  <2> QED BY <2>1
<1> HIDE DEF amount
<1>3. Keeps(a, n)
  BY <1>1, LiquidityDelta, LiquidityNames DEF Processing, Accounted
<1>4. Moves(st.m, n, Plus(NoTokens, Only(p.long, -amount)))
  BY <1>1, <1>2, MovesNothing, MovesToken, BackingNames, TokenAmountTypes
<1> HIDE DEF n
<1>5. /\ Processing(a, taken) /\ taken.m = n /\ taken.out = st.out /\ taken.sec = st.sec
      /\ taken.col = st.col /\ taken.holding = st.holding /\ taken.user = st.user
      /\ taken.unpaid = st.unpaid /\ taken.waived = st.waived
  BY <1>3, MarketFields DEF Accounted
<1> DEFINE i == taken.out + amount
           j == taken.sec + amount
<1>6. s2 = IF PnlTokenIsCollateral(st.m, p) THEN [taken EXCEPT !.out = i]
           ELSE [taken EXCEPT !.sec = j]
  BY DEF AddProfit, amount, n, taken
<1> HIDE DEF taken
<1>7. /\ st.holding \in Int /\ st.unpaid \in Int /\ st.waived \in Int
      /\ st.out \in Int /\ st.sec \in Int /\ st.col \in Int
  BY DEF Accounted, Processing
<1>8. /\ i \in Int /\ j \in Int /\ i - amount = st.out /\ j - amount = st.sec
  BY <1>2, <1>5, <1>7
<1> HIDE DEF i, j
<1>9. PnlTokenIsCollateral(st.m, p) = (p.long = p.cl)
  BY DEF PnlTokenIsCollateral, Accounted, Moves
<1>10. CASE p.long = p.cl
  <2>1. s2 = [taken EXCEPT !.out = i]
    BY <1>6, <1>9, <1>10
  <2>2. /\ Processing(a, s2) /\ s2.m = n /\ s2.out = i /\ s2.sec = st.sec
        /\ s2.col = st.col /\ s2.holding = st.holding /\ s2.user = st.user
        /\ s2.unpaid = st.unpaid /\ s2.waived = st.waived
    BY <1>5, <1>8, <2>1, OutputFields
  <2>3. Moves(st.m, s2.m, Plus(Only(p.cl, -amount), Only(p.long, 0)))
    <3>1. ASSUME NEW t \in BOOLEAN
          PROVE  Plus(Only(p.cl, -amount), Only(p.long, 0))[t] = Plus(NoTokens, Only(p.long, -amount))[t]
      <4>1. /\ Plus(Only(p.cl, -amount), Only(p.long, 0))[t] = Only(p.cl, -amount)[t] + Only(p.long, 0)[t]
            /\ Plus(NoTokens, Only(p.long, -amount))[t] = NoTokens[t] + Only(p.long, -amount)[t]
        BY PlusAt
      <4>2. /\ Only(p.long, 0)[t] = 0 /\ NoTokens[t] = 0
            /\ Only(p.long, -amount)[t] = (IF t = p.long THEN -amount ELSE 0)
        BY <1>1, OnlyAt
      <4> QED BY <1>2, <1>10, <4>1, <4>2
    <3> QED BY <1>4, <2>2, <3>1, MovesEqual
  <2>4. s2.out + s2.col - s2.unpaid - s2.waived + fee + (-amount) = st.out + st.col - st.unpaid - st.waived + fee
    BY <1>2, <1>7, <1>8, <2>2
  <2>5. s2.sec + s2.holding + 0 = st.sec + st.holding
    BY <1>7, <2>2
  <2>6. Accounted(a, s2, p, fee)
    BY <1>2, <1>7, <2>2, <2>3, <2>4, <2>5, AccountedSameUser
  <2> QED BY <2>2, <2>6
<1>11. CASE p.long # p.cl
  <2>1. s2 = [taken EXCEPT !.sec = j]
    BY <1>6, <1>9, <1>11
  <2>2. /\ Processing(a, s2) /\ s2.m = n /\ s2.out = st.out /\ s2.sec = j
        /\ s2.col = st.col /\ s2.holding = st.holding /\ s2.user = st.user
        /\ s2.unpaid = st.unpaid /\ s2.waived = st.waived
    BY <1>5, <1>8, <2>1, ProfitFields
  <2>3. Moves(st.m, s2.m, Plus(Only(p.cl, 0), Only(p.long, -amount)))
    <3>1. ASSUME NEW t \in BOOLEAN
          PROVE  Plus(Only(p.cl, 0), Only(p.long, -amount))[t] = Plus(NoTokens, Only(p.long, -amount))[t]
      <4>1. /\ Plus(Only(p.cl, 0), Only(p.long, -amount))[t] = Only(p.cl, 0)[t] + Only(p.long, -amount)[t]
            /\ Plus(NoTokens, Only(p.long, -amount))[t] = NoTokens[t] + Only(p.long, -amount)[t]
        BY PlusAt
      <4>2. /\ Only(p.cl, 0)[t] = 0 /\ NoTokens[t] = 0
        BY <1>1, OnlyAt
      <4> QED BY <1>2, <4>1, <4>2
    <3> QED BY <1>4, <2>2, <3>1, MovesEqual
  <2>4. s2.out + s2.col - s2.unpaid - s2.waived + fee + 0 = st.out + st.col - st.unpaid - st.waived + fee
    BY <1>2, <1>7, <1>8, <2>2
  <2>5. s2.sec + s2.holding + (-amount) = st.sec + st.holding
    BY <1>2, <1>7, <1>8, <2>2
  <2>6. Accounted(a, s2, p, fee)
    BY <1>2, <1>7, <2>2, <2>3, <2>4, <2>5, AccountedSameUser
  <2> QED BY <2>2, <2>6
<1> QED BY <1>10, <1>11

LEMMA AddPnlAccounted ==
  ASSUME NEW a, IsMarket(a), ~a.pure, NEW st, NEW p \in PositionStates, NEW fee \in Int,
         Accounted(a, st, p, fee), NEW x \in Oracles, ValidPrices(x), NEW pnl \in Int,
         NEW s2, s2 = AddPnl(st, x, p, pnl) \/ s2 = AddImpact(st, x, p, pnl)
  PROVE  Accounted(a, s2, p, fee) /\ s2.unpaid = st.unpaid /\ s2.waived = st.waived
<1>1. CASE s2 = AddPnl(st, x, p, pnl)
  BY <1>1, AddProfitAccounted DEF AddPnl
<1>2. CASE s2 = AddImpact(st, x, p, pnl)
  <2> DEFINE c == -CeilDiv(pnl, x.index.min)
             n == ApplyDelta(st.m, PositionImpact, TRUE, c)
             taken == [st EXCEPT !.m = n]
  <2>1. s2 = IF pnl > 0 THEN AddProfit(taken, x, p, pnl) ELSE st
    BY <1>2 DEF AddImpact
  <2>2. c \in Int
    <3>1. x.index.min \in Nat \ {0}
      BY OraclePrices
    <3>2. CeilDiv(pnl, x.index.min) \in Int
      BY <3>1, DivisionInt
    <3> QED BY <3>2
  <2> HIDE DEF c
  <2>3. Keeps(a, n)
    BY LiquidityDelta, LiquidityNames DEF Processing, Accounted
  <2>4. Moves(st.m, n, NoTokens)
    <3>1. TRUE \in BOOLEAN
      OBVIOUS
    <3> QED BY <2>2, <3>1, MovesNothing, MovesOther, OtherNames
  <2> HIDE DEF n
  <2>5. /\ Processing(a, taken) /\ taken.m = n /\ taken.out = st.out /\ taken.sec = st.sec
        /\ taken.col = st.col /\ taken.holding = st.holding /\ taken.user = st.user
        /\ taken.unpaid = st.unpaid /\ taken.waived = st.waived
    BY <2>3, MarketFields DEF Accounted
  <2> HIDE DEF taken
  <2>6. /\ st.holding \in Int /\ st.unpaid \in Int /\ st.waived \in Int
        /\ st.out \in Int /\ st.sec \in Int /\ st.col \in Int
        /\ p.long \in BOOLEAN /\ p.cl \in BOOLEAN
    BY PositionFields DEF Accounted, Processing
  <2>7. Moves(st.m, taken.m, Plus(Only(p.cl, 0), Only(p.long, 0)))
    BY <2>4, <2>5, <2>6, MovesNoSide
  <2>8. /\ taken.out + taken.col - taken.unpaid - taken.waived + fee + 0
             = st.out + st.col - st.unpaid - st.waived + fee
        /\ taken.sec + taken.holding + 0 = st.sec + st.holding
    BY <2>5, <2>6
  <2>9. Accounted(a, taken, p, fee)
    BY <2>5, <2>6, <2>7, <2>8, AccountedSameUser
  <2> QED BY <2>1, <2>5, <2>9, AddProfitAccounted
<1> QED BY <1>1, <1>2

SwapsAcross(p, swap) == p.long = p.cl => swap = "NoSwap"

LEMMA SwapProfitAccounted ==
  ASSUME NEW a, Sound(a), NEW st, NEW p \in PositionStates, NEW fee \in Int,
         Accounted(a, st, p, fee), NEW x \in Oracles, ValidPrices(x), NEW swap,
         SwapsAcross(p, swap),
         NEW s2, s2 = SwapProfit(st, x, p, swap)
  PROVE  Accounted(a, s2, p, fee) /\ s2.unpaid = st.unpaid /\ s2.waived = st.waived
<1> DEFINE r == Swap(st.m, x, p.long, st.sec, SwapFeeParams("Swap"))
           one == [st EXCEPT !.m = r.m]
           i == one.out + r.out
           two == [one EXCEPT !.out = i]
           none == 0
           three == [two EXCEPT !.sec = none]
<1>1. /\ p.long \in BOOLEAN /\ p.cl \in BOOLEAN /\ Keeps(a, st.m) /\ st.sec \in Int /\ IsMarket(a)
      /\ Processing(a, st)
  BY PositionFields DEF Accounted, Processing, Sound
<1>2. Keeps(st.m, r.m)
  BY <1>1, SwapKeeps
<1>3. Keeps(a, r.m) /\ IsMarket(st.m)
  <2>1. Keeps(a, r.m)
    BY <1>1, <1>2, KeepsTransitive
  <2>2. IsMarket(st.m)
    BY <1>1 DEF Keeps
  <2> QED BY <2>1, <2>2
<1>4. s2 = IF swap = "PnlTokenToCollateralToken" /\ st.sec # 0
           THEN IF r.m.ok THEN three ELSE st ELSE st
  <2>1. three = [st EXCEPT !.m = r.m, !.out = @ + r.out, !.sec = 0]
    BY <1>1 DEF Processing
  <2> HIDE DEF three
  <2> QED BY <2>1 DEF SwapProfit
<1>5. CASE swap = "PnlTokenToCollateralToken" /\ st.sec # 0 /\ r.m.ok
  <2>1. p.cl = ~p.long /\ s2 = three
    BY <1>1, <1>4, <1>5 DEF SwapsAcross
  <2>2. Sound(st.m)
    <3>1. st.m.ok
      BY <1>2, <1>3, <1>5 DEF Keeps
    <3> QED BY <1>1, <3>1 DEF Keeps
  <2>3. r.out \in Int /\ Moves(st.m, r.m, Plus(Only(p.long, st.sec), Only(p.cl, -r.out)))
    <3>1. SwapFeeParams("Swap") \in FeeParams
      BY FeeParamTypes
    <3> QED BY <1>1, <1>5, <2>1, <2>2, <3>1, SwapMoves
  <2> HIDE DEF r
  <2>4. /\ Processing(a, one) /\ one.m = r.m /\ one.out = st.out /\ one.sec = st.sec
        /\ one.col = st.col /\ one.holding = st.holding /\ one.user = st.user
        /\ one.unpaid = st.unpaid /\ one.waived = st.waived
    BY <1>1, <1>3, MarketFields
  <2> HIDE DEF one
  <2>5. /\ st.holding \in Int /\ st.unpaid \in Int /\ st.waived \in Int
        /\ st.out \in Int /\ st.sec \in Int /\ st.col \in Int
    BY DEF Accounted, Processing
  <2>6. i \in Int /\ i = st.out + r.out
    BY <2>3, <2>4, <2>5
  <2> HIDE DEF i
  <2>7. /\ Processing(a, two) /\ two.m = r.m /\ two.out = i /\ two.sec = st.sec
        /\ two.col = st.col /\ two.holding = st.holding /\ two.user = st.user
        /\ two.unpaid = st.unpaid /\ two.waived = st.waived
    BY <2>4, <2>6, OutputFields
  <2>8. none \in Int /\ none = 0
    OBVIOUS
  <2> HIDE DEF two, none
  <2>9. /\ Processing(a, s2) /\ s2.m = r.m /\ s2.out = i /\ s2.sec = none
        /\ s2.col = st.col /\ s2.holding = st.holding /\ s2.user = st.user
        /\ s2.unpaid = st.unpaid /\ s2.waived = st.waived
    BY <2>1, <2>7, <2>8, ProfitFields
  <2> HIDE DEF three
  <2>10. /\ s2.out + s2.col - s2.unpaid - s2.waived + fee + (-r.out)
             = st.out + st.col - st.unpaid - st.waived + fee
         /\ s2.sec + s2.holding + st.sec = st.sec + st.holding
    BY <2>3, <2>5, <2>6, <2>8, <2>9
  <2>11. Moves(st.m, s2.m, Plus(Only(p.cl, -r.out), Only(p.long, st.sec)))
    <3>1. ASSUME NEW t \in BOOLEAN
          PROVE  Plus(Only(p.cl, -r.out), Only(p.long, st.sec))[t]
                   = Plus(Only(p.long, st.sec), Only(p.cl, -r.out))[t]
      <4>1. /\ Plus(Only(p.cl, -r.out), Only(p.long, st.sec))[t]
                 = Only(p.cl, -r.out)[t] + Only(p.long, st.sec)[t]
            /\ Plus(Only(p.long, st.sec), Only(p.cl, -r.out))[t]
                 = Only(p.long, st.sec)[t] + Only(p.cl, -r.out)[t]
        BY PlusAt
      <4>2. /\ Only(p.cl, -r.out)[t] = (IF t = p.cl THEN -r.out ELSE 0)
            /\ Only(p.long, st.sec)[t] = (IF t = p.long THEN st.sec ELSE 0)
        BY <1>1, OnlyAt
      <4> QED BY <2>3, <2>5, <4>1, <4>2
    <3> QED BY <2>3, <2>9, <3>1, MovesEqual
  <2>12. -r.out \in Int
    BY <2>3
  <2>13. Accounted(a, s2, p, fee)
    BY <2>5, <2>9, <2>10, <2>11, <2>12, AccountedSameUser
  <2> QED BY <2>9, <2>13
<1>6. CASE ~(swap = "PnlTokenToCollateralToken" /\ st.sec # 0 /\ r.m.ok)
  <2>1. s2 = st
    BY <1>4, <1>6
  <2> QED BY <2>1
<1> QED BY <1>5, <1>6

LEMMA CeilOfMultiple ==
  ASSUME NEW i \in Nat, NEW n \in Nat \ {0}
  PROVE  CeilDiv(i * n, n) <= i
<1> DEFINE b == i * n
           q == (b + n - 1) \div n
<1>1. b \in Nat /\ b + n - 1 \in Nat
  BY NatOps
<1>2. CeilDiv(i * n, n) = q
  BY DEF CeilDiv
<1>3. q \in Nat /\ q * n <= b + n - 1
  BY <1>1, Quotient
<1> HIDE DEF q
<1>4. ASSUME q >= i + 1 PROVE FALSE
  <2>1. (i + 1) * n <= q * n
    BY <1>3, <1>4, ProductMonotone
  <2>2. (i + 1) * n = b + n
    OBVIOUS
  <2>3. q * n \in Int
    BY <1>3
  <2> HIDE DEF b
  <2> QED BY <1>1, <1>3, <2>1, <2>2, <2>3
<1> QED BY <1>2, <1>3, <1>4

\* The funding fee is charged in full; what the position cannot pay is unpaid.
LEMMA PayFundingAccounted ==
  ASSUME NEW a, NEW st, NEW p \in PositionStates, Accounted(a, st, p, 0), st.unpaid = 0,
         NEW x \in Oracles, ValidPrices(x), NEW fees, fees.funding \in Nat,
         NEW s2, s2 = PayFunding(st, x, p, fees)
  PROVE  Accounted(a, s2, p, fees.funding) /\ s2.waived = st.waived
<1> DEFINE price == CollateralPrice(x, p).min
           cost == fees.funding * price
           r == PayForCost(st, x, p, cost)
           h == r.st.holding + r.paidSec
           u == Greatest(fees.funding - r.paid, 0)
           one == [r.st EXCEPT !.holding = h]
           two == [one EXCEPT !.unpaid = u]
<1>1. price \in Nat \ {0} /\ p.long \in BOOLEAN /\ p.cl \in BOOLEAN
  BY CollateralPrices, PositionFields
<1>2. s2 = IF fees.funding = 0 THEN st ELSE two
  BY DEF PayFunding
<1> HIDE DEF price
<1>3. cost \in Int /\ CeilDiv(cost, price) <= fees.funding /\ CeilDiv(cost, price) \in Int
  <2>1. cost \in Int
    BY <1>1, NatOps
  <2>2. CeilDiv(cost, price) \in Int
    BY <1>1, <2>1, DivisionInt
  <2> QED BY <1>1, <2>1, <2>2, CeilOfMultiple
<1> HIDE DEF cost
<1>4. Processing(a, r.st) /\ r.st.m = st.m /\ r.paid \in Int /\ r.paidSec \in Int
  BY <1>3, PayForCostInt DEF Accounted
<1>5. /\ r.st.holding = st.holding /\ r.st.user = st.user
      /\ r.st.unpaid = st.unpaid /\ r.st.waived = st.waived
      /\ r.st.out + r.st.col + r.paid = st.out + st.col
      /\ r.st.sec + r.paidSec = st.sec /\ r.paid <= CeilDiv(cost, price)
  BY <1>3, PayForCostPays DEF Accounted, price
<1>6. /\ st.holding \in Int /\ st.waived \in Int /\ st.unpaid \in Int
      /\ st.out \in Int /\ st.sec \in Int /\ st.col \in Int
  BY DEF Accounted, Processing
<1> HIDE DEF r
<1>7. h \in Int /\ h = st.holding + r.paidSec /\ u \in Int /\ u = fees.funding - r.paid
  BY <1>3, <1>4, <1>5, <1>6 DEF Greatest
<1> HIDE DEF h, u
<1>8. CASE fees.funding = 0
  <2>1. s2 = st
    BY <1>2, <1>8
  <2> QED BY <1>8, <2>1
<1>9. CASE fees.funding # 0
  <2>1. /\ Processing(a, one) /\ one.m = st.m /\ one.out = r.st.out /\ one.sec = r.st.sec
        /\ one.col = r.st.col /\ one.holding = h /\ one.user = st.user
        /\ one.unpaid = st.unpaid /\ one.waived = st.waived
    BY <1>4, <1>5, HoldingFields
  <2> HIDE DEF one
  <2>2. /\ Processing(a, two) /\ two.m = st.m /\ two.out = r.st.out /\ two.sec = r.st.sec
        /\ two.col = r.st.col /\ two.holding = h /\ two.user = st.user
        /\ two.unpaid = u /\ two.waived = st.waived
    BY <2>1, UnpaidFields
  <2>3. s2 = two
    BY <1>2, <1>9
  <2> HIDE DEF two
  <2>4. r.st.out \in Int /\ r.st.col \in Int /\ r.st.sec \in Int
    BY <1>4 DEF Processing
  <2>5. /\ s2.out + s2.col - s2.unpaid - s2.waived + fees.funding + 0
             = st.out + st.col - st.unpaid - st.waived + 0
    <3>1. s2.out + s2.col = st.out + st.col - r.paid
      BY <1>4, <1>5, <1>6, <2>2, <2>3, <2>4
    <3> QED BY <1>4, <1>6, <1>7, <2>2, <2>3, <2>4, <3>1
  <2>6. s2.sec + s2.holding + 0 = st.sec + st.holding
    BY <1>4, <1>5, <1>6, <1>7, <2>2, <2>3, <2>4
  <2>7. Moves(st.m, s2.m, Plus(Only(p.cl, 0), Only(p.long, 0)))
    BY <1>1, <2>2, <2>3, MovesNothing, MovesNoSide
  <2>8. Accounted(a, s2, p, fees.funding)
    BY <1>6, <1>7, <2>2, <2>3, <2>5, <2>6, <2>7, AccountedSameUser
  <2> QED BY <2>2, <2>3, <2>8
<1> QED BY <1>8, <1>9

LEMMA PrimaryWaived ==
  ASSUME NEW a, NEW st, Processing(a, st), NEW p, NEW i, NEW j
  PROVE  PayToPrimary(st, p, i, j).waived = st.waived
<1> DEFINE n == ApplyDelta(ApplyDelta(st.m, Primary, p.cl, i), Primary, p.long, j)
<1>1. PayToPrimary(st, p, i, j) = [st EXCEPT !.m = n]
  BY DEF PayToPrimary
<1> HIDE DEF n
<1> QED BY <1>1 DEF Processing

LEMMA PayPnlAccounted ==
  ASSUME NEW a, NEW st, NEW p \in PositionStates, NEW fee \in Int, Accounted(a, st, p, fee),
         NEW x \in Oracles, ValidPrices(x), NEW pnl \in Int,
         NEW s2, s2 = PayPnl(st, x, p, pnl) \/ s2 = PayImpact(st, x, p, pnl)
  PROVE  Accounted(a, s2, p, fee) /\ s2.waived = st.waived
<1> DEFINE cost == -pnl
           r == PayForCost(st, x, p, cost)
           q == PayToPrimary(r.st, p, r.paid, r.paidSec)
           first == MulDiv(r.paid, CollateralPrice(x, p).min, x.index.max)
           second == MulDiv(r.paidSec, TokenPrice(x, p.long).min, x.index.max)
           n == ApplyDelta(q.m, PositionImpact, TRUE, first + second)
           last == [q EXCEPT !.m = n]
<1>1. cost \in Int
  OBVIOUS
<1>2. /\ PayPnl(st, x, p, pnl) = IF st.short \/ pnl >= 0 THEN st ELSE q
      /\ PayImpact(st, x, p, pnl) = IF st.short \/ pnl >= 0 THEN st ELSE last
  BY DEF PayPnl, PayImpact
<1> HIDE DEF cost
<1>3. /\ Processing(a, r.st) /\ r.paid \in Int /\ r.paidSec \in Int /\ r.st.waived = st.waived
  BY <1>1, PayForCostInt, PayForCostPays DEF Accounted
<1>4. Accounted(a, q, p, fee)
  BY <1>1, PrimaryAccounted
<1>5. q.waived = st.waived
  BY <1>3, PrimaryWaived
<1>6. first + second \in Int
  <2>1. /\ CollateralPrice(x, p).min \in Int /\ TokenPrice(x, p.long).min \in Int
        /\ x.index.max \in Nat \ {0}
    BY CollateralPrices, OraclePrices, NatInt
  <2>2. first \in Int /\ second \in Int
    BY <1>3, <2>1, MulDivInt
  <2> QED BY <2>2, IntOps
<1> HIDE DEF r, q, first, second
<1>7. Keeps(a, n)
  BY <1>4, LiquidityDelta, LiquidityNames DEF Processing, Accounted
<1>8. Moves(q.m, n, NoTokens)
  <2>1. TRUE \in BOOLEAN
    OBVIOUS
  <2> QED BY <1>6, <2>1, MovesNothing, MovesOther, OtherNames
<1> HIDE DEF n
<1>9. /\ Processing(a, last) /\ last.m = n /\ last.out = q.out /\ last.sec = q.sec
      /\ last.col = q.col /\ last.holding = q.holding /\ last.user = q.user
      /\ last.unpaid = q.unpaid /\ last.waived = q.waived
  BY <1>4, <1>7, MarketFields DEF Accounted
<1> HIDE DEF last
<1>10. /\ q.holding \in Int /\ q.unpaid \in Int /\ q.waived \in Int
       /\ q.out \in Int /\ q.sec \in Int /\ q.col \in Int
       /\ p.long \in BOOLEAN /\ p.cl \in BOOLEAN
  BY <1>4, PositionFields DEF Accounted, Processing
<1>11. Moves(q.m, last.m, Plus(Only(p.cl, 0), Only(p.long, 0)))
  BY <1>8, <1>9, <1>10, MovesNoSide
<1>12. /\ last.out + last.col - last.unpaid - last.waived + fee + 0
            = q.out + q.col - q.unpaid - q.waived + fee
       /\ last.sec + last.holding + 0 = q.sec + q.holding
  BY <1>9, <1>10
<1>13. Accounted(a, last, p, fee)
  BY <1>4, <1>9, <1>10, <1>11, <1>12, AccountedSameUser
<1>14. CASE st.short \/ pnl >= 0
  BY <1>2, <1>14
<1>15. CASE ~(st.short \/ pnl >= 0)
  BY <1>2, <1>4, <1>5, <1>9, <1>13, <1>15
<1> QED BY <1>14, <1>15

\* Fees that are shared in full are booked in full; what they lack is waived.
LEMMA PayFeesAccounted ==
  ASSUME NEW a, NEW st, NEW p \in PositionStates, NEW fee \in Int, Accounted(a, st, p, fee),
         st.waived = 0, NEW x \in Oracles, ValidPrices(x),
         NEW fees, fees.pool \in Int, fees.receiver \in Int
  PROVE  Accounted(a, PayFees(st, x, p, fees), p, fee)
<1> DEFINE cost == fees.pool + fees.receiver
           usd == cost * CollateralPrice(x, p).min
           r == PayForCost(st, x, p, usd)
           full == ~r.st.short /\ r.paidSec = 0
           n == ApplyDelta(ApplyDelta(st.m, Primary, p.cl, fees.pool),
                           ClaimableFee, p.cl, fees.receiver)
           w == cost - r.paid
           one == [r.st EXCEPT !.m = n]
           two == [one EXCEPT !.waived = w]
           q == PayToPrimary(r.st, p, r.paid, r.paidSec)
<1>1. usd \in Int /\ p.cl \in BOOLEAN /\ p.long \in BOOLEAN /\ cost \in Int
  BY CollateralPrices, IntOps, NatInt, PositionFields
<1> HIDE DEF usd
<1>2. Processing(a, r.st) /\ r.st.m = st.m /\ r.paid \in Int /\ r.paidSec \in Int
  BY <1>1, PayForCostInt DEF Accounted
<1>3. PayFees(st, x, p, fees) = IF st.short \/ cost = 0 THEN st ELSE IF full THEN two ELSE q
  BY <1>2 DEF PayFees, usd
<1>4. /\ r.st.holding = st.holding /\ r.st.user = st.user
      /\ r.st.unpaid = st.unpaid /\ r.st.waived = st.waived
      /\ r.st.out + r.st.col = st.out + st.col - r.paid
      /\ r.st.sec + r.paidSec = st.sec
  BY <1>1, PayForCostPays DEF Accounted
<1>5. Accounted(a, q, p, fee)
  BY <1>1, PrimaryAccounted
<1>6. Keeps(a, n)
  BY <1>1, LiquidityDelta, LiquidityNames DEF Processing, Accounted
<1>7. Moves(st.m, n, Plus(Only(p.cl, fees.pool), Only(p.cl, fees.receiver)))
  BY <1>1, MovesBoth, BackingNames
<1>8. Moves(st.m, n, Plus(Only(p.cl, cost), Only(p.long, 0)))
  <2>1. ASSUME NEW t \in BOOLEAN
        PROVE  Plus(Only(p.cl, cost), Only(p.long, 0))[t]
                 = Plus(Only(p.cl, fees.pool), Only(p.cl, fees.receiver))[t]
    <3>1. /\ Plus(Only(p.cl, cost), Only(p.long, 0))[t] = Only(p.cl, cost)[t] + Only(p.long, 0)[t]
          /\ Plus(Only(p.cl, fees.pool), Only(p.cl, fees.receiver))[t]
               = Only(p.cl, fees.pool)[t] + Only(p.cl, fees.receiver)[t]
      BY PlusAt
    <3>2. /\ Only(p.long, 0)[t] = 0
          /\ \A i : Only(p.cl, i)[t] = (IF t = p.cl THEN i ELSE 0)
      BY <1>1, OnlyAt
    <3> QED BY <3>1, <3>2
  <2> QED BY <1>7, <2>1, MovesEqual
<1> HIDE DEF n, r, q
<1>9. /\ Processing(a, one) /\ one.m = n /\ one.out = r.st.out /\ one.sec = r.st.sec
      /\ one.col = r.st.col /\ one.holding = st.holding /\ one.user = st.user
      /\ one.unpaid = st.unpaid /\ one.waived = st.waived
  BY <1>2, <1>4, <1>6, MarketFields
<1>10. w \in Int /\ w = cost - r.paid
  BY <1>1, <1>2
<1> HIDE DEF one, w
<1>11. /\ Processing(a, two) /\ two.m = n /\ two.out = r.st.out /\ two.sec = r.st.sec
       /\ two.col = r.st.col /\ two.holding = st.holding /\ two.user = st.user
       /\ two.unpaid = st.unpaid /\ two.waived = w
  BY <1>9, WaivedFields
<1> HIDE DEF two
<1>12. /\ st.holding \in Int /\ st.unpaid \in Int /\ st.waived \in Int
       /\ st.out \in Int /\ st.sec \in Int /\ st.col \in Int
       /\ r.st.out \in Int /\ r.st.sec \in Int /\ r.st.col \in Int
  BY <1>2 DEF Accounted, Processing
<1>13. ASSUME full PROVE Accounted(a, two, p, fee)
  <2>1. two.out + two.col = st.out + st.col - r.paid
    <3>2. r.st.out + r.st.col = st.out + st.col - r.paid
      BY <1>4
    <3>3. two.out = r.st.out /\ two.col = r.st.col
      BY <1>11
    <3> QED BY <3>2, <3>3, Zenon
  <2>2. two.out \in Int /\ two.col \in Int
    BY <1>11, <1>12
  <2>3. two.out + two.col - two.unpaid - two.waived + fee + cost
          = st.out + st.col - st.unpaid - st.waived + fee
    <3> HIDE DEF cost
    <3> QED BY <1>1, <1>2, <1>10, <1>11, <1>12, <2>1, <2>2
  <2>4. two.sec + two.holding + 0 = st.sec + st.holding
    <3>1. r.paidSec = 0
      BY <1>13
    <3> QED BY <1>4, <1>11, <1>12, <3>1
  <2> HIDE DEF cost
  <2> QED BY <1>1, <1>8, <1>10, <1>11, <1>12, <2>3, <2>4, AccountedSameUser
<1> QED BY <1>3, <1>5, <1>13

\* What the capped impact is paid with is owed to the user.
LEMMA PayDiffAccounted ==
  ASSUME NEW a, NEW st, NEW p \in PositionStates, NEW fee \in Int, Accounted(a, st, p, fee),
         NEW x \in Oracles, ValidPrices(x), NEW diff \in Int
  PROVE  Accounted(a, PayImpactDiff(st, x, p, diff), p, fee)
<1> DEFINE r == PayForCost(st, x, p, diff)
           w == [s \in BOOLEAN |-> r.st.user[s] + (IF s THEN r.paid ELSE r.paidSec)]
           one == [r.st EXCEPT !.user = w]
<1>1. PayImpactDiff(st, x, p, diff) = IF st.short \/ diff = 0 THEN st ELSE one
  BY DEF PayImpactDiff
<1>2. Processing(a, r.st) /\ r.st.m = st.m /\ r.paid \in Int /\ r.paidSec \in Int
  BY PayForCostInt DEF Accounted
<1>3. /\ r.st.holding = st.holding /\ r.st.user = st.user
      /\ r.st.unpaid = st.unpaid /\ r.st.waived = st.waived
      /\ r.st.out + r.st.col = st.out + st.col - r.paid
      /\ r.st.sec + r.paidSec = st.sec
  BY PayForCostPays DEF Accounted
<1>4. /\ st.holding \in Int /\ st.unpaid \in Int /\ st.waived \in Int /\ st.user \in TokenAmounts
      /\ st.out \in Int /\ st.sec \in Int /\ st.col \in Int
      /\ r.st.out \in Int /\ r.st.sec \in Int /\ r.st.col \in Int
      /\ p.collateral \in Int /\ p.long \in BOOLEAN /\ p.cl \in BOOLEAN
  BY <1>2, PositionFields, NatInt DEF Accounted, Processing
<1> HIDE DEF r
<1>5. w \in TokenAmounts
  <2>1. \A s \in BOOLEAN : st.user[s] \in Int
    BY <1>4 DEF TokenAmounts
  <2> QED BY <1>2, <1>3, <2>1 DEF TokenAmounts
<1>6. w[TRUE] = st.user[TRUE] + r.paid /\ w[FALSE] = st.user[FALSE] + r.paidSec
  <2>1. TRUE \in BOOLEAN /\ FALSE \in BOOLEAN
    OBVIOUS
  <2>2. \A s \in BOOLEAN : w[s] = st.user[s] + (IF s THEN r.paid ELSE r.paidSec)
    BY <1>3
  <2>3. w[TRUE] = st.user[TRUE] + (IF TRUE THEN r.paid ELSE r.paidSec)
    BY <2>1, <2>2, Zenon
  <2>4. w[FALSE] = st.user[FALSE] + (IF FALSE THEN r.paid ELSE r.paidSec)
    BY <2>1, <2>2, Zenon
  <2> HIDE DEF w
  <2> QED BY <2>3, <2>4
<1> HIDE DEF w
<1>7. /\ Processing(a, one) /\ one.m = st.m /\ one.out = r.st.out /\ one.sec = r.st.sec
      /\ one.col = r.st.col /\ one.holding = st.holding /\ one.user = w
      /\ one.unpaid = st.unpaid /\ one.waived = st.waived
  <2>1. one = [r.st EXCEPT !.user = w]
    OBVIOUS
  <2>2. /\ Processing(a, r.st) /\ r.st.m = st.m /\ r.st.holding = st.holding
        /\ r.st.unpaid = st.unpaid /\ r.st.waived = st.waived
    BY <1>2, <1>3
  <2> HIDE DEF one
  <2> QED BY <2>1, <2>2, UserFields
<1> HIDE DEF one
<1>8. Moves(st.m, one.m, Plus(Only(p.cl, 0), Only(p.long, 0)))
  BY <1>4, <1>7, MovesNothing, MovesNoSide
<1> DEFINE u == st.user[TRUE]
           v == st.user[FALSE]
<1>9. u \in Int /\ v \in Int
  BY <1>4 DEF TokenAmounts
<1>10. /\ InProfit(st) = 0 - (st.sec + st.holding + v)
       /\ InProfit(one) = 0 - (r.st.sec + st.holding + (v + r.paidSec))
  BY <1>6, <1>7 DEF InProfit
<1>10a. InCollateral(st, p, fee) = p.collateral - fee + st.unpaid + st.waived - st.out - u - st.col
  BY DEF InCollateral
<1>10b. InCollateral(one, p, fee) = p.collateral - fee + st.unpaid + st.waived - r.st.out - (u + r.paid) - r.st.col
  BY <1>6, <1>7 DEF InCollateral
<1> HIDE DEF u, v
<1>11. InCollateral(one, p, fee) = InCollateral(st, p, fee) + 0
  <2> DEFINE held == st.out + st.col - st.unpaid - st.waived + fee
             held2 == r.st.out + r.st.col - st.unpaid - st.waived + fee
  <2>1. InCollateral(st, p, fee) = (p.collateral - u) - held
    BY <1>4, <1>9, <1>10a, CashRearranged
  <2>2. u + r.paid \in Int
    BY <1>2, <1>9
  <2>3. InCollateral(one, p, fee) = (p.collateral - (u + r.paid)) - held2
    BY <1>4, <1>10b, <2>2, CashRearranged
  <2>4. held \in Int /\ held2 \in Int /\ held2 + r.paid = held
    <3>1. held \in Int /\ held2 \in Int
      BY <1>4
    <3>2. r.st.out + r.st.col = st.out + st.col - r.paid
      BY <1>3
    <3>3. r.paid \in Int
      BY <1>2
    <3>4. held2 + r.paid = held
      BY <1>4, <3>2, <3>3
    <3> QED BY <3>1, <3>4
  <2> HIDE DEF held, held2
  <2> QED BY <1>2, <1>4, <1>9, <2>1, <2>3, <2>4
<1>12. InProfit(one) = InProfit(st) + 0
  BY <1>2, <1>3, <1>4, <1>9, <1>10
<1>13. Accounted(a, one, p, fee)
  BY <1>4, <1>5, <1>7, <1>8, <1>11, <1>12, AccountedStep
<1> QED BY <1>1, <1>13

LEMMA ReleaseAccounted ==
  ASSUME NEW a, NEW st, NEW p \in PositionStates, NEW fee \in Int, Accounted(a, st, p, fee),
         NEW x \in Oracles, ValidPrices(x), NEW d, d.withdraw \in Int, NEW diff \in Int
  PROVE  Accounted(a, Release(st, x, p, d, diff), p, fee)
<1> DEFINE asked == AskedAfterDiff(x, p, d, diff)
           amount == Least(asked, st.col)
           c == st.col - amount
           one == [st EXCEPT !.col = c]
           i == one.out + amount
           two == [one EXCEPT !.out = i]
<1>1. asked \in Int
  <2> DEFINE less == d.withdraw - diff \div CollateralPrice(x, p).min
  <2>1. less \in Int
    <3>1. diff \div CollateralPrice(x, p).min \in Int
      BY CollateralPrices, DivisionInt
    <3> QED BY <3>1, IntOps
  <2> HIDE DEF less
  <2>2. Greatest(less, 0) \in Int
    BY <2>1, LeastInt
  <2> QED BY <2>2 DEF AskedAfterDiff, less
<1>2. Release(st, x, p, d, diff) = two
  BY DEF Release, Withdrawn, Processing, Accounted
<1> HIDE DEF asked
<1>3. /\ st.holding \in Int /\ st.unpaid \in Int /\ st.waived \in Int /\ Processing(a, st)
      /\ st.out \in Int /\ st.sec \in Int /\ st.col \in Int /\ p.long \in BOOLEAN /\ p.cl \in BOOLEAN
  BY PositionFields DEF Accounted, Processing
<1>4. amount \in Int
  BY <1>1, <1>3, LeastInt
<1> HIDE DEF amount
<1>5. c \in Int /\ c = st.col - amount
  BY <1>3, <1>4
<1> HIDE DEF c
<1>6. /\ Processing(a, one) /\ one.m = st.m /\ one.out = st.out /\ one.sec = st.sec
      /\ one.col = c /\ one.holding = st.holding /\ one.user = st.user
      /\ one.unpaid = st.unpaid /\ one.waived = st.waived
  BY <1>3, <1>5, CollateralFields
<1> HIDE DEF one
<1>7. i \in Int /\ i = st.out + amount
  BY <1>3, <1>4, <1>6
<1> HIDE DEF i
<1>8. /\ Processing(a, two) /\ two.m = st.m /\ two.out = i /\ two.sec = st.sec
      /\ two.col = c /\ two.holding = st.holding /\ two.user = st.user
      /\ two.unpaid = st.unpaid /\ two.waived = st.waived
  BY <1>6, <1>7, OutputFields
<1> HIDE DEF two
<1>9. Moves(st.m, two.m, Plus(Only(p.cl, 0), Only(p.long, 0)))
  BY <1>3, <1>8, MovesNothing, MovesNoSide
<1>10. /\ two.out + two.col - two.unpaid - two.waived + fee + 0 = st.out + st.col - st.unpaid - st.waived + fee
       /\ two.sec + two.holding + 0 = st.sec + st.holding
  BY <1>3, <1>4, <1>5, <1>7, <1>8
<1>11. Accounted(a, two, p, fee)
  BY <1>3, <1>8, <1>9, <1>10, AccountedSameUser
<1> QED BY <1>2, <1>11

\* Gains and costs of a decrease, in the order in which they are settled.
LEMMA ProcessCollateralAccounted ==
  ASSUME NEW a, Sound(a), ~a.pure, NEW x \in Oracles, ValidPrices(x), NEW p \in PositionStates,
         NEW d, d.withdraw \in Int, NEW i, i.impact \in Int, i.diff \in Int,
         NEW fees, fees.funding \in Nat, fees.pool \in Int, fees.receiver \in Int,
         NEW swap, SwapsAcross(p, swap), PnlOf(a, x, p, d.size) \in Int
  PROVE  Accounted(a, ProcessCollateral(a, x, p, d, i, fees, swap), p, fees.funding)
<1> DEFINE pnl == PnlOf(a, x, p, d.size)
           fee == fees.funding
           s0 == NewProcess(a, p)
           s1 == AddPnl(s0, x, p, pnl)
           s2 == AddImpact(s1, x, p, i.impact)
           s3 == SwapProfit(s2, x, p, swap)
           s4 == PayFunding(s3, x, p, fees)
           s5 == PayPnl(s4, x, p, pnl)
           s6 == PayFees(s5, x, p, fees)
           s7 == PayImpact(s6, x, p, i.impact)
           s8 == PayImpactDiff(s7, x, p, i.diff)
           s9 == Release(s8, x, p, d, i.diff)
<1>1. ProcessCollateral(a, x, p, d, i, fees, swap) = s9
  BY DEF ProcessCollateral, ProcessPnl, Gains, Costs
<1> HIDE DEF pnl
<1>2. pnl \in Int /\ IsMarket(a) /\ p.long \in BOOLEAN /\ p.cl \in BOOLEAN
      /\ fee \in Nat /\ fee \in Int /\ 0 \in Int
  BY PositionFields, NatInt DEF pnl, Sound
<1>3. Accounted(a, s0, p, 0) /\ s0.unpaid = 0 /\ s0.waived = 0
  <2> DEFINE none == [s \in BOOLEAN |-> 0]
  <2>1. s0 = [m |-> a, out |-> 0, sec |-> 0, col |-> p.collateral, holding |-> 0,
              user |-> none, unpaid |-> 0, waived |-> 0, short |-> FALSE]
    BY DEF NewProcess
  <2>2. none \in TokenAmounts /\ none[TRUE] = 0 /\ none[FALSE] = 0
    BY DEF TokenAmounts
  <2>3. p.collateral \in Int /\ Keeps(a, a)
    BY KeepsItself, PositionFields, NatInt
  <2>4. Processing(a, s0)
    BY <2>1, <2>3, <1>2, ProcessRecord
  <2> HIDE DEF none, s0
  <2>5. /\ s0.m = a /\ s0.holding = 0 /\ s0.user = none /\ s0.unpaid = 0 /\ s0.waived = 0
        /\ s0.out = 0 /\ s0.sec = 0 /\ s0.col = p.collateral
    BY <2>1
  <2>6. InCollateral(s0, p, 0) = 0 /\ InProfit(s0) = 0
    <3>1. InCollateral(s0, p, 0) = p.collateral - 0 + 0 + 0 - 0 - none[TRUE] - p.collateral
      BY <2>5 DEF InCollateral
    <3>2. InProfit(s0) = 0 - (0 + 0 + none[FALSE])
      BY <2>5 DEF InProfit
    <3> DEFINE u == none[TRUE]
               v == none[FALSE]
    <3>3. u = 0 /\ v = 0
      BY <2>2
    <3> HIDE DEF u, v
    <3>4. p.collateral - 0 + 0 + 0 - 0 - u - p.collateral = 0
      BY <2>3, <3>3
    <3>5. 0 + 0 + v = 0
      BY <3>3
    <3>6. InProfit(s0) = 0
      <4>1. InProfit(s0) = 0 - (0 + 0 + v)
        BY <3>2 DEF v
      <4> QED BY <3>5, <4>1
    <3> QED BY <3>1, <3>4, <3>6 DEF u
  <2>7. Moves(a, s0.m, Plus(Only(p.cl, 0), Only(p.long, 0)))
    BY <1>2, <2>5, MovesNothing, MovesNoSide
  <2> QED BY <2>2, <2>4, <2>5, <2>6, <2>7 DEF Accounted
<1> HIDE DEF s0
<1>4. Accounted(a, s1, p, 0) /\ s1.unpaid = 0 /\ s1.waived = 0
  <2>1. s1 = AddPnl(s0, x, p, pnl)
    OBVIOUS
  <2> HIDE DEF s1
  <2>2. Accounted(a, s1, p, 0) /\ s1.unpaid = s0.unpaid /\ s1.waived = s0.waived
    BY <1>2, <1>3, <2>1, AddPnlAccounted
  <2> QED BY <1>3, <2>2
<1> HIDE DEF s1
<1>5. Accounted(a, s2, p, 0) /\ s2.unpaid = 0 /\ s2.waived = 0
  <2>1. s2 = AddImpact(s1, x, p, i.impact)
    OBVIOUS
  <2> HIDE DEF s2
  <2>2. Accounted(a, s2, p, 0) /\ s2.unpaid = s1.unpaid /\ s2.waived = s1.waived
    BY <1>2, <1>4, <2>1, AddPnlAccounted
  <2> QED BY <1>4, <2>2
<1> HIDE DEF s2
<1>6. Accounted(a, s3, p, 0) /\ s3.unpaid = 0 /\ s3.waived = 0
  BY <1>2, <1>5, SwapProfitAccounted
<1> HIDE DEF s3
<1>7. Accounted(a, s4, p, fee) /\ s4.waived = 0
  BY <1>2, <1>6, PayFundingAccounted
<1> HIDE DEF s4, fee
<1>8. Accounted(a, s5, p, fee) /\ s5.waived = 0
  <2>1. s5 = PayPnl(s4, x, p, pnl)
    OBVIOUS
  <2> HIDE DEF s5
  <2>2. Accounted(a, s5, p, fee) /\ s5.waived = s4.waived
    BY <1>2, <1>7, <2>1, PayPnlAccounted
  <2> QED BY <1>7, <2>2
<1> HIDE DEF s5
<1>9. Accounted(a, s6, p, fee)
  BY <1>2, <1>8, PayFeesAccounted
<1> HIDE DEF s6
<1>10. Accounted(a, s7, p, fee)
  <2>1. s7 = PayImpact(s6, x, p, i.impact)
    OBVIOUS
  <2> HIDE DEF s7
  <2> QED BY <1>2, <1>9, <2>1, PayPnlAccounted
<1> HIDE DEF s7
<1>11. Accounted(a, s8, p, fee)
  BY <1>2, <1>10, PayDiffAccounted
<1> HIDE DEF s8
<1>12. Accounted(a, s9, p, fee)
  BY <1>2, <1>11, ReleaseAccounted
<1> HIDE DEF s9
<1> QED BY <1>1, <1>12 DEF fee

LEMMA LoweredSettled ==
  \A a, p, left, q :
    Sound(a) /\ ~a.pure /\ p \in PositionStates /\ left \in PositionStates /\ q = Lowered(a, p, left) =>
      SettledAt(a, q)
<1> SUFFICES ASSUME NEW a, NEW p, NEW left, NEW q, Sound(a), ~a.pure, p \in PositionStates,
                    left \in PositionStates, q = Lowered(a, p, left)
             PROVE  SettledAt(a, q)
  OBVIOUS
<1> DEFINE f == SettleFunding(a, left)
           c == CumulativeBorrowing(a, p)
<1>1. f \in PositionStates /\ f.long = left.long /\ f.cl = left.cl
  BY SettledFields
<1>2. /\ f.funding = a.pool[FundingPool(left.long)][left.cl]
      /\ \A t \in BOOLEAN : f.claimable[t] = a.pool[ClaimPool(left.long)][t]
  BY SettleFundingReads
<1>3. q = [f EXCEPT !.borrowing = c]
  BY DEF Lowered
<1> HIDE DEF f, c
<1>4. q.long = f.long /\ q.cl = f.cl /\ q.funding = f.funding /\ q.claimable = f.claimable
  BY <1>1, <1>3 DEF PositionStates
<1> QED BY <1>1, <1>2, <1>4 DEF SettledAt

(* What a decrease gives away of the two tokens, fee being charged.        *)
GivenAway(st, out, sec, p, fee) ==
  Plus(Only(p.cl, st.unpaid + st.waived - fee - out - st.user[TRUE]),
       Only(p.long, 0 - (sec + st.holding + st.user[FALSE])))

LEMMA SettleDecreaseMoves ==
  ASSUME NEW a, Sound(a), ~a.pure, NEW p, Fits(a, p), p.size # 0, NEW x, NEW d, d.size \in Nat,
         d.size <= p.size, NEW st, NEW fee \in Int, Accounted(a, st, p, fee), st.m.ok,
         NEW r, r = SettleDecrease(x, p, d, st), r.m.ok
  PROVE  /\ Moves(a, r.m, GivenAway(st, r.out, r.sec, p, fee))
         /\ r.out \in Int /\ r.sec = st.sec /\ SettledAt(r.m, r.p)
<1> DEFINE tokens == SizeDeltaInTokens(p, d.size)
           removed == d.size = p.size \/ tokens = p.tokens
           left == Left(p, d, tokens, st.col, removed)
           change == left.collateral - p.collateral
           next == p.size - d.size
           kind == <<"CollateralSum", p.long>>
           m1 == UpdateTotalBorrowing(st.m, p, next)
           m2 == ApplyDelta(m1, kind, p.cl, change)
           m3 == UpdateOpenInterest(m2, p, -d.size, -tokens)
           q == Lowered(m2, p, left)
           cond == m3.ok /\ ~removed => ValidPosition(m3, x, q, FALSE)
<1>1. /\ p \in PositionStates /\ p.long \in BOOLEAN /\ p.cl \in BOOLEAN /\ IsMarket(a)
      /\ p.size \in Nat /\ p.tokens \in Nat /\ p.collateral \in Int /\ p.borrowing \in Nat
  BY PositionFields DEF Fits, Sound
<1>2. tokens \in Nat /\ tokens <= p.tokens
  BY <1>1, TokensDecreased
<1>3. next \in Nat /\ kind \in BackingPools /\ kind \in BookPools /\ kind \in PoolKinds
  <2>1. next \in Nat
    BY <1>1
  <2>2. kind \in BackingPools
    BY <1>1, CollateralName
  <2>3. kind \in BookPools /\ kind \in PoolKinds
    BY <1>1, SideKinds, PoolsSplit
  <2> QED BY <2>1, <2>2, <2>3
<1>4. r = [m |-> Check(m3, cond), p |-> q, size |-> d.size, removed |-> removed,
           out |-> st.out + (IF removed THEN st.col ELSE 0), sec |-> st.sec]
  BY DEF SettleDecrease, DecreaseTokens, DecreaseLeaving, DecreaseBooks, CheckDecrease
<1>5. /\ Keeps(a, st.m) /\ st.col \in Int /\ st.out \in Int /\ st.sec \in Int /\ st.holding \in Int
      /\ st.unpaid \in Int /\ st.waived \in Int /\ st.user \in TokenAmounts
  BY DEF Accounted, Processing
<1> HIDE DEF tokens, removed
<1>6. /\ left \in PositionStates /\ left.long = p.long /\ left.cl = p.cl
      /\ left.collateral = IF removed THEN 0 ELSE st.col
  BY <1>1, <1>2, <1>5, LeftFields
<1> HIDE DEF left
<1>7. change \in Int
  BY <1>1, <1>6, PositionFields, IntOps
<1> HIDE DEF change, next
<1>8. IsMarket(st.m)
  BY <1>1, <1>5 DEF Keeps
<1>9. IsMarket(m1) /\ (m1.ok => st.m.ok)
  <2>1. TotalBorrowing \in PoolKinds
    BY SideKinds, PoolsSplit
  <2> QED BY <1>1, <1>8, <2>1, DeltaOk DEF UpdateTotalBorrowing
<1>10. IsMarket(m2) /\ (m2.ok => m1.ok)
  <2> HIDE DEF m1, kind
  <2> QED BY <1>1, <1>3, <1>9, DeltaOk
<1>11. IsMarket(m3) /\ (m3.ok => m2.ok)
  <2> HIDE DEF m2
  <2> QED BY <1>1, <1>10, InterestOk
<1> HIDE DEF m1, m2, m3, q, cond, kind
<1>12. /\ r.m = Check(m3, cond) /\ r.p = q /\ r.sec = st.sec
       /\ r.out = st.out + (IF removed THEN st.col ELSE 0)
  BY <1>4
<1>13. m3.ok /\ m2.ok /\ m1.ok
  <2>1. Check(m3, cond).ok = (m3.ok /\ cond)
    BY <1>11, CheckShape
  <2>2. Check(m3, cond).ok
    BY <1>12
  <2>3. m3.ok
    BY <2>1, <2>2
  <2> QED BY <1>10, <1>11, <2>3
<1>14. Sound(st.m) /\ Fits(st.m, p)
  <2>1. Posts(a, st.m, p, 0, 0, 0, 0)
    BY <1>5, KeepsPosts
  <2> QED BY <2>1 DEF Posts, Fits
<1>15. Sound(m1) /\ Fits(m1, p)
  <2> DEFINE borrowed == ApplyFactor(next, CumulativeBorrowing(st.m, p)) - ApplyFactor(p.size, p.borrowing)
  <2>1. Posts(st.m, m1, p, 0, 0, 0, borrowed)
    BY <1>3, <1>13, <1>14, TotalBorrowingPosts DEF m1
  <2> QED BY <1>14, <2>1 DEF Posts, Fits
<1>16. Sound(m2) /\ m2.pure = m1.pure
  <2>1. Posts(m1, m2, p, 0, 0, change, 0)
    BY <1>1, <1>3, <1>7, <1>13, <1>15, CollateralPosts DEF m2, kind
  <2> QED BY <2>1 DEF Posts
<1> DEFINE k == InCollateral(st, p, fee)
           l == InProfit(st)
           e == Plus(Only(p.cl, k), Only(p.long, l))
<1>17. k \in Int /\ l \in Int
  BY <1>1, <1>5, AccountedInt DEF Accounted
<1>18. Moves(a, st.m, e)
  BY DEF Accounted
<1> HIDE DEF k, l
<1>19. e \in TokenAmounts
  BY <1>1, <1>17, TokenAmountTypes
<1>20. Moves(a, m1, e)
  BY <1>1, <1>3, <1>14, <1>18, TotalBorrowingMoves DEF m1
<1>21. Moves(a, m2, Plus(e, Only(p.cl, change)))
  <2> HIDE DEF e
  <2> QED BY <1>1, <1>3, <1>7, <1>19, <1>20, MovesToken DEF m2
<1>22. -d.size \in Int /\ -tokens \in Int
  BY <1>2
<1>23. Moves(a, r.m, Plus(e, Only(p.cl, change)))
  <2>1. Moves(a, m3, Plus(e, Only(p.cl, change)))
    BY <1>1, <1>21, <1>22, InterestMoves DEF m3
  <2> QED BY <1>12, <2>1, MovesCheck
<1>24. SettledAt(r.m, r.p)
  <2>1. ~m2.pure
    BY <1>1, <1>21 DEF Moves
  <2>2. SettledAt(m2, q) /\ Whole(m2)
    BY <1>1, <1>6, <1>16, <2>1, LoweredSettled, SoundWhole DEF q
  <2>3. q.long \in BOOLEAN /\ q.cl \in BOOLEAN
    BY <1>1, <1>6, <1>16, LoweredFields DEF q
  <2>4. Moves(m2, r.m, NoTokens)
    <3>1. Moves(m2, m3, NoTokens)
      BY <1>1, <1>22, MovesNothing, InterestMoves DEF m3
    <3> QED BY <1>12, <3>1, MovesCheck
  <2> QED BY <1>12, <2>2, <2>3, <2>4, SettledStays
<1> DEFINE u == st.user[TRUE]
           v == st.user[FALSE]
<1>25. u \in Int /\ v \in Int
  BY <1>5 DEF TokenAmounts
<1>26. r.out \in Int
  BY <1>5, <1>12
<1>27. st.unpaid + st.waived - fee - r.out - u = k + change
  <2>1. k = p.collateral - fee + st.unpaid + st.waived - st.out - u - st.col
    BY DEF k, InCollateral
  <2>2. change = (IF removed THEN 0 ELSE st.col) - p.collateral
    BY <1>6 DEF change
  <2> HIDE DEF u
  <2>3. CASE removed
    BY <1>1, <1>5, <1>12, <1>25, <2>1, <2>2, <2>3
  <2>4. CASE ~removed
    BY <1>1, <1>5, <1>12, <1>25, <2>1, <2>2, <2>4
  <2> QED BY <2>3, <2>4
<1>28. 0 - (r.sec + st.holding + v) = l
  BY <1>12 DEF l, InProfit
<1>29. ASSUME NEW t \in BOOLEAN
       PROVE  GivenAway(st, r.out, r.sec, p, fee)[t] = Plus(e, Only(p.cl, change))[t]
  <2>1. Plus(e, Only(p.cl, change))[t] = (Only(p.cl, k)[t] + Only(p.long, l)[t]) + Only(p.cl, change)[t]
    BY PlusAt
  <2>2. GivenAway(st, r.out, r.sec, p, fee)[t] = Only(p.cl, k + change)[t] + Only(p.long, l)[t]
    <3>1. GivenAway(st, r.out, r.sec, p, fee)
            = Plus(Only(p.cl, st.unpaid + st.waived - fee - r.out - u),
                   Only(p.long, 0 - (r.sec + st.holding + v)))
      BY DEF GivenAway
    <3>2. GivenAway(st, r.out, r.sec, p, fee) = Plus(Only(p.cl, k + change), Only(p.long, l))
      BY <1>27, <1>28, <3>1
    <3> QED BY <3>2, PlusAt
  <2>3. \A n : Only(p.cl, n)[t] = (IF t = p.cl THEN n ELSE 0)
               /\ Only(p.long, n)[t] = (IF t = p.long THEN n ELSE 0)
    BY <1>1, OnlyAt
  <2> HIDE DEF e
  <2> QED BY <1>7, <1>17, <2>1, <2>2, <2>3
<1>30. Moves(a, r.m, GivenAway(st, r.out, r.sec, p, fee))
  <2> HIDE DEF e
  <2> QED BY <1>23, <1>29, MovesEqual
<1> QED BY <1>12, <1>24, <1>26, <1>30

LEMMA FundingScale == Adjustment * Unit \in Nat \ {0}
<1>1. \A i, j \in Nat \ {0} : i * j \in Nat \ {0}
  OBVIOUS
<1> QED BY <1>1, ConfigAssumption, UnitAssumption

LEMMA CeilAtLeastInt ==
  ASSUME NEW i \in Int, NEW n \in Nat \ {0}
  PROVE  CeilDiv(i, n) \in Int /\ CeilDiv(i, n) * n >= i
<1> DEFINE q == (i + n - 1) \div n
<1>1. CeilDiv(i, n) = q /\ q \in Int
  BY DivisionInt DEF CeilDiv
<1>2. i + n - 1 < (q + 1) * n
  OBVIOUS
<1> HIDE DEF q
<1>3. (q + 1) * n = q * n + n /\ q * n \in Int
  BY <1>1
<1> QED BY <1>1, <1>2, <1>3

LEMMA FloorAtMostInt ==
  ASSUME NEW i \in Int, NEW n \in Nat \ {0}
  PROVE  i \div n \in Int /\ (i \div n) * n <= i
OBVIOUS

\* What a position pays of the funding it owes is at least that, and what it may claim is at
\* most what was set aside for it.
LEMMA FundingRounded ==
  ASSUME NEW a, Sound(a), ~a.pure, NEW p \in PositionStates
  PROVE  /\ FundingFee(a, p) \in Int
         /\ FundingFee(a, p) * (Adjustment * Unit)
              >= p.size * (a.pool[FundingPool(p.long)][p.cl] - p.funding)
         /\ Settleable(a, p) => FundingFee(a, p) \in Nat
         /\ \A t \in BOOLEAN :
              /\ FundingClaim(a, p, t) \in Int
              /\ FundingClaim(a, p, t) * (Adjustment * Unit)
                   <= p.size * (a.pool[ClaimPool(p.long)][t] - p.claimable[t])
<1> DEFINE n == Adjustment * Unit
<1>1. n \in Nat \ {0}
  BY FundingScale
<1> HIDE DEF n
<1>2. p.size \in Nat /\ p.funding \in Nat /\ \A t \in BOOLEAN : p.claimable[t] \in Nat
  BY PositionFields DEF PositionStates
<1>3. (\A i, j \in Nat : i * j \in Nat) /\ (\A i \in Nat, j \in Int : i * j \in Int)
  OBVIOUS
<1>4. /\ FundingFee(a, p) \in Int
      /\ FundingFee(a, p) * n >= p.size * (a.pool[FundingPool(p.long)][p.cl] - p.funding)
      /\ Settleable(a, p) => FundingFee(a, p) \in Nat
  <2> DEFINE f == FundingPerSize(a, p)
             g == f - p.funding
             i == p.size * g
  <2>1. f = a.pool[FundingPool(p.long)][p.cl]
    BY NotPureAmount DEF FundingPerSize, FundingPool
  <2>2. f \in Nat /\ (Settleable(a, p) => p.funding <= f)
    BY PositionReads DEF Settleable
  <2> HIDE DEF f
  <2>3. g \in Int /\ (Settleable(a, p) => g \in Nat)
    BY <1>2, <2>2
  <2>4. FundingFee(a, p) = CeilDiv(i, n)
    BY Zenon DEF FundingFee, UnpackFunding, MulDivCeil, n, i, g, f
  <2> HIDE DEF g
  <2>5. i \in Int /\ (Settleable(a, p) => i \in Nat)
    BY <1>2, <1>3, <2>3
  <2> HIDE DEF i
  <2>6. FundingFee(a, p) \in Int /\ FundingFee(a, p) * n >= i
    BY <1>1, <2>4, <2>5, CeilAtLeastInt
  <2>7. Settleable(a, p) => FundingFee(a, p) \in Nat
    BY <1>1, <2>4, <2>5, CeilAtLeast
  <2> QED BY <2>1, <2>6, <2>7 DEF i, g
<1>5. ASSUME NEW t \in BOOLEAN
      PROVE  /\ FundingClaim(a, p, t) \in Int
             /\ FundingClaim(a, p, t) * n
                  <= p.size * (a.pool[ClaimPool(p.long)][t] - p.claimable[t])
  <2> DEFINE f == ClaimablePerSize(a, p, t)
             g == f - p.claimable[t]
             i == p.size * g
  <2>1. f = a.pool[ClaimPool(p.long)][t]
    BY NotPureAmount DEF ClaimablePerSize, ClaimPool
  <2>2. f \in Nat
    BY PositionReads
  <2> HIDE DEF f
  <2>3. g \in Int
    BY <1>2, <2>2
  <2>4. FundingClaim(a, p, t) = i \div n
    BY Zenon DEF FundingClaim, UnpackFunding, MulDiv, n, i, g, f
  <2> HIDE DEF g
  <2>5. i \in Int
    BY <1>2, <1>3, <2>3
  <2> HIDE DEF i
  <2>6. FundingClaim(a, p, t) \in Int /\ FundingClaim(a, p, t) * n <= i
    BY <1>1, <2>4, <2>5, FloorAtMostInt
  <2> QED BY <2>1, <2>6 DEF i, g
<1> QED BY <1>4, <1>5 DEF n

LEMMA SwapOutputMoves ==
  ASSUME NEW a, IsMarket(a), NEW n, Sound(n.m), NEW p \in PositionStates, n.p.cl = p.cl,
         n = [m |-> n.m, p |-> n.p, size |-> n.size, removed |-> n.removed,
              out |-> n.out, sec |-> n.sec],
         NEW st, st.unpaid \in Int, st.waived \in Int, st.holding \in Int, st.user \in TokenAmounts,
         NEW fee \in Int, n.out \in Int, n.sec \in Int,
         Moves(a, n.m, GivenAway(st, n.out, n.sec, p, fee)),
         NEW x \in Oracles, NEW swap, SwapsAcross(p, swap),
         NEW r, r = SwapOutput(n, x, swap)
  PROVE  /\ Moves(a, r.m, GivenAway(st, r.out, r.sec, p, fee)) /\ r.out \in Int /\ r.sec \in Int
         /\ \E d : Moves(n.m, r.m, d)
<1> DEFINE s == Swap(n.m, x, n.p.cl, n.out, SwapFeeParams("Swap"))
<1>1. r = (IF swap = "CollateralToPnlToken" /\ n.out # 0 /\ s.m.ok
           THEN [n EXCEPT !.m = s.m, !.sec = @ + s.out, !.out = 0] ELSE n)
  BY Zenon DEF SwapOutput
<1>2. CASE r = n
  BY <1>2, MovesNothing
<1>3. p.long \in BOOLEAN /\ p.cl \in BOOLEAN
  BY PositionFields
<1>4. CASE r # n
  <2>1. /\ swap = "CollateralToPnlToken" /\ s.m.ok
        /\ r = [n EXCEPT !.m = s.m, !.sec = @ + s.out, !.out = 0]
    BY <1>1, <1>4
  <2>2. p.long = ~p.cl
    BY <1>3, <2>1 DEF SwapsAcross
  <2> DEFINE d == Plus(Only(p.cl, n.out), Only(p.long, -s.out))
  <2>3. s.out \in Int /\ Moves(n.m, s.m, d)
    <3>1. SwapFeeParams("Swap") \in FeeParams
      BY FeeParamTypes
    <3> QED BY <1>3, <2>1, <2>2, <3>1, SwapMoves
  <2> HIDE DEF s
  <2>4. r.m = s.m /\ r.sec = n.sec + s.out /\ r.out = 0
    BY <2>1
  <2> DEFINE u == st.user[TRUE]
             v == st.user[FALSE]
             i == st.unpaid + st.waived - fee - n.out - u
             j == 0 - (n.sec + st.holding + v)
             k == st.unpaid + st.waived - fee - r.out - u
             l == 0 - (r.sec + st.holding + v)
             e == GivenAway(st, n.out, n.sec, p, fee)
             g == GivenAway(st, r.out, r.sec, p, fee)
  <2>5. u \in Int /\ v \in Int
    BY DEF TokenAmounts
  <2>6. e = Plus(Only(p.cl, i), Only(p.long, j)) /\ g = Plus(Only(p.cl, k), Only(p.long, l))
    BY DEF GivenAway
  <2> HIDE DEF u, v, e, g
  <2>7. /\ i \in Int /\ j \in Int /\ k \in Int /\ l \in Int /\ -s.out \in Int
        /\ k = i + n.out /\ l = j + (-s.out)
    BY <2>3, <2>4, <2>5
  <2> HIDE DEF i, j, k, l
  <2>8. e \in TokenAmounts /\ d \in TokenAmounts
    BY <1>3, <2>6, <2>7, TokenAmountTypes
  <2>9. Moves(a, s.m, Plus(e, d))
    BY <2>3, <2>8, MovesTransitive DEF e
  <2>10. ASSUME NEW t \in BOOLEAN PROVE g[t] = Plus(e, d)[t]
    <3>1. /\ Plus(e, d)[t] = (Only(p.cl, i)[t] + Only(p.long, j)[t])
                               + (Only(p.cl, n.out)[t] + Only(p.long, -s.out)[t])
          /\ g[t] = Only(p.cl, k)[t] + Only(p.long, l)[t]
      BY <2>6, PlusAt
    <3>2. \A w : Only(p.cl, w)[t] = (IF t = p.cl THEN w ELSE 0)
                 /\ Only(p.long, w)[t] = (IF t = p.long THEN w ELSE 0)
      BY <1>3, OnlyAt
    <3> HIDE DEF d
    <3> QED BY <2>7, <3>1, <3>2
  <2> HIDE DEF d
  <2>11. Moves(a, r.m, g)
    BY <2>4, <2>9, <2>10, MovesEqual
  <2>12. r.out \in Int /\ r.sec \in Int /\ Moves(n.m, r.m, d)
    BY <2>3, <2>4
  <2> QED BY <2>11, <2>12 DEF g
<1> QED BY <1>2, <1>4

\* A decrease takes out of the market, from what is backed, what it pays out and what it
\* forgives, less the funding fee, and leaves the position with its funding settled.
LEMMA DecreaseMoves ==
  ASSUME NEW a, Sound(a), ~a.pure, NEW x \in Oracles, NEW p, Fits(a, p), p.size # 0 => p.tokens # 0,
         NEW req, req.size \in Nat, req.withdraw \in Int,
         NEW r, r = Decrease(a, x, p, req), r.m.ok
  PROVE  /\ Moves(a, r.m, GivenAway(r, r.out, r.sec, p, FundingFee(a, p)))
         /\ r.claim = [s \in BOOLEAN |-> FundingClaim(a, p, s)]
         /\ Settleable(a, p) /\ SettledAt(r.m, r.p)
         /\ r.out \in Int /\ r.sec \in Int /\ r.holding \in Int /\ r.user \in TokenAmounts
         /\ r.unpaid \in Int /\ r.waived \in Int
<1> DEFINE d == CheckClose(p, CheckPartialClose(a, x, p, Asked(p, req)))
           i == DecreaseImpact(a, x, p, d.size)
           fees == PositionFees(a, x, p, d.size, i.impact > 0, req.liquidation)
           swap == DecreaseSwapType(a, p, req)
           st == ProcessCollateral(a, x, p, d, i, fees, swap)
           n == SettleDecrease(x, p, d, st)
           done == SwapOutput(n, x, swap)
<1>1. /\ p \in PositionStates /\ IsMarket(a) /\ p.size \in Nat /\ p.tokens \in Nat
      /\ p.long \in BOOLEAN /\ p.cl \in BOOLEAN /\ p.collateral \in Int /\ p.borrowing \in Nat
  BY PositionFields DEF Fits, Sound
<1>2. NoDecrease(a, p).m.ok = FALSE
  <2>1. PICK no \in BOOLEAN : no = FALSE
    OBVIOUS
  <2>2. Check(a, no).ok = (a.ok /\ no)
    BY <1>1, CheckShape
  <2> QED BY <2>1, <2>2 DEF NoDecrease, Refused
<1>3. r # NoDecrease(a, p)
  BY <1>2
<1>4. /\ ValidPrices(x) /\ p.size # 0 /\ ~(CapSize(p, req) > p.size) /\ Settleable(a, p)
      /\ r = DecreaseDecided(a, x, p, req, d)
  BY <1>3 DEF Decrease
<1>5. CapSize(p, req) <= p.size
  <2>1. CapSize(p, req) \in Nat
    BY <1>1 DEF CapSize, Least
  <2> QED BY <1>1, <1>4, <2>1
<1>6. d.size \in Nat /\ d.size <= p.size /\ d.withdraw \in Int
  BY <1>1, <1>5, DecidedDecrease
<1> HIDE DEF d
<1>7. r = DecreasePriced(a, x, p, req, d, i)
  BY <1>3, <1>4 DEF DecreaseDecided
<1>8. i.impact \in Int /\ i.diff \in Int
  BY <1>1, <1>6, DecreaseImpactInt
<1> HIDE DEF i
<1>9. r = DecreaseCharged(a, x, p, req, d, i, fees)
  BY <1>3, <1>7 DEF DecreasePriced
<1>10. fees.receiver \in Int /\ fees.pool \in Int
  BY <1>1, <1>4, <1>6, FeesInt
<1>11. fees.funding = FundingFee(a, p) /\ fees.claim = [s \in BOOLEAN |-> FundingClaim(a, p, s)]
  BY DEF PositionFees
<1> HIDE DEF fees
<1>12. fees.funding \in Nat
  BY <1>1, <1>4, <1>11, FundingRounded
<1>13. SwapsAcross(p, swap)
  BY DEF DecreaseSwapType, SwapsAcross, PnlTokenIsCollateral
<1> DEFINE asked == DecreaseSwapType(a, p, req)
<1>14. asked = swap
  OBVIOUS
<1> HIDE DEF swap
<1>15. r = DecreaseSettled(a, x, p, req, d, fees.claim, st)
  BY <1>9 DEF DecreaseCharged, swap
<1>16. PnlOf(a, x, p, d.size) \in Int
  BY <1>1, <1>4, <1>6, PnlInt
<1>17. Accounted(a, st, p, fees.funding)
  BY <1>1, <1>4, <1>6, <1>8, <1>10, <1>12, <1>13, <1>16, ProcessCollateralAccounted
<1> HIDE DEF st
<1>18. st.m.ok /\ r = DecreaseReport(done, st, fees.claim)
  BY <1>3, <1>15 DEF DecreaseSettled, swap
<1>19. /\ Keeps(a, st.m) /\ st.col \in Int /\ st.sec \in Int /\ st.holding \in Int
       /\ st.user \in TokenAmounts /\ st.unpaid \in Int /\ st.waived \in Int
  BY <1>17 DEF Processing, Accounted
<1>20. /\ IsMarket(n.m) /\ n.p.cl = p.cl
       /\ n = [m |-> n.m, p |-> n.p, size |-> n.size, removed |-> n.removed,
               out |-> n.out, sec |-> n.sec]
  BY <1>1, <1>19, SettleDecreaseShape
<1>21. /\ r.m = done.m /\ r.p = done.p /\ r.out = done.out /\ r.sec = done.sec
       /\ r.holding = st.holding /\ r.user = st.user /\ r.claim = fees.claim
       /\ r.unpaid = st.unpaid /\ r.waived = st.waived
  BY <1>18 DEF DecreaseReport
<1> DEFINE settled == n
<1>22. settled = SettleDecrease(x, p, d, st)
  OBVIOUS
<1> HIDE DEF n
<1>23. (done.m.ok => n.m.ok) /\ done.p = n.p
  BY <1>1, <1>20, SwapOutputKeeps
<1>24. n.m.ok
  BY <1>21, <1>23
<1>25. /\ n.p \in PositionStates /\ n.p.long = p.long /\ n.p.cl = p.cl /\ Sound(n.m)
  <2> DEFINE b == ApplyFactor(p.size - n.size, n.p.borrowing) - ApplyFactor(p.size, p.borrowing)
             c == ApplyFactor(n.p.size, n.p.borrowing) - ApplyFactor(p.size, p.borrowing)
  <2>1. /\ n.p \in PositionStates /\ n.p.long = p.long /\ n.p.cl = p.cl
        /\ n.removed => Posts(a, n.m, p, -n.size, -p.tokens, -p.collateral, b)
        /\ ~n.removed => Posts(a, n.m, p, n.p.size - p.size, n.p.tokens - p.tokens,
                               n.p.collateral - p.collateral, c)
    BY <1>4, <1>6, <1>18, <1>19, <1>22, <1>24, SettleDecreasePosts
  <2>2. Sound(n.m)
    BY <2>1 DEF Posts
  <2> QED BY <2>1, <2>2
<1> DEFINE fee == fees.funding
<1>26. /\ Moves(a, n.m, GivenAway(st, n.out, n.sec, p, fee))
       /\ n.out \in Int /\ n.sec = st.sec /\ SettledAt(n.m, n.p)
  BY <1>4, <1>6, <1>12, <1>17, <1>18, <1>22, <1>24, SettleDecreaseMoves
<1>27. fee \in Int /\ n.sec \in Int
  BY <1>12, <1>19, <1>26
<1> HIDE DEF fee
<1>28. /\ Moves(a, done.m, GivenAway(st, done.out, done.sec, p, fee))
       /\ done.out \in Int /\ done.sec \in Int /\ \E e : Moves(n.m, done.m, e)
  BY <1>1, <1>13, <1>19, <1>20, <1>25, <1>26, <1>27, SwapOutputMoves
<1> HIDE DEF done
<1>29. SettledAt(r.m, r.p)
  <2>1. PICK e : Moves(n.m, done.m, e)
    BY <1>28
  <2>2. ~n.m.pure
    BY <1>1, <1>26 DEF Moves
  <2>3. Whole(n.m)
    BY <1>25, <2>2, SoundWhole
  <2>4. n.p.long \in BOOLEAN /\ n.p.cl \in BOOLEAN
    BY <1>1, <1>25
  <2>5. SettledAt(done.m, n.p)
    BY <1>26, <2>1, <2>3, <2>4, SettledStays
  <2> QED BY <1>21, <1>23, <2>5
<1>30. GivenAway(r, r.out, r.sec, p, FundingFee(a, p)) = GivenAway(st, done.out, done.sec, p, fee)
  BY <1>11, <1>21 DEF GivenAway, fee
<1> QED BY <1>4, <1>11, <1>19, <1>21, <1>28, <1>29, <1>30

-----------------------------------------------------------------------------
\* Sums of sums, and sums in which only some of the elements count.
LEMMA SumAdd ==
  ASSUME NEW S, NEW f, NEW g, NEW h, IsFiniteSet(S),
         \A x \in S : f[x] \in Int /\ g[x] \in Int /\ h[x] = f[x] + g[x]
  PROVE  SumFunctionOnSet(h, S) = SumFunctionOnSet(f, S) + SumFunctionOnSet(g, S)
<1> DEFINE Bad == {s \in SUBSET S : SumFunctionOnSet(h, s)
                                       # SumFunctionOnSet(f, s) + SumFunctionOnSet(g, s)}
<1> SUFFICES ASSUME Bad # {} PROVE FALSE
  OBVIOUS
<1>1. PICK s \in Bad : \A x \in s : s \ {x} \notin Bad
  BY SmallestSubset
<1>2. IsFiniteSet(s) /\ s \in SUBSET S
  BY FS_Subset
<1>3. SumFunctionOnSet(h, s) # SumFunctionOnSet(f, s) + SumFunctionOnSet(g, s)
  OBVIOUS
<1>4. CASE s = {}
  BY <1>3, <1>4, SumEmpty
<1>5. CASE s # {}
  <2>1. PICK x : x \in s
    BY <1>5
  <2>2. s \ {x} \in SUBSET S /\ IsFiniteSet(s \ {x})
    BY <1>2, FS_Subset
  <2> DEFINE t == s \ {x}
  <2>3. SumFunctionOnSet(h, t) = SumFunctionOnSet(f, t) + SumFunctionOnSet(g, t)
    BY <1>1, <2>1, <2>2
  <2>4. \A y \in s : f[y] \in Int /\ g[y] \in Int /\ h[y] \in Int
    BY <1>2
  <2>5. /\ SumFunctionOnSet(f, s) = f[x] + SumFunctionOnSet(f, t)
        /\ SumFunctionOnSet(g, s) = g[x] + SumFunctionOnSet(g, t)
        /\ SumFunctionOnSet(h, s) = h[x] + SumFunctionOnSet(h, t)
    BY <1>2, <2>1, <2>4, SumRemove
  <2>6. SumFunctionOnSet(f, t) \in Int /\ SumFunctionOnSet(g, t) \in Int
    BY <2>2, <2>4, SumInt
  <2>7. h[x] = f[x] + g[x] /\ f[x] \in Int /\ g[x] \in Int
    BY <1>2, <2>1
  <2> HIDE DEF t
  <2> QED BY <1>3, <2>3, <2>5, <2>6, <2>7
<1> QED BY <1>4, <1>5

LEMMA SumWhere ==
  ASSUME NEW S, NEW T, T \subseteq S, IsFiniteSet(S), NEW f, NEW g,
         \A x \in S : g[x] = IF x \in T THEN f[x] ELSE 0, \A x \in T : f[x] \in Int
  PROVE  SumFunctionOnSet(g, S) = SumFunctionOnSet(f, T)
<1> DEFINE U == S \ T
<1>1. IsFiniteSet(T) /\ IsFiniteSet(U) /\ T \cap U = {} /\ T \cup U = S
  BY FS_Subset
<1>2. \A x \in T \cup U : g[x] \in Int
  OBVIOUS
<1>3. SumFunctionOnSet(g, T \cup U) = SumFunctionOnSet(g, T) + SumFunctionOnSet(g, U)
  <2> HIDE DEF U
  <2> QED BY <1>1, <1>2, SumUnion
<1>4. SumFunctionOnSet(g, U) = 0
  BY <1>1, SumZero
<1>5. SumFunctionOnSet(g, T) = SumFunctionOnSet(f, T)
  BY <1>1, SumSame
<1>6. SumFunctionOnSet(f, T) \in Int
  BY <1>1, SumInt
<1> HIDE DEF U
<1>7. SumFunctionOnSet(g, S) = SumFunctionOnSet(g, T) + SumFunctionOnSet(g, U)
  BY <1>1, <1>3, Zenon
<1>8. SumFunctionOnSet(f, T) + 0 = SumFunctionOnSet(f, T)
  BY <1>6
<1> QED BY <1>4, <1>5, <1>7, <1>8

-----------------------------------------------------------------------------
(* The executions on a market of two tokens.  Funding grows only by what   *)
(* the books of the open interest cover; what is recorded and what is      *)
(* backed change by the same amounts.                                      *)
Funds(a, b) ==
  /\ \A k \in FundingPools, t \in BOOLEAN : a.pool[k][t] <= b.pool[k][t]
  /\ \A t \in BOOLEAN : Charged(a, b, TRUE, t) + Charged(a, b, FALSE, t)
                          >= Claimed(a, b, TRUE, t) + Claimed(a, b, FALSE, t)

TwoTokens(a) == Sound(a) /\ ~a.pure /\ a.bal \in TokenAmounts /\ a.supply \in Nat

Executes(a, b) ==
  /\ TwoTokens(b) /\ Funds(a, b)
  /\ \A t \in BOOLEAN : b.bal[t] - Backing(b, t) = a.bal[t] - Backing(a, t)

LEMMA FundsSame ==
  ASSUME NEW a, NEW b, NEW c, NEW d, Funds(c, d), a.pool = c.pool, a.pure = c.pure,
         ~a.pure,
         \A k \in FundingPools, t \in BOOLEAN : b.pool[k][t] = d.pool[k][t]
  PROVE  Funds(a, b)
<1>1. \A s, t \in BOOLEAN : /\ Charged(a, b, s, t) = Charged(c, d, s, t)
                            /\ Claimed(a, b, s, t) = Claimed(c, d, s, t)
  <2> SUFFICES ASSUME NEW s \in BOOLEAN, NEW t \in BOOLEAN
               PROVE  /\ Charged(a, b, s, t) = Charged(c, d, s, t)
                      /\ Claimed(a, b, s, t) = Claimed(c, d, s, t)
    OBVIOUS
  <2>1. FundingPool(s) \in FundingPools /\ ClaimPool(s) \in FundingPools
    BY FundingNames
  <2>2. OpenInterest(a, s) = OpenInterest(c, s)
    BY OpenInterestIs
  <2> QED BY <2>1, <2>2 DEF Charged, Claimed, Grown
<1>2. Charged(a, b, TRUE, TRUE) = Charged(c, d, TRUE, TRUE)
  BY <1>1
<1> QED BY <1>1 DEF Funds

(* An execution after it has received the tokens in, if any, and updated   *)
(* the market; and after it has moved d of what is backed, minted i market *)
(* tokens and paid e.                                                      *)
Updated(a, n, in) ==
  /\ TwoTokens(n) /\ n.supply = a.supply /\ Funds(a, n) /\ Keeps(a, n)
  /\ \A t \in BOOLEAN : n.bal[t] = a.bal[t] + in[t] /\ Backing(n, t) = Backing(a, t)

Concluded(a, c, in, d, i, e) ==
  /\ TwoTokens(c) /\ Funds(a, c) /\ Keeps(a, c) /\ c.supply = a.supply + i
  /\ \A t \in BOOLEAN : /\ c.bal[t] = a.bal[t] + in[t] - e[t]
                        /\ Backing(c, t) = Backing(a, t) + d[t]

LEMMA PreExecuted ==
  ASSUME NEW a, TwoTokens(a), NEW c, NEW d, Receives(a, c, d), Keeps(a, c),
         NEW x \in Oracles, NEW n, n = PreExecute(c, x), n.ok
  PROVE  Updated(a, n, d) /\ ValidPrices(x)
<1>1. Sound(a) /\ IsMarket(a) /\ ~a.pure
  BY DEF TwoTokens, Sound
<1>2. /\ IsMarket(c) /\ c.pure = a.pure /\ c.pool = a.pool /\ c.supply = a.supply
      /\ c.bal \in TokenAmounts /\ \A t \in BOOLEAN : c.bal[t] = a.bal[t] + d[t]
  BY <1>1 DEF Receives, TwoTokens
<1>3. Keeps(c, n) /\ ValidPrices(x)
  BY <1>2, PreExecuteKeeps
<1>4. c.ok
  BY <1>2, <1>3 DEF Keeps
<1>5. Sound(c)
  BY <1>1, <1>4 DEF Keeps
<1>6. Charges(c, n)
  BY <1>5, PreExecuteCharges
<1>7. /\ Sound(n) /\ n.pure = c.pure /\ n.bal = c.bal /\ n.supply = c.supply
      /\ \A t \in BOOLEAN : Backing(n, t) = Backing(c, t)
  BY <1>1, <1>2, <1>6 DEF Charges
<1>8. Funds(c, n)
  <2>1. \A k \in FundingPools, t \in BOOLEAN : c.pool[k][t] <= n.pool[k][t]
    BY <1>3, <1>5, BackingNames DEF Keeps, Sound
  <2> QED BY <1>1, <1>2, <1>6, <2>1 DEF Funds, Charges
<1>9. Funds(a, n)
  BY <1>1, <1>2, <1>8, FundsSame
<1>10. \A t \in BOOLEAN : Backing(c, t) = Backing(a, t)
  BY <1>2 DEF Backing
<1>11. Keeps(a, n)
  BY <1>3, KeepsTransitive
<1> QED BY <1>1, <1>2, <1>3, <1>7, <1>9, <1>10, <1>11 DEF TwoTokens, Updated

LEMMA ReceivesNothing ==
  ASSUME NEW a, TwoTokens(a)
  PROVE  Receives(a, a, NoTokens)
BY OnlyAt DEF Receives, TwoTokens, TokenAmounts

BothIn(a, amount) == TransferIn(TransferIn(a, TRUE, amount[TRUE]), FALSE, amount[FALSE])

LEMMA ReceivesBoth ==
  ASSUME NEW a, TwoTokens(a), NEW amount \in TokenAmounts, NEW b, b = BothIn(a, amount)
  PROVE  Receives(a, b, amount) /\ Keeps(a, b)
<1> DEFINE one == TransferIn(a, TRUE, amount[TRUE])
           i == amount[TRUE]
           j == amount[FALSE]
<1>1. i \in Int /\ j \in Int
  BY DEF TokenAmounts
<1>2. Keeps(a, one) /\ Keeps(one, b)
  BY TransferInKeeps DEF BothIn
<1>3. Receives(a, one, Only(TRUE, i)) /\ Receives(one, b, Only(FALSE, j))
  <2>1. PICK l \in BOOLEAN : l = TRUE
    OBVIOUS
  <2>2. PICK s \in BOOLEAN : s = FALSE
    OBVIOUS
  <2> HIDE DEF i, j
  <2>3. Receives(a, TransferIn(a, l, i), Only(l, i))
    BY <1>1, TransferInReceives
  <2>4. Receives(one, TransferIn(one, s, j), Only(s, j))
    BY <1>1, TransferInReceives
  <2> QED BY <2>1, <2>2, <2>3, <2>4 DEF i, j, BothIn
<1> HIDE DEF one
<1>4. /\ IsMarket(a) /\ ~a.pure /\ a.bal \in TokenAmounts
  BY DEF TwoTokens, Sound
<1>5. /\ IsMarket(one) /\ one.pure = a.pure /\ one.pool = a.pool /\ one.supply = a.supply
      /\ one.bal \in TokenAmounts
      /\ \A t \in BOOLEAN : one.bal[t] = a.bal[t] + Only(TRUE, i)[t]
  BY <1>3, <1>4 DEF Receives
<1>6. /\ IsMarket(b) /\ b.pure = a.pure /\ b.pool = a.pool /\ b.supply = a.supply
      /\ b.bal \in TokenAmounts
      /\ \A t \in BOOLEAN : b.bal[t] = one.bal[t] + Only(FALSE, j)[t]
  BY <1>3, <1>4, <1>5 DEF Receives
<1>7. ASSUME NEW t \in BOOLEAN PROVE b.bal[t] = a.bal[t] + amount[t]
  <2>1. /\ Only(TRUE, i)[t] = (IF t = TRUE THEN i ELSE 0)
        /\ Only(FALSE, j)[t] = (IF t = FALSE THEN j ELSE 0)
    BY DEF Only, NoTokens
  <2>2. a.bal[t] \in Int
    BY <1>4 DEF TokenAmounts
  <2>3. amount[t] = IF t = TRUE THEN i ELSE j
    BY DEF i, j
  <2> HIDE DEF i, j
  <2> DEFINE u == Only(TRUE, i)[t]
             v == Only(FALSE, j)[t]
             w == a.bal[t]
             y == amount[t]
             z == b.bal[t]
  <2>4. z = (w + u) + v
    BY <1>5, <1>6
  <2>5. (u = i /\ v = 0 /\ y = i) \/ (u = 0 /\ v = j /\ y = j)
    BY <2>1, <2>3, Zenon
  <2>6. w \in Int
    BY <2>2
  <2> HIDE DEF u, v, w, y, z
  <2>7. z = w + y
    BY <1>1, <2>4, <2>5, <2>6
  <2> QED BY <2>7 DEF w, y, z
<1>8. Keeps(a, b)
  BY <1>2, KeepsTransitive
<1> QED BY <1>6, <1>7, <1>8 DEF Receives

LEMMA ExecutedBetween ==
  ASSUME NEW a, TwoTokens(a), NEW n, NEW in \in TokenAmounts, Updated(a, n, in),
         NEW b, NEW d \in TokenAmounts, NEW i \in Int, Mints(n, b, d, i), Keeps(n, b),
         a.supply + i \in Nat, NEW e \in TokenAmounts, NEW c, Receives(b, c, Negative(e)),
         Keeps(b, c), c.ok
  PROVE  Concluded(a, c, in, d, i, e)
<1> USE DEF Updated
<1>1. /\ IsMarket(n) /\ ~n.pure /\ ~a.pure /\ n.bal \in TokenAmounts /\ a.bal \in TokenAmounts
      /\ Whole(n) /\ IsMarket(a) /\ Sound(a)
  BY SoundWhole DEF TwoTokens, Sound
<1>2. /\ IsMarket(b) /\ ~b.pure /\ b.bal = n.bal /\ b.supply = a.supply + i
      /\ \A t \in BOOLEAN : Backing(b, t) = Backing(n, t) + d[t]
      /\ \A k \in FundingPools, t \in BOOLEAN : b.pool[k][t] = n.pool[k][t]
  BY <1>1 DEF Mints
<1>3. /\ IsMarket(c) /\ ~c.pure /\ c.pool = b.pool /\ c.supply = b.supply /\ c.bal \in TokenAmounts
      /\ \A t \in BOOLEAN : c.bal[t] = b.bal[t] + Negative(e)[t]
  BY <1>1, <1>2 DEF Receives
<1>4. Keeps(a, c)
  BY KeepsTransitive
<1>5. Sound(c)
  BY <1>1, <1>4 DEF Keeps
<1>6. Funds(a, c)
  BY <1>1, <1>2, <1>3, FundsSame
<1>7. ASSUME NEW t \in BOOLEAN
      PROVE  /\ c.bal[t] = a.bal[t] + in[t] - e[t]
             /\ Backing(c, t) = Backing(a, t) + d[t]
  <2>1. Negative(e)[t] = -e[t]
    BY DEF Negative
  <2>2. a.bal[t] \in Int /\ in[t] \in Int /\ e[t] \in Int
    BY <1>1 DEF TokenAmounts
  <2>3. Backing(c, t) = Backing(b, t)
    BY <1>3 DEF Backing
  <2>4. c.bal[t] = (a.bal[t] + in[t]) + (-e[t])
    BY <1>2, <1>3, <2>1
  <2>5. c.bal[t] = a.bal[t] + in[t] - e[t]
    BY <2>2, <2>4
  <2> QED BY <1>2, <2>3, <2>5
<1> QED BY <1>2, <1>3, <1>4, <1>5, <1>6, <1>7 DEF TwoTokens, Concluded

LEMMA KeepsOk ==
  ASSUME NEW a, NEW b, NEW c, IsMarket(a), Keeps(a, b), Keeps(b, c), c.ok
  PROVE  a.ok /\ b.ok
BY DEF Keeps

LEMMA SameReceives ==
  ASSUME NEW a, NEW b, Same(a, b), NEW d, \A t \in BOOLEAN : d[t] = 0
  PROVE  Receives(a, b, d)
BY DEF Same, Receives, TokenAmounts

\* A deposit: what comes in is what is backed more.
LEMMA DepositExecuted ==
  ASSUME NEW a, TwoTokens(a), NEW amount \in [BOOLEAN -> Nat], NEW x \in Oracles,
         NEW fees \in FeeParams, NEW two, two = BothIn(a, amount), NEW n, n = PreExecute(two, x), NEW r, r = Deposit(n, x, amount, fees),
         NEW c, c = Covered(r.m), c.ok
  PROVE  /\ Executes(a, c) /\ Keeps(a, c) /\ c.supply = a.supply + r.minted /\ r.minted \in Nat
         /\ \A t \in BOOLEAN : c.bal[t] = a.bal[t] + amount[t]
         /\ ValidPrices(x)
<1>1. amount \in TokenAmounts /\ NoTokens \in TokenAmounts /\ IsMarket(a) /\ a.bal \in TokenAmounts
  BY TokenAmountTypes DEF TokenAmounts, TwoTokens, Sound
<1>2. Receives(a, two, amount) /\ Keeps(a, two)
  BY <1>1, ReceivesBoth
<1>3. Keeps(two, n) /\ Keeps(n, r.m) /\ Keeps(r.m, c)
  BY PreExecuteKeeps, DepositKeeps, PaidKeeps
<1>4. IsMarket(n)
  BY <1>1, <1>2, <1>3 DEF Keeps
<1>5. n.ok /\ r.m.ok
  BY <1>3, <1>4, KeepsOk
<1>6. Updated(a, n, amount) /\ ValidPrices(x)
  BY <1>2, <1>5, PreExecuted
<1>7. Mints(n, r.m, amount, r.minted) /\ r.minted \in Nat
  BY <1>5, <1>6, DepositMoves DEF TwoTokens, Updated
<1>8. Receives(r.m, c, Negative(NoTokens))
  <2>1. \A t \in BOOLEAN : Negative(NoTokens)[t] = 0
    <3>1. \A t \in BOOLEAN : Negative(NoTokens)[t] = -0
      BY DEF Negative, NoTokens
    <3> QED BY <3>1
  <2> QED BY <2>1, CoveredSame, SameReceives
<1> DEFINE i == r.minted
<1>9. i \in Nat
  BY <1>7
<1>10. Concluded(a, c, amount, amount, i, NoTokens)
  <2>1. Mints(n, r.m, amount, i)
    BY <1>7
  <2> HIDE DEF i
  <2>2. i \in Int /\ a.supply + i \in Nat
    <3>1. a.supply \in Nat
      BY DEF TwoTokens
    <3> QED BY <1>9, <3>1
  <2> QED BY <1>1, <1>3, <1>6, <1>8, <2>1, <2>2, ExecutedBetween
<1>11. ASSUME NEW t \in BOOLEAN
       PROVE  /\ c.bal[t] = a.bal[t] + amount[t]
              /\ c.bal[t] - Backing(c, t) = a.bal[t] - Backing(a, t)
  <2>1. NoTokens[t] = 0
    BY DEF NoTokens
  <2>2. a.bal[t] \in Int /\ amount[t] \in Int
    BY <1>1 DEF TokenAmounts
  <2>3. Backing(a, t) \in Int
    BY BackingInt, SoundWhole DEF TwoTokens
  <2>4. /\ c.bal[t] = a.bal[t] + amount[t] - 0 /\ Backing(c, t) = Backing(a, t) + amount[t]
    BY <1>10, <2>1 DEF Concluded
  <2> QED BY <2>2, <2>3, <2>4
<1> QED BY <1>6, <1>7, <1>10, <1>11 DEF Executes, Concluded

\* A withdrawal: what is paid out is what is backed less.
LEMMA WithdrawExecuted ==
  ASSUME NEW a, TwoTokens(a), NEW burnt \in Nat, NEW x \in Oracles, NEW fees \in FeeParams,
         NEW n, n = PreExecute(a, x), NEW r, r = Withdraw(n, x, burnt, fees),
         NEW c, c = Paid(r.m, r.out), c.ok
  PROVE  /\ Executes(a, c) /\ Keeps(a, c) /\ c.supply = a.supply - burnt
         /\ burnt # 0 /\ burnt <= a.supply /\ r.out \in TokenAmounts
         /\ fees = SwapFeeParams("Shift") => r.out \in [BOOLEAN -> Nat]
         /\ \A t \in BOOLEAN : c.bal[t] = a.bal[t] - r.out[t]
<1>1. NoTokens \in TokenAmounts /\ IsMarket(a) /\ a.bal \in TokenAmounts /\ a.supply \in Nat
  BY TokenAmountTypes DEF TwoTokens, Sound
<1>2. Receives(a, a, NoTokens) /\ Keeps(a, a)
  BY ReceivesNothing, KeepsItself
<1>3. Keeps(a, n) /\ Keeps(n, r.m) /\ Keeps(r.m, c)
  BY PreExecuteKeeps, WithdrawKeeps, PaidKeeps
<1>4. IsMarket(n)
  BY <1>1, <1>3 DEF Keeps
<1>5. n.ok /\ r.m.ok
  BY <1>3, <1>4, KeepsOk
<1>6. Updated(a, n, NoTokens)
  BY <1>2, <1>5, PreExecuted
<1>7. /\ r.out \in TokenAmounts /\ Mints(n, r.m, Negative(r.out), -burnt)
      /\ burnt # 0 /\ burnt <= a.supply
      /\ fees = SwapFeeParams("Shift") => r.out \in [BOOLEAN -> Nat]
  BY <1>5, <1>6, WithdrawMoves DEF TwoTokens, Updated
<1>8. Receives(r.m, c, Negative(r.out))
  BY <1>7, PaidReceives
<1>9. /\ -burnt \in Int /\ a.supply + (-burnt) \in Nat /\ a.supply + (-burnt) = a.supply - burnt
  BY <1>1, <1>7
<1>10. Negative(r.out) \in TokenAmounts
  BY <1>7 DEF Negative, TokenAmounts
<1> DEFINE i == -burnt
           d == Negative(r.out)
<1>11. Concluded(a, c, NoTokens, d, i, r.out)
  <2>1. /\ Mints(n, r.m, d, i) /\ i \in Int /\ a.supply + i \in Nat /\ d \in TokenAmounts
    BY <1>7, <1>9, <1>10
  <2> HIDE DEF i, d
  <2>2. Receives(r.m, c, Negative(r.out)) /\ r.out \in TokenAmounts
    BY <1>7, <1>8
  <2> QED BY <1>1, <1>3, <1>6, <2>1, <2>2, ExecutedBetween
<1>12. ASSUME NEW t \in BOOLEAN
       PROVE  /\ c.bal[t] = a.bal[t] - r.out[t]
              /\ c.bal[t] - Backing(c, t) = a.bal[t] - Backing(a, t)
  <2>1. NoTokens[t] = 0 /\ Negative(r.out)[t] = -r.out[t]
    BY DEF NoTokens, Negative
  <2>2. a.bal[t] \in Int /\ r.out[t] \in Int
    BY <1>1, <1>7 DEF TokenAmounts
  <2>3. Backing(a, t) \in Int
    BY BackingInt, SoundWhole DEF TwoTokens
  <2>4. /\ c.bal[t] = a.bal[t] + 0 - r.out[t] /\ Backing(c, t) = Backing(a, t) + (-r.out[t])
    BY <1>11, <2>1 DEF Concluded
  <2> QED BY <2>2, <2>3, <2>4
<1> QED BY <1>7, <1>9, <1>11, <1>12 DEF Executes, Concluded

\* A swap: one token comes in, the other goes out.
LEMMA SwapExecuted ==
  ASSUME NEW a, TwoTokens(a), NEW s \in BOOLEAN, NEW u \in BOOLEAN, u = ~s, NEW amount \in Nat,
         NEW x \in Oracles, NEW fees \in FeeParams,
         NEW n, n = PreExecute(TransferIn(a, s, amount), x),
         NEW r, r = Swap(n, x, s, amount, fees), NEW c, c = Paid(r.m, Only(u, r.out)), c.ok
  PROVE  Executes(a, c) /\ Keeps(a, c) /\ c.supply = a.supply
<1> DEFINE one == TransferIn(a, s, amount)
           d == Plus(Only(s, amount), Only(u, -r.out))
           e == Only(u, r.out)
<1>1. IsMarket(a) /\ a.bal \in TokenAmounts /\ a.supply \in Nat /\ amount \in Int
  BY DEF TwoTokens, Sound
<1>2. Receives(a, one, Only(s, amount)) /\ Keeps(a, one) /\ Only(s, amount) \in TokenAmounts
  BY <1>1, TransferInReceives, TransferInKeeps, TokenAmountTypes
<1>3. Keeps(one, n) /\ Keeps(n, r.m) /\ Keeps(r.m, c)
  BY PreExecuteKeeps, SwapKeeps, PaidKeeps
<1>4. IsMarket(n)
  BY <1>1, <1>2, <1>3 DEF Keeps
<1>5. n.ok /\ r.m.ok
  BY <1>3, <1>4, KeepsOk
<1>6. Updated(a, n, Only(s, amount))
  BY <1>2, <1>5, PreExecuted
<1>7. r.out \in Int /\ Moves(n, r.m, d)
  BY <1>1, <1>5, <1>6, SwapMoves DEF TwoTokens, Updated
<1>8. /\ d \in TokenAmounts /\ e \in TokenAmounts
  <2> DEFINE j == -r.out
  <2>1. j \in Int
    BY <1>7
  <2> HIDE DEF j
  <2>2. Only(u, j) \in TokenAmounts /\ Only(u, r.out) \in TokenAmounts
    BY <1>7, <2>1, TokenAmountTypes
  <2>3. Plus(Only(s, amount), Only(u, j)) \in TokenAmounts
    BY <1>2, <2>2, TokenAmountTypes
  <2> QED BY <2>2, <2>3 DEF j
<1>9. Receives(r.m, c, Negative(e))
  BY <1>8, PaidReceives
<1>10. Mints(n, r.m, d, 0)
  <2>1. n.supply + 0 = n.supply
    BY <1>1, <1>6 DEF Updated
  <2> QED BY <1>4, <1>7, <2>1 DEF Moves, Mints
<1> HIDE DEF d, e
<1>11. a.supply + 0 = a.supply /\ 0 \in Int
  BY <1>1
<1>12. Concluded(a, c, Only(s, amount), d, 0, e)
  <2> DEFINE in == Only(s, amount)
             i == 0
  <2>1. /\ i \in Int /\ a.supply + i \in Nat /\ Mints(n, r.m, d, i) /\ in \in TokenAmounts
        /\ Updated(a, n, in)
    BY <1>1, <1>2, <1>6, <1>10, <1>11
  <2> HIDE DEF in, i
  <2>2. Concluded(a, c, in, d, i, e)
    BY <1>3, <1>8, <1>9, <2>1, ExecutedBetween
  <2> QED BY <2>2 DEF in, i
<1>13. ASSUME NEW t \in BOOLEAN
       PROVE  c.bal[t] - Backing(c, t) = a.bal[t] - Backing(a, t)
  <2>1. d[t] = Only(s, amount)[t] + Only(u, -r.out)[t]
    BY PlusAt DEF d
  <2>2. e[t] = (IF t = u THEN r.out ELSE 0) /\ Only(u, -r.out)[t] = (IF t = u THEN -r.out ELSE 0)
    BY OnlyAt, ZenonT(40) DEF e
  <2>3. a.bal[t] \in Int /\ Only(s, amount)[t] \in Int
    BY <1>1, <1>2 DEF TokenAmounts
  <2>4. Backing(a, t) \in Int
    BY BackingInt, SoundWhole DEF TwoTokens
  <2> DEFINE i == Only(s, amount)[t]
             j == e[t]
             k == Only(u, -r.out)[t]
  <2>5. j \in Int /\ k = -j
    BY <1>7, <2>2
  <2>6. c.bal[t] = a.bal[t] + i - j /\ Backing(c, t) = Backing(a, t) + (i + k)
    BY <1>12, <2>1 DEF Concluded
  <2>7. i \in Int
    BY <2>3
  <2> HIDE DEF i, j, k
  <2> QED BY <2>3, <2>4, <2>5, <2>6, <2>7
<1> QED BY <1>11, <1>12, <1>13 DEF Executes, Concluded
=============================================================================
