-------------------------- MODULE PerpMarketProofs ---------------------------
(***************************************************************************)
(* Proofs about PerpMarket and Glv, for every configuration, all prices    *)
(* and amounts and without their bounds.                                   *)
(*                                                                         *)
(* PerpMarket: the books of a market agree with its positions              *)
(* (PoolsMatchPositions), every position can be settled                    *)
(* (AlwaysSettleable), and what a market of two tokens records pays        *)
(* everybody (Solvent).  Glv: what a GLV records for its markets is in     *)
(* their vaults (RecordedIsInVault), what its markets record together is   *)
(* in the vaults they share (SharedVaultExact), and its first deposit      *)
(* stays locked (FirstDepositLocked).                                      *)
(***************************************************************************)
EXTENDS PerpMarket, Glv, MarketTheorems

-----------------------------------------------------------------------------
(* The inductive invariant.  What a removed position left behind accrued   *)
(* no more borrowing than the accumulator's present value, so that it      *)
(* cannot outgrow what the open interest owes.                             *)
LeftRecords == [size : Nat, borrowing : Nat, funding : Nat]

WellFormed ==
  /\ Sound(m) /\ o \in Oracles
  /\ positions \in [Kinds -> PositionStates]
  /\ \A k \in Kinds : positions[k].long = k[1] /\ positions[k].cl = k[2]
  /\ leftBehind \in [Kinds -> LeftRecords]

Healthy ==
  /\ \A k \in Kinds : positions[k].size = 0 => IsEmpty(positions[k])
  /\ \A k \in Kinds : positions[k].size # 0 =>
       positions[k].tokens # 0 /\ Settleable(m, positions[k])

LeftBounded ==
  \A k \in Kinds :
    leftBehind[k].borrowing * Unit <= leftBehind[k].size * m.pool[BorrowingFactor][k[1]]

SizeBook == [k \in Kinds |-> SizeOf(k)]
TokenBook == [k \in Kinds |-> positions[k].tokens]
CollateralBook == [k \in Kinds |-> positions[k].collateral]
BorrowingBook == [k \in Kinds |-> BorrowingOf(k)]

BooksAgree ==
  \A s \in BOOLEAN :
    /\ \A c \in BOOLEAN :
         /\ m.pool[<<"OpenInterest", s>>][c] = SumFunctionOnSet(SizeBook, PositionsOf(s, c))
         /\ m.pool[<<"OpenInterestInTokens", s>>][c]
              = SumFunctionOnSet(TokenBook, PositionsOf(s, c))
         /\ m.pool[<<"CollateralSum", s>>][c]
              = SumFunctionOnSet(CollateralBook, PositionsOf(s, c))
    /\ m.pool[TotalBorrowing][s] = SumFunctionOnSet(BorrowingBook, {k \in Kinds : k[1] = s})

MarketInv == WellFormed /\ Healthy /\ LeftBounded /\ BooksAgree

LEMMA KindsFinite ==
  ASSUME Sound(m)
  PROVE  /\ IsFiniteSet(Kinds)
         /\ \A k \in Kinds : k[1] \in BOOLEAN /\ k[2] \in BOOLEAN /\ (m.pure => k[2])
         /\ \A s, c \in BOOLEAN : IsFiniteSet(PositionsOf(s, c)) /\ PositionsOf(s, c) \subseteq Kinds
         /\ \A s \in BOOLEAN : IsFiniteSet({k \in Kinds : k[1] = s})
<1>1. m.pure \in BOOLEAN
  BY DEF Sound, IsMarket
<1>2. IsFiniteSet(PositionKinds[m.pure])
      /\ \A k \in PositionKinds[m.pure] : k[1] \in BOOLEAN /\ k[2] \in BOOLEAN
  BY <1>1, PerpAssumption
<1>3. IsFiniteSet(Kinds)
  BY <1>2, FS_Subset DEF Kinds
<1>4. \A k \in Kinds : k[1] \in BOOLEAN /\ k[2] \in BOOLEAN /\ (m.pure => k[2])
  BY <1>2 DEF Kinds
<1>5. ASSUME NEW s \in BOOLEAN, NEW c \in BOOLEAN
      PROVE  IsFiniteSet(PositionsOf(s, c)) /\ PositionsOf(s, c) \subseteq Kinds
  BY <1>3, FS_Subset DEF PositionsOf
<1>6. ASSUME NEW s \in BOOLEAN PROVE IsFiniteSet({k \in Kinds : k[1] = s})
  BY <1>3, FS_Subset
<1> QED BY <1>3, <1>4, <1>5, <1>6

LEMMA BookTypes ==
  ASSUME WellFormed, NEW k \in Kinds
  PROVE  /\ positions[k] \in PositionStates /\ Fits(m, positions[k])
         /\ leftBehind[k].size \in Nat /\ leftBehind[k].borrowing \in Nat
         /\ leftBehind[k].funding \in Nat
         /\ SizeBook[k] = positions[k].size + leftBehind[k].size
         /\ BorrowingBook[k] = ApplyFactor(positions[k].size, positions[k].borrowing)
                                 + leftBehind[k].borrowing
         /\ TokenBook[k] = positions[k].tokens /\ CollateralBook[k] = positions[k].collateral
         /\ SizeBook[k] \in Nat /\ BorrowingBook[k] \in Nat
         /\ TokenBook[k] \in Nat /\ CollateralBook[k] \in Int
<1>1. /\ positions[k] \in PositionStates /\ leftBehind[k] \in LeftRecords
      /\ positions[k].cl = k[2] /\ Sound(m)
  BY DEF WellFormed
<1>2. Fits(m, positions[k])
  BY <1>1, KindsFinite DEF Fits
<1>3. /\ leftBehind[k].size \in Nat /\ leftBehind[k].borrowing \in Nat
      /\ leftBehind[k].funding \in Nat
  BY <1>1 DEF LeftRecords
<1>4. /\ positions[k].size \in Nat /\ positions[k].tokens \in Nat
      /\ positions[k].collateral \in Int /\ positions[k].borrowing \in Nat
  BY <1>1, PositionFields
<1>5. /\ SizeBook[k] = positions[k].size + leftBehind[k].size
      /\ BorrowingBook[k] = ApplyFactor(positions[k].size, positions[k].borrowing)
                              + leftBehind[k].borrowing
      /\ TokenBook[k] = positions[k].tokens /\ CollateralBook[k] = positions[k].collateral
  BY DEF SizeBook, BorrowingBook, TokenBook, CollateralBook, SizeOf, BorrowingOf
<1>6. SizeBook[k] \in Nat /\ BorrowingBook[k] \in Nat
  <2>1. ApplyFactor(positions[k].size, positions[k].borrowing) \in Nat
    BY <1>4, FactorNat
  <2> QED BY <1>3, <1>4, <1>5, <2>1, NatOps
<1> QED BY <1>1, <1>2, <1>3, <1>4, <1>5, <1>6

\* What a market grows by keeps positions settleable and bounds what they left.
LEMMA GrowthKeeps ==
  ASSUME WellFormed, Healthy, LeftBounded, Sound(m'), m'.pure = m.pure,
         \A k \in Accumulators, s \in BOOLEAN : m.pool[k][s] <= m'.pool[k][s],
         NEW j \in Kinds
  PROVE  /\ positions[j].size # 0 => Settleable(m', positions[j])
         /\ leftBehind[j].borrowing * Unit <= leftBehind[j].size * m'.pool[BorrowingFactor][j[1]]
<1>1. Sound(m) /\ positions[j] \in PositionStates /\ leftBehind[j].size \in Nat
      /\ leftBehind[j].borrowing \in Nat /\ j[1] \in BOOLEAN
  BY BookTypes, KindsFinite DEF WellFormed
<1>2. positions[j].size # 0 => Settleable(m', positions[j])
  BY <1>1, SettleableMonotone DEF Healthy
<1> DEFINE before == m.pool[BorrowingFactor][j[1]]
           after == m'.pool[BorrowingFactor][j[1]]
           size == leftBehind[j].size
           borrowed == leftBehind[j].borrowing * Unit
<1>3. before \in Nat /\ after \in Nat
  BY <1>1, BookNat
<1>4. before <= after
  BY <1>1, SideKinds
<1>5. borrowed <= size * before
  BY DEF LeftBounded
<1>6. size \in Nat /\ borrowed \in Nat
  BY <1>1, ConfigAssumption, UnitAssumption, NatOps
<1> HIDE DEF before, after, size, borrowed
<1>7. size * before <= size * after /\ size * before \in Nat /\ size * after \in Nat
  BY <1>3, <1>4, <1>6, ProductMonotone, NatOps
<1>8. borrowed <= size * after
  BY <1>5, <1>6, <1>7
<1> QED BY <1>2, <1>8 DEF borrowed, size, after

\* Everything but an order keeps the invariant.
LEMMA KeepsMarketInv ==
  ASSUME MarketInv, Keeps(m, m'), m'.ok, o' \in Oracles,
         positions' = positions, leftBehind' = leftBehind
  PROVE  MarketInv'
<1>1. Sound(m) /\ IsMarket(m)
  BY DEF MarketInv, WellFormed, Sound
<1>2. /\ Sound(m') /\ m'.pure = m.pure
      /\ \A k \in BookPools, s \in BOOLEAN : m'.pool[k][s] = m.pool[k][s]
      /\ \A k \in Accumulators, s \in BOOLEAN : m.pool[k][s] <= m'.pool[k][s]
  BY <1>1 DEF Keeps
<1>3. Kinds' = Kinds
  BY <1>2 DEF Kinds
<1>4. WellFormed'
  BY <1>2, <1>3 DEF MarketInv, WellFormed
<1>5. Healthy' /\ LeftBounded'
  <2>1. ASSUME NEW j \in Kinds
        PROVE  /\ positions[j].size # 0 => Settleable(m', positions[j])
               /\ leftBehind[j].borrowing * Unit
                    <= leftBehind[j].size * m'.pool[BorrowingFactor][j[1]]
    BY <1>2, GrowthKeeps DEF MarketInv
  <2>2. Healthy'
    BY <1>3, <2>1 DEF MarketInv, Healthy
  <2>3. LeftBounded'
    BY <1>3, <2>1 DEF LeftBounded
  <2> QED BY <2>2, <2>3
<1>6. BooksAgree'
  <2>1. /\ SizeBook' = SizeBook /\ TokenBook' = TokenBook
        /\ CollateralBook' = CollateralBook /\ BorrowingBook' = BorrowingBook
    BY <1>3 DEF SizeBook, TokenBook, CollateralBook, BorrowingBook, SizeOf, BorrowingOf
  <2>2. ASSUME NEW s \in BOOLEAN, NEW c \in BOOLEAN
        PROVE  /\ m'.pool[<<"OpenInterest", s>>][c] = m.pool[<<"OpenInterest", s>>][c]
               /\ m'.pool[<<"OpenInterestInTokens", s>>][c]
                    = m.pool[<<"OpenInterestInTokens", s>>][c]
               /\ m'.pool[<<"CollateralSum", s>>][c] = m.pool[<<"CollateralSum", s>>][c]
               /\ m'.pool[TotalBorrowing][s] = m.pool[TotalBorrowing][s]
    BY <1>2, SideKinds
  <2>3. \A s, c \in BOOLEAN : PositionsOf(s, c)' = PositionsOf(s, c)
    BY <1>3 DEF PositionsOf
  <2> QED BY <1>3, <2>1, <2>2, <2>3 DEF MarketInv, BooksAgree
<1> QED BY <1>4, <1>5, <1>6 DEF MarketInv

\* An order keeps the invariant when the market books what the position changes by.
LEMMA OrderMarketInv ==
  ASSUME MarketInv, o' \in Oracles, NEW k \in Kinds,
         NEW q \in PositionStates, q.long = positions[k].long, q.cl = positions[k].cl,
         NEW l \in LeftRecords,
         positions' = [positions EXCEPT ![k] = q], leftBehind' = [leftBehind EXCEPT ![k] = l],
         q.size = 0 => IsEmpty(q), q.size # 0 => q.tokens # 0 /\ Settleable(m', q),
         l.borrowing * Unit <= l.size * m'.pool[BorrowingFactor][k[1]],
         NEW ds, ds = (q.size + l.size) - (positions[k].size + leftBehind[k].size),
         NEW dt, dt = q.tokens - positions[k].tokens,
         NEW dc, dc = q.collateral - positions[k].collateral,
         NEW db, db = (ApplyFactor(q.size, q.borrowing) + l.borrowing)
                      - (ApplyFactor(positions[k].size, positions[k].borrowing)
                           + leftBehind[k].borrowing),
         Posts(m, m', positions[k], ds, dt, dc, db)
  PROVE  MarketInv'
<1>1. Sound(m) /\ WellFormed
  BY DEF MarketInv, WellFormed
<1>2. /\ Sound(m') /\ m'.pure = m.pure
      /\ \A a \in Accumulators, s \in BOOLEAN : m.pool[a][s] <= m'.pool[a][s]
  BY DEF Posts
<1>3. Kinds' = Kinds
  BY <1>2 DEF Kinds
<1>4. positions[k].long = k[1] /\ positions[k].cl = k[2]
  BY <1>1 DEF WellFormed
<1>5. \A j \in Kinds : /\ positions'[j] = IF j = k THEN q ELSE positions[j]
                       /\ leftBehind'[j] = IF j = k THEN l ELSE leftBehind[j]
  BY <1>1 DEF WellFormed
<1>6. WellFormed'
  <2>1. positions' \in [Kinds -> PositionStates] /\ leftBehind' \in [Kinds -> LeftRecords]
    BY <1>1 DEF WellFormed
  <2>2. \A j \in Kinds : positions'[j].long = j[1] /\ positions'[j].cl = j[2]
    BY <1>1, <1>4, <1>5 DEF WellFormed
  <2> QED BY <1>2, <1>3, <2>1, <2>2 DEF WellFormed
<1>7. Healthy' /\ LeftBounded'
  <2>1. ASSUME NEW j \in Kinds
        PROVE  /\ positions[j].size # 0 => Settleable(m', positions[j])
               /\ leftBehind[j].borrowing * Unit
                    <= leftBehind[j].size * m'.pool[BorrowingFactor][j[1]]
    BY <1>2, GrowthKeeps DEF MarketInv
  <2>2. ASSUME NEW j \in Kinds
        PROVE  /\ positions'[j].size = 0 => IsEmpty(positions'[j])
               /\ positions'[j].size # 0 =>
                    positions'[j].tokens # 0 /\ Settleable(m', positions'[j])
    <3>1. CASE j = k
      BY <1>5, <3>1
    <3>2. CASE j # k
      BY <1>5, <2>1, <3>2 DEF MarketInv, Healthy
    <3> QED BY <3>1, <3>2
  <2>3. ASSUME NEW j \in Kinds
        PROVE  leftBehind'[j].borrowing * Unit
                 <= leftBehind'[j].size * m'.pool[BorrowingFactor][j[1]]
    <3>1. CASE j = k
      BY <1>5, <3>1
    <3>2. CASE j # k
      BY <1>5, <2>1, <3>2
    <3> QED BY <3>1, <3>2
  <2>4. Healthy'
    BY <1>3, <2>2 DEF Healthy
  <2>5. LeftBounded'
    BY <1>3, <2>3 DEF LeftBounded
  <2> QED BY <2>4, <2>5
<1> DEFINE f1 == SizeBook    g1 == SizeBook'
           f2 == TokenBook   g2 == TokenBook'
           f3 == CollateralBook   g3 == CollateralBook'
           f4 == BorrowingBook    g4 == BorrowingBook'
<1>8. \A j \in Kinds : f1[j] \in Int /\ f2[j] \in Int /\ f3[j] \in Int /\ f4[j] \in Int
  BY <1>1, BookTypes, NatInt
<1>9. /\ g1 = [j \in Kinds |-> positions'[j].size + leftBehind'[j].size]
      /\ g2 = [j \in Kinds |-> positions'[j].tokens]
      /\ g3 = [j \in Kinds |-> positions'[j].collateral]
      /\ g4 = [j \in Kinds |-> ApplyFactor(positions'[j].size, positions'[j].borrowing)
                                 + leftBehind'[j].borrowing]
  BY <1>3 DEF SizeBook, TokenBook, CollateralBook, BorrowingBook, SizeOf, BorrowingOf
<1>10. /\ f1 = [j \in Kinds |-> positions[j].size + leftBehind[j].size]
       /\ f2 = [j \in Kinds |-> positions[j].tokens]
       /\ f3 = [j \in Kinds |-> positions[j].collateral]
       /\ f4 = [j \in Kinds |-> ApplyFactor(positions[j].size, positions[j].borrowing)
                                  + leftBehind[j].borrowing]
  BY DEF SizeBook, TokenBook, CollateralBook, BorrowingBook, SizeOf, BorrowingOf
<1> HIDE DEF f1, f2, f3, f4, g1, g2, g3, g4
<1>11. \A j \in Kinds \ {k} : g1[j] = f1[j] /\ g2[j] = f2[j] /\ g3[j] = f3[j] /\ g4[j] = f4[j]
  BY <1>5, <1>9, <1>10
<1>12. /\ g1[k] = q.size + l.size /\ g2[k] = q.tokens /\ g3[k] = q.collateral
       /\ g4[k] = ApplyFactor(q.size, q.borrowing) + l.borrowing
  BY <1>5, <1>9
<1>13. /\ f1[k] = positions[k].size + leftBehind[k].size /\ f2[k] = positions[k].tokens
       /\ f3[k] = positions[k].collateral
       /\ f4[k] = ApplyFactor(positions[k].size, positions[k].borrowing) + leftBehind[k].borrowing
  BY <1>10
<1>14. ds = g1[k] - f1[k] /\ dt = g2[k] - f2[k] /\ dc = g3[k] - f3[k] /\ db = g4[k] - f4[k]
  BY <1>12, <1>13
<1>15. g1[k] \in Int /\ g2[k] \in Int /\ g3[k] \in Int /\ g4[k] \in Int
  <2>1. /\ q.size \in Nat /\ q.tokens \in Nat /\ q.collateral \in Int /\ q.borrowing \in Nat
        /\ l.size \in Nat /\ l.borrowing \in Nat
    BY PositionFields DEF LeftRecords
  <2>2. ApplyFactor(q.size, q.borrowing) \in Nat
    BY <2>1, FactorNat
  <2> QED BY <1>12, <2>1, <2>2, IntOps, NatInt
<1>16. /\ \A s, c \in BOOLEAN : IsFiniteSet(PositionsOf(s, c)) /\ PositionsOf(s, c) \subseteq Kinds
       /\ \A s \in BOOLEAN : IsFiniteSet({j \in Kinds : j[1] = s})
  BY <1>1, KindsFinite
<1>17. ASSUME NEW s \in BOOLEAN, NEW c \in BOOLEAN
       PROVE  /\ SumFunctionOnSet(g1, PositionsOf(s, c)) = SumFunctionOnSet(f1, PositionsOf(s, c))
                   + (IF k \in PositionsOf(s, c) THEN ds ELSE 0)
              /\ SumFunctionOnSet(g2, PositionsOf(s, c)) = SumFunctionOnSet(f2, PositionsOf(s, c))
                   + (IF k \in PositionsOf(s, c) THEN dt ELSE 0)
              /\ SumFunctionOnSet(g3, PositionsOf(s, c)) = SumFunctionOnSet(f3, PositionsOf(s, c))
                   + (IF k \in PositionsOf(s, c) THEN dc ELSE 0)
  <2> DEFINE T == PositionsOf(s, c)
  <2>1. IsFiniteSet(T) /\ T \subseteq Kinds
    BY <1>16
  <2> HIDE DEF T
  <2>2. SumFunctionOnSet(g1, T) = SumFunctionOnSet(f1, T) + (IF k \in T THEN ds ELSE 0)
    <3>1. /\ \A j \in T : f1[j] \in Int
          /\ \A j \in T \ {k} : g1[j] = f1[j]
      BY <1>8, <1>11, <2>1
    <3>2. f1[k] \in Int /\ g1[k] \in Int
      BY <1>8, <1>15
    <3>3. SumFunctionOnSet(g1, T)
            = SumFunctionOnSet(f1, T) + (IF k \in T THEN g1[k] - f1[k] ELSE 0)
      BY <2>1, <3>1, <3>2, SumWithChange
    <3> QED BY <1>14, <3>3
  <2>3. SumFunctionOnSet(g2, T) = SumFunctionOnSet(f2, T) + (IF k \in T THEN dt ELSE 0)
    BY <1>8, <1>11, <1>14, <1>15, <2>1, SumWithChange
  <2>4. SumFunctionOnSet(g3, T) = SumFunctionOnSet(f3, T) + (IF k \in T THEN dc ELSE 0)
    BY <1>8, <1>11, <1>14, <1>15, <2>1, SumWithChange
  <2> QED BY <2>2, <2>3, <2>4 DEF T
<1>18. ASSUME NEW s \in BOOLEAN
       PROVE  SumFunctionOnSet(g4, {j \in Kinds : j[1] = s})
                = SumFunctionOnSet(f4, {j \in Kinds : j[1] = s}) + (IF s = k[1] THEN db ELSE 0)
  <2> DEFINE T == {j \in Kinds : j[1] = s}
  <2>1. IsFiniteSet(T) /\ T \subseteq Kinds /\ (k \in T <=> s = k[1])
    BY <1>16
  <2> HIDE DEF T
  <2>2. SumFunctionOnSet(g4, T) = SumFunctionOnSet(f4, T) + (IF k \in T THEN db ELSE 0)
    <3>1. /\ \A j \in T : f4[j] \in Int
          /\ \A j \in T \ {k} : g4[j] = f4[j]
      BY <1>8, <1>11, <2>1
    <3>2. f4[k] \in Int /\ g4[k] \in Int
      BY <1>8, <1>15
    <3>3. SumFunctionOnSet(g4, T)
            = SumFunctionOnSet(f4, T) + (IF k \in T THEN g4[k] - f4[k] ELSE 0)
      BY <2>1, <3>1, <3>2, SumWithChange
    <3> QED BY <1>14, <3>3
  <2> QED BY <2>1, <2>2 DEF T
<1>19. \A s, c \in BOOLEAN : PositionsOf(s, c)' = PositionsOf(s, c)
                               /\ (k \in PositionsOf(s, c) <=> (s = k[1] /\ c = k[2]))
  BY <1>3 DEF PositionsOf
<1>20. BooksAgree'
  <2>1. ASSUME NEW s \in BOOLEAN, NEW c \in BOOLEAN
        PROVE  /\ m'.pool[<<"OpenInterest", s>>][c] = SumFunctionOnSet(g1, PositionsOf(s, c))
               /\ m'.pool[<<"OpenInterestInTokens", s>>][c]
                    = SumFunctionOnSet(g2, PositionsOf(s, c))
               /\ m'.pool[<<"CollateralSum", s>>][c] = SumFunctionOnSet(g3, PositionsOf(s, c))
    <3>1. /\ m.pool[<<"OpenInterest", s>>][c] = SumFunctionOnSet(f1, PositionsOf(s, c))
          /\ m.pool[<<"OpenInterestInTokens", s>>][c] = SumFunctionOnSet(f2, PositionsOf(s, c))
          /\ m.pool[<<"CollateralSum", s>>][c] = SumFunctionOnSet(f3, PositionsOf(s, c))
      BY DEF MarketInv, BooksAgree, f1, f2, f3
    <3>2. /\ m'.pool[<<"OpenInterest", s>>][c] = m.pool[<<"OpenInterest", s>>][c]
               + (IF s = k[1] /\ c = k[2] THEN ds ELSE 0)
          /\ m'.pool[<<"OpenInterestInTokens", s>>][c] = m.pool[<<"OpenInterestInTokens", s>>][c]
               + (IF s = k[1] /\ c = k[2] THEN dt ELSE 0)
          /\ m'.pool[<<"CollateralSum", s>>][c] = m.pool[<<"CollateralSum", s>>][c]
               + (IF s = k[1] /\ c = k[2] THEN dc ELSE 0)
      BY <1>4 DEF Posts
    <3> QED BY <1>17, <1>19, <3>1, <3>2
  <2>2. ASSUME NEW s \in BOOLEAN
        PROVE  m'.pool[TotalBorrowing][s] = SumFunctionOnSet(g4, {j \in Kinds : j[1] = s})
    <3>1. m.pool[TotalBorrowing][s] = SumFunctionOnSet(f4, {j \in Kinds : j[1] = s})
      BY DEF MarketInv, BooksAgree, f4
    <3>2. m'.pool[TotalBorrowing][s] = m.pool[TotalBorrowing][s] + (IF s = k[1] THEN db ELSE 0)
      BY <1>4 DEF Posts
    <3> QED BY <1>18, <3>1, <3>2
  <2> QED BY <1>3, <1>19, <2>1, <2>2 DEF BooksAgree, g1, g2, g3, g4
<1> QED BY <1>6, <1>7, <1>20 DEF MarketInv


\* The order of a position between two steps that only keep books.
LEMMA OrderBetween ==
  ASSUME NEW a, Sound(a), NEW n, Keeps(a, n), n.ok, NEW b, NEW e, Keeps(b, e), e.ok, NEW p,
         NEW s \in Int, NEW t \in Int, NEW c \in Int, NEW d \in Int, Posts(n, b, p, s, t, c, d)
  PROVE  Posts(a, e, p, s, t, c, d) /\ Posts(b, e, p, 0, 0, 0, 0)
<1>1. Posts(a, n, p, 0, 0, 0, 0)
  BY KeepsPosts
<1>2. Posts(b, e, p, 0, 0, 0, 0)
  <2>1. Sound(b)
    BY DEF Posts
  <2> QED BY <2>1, KeepsPosts
<1>3. Posts(a, b, p, 0 + s, 0 + t, 0 + c, 0 + d)
  BY <1>1, PostsTransitive
<1>4. 0 + s = s /\ 0 + t = t /\ 0 + c = c /\ 0 + d = d
      /\ s + 0 = s /\ t + 0 = t /\ c + 0 = c /\ d + 0 = d
  OBVIOUS
<1>5. Posts(a, b, p, s, t, c, d)
  BY <1>3, <1>4
<1>6. Posts(a, e, p, s + 0, t + 0, c + 0, d + 0)
  BY <1>2, <1>5, PostsTransitive
<1> QED BY <1>2, <1>4, <1>6

LEMMA IncreaseStep ==
  ASSUME MarketInv, NEW k \in Kinds, NEW paid \in Nat, NEW delta \in Nat,
         ExecuteIncrease(k, paid, delta)
  PROVE  MarketInv' /\ m'.pure = m.pure
<1> DEFINE n == PreExecute(TransferIn(m, k[2], paid), o)
           p == positions[k]
           r == Increase(n, o, p, paid, delta)
           left == leftBehind[k]
           ds == r.p.size - p.size
           dt == r.p.tokens - p.tokens
           dc == r.p.collateral - p.collateral
           owed == ApplyFactor(p.size, p.borrowing)
           owes == ApplyFactor(r.p.size, r.p.borrowing)
           db == owes - owed
<1>1. /\ n.ok /\ r.m.ok /\ m' = Paid(r.m, r.claim) /\ m'.ok
      /\ positions' = [positions EXCEPT ![k] = r.p] /\ leftBehind' = leftBehind /\ o' = o
  BY DEF ExecuteIncrease, Commit, Untouched
<1>2. /\ WellFormed /\ Sound(m) /\ o \in Oracles /\ p \in PositionStates /\ Fits(m, p)
      /\ left.size \in Nat /\ left.borrowing \in Nat
  BY BookTypes DEF MarketInv, WellFormed
<1>3. Keeps(m, n)
  <2>1. Keeps(m, TransferIn(m, k[2], paid))
    BY TransferInKeeps
  <2>2. Keeps(TransferIn(m, k[2], paid), n)
    BY <1>2, PreExecuteKeeps
  <2> QED BY <2>1, <2>2, KeepsTransitive
<1> HIDE DEF n
<1>4. Sound(n) /\ n.pure = m.pure
  BY <1>1, <1>2, <1>3 DEF Keeps, Sound
<1>5. Fits(n, p)
  BY <1>2, <1>4 DEF Fits
<1>6. p.size = 0 => p.tokens = 0
  BY DEF MarketInv, Healthy, IsEmpty
<1>7. paid \in Int
  OBVIOUS
<1>8. /\ r.p \in PositionStates /\ r.p.long = p.long /\ r.p.cl = p.cl
      /\ r.p.size # 0 /\ r.p.tokens # 0 /\ Settleable(r.m, r.p)
      /\ Posts(n, r.m, p, ds, dt, dc, db)
  BY <1>1, <1>2, <1>4, <1>5, <1>6, <1>7, IncreasePosts
<1> HIDE DEF r, p
<1>9. /\ p.size \in Nat /\ p.tokens \in Nat /\ p.collateral \in Int /\ p.borrowing \in Nat
      /\ r.p.size \in Nat /\ r.p.tokens \in Nat /\ r.p.collateral \in Int /\ r.p.borrowing \in Nat
  BY <1>2, <1>8, PositionFields
<1>10. owed \in Nat /\ owes \in Nat
  BY <1>9, FactorNat
<1> HIDE DEF owed, owes
<1>11. ds \in Int /\ dt \in Int /\ dc \in Int /\ db \in Int
  BY <1>9, <1>10
<1>12. /\ ds = (r.p.size + left.size) - (p.size + left.size)
       /\ db = (owes + left.borrowing) - (owed + left.borrowing)
  BY <1>2, <1>9, <1>10
<1>13. Keeps(r.m, m')
  BY <1>1, PaidKeeps
<1> HIDE DEF ds, db
<1>14. Posts(m, m', p, ds, dt, dc, db) /\ Posts(r.m, m', p, 0, 0, 0, 0)
  <2> HIDE DEF dt, dc
  <2> QED BY <1>1, <1>2, <1>3, <1>8, <1>11, <1>13, OrderBetween
<1>15. Settleable(m', r.p)
  BY <1>8, <1>14, SettleableMonotone DEF Posts
<1>16. left.borrowing * Unit <= left.size * m'.pool[BorrowingFactor][k[1]]
  BY <1>14, GrowthKeeps DEF Posts, MarketInv
<1>17. left \in LeftRecords /\ leftBehind' = [leftBehind EXCEPT ![k] = left]
  BY <1>1, <1>2 DEF WellFormed
<1> HIDE DEF left
<1>18. o' \in Oracles
  BY <1>1, <1>2
<1>19. MarketInv'
  BY <1>1, <1>8, <1>12, <1>14, <1>15, <1>16, <1>17, <1>18, OrderMarketInv
     DEF dt, dc, owed, owes, p, left
<1> QED BY <1>14, <1>19 DEF Posts


\* A removed position leaves behind no more borrowing than the accumulator allows.
LEMMA LeftGrows ==
  ASSUME NEW size \in Nat, NEW borrowing \in Nat, NEW rest \in Nat, NEW settled \in Nat,
         NEW factor \in Nat, borrowing * Unit <= size * factor, settled <= factor
  PROVE  (borrowing + ApplyFactor(rest, settled)) * Unit <= (size + rest) * factor
<1> DEFINE owed == ApplyFactor(rest, settled)
           i == borrowing * Unit
           j == owed * Unit
           x == size * factor
           y == rest * factor
<1>1. owed \in Nat
  BY FactorNat
<1>2. j <= rest * settled
  <2>1. rest * settled \in Nat
    BY NatOps
  <2> QED BY <2>1, UnitAssumption, Quotient DEF ApplyFactor, MulDiv
<1>3. rest * settled <= y /\ rest * settled \in Nat /\ y \in Nat
  BY ProductMonotone, NatOps
<1>4. (borrowing + owed) * Unit = i + j
  <2> HIDE DEF owed
  <2> QED BY <1>1, UnitAssumption
<1>5. (size + rest) * factor = x + y
  OBVIOUS
<1>6. i \in Nat /\ j \in Nat /\ x \in Nat
  <2> HIDE DEF owed
  <2> QED BY <1>1, UnitAssumption, NatOps
<1>7. i <= x
  OBVIOUS
<1> HIDE DEF owed, i, j, x, y
<1>8. i + j <= x + y
  <2>1. j <= y
    BY <1>2, <1>3, <1>6
  <2> QED BY <1>3, <1>6, <1>7, <2>1
<1> QED BY <1>4, <1>5, <1>8 DEF owed

LEMMA NewPositionFields ==
  ASSUME NEW s \in BOOLEAN, NEW c \in BOOLEAN
  PROVE  /\ NewPosition(s, c) \in PositionStates /\ IsEmpty(NewPosition(s, c))
         /\ NewPosition(s, c).long = s /\ NewPosition(s, c).cl = c
         /\ NewPosition(s, c).size = 0 /\ NewPosition(s, c).tokens = 0
         /\ NewPosition(s, c).collateral = 0
         /\ ApplyFactor(NewPosition(s, c).size, NewPosition(s, c).borrowing) = 0
<1>1. /\ NewPosition(s, c) \in PositionStates
      /\ NewPosition(s, c).long = s /\ NewPosition(s, c).cl = c
      /\ NewPosition(s, c).size = 0 /\ NewPosition(s, c).tokens = 0
      /\ NewPosition(s, c).collateral = 0 /\ NewPosition(s, c).borrowing = 0
  BY DEF NewPosition, PositionStates
<1>2. ApplyFactor(0, 0) = 0
  BY UnitAssumption DEF ApplyFactor, MulDiv
<1> QED BY <1>1, <1>2 DEF IsEmpty

LEMMA DecreaseStep ==
  ASSUME MarketInv, NEW k \in Kinds, NEW n, Keeps(m, n), n.ok,
         NEW req, req.size \in Nat, req.withdraw \in Int,
         NEW r, r = Decrease(n, o, positions[k], req), DecreaseTo(k, r)
  PROVE  MarketInv' /\ m'.pure = m.pure
<1> DEFINE p == positions[k]
           left == leftBehind[k]
           rest == p.size - r.size
           owed == ApplyFactor(p.size, p.borrowing)
           stays == ApplyFactor(rest, r.p.borrowing)
           q == IF r.removed THEN NewPosition(k[1], k[2]) ELSE r.p
           kept == left.funding + rest * r.p.funding
           l == IF r.removed
                THEN [size |-> left.size + rest, borrowing |-> left.borrowing + stays,
                      funding |-> kept]
                ELSE left
           pays == DecreasePays(k, r)
<1>1. /\ r.m.ok /\ m' = Paid(r.m, pays) /\ m'.ok /\ o' = o
      /\ positions' = [positions EXCEPT ![k] = q]
      /\ leftBehind' = [leftBehind EXCEPT ![k] = l]
  BY DEF DecreaseTo, Commit, Untouched, LeftBehind
<1> HIDE DEF pays
<1>2. /\ WellFormed /\ Sound(m) /\ o \in Oracles /\ p \in PositionStates /\ Fits(m, p)
      /\ left.size \in Nat /\ left.borrowing \in Nat /\ left.funding \in Nat
      /\ left \in LeftRecords
      /\ p.long = k[1] /\ p.cl = k[2]
  BY BookTypes DEF MarketInv, WellFormed
<1>3. Sound(n) /\ n.pure = m.pure
  BY <1>2 DEF Keeps, Sound
<1>4. Fits(n, p)
  BY <1>2, <1>3 DEF Fits
<1>5. p.size # 0 => p.tokens # 0
  BY DEF MarketInv, Healthy
<1>6. /\ r.p \in PositionStates /\ r.p.long = p.long /\ r.p.cl = p.cl
      /\ r.size \in Nat /\ r.size <= p.size /\ r.removed \in BOOLEAN
      /\ r.p.borrowing <= r.m.pool[BorrowingFactor][p.long]
      /\ r.removed =>
           Posts(n, r.m, p, -r.size, -p.tokens, -p.collateral, stays - owed)
      /\ ~r.removed =>
           /\ r.p.size = p.size - r.size /\ r.p.size # 0 /\ r.p.tokens # 0
           /\ Settleable(r.m, r.p)
           /\ Posts(n, r.m, p, r.p.size - p.size, r.p.tokens - p.tokens,
                    r.p.collateral - p.collateral,
                    ApplyFactor(r.p.size, r.p.borrowing) - owed)
  BY <1>1, <1>2, <1>3, <1>4, <1>5, DecreasePosts
<1> HIDE DEF p, left
<1>7. /\ p.size \in Nat /\ p.tokens \in Nat /\ p.collateral \in Int /\ p.borrowing \in Nat
      /\ r.p.size \in Nat /\ r.p.tokens \in Nat /\ r.p.collateral \in Int /\ r.p.borrowing \in Nat
      /\ p.long \in BOOLEAN /\ p.cl \in BOOLEAN /\ rest \in Nat
  BY <1>2, <1>6, PositionFields
<1>8. owed \in Nat /\ stays \in Nat /\ ApplyFactor(r.p.size, r.p.borrowing) \in Nat
  <2> HIDE DEF rest
  <2> QED BY <1>7, FactorNat
<1>9. Keeps(r.m, m')
  BY <1>1, PaidKeeps
<1>10. o' \in Oracles
  BY <1>1, <1>2
<1> HIDE DEF owed, stays
<1>11. CASE r.removed
  <2> DEFINE ds == -r.size
             dt == -p.tokens
             dc == -p.collateral
             db == stays - owed
  <2>1. ds \in Int /\ dt \in Int /\ dc \in Int /\ db \in Int
    BY <1>6, <1>7, <1>8
  <2>2. Posts(n, r.m, p, ds, dt, dc, db)
    BY <1>6, <1>11
  <2>3. q = NewPosition(k[1], k[2])
    BY <1>11
  <2>4. /\ l = [size |-> left.size + rest, borrowing |-> left.borrowing + stays,
                funding |-> kept]
        /\ kept \in Nat
    <3>1. r.p.funding \in Nat
      BY <1>6, PositionFields
    <3>2. kept \in Nat
      <4> HIDE DEF rest
      <4> QED BY <1>2, <1>7, <3>1, NatOps
    <3> QED BY <1>11, <3>2
  <2> HIDE DEF ds, dt, dc, db, q, l, kept
  <2>5. Posts(m, m', p, ds, dt, dc, db) /\ Posts(r.m, m', p, 0, 0, 0, 0)
    BY <1>1, <1>2, <1>9, <2>1, <2>2, OrderBetween
  <2>6. /\ q \in PositionStates /\ IsEmpty(q) /\ q.long = p.long /\ q.cl = p.cl
        /\ q.size = 0 /\ q.tokens = 0 /\ q.collateral = 0
        /\ ApplyFactor(q.size, q.borrowing) = 0
    BY <1>2, <1>7, <2>3, NewPositionFields
  <2>7. /\ l.size = left.size + rest /\ l.borrowing = left.borrowing + stays /\ l \in LeftRecords
    BY <1>2, <1>7, <1>8, <2>4, NatOps DEF LeftRecords
  <2>8. ds = (q.size + l.size) - (p.size + left.size)
    BY <1>2, <1>6, <1>7, <2>6, <2>7 DEF ds
  <2>9. dt = q.tokens - p.tokens /\ dc = q.collateral - p.collateral
    BY <1>7, <2>6 DEF dt, dc
  <2>10. db = (ApplyFactor(q.size, q.borrowing) + l.borrowing) - (owed + left.borrowing)
    <3>1. stays - owed = (0 + (left.borrowing + stays)) - (owed + left.borrowing)
      BY <1>2, <1>8
    <3> QED BY <2>6, <2>7, <3>1 DEF db
  <2>11. l.borrowing * Unit <= l.size * m'.pool[BorrowingFactor][k[1]]
    <3> DEFINE factor == m'.pool[BorrowingFactor][k[1]]
    <3>1. left.borrowing * Unit <= left.size * factor
      BY <2>5, GrowthKeeps DEF Posts, MarketInv, left
    <3>2. r.p.borrowing <= factor /\ factor \in Nat
      <4>1. r.m.pool[BorrowingFactor][p.long] <= m'.pool[BorrowingFactor][p.long]
        BY <1>7, <2>5, SideKinds DEF Posts
      <4>2. r.m.pool[BorrowingFactor][p.long] \in Nat /\ m'.pool[BorrowingFactor][p.long] \in Nat
        BY <1>7, <2>5, BookNat DEF Posts
      <4> QED BY <1>2, <1>6, <1>7, <4>1, <4>2
    <3> HIDE DEF factor, rest
    <3>3. (left.borrowing + ApplyFactor(rest, r.p.borrowing)) * Unit <= (left.size + rest) * factor
      BY <1>2, <1>7, <3>1, <3>2, LeftGrows
    <3> QED BY <2>7, <3>3 DEF stays, factor
  <2>12. MarketInv'
    BY <1>1, <1>10, <2>5, <2>6, <2>7, <2>8, <2>9, <2>10, <2>11, OrderMarketInv
       DEF p, left, owed
  <2> QED BY <2>5, <2>12 DEF Posts
<1>12. CASE ~r.removed
  <2> DEFINE owes == ApplyFactor(r.p.size, r.p.borrowing)
             ds == r.p.size - p.size
             dt == r.p.tokens - p.tokens
             dc == r.p.collateral - p.collateral
             db == owes - owed
  <2>1. ds \in Int /\ dt \in Int /\ dc \in Int /\ db \in Int
    <3> HIDE DEF owes
    <3>1. owes \in Nat
      BY <1>8 DEF owes
    <3> QED BY <1>7, <1>8, <3>1
  <2>2. Posts(n, r.m, p, ds, dt, dc, db)
    BY <1>6, <1>12
  <2>3. q = r.p /\ l = left
    BY <1>12
  <2>4. /\ ds = (r.p.size + left.size) - (p.size + left.size)
        /\ db = (owes + left.borrowing) - (owed + left.borrowing)
    <3>1. owes \in Nat
      BY <1>8
    <3> HIDE DEF owes
    <3> QED BY <1>2, <1>7, <1>8, <3>1
  <2> HIDE DEF ds, dt, dc, db, q, l
  <2>5. Posts(m, m', p, ds, dt, dc, db) /\ Posts(r.m, m', p, 0, 0, 0, 0)
    BY <1>1, <1>2, <1>9, <2>1, <2>2, OrderBetween
  <2>6. Settleable(m', r.p) /\ r.p.size # 0 /\ r.p.tokens # 0
    BY <1>6, <1>12, <2>5, SettleableMonotone DEF Posts
  <2>7. left.borrowing * Unit <= left.size * m'.pool[BorrowingFactor][k[1]]
    BY <2>5, GrowthKeeps DEF Posts, MarketInv, left
  <2>8. /\ positions' = [positions EXCEPT ![k] = r.p]
        /\ leftBehind' = [leftBehind EXCEPT ![k] = left]
    BY <1>1, <2>3
  <2>9. MarketInv'
    BY <1>2, <1>6, <1>10, <2>4, <2>5, <2>6, <2>7, <2>8, OrderMarketInv
       DEF p, left, owed, dt, dc
  <2> QED BY <2>5, <2>9 DEF Posts
<1> QED BY <1>6, <1>11, <1>12


-----------------------------------------------------------------------------
LEMMA NewMarketSound ==
  ASSUME NEW pure \in BOOLEAN
  PROVE  /\ Sound(NewMarket(pure, 0)) /\ NewMarket(pure, 0).pure = pure
         /\ \A k \in PoolKinds, s \in BOOLEAN : NewMarket(pure, 0).pool[k][s] = 0
<1> DEFINE a == NewMarket(pure, 0)
<1>1. /\ a.pure = pure /\ a.ok = TRUE /\ a.factor = 0
      /\ a.pool = [k \in PoolKinds |-> [s \in BOOLEAN |-> 0]]
      /\ a.clock = [k \in ClockKinds |-> 0]
      /\ a = [pure |-> a.pure, supply |-> a.supply, factor |-> a.factor, ok |-> a.ok,
              pool |-> a.pool, bal |-> a.bal, clock |-> a.clock]
  BY DEF NewMarket
<1> HIDE DEF a
<1>2. \A k \in PoolKinds, s \in BOOLEAN : a.pool[k][s] = 0
  BY <1>1
<1>3. a.pool = [k \in PoolKinds |-> [s \in BOOLEAN |-> a.pool[k][s]]]
  BY <1>1
<1>4. a.clock = [c \in ClockKinds |-> a.clock[c]] /\ \A c \in ClockKinds : a.clock[c] = 0
  BY <1>1
<1>5. IsMarket(a)
  BY <1>1, <1>3, <1>4 DEF IsMarket
<1>6. Sound(a)
  BY <1>1, <1>2, <1>4, <1>5 DEF Sound
<1> QED BY <1>1, <1>2, <1>6 DEF a

LEMMA InitMarketInv == Init => MarketInv
<1> SUFFICES ASSUME Init PROVE MarketInv
  OBVIOUS
<1>1. PICK pure \in PureChoices : \E p \in FirstPrices[pure] :
             o = Start(p) /\ m = Opened(pure, Start(p))
  BY DEF Init
<1>2. PICK p \in FirstPrices[pure] : o = Start(p) /\ m = Opened(pure, Start(p))
  BY <1>1
<1>3. pure \in BOOLEAN /\ p \in PriceRecords
  BY PerpAssumption
<1>4. o \in Oracles
  BY <1>2, <1>3 DEF Start, PriceRecords, Oracles
<1> DEFINE new == NewMarket(pure, 0)
           one == TransferIn(new, TRUE, FirstDeposit[TRUE])
           two == TransferIn(one, FALSE, FirstDeposit[FALSE])
           n == PreExecute(two, Start(p))
           done == Deposit(n, Start(p), FirstDeposit, SwapFeeParams("Deposit")).m
<1>5. /\ Sound(new) /\ new.pure = pure
      /\ \A k \in PoolKinds, s \in BOOLEAN : new.pool[k][s] = 0
  BY <1>3, NewMarketSound
<1>6. Keeps(new, m)
  <2>1. Keeps(new, one) /\ Keeps(one, two)
    BY TransferInKeeps
  <2>2. Keeps(two, n) /\ Keeps(n, done)
    BY <1>2, <1>4, PreExecuteKeeps, DepositKeeps
  <2>3. m = Covered(done)
    BY <1>2 DEF Opened
  <2>4. Keeps(done, m)
    BY <2>3, PaidKeeps
  <2> HIDE DEF new, one, two, n, done
  <2> QED BY <2>1, <2>2, <2>4, KeepsTransitive
<1> HIDE DEF new
<1>7. /\ Sound(m) /\ m.pure = pure
      /\ \A k \in BookPools, s \in BOOLEAN : m.pool[k][s] = 0
  <2>1. m.ok /\ IsMarket(new)
    BY <1>5 DEF Init, Sound
  <2>2. /\ Sound(m) /\ m.pure = pure
        /\ \A k \in BookPools, s \in BOOLEAN : m.pool[k][s] = new.pool[k][s]
    BY <1>5, <1>6, <2>1 DEF Keeps
  <2> QED BY <1>5, <2>2, PoolsSplit
<1>8. \A k \in Kinds : k[1] \in BOOLEAN /\ k[2] \in BOOLEAN
  BY <1>7, KindsFinite
<1>9. /\ positions = [k \in Kinds |-> NewPosition(k[1], k[2])]
      /\ leftBehind = [k \in Kinds |-> [size |-> 0, borrowing |-> 0, funding |-> 0]]
  BY DEF Init
<1>10. ASSUME NEW k \in Kinds
       PROVE  /\ positions[k] \in PositionStates /\ IsEmpty(positions[k])
              /\ positions[k].long = k[1] /\ positions[k].cl = k[2]
              /\ positions[k].size = 0 /\ positions[k].tokens = 0
              /\ positions[k].collateral = 0
              /\ ApplyFactor(positions[k].size, positions[k].borrowing) = 0
  <2>1. positions[k] = NewPosition(k[1], k[2])
    BY <1>9
  <2> QED BY <1>8, <2>1, NewPositionFields
<1>11. \A k \in Kinds : leftBehind[k].size = 0 /\ leftBehind[k].borrowing = 0
  BY <1>9
<1>12. WellFormed
  <2>1. positions \in [Kinds -> PositionStates]
    BY <1>9, <1>10
  <2>2. leftBehind \in [Kinds -> LeftRecords]
    BY <1>9 DEF LeftRecords
  <2> QED BY <1>4, <1>7, <1>10, <2>1, <2>2 DEF WellFormed
<1>13. Healthy
  BY <1>10 DEF Healthy
<1>14. LeftBounded
  <2>1. ASSUME NEW k \in Kinds
        PROVE  0 * Unit <= 0 * m.pool[BorrowingFactor][k[1]]
    <3>1. m.pool[BorrowingFactor][k[1]] \in Nat
      BY <1>7, <1>8, BookNat
    <3> QED BY <3>1, UnitAssumption
  <2> QED BY <1>11, <2>1 DEF LeftBounded
<1>15. BooksAgree
  <2>1. \A k \in Kinds : SizeBook[k] = 0 /\ TokenBook[k] = 0 /\ CollateralBook[k] = 0
                           /\ BorrowingBook[k] = 0
    BY <1>10, <1>11 DEF SizeBook, TokenBook, CollateralBook, BorrowingBook, SizeOf, BorrowingOf
  <2>2. ASSUME NEW s \in BOOLEAN, NEW c \in BOOLEAN
        PROVE  /\ SumFunctionOnSet(SizeBook, PositionsOf(s, c)) = 0
               /\ SumFunctionOnSet(TokenBook, PositionsOf(s, c)) = 0
               /\ SumFunctionOnSet(CollateralBook, PositionsOf(s, c)) = 0
    <3>1. IsFiniteSet(PositionsOf(s, c)) /\ PositionsOf(s, c) \subseteq Kinds
      BY <1>7, KindsFinite
    <3> QED BY <2>1, <3>1, SumZero
  <2>3. ASSUME NEW s \in BOOLEAN
        PROVE  SumFunctionOnSet(BorrowingBook, {k \in Kinds : k[1] = s}) = 0
    <3>1. IsFiniteSet({k \in Kinds : k[1] = s})
      BY <1>7, KindsFinite
    <3> QED BY <2>1, <3>1, SumZero
  <2> QED BY <1>7, <2>2, <2>3, SideKinds DEF BooksAgree
<1> QED BY <1>12, <1>13, <1>14, <1>15 DEF MarketInv

LEMMA DepositStep ==
  ASSUME MarketInv, NEW amount, NEW fees, DepositWith(amount, fees)
  PROVE  MarketInv'
<1> DEFINE one == TransferIn(m, TRUE, amount[TRUE])
           two == TransferIn(one, FALSE, amount[FALSE])
           n == PreExecute(two, o)
           done == Deposit(n, o, amount, fees).m
<1>1. /\ m' = Covered(done) /\ m'.ok /\ o' = o
      /\ positions' = positions /\ leftBehind' = leftBehind
  BY DEF DepositWith, Commit, Untouched
<1>2. o \in Oracles
  BY DEF MarketInv, WellFormed
<1>3. Keeps(m, one) /\ Keeps(one, two) /\ Keeps(two, n) /\ Keeps(n, done) /\ Keeps(done, m')
  BY <1>1, <1>2, TransferInKeeps, PreExecuteKeeps, DepositKeeps, PaidKeeps
<1> HIDE DEF one, two, n, done
<1>4. Keeps(m, m')
  BY <1>3, KeepsTransitive
<1> QED BY <1>1, <1>2, <1>4, KeepsMarketInv

LEMMA WithdrawStep ==
  ASSUME MarketInv, NEW burnt, NEW fees, WithdrawWith(burnt, fees)
  PROVE  MarketInv'
<1> DEFINE n == PreExecute(m, o)
           r == Withdraw(n, o, burnt, fees)
<1>1. /\ m' = Paid(r.m, r.out) /\ m'.ok /\ o' = o
      /\ positions' = positions /\ leftBehind' = leftBehind
  BY DEF WithdrawWith, Commit, Untouched
<1>2. o \in Oracles
  BY DEF MarketInv, WellFormed
<1>3. Keeps(m, n) /\ Keeps(n, r.m) /\ Keeps(r.m, m')
  BY <1>1, <1>2, PreExecuteKeeps, WithdrawKeeps, PaidKeeps
<1> HIDE DEF n, r
<1>4. Keeps(m, m')
  BY <1>3, KeepsTransitive
<1> QED BY <1>1, <1>2, <1>4, KeepsMarketInv

LEMMA SwapStep ==
  ASSUME MarketInv, NEW s \in BOOLEAN, NEW amount, ExecuteSwap(s, amount)
  PROVE  MarketInv'
<1> DEFINE one == TransferIn(m, s, amount)
           n == PreExecute(one, o)
           r == Swap(n, o, s, amount, SwapFeeParams("Swap"))
<1>1. /\ m' = Paid(r.m, Only(~s, r.out)) /\ m'.ok /\ o' = o
      /\ positions' = positions /\ leftBehind' = leftBehind
  BY DEF ExecuteSwap, Commit, Untouched
<1>2. o \in Oracles
  BY DEF MarketInv, WellFormed
<1>3. Keeps(m, one) /\ Keeps(one, n) /\ Keeps(n, r.m) /\ Keeps(r.m, m')
  BY <1>1, <1>2, TransferInKeeps, PreExecuteKeeps, SwapKeeps, PaidKeeps
<1> HIDE DEF one, n, r
<1>4. Keeps(m, m')
  BY <1>3, KeepsTransitive
<1> QED BY <1>1, <1>2, <1>4, KeepsMarketInv

LEMMA ClaimFeesStep ==
  ASSUME MarketInv, NEW s \in BOOLEAN, ClaimFees(s)
  PROVE  MarketInv'
<1> DEFINE side == s \/ m.pure
           take(n, t) == ApplyDelta(n, ClaimableFee, t, -Amount(m, ClaimableFee, t))
           amount == OfToken(m, LAMBDA t : Amount(m, ClaimableFee, t), side)
           n == IF m.pure THEN take(take(m, TRUE), FALSE) ELSE take(m, side)
           r == TransferOut(n, Only(side, amount))
           cond == r.bal[side] >= PoolTokens(r, side) /\ r.bal[side] >= CollateralTokens(r, side)
<1>1. /\ m' = Check(r, cond) /\ m'.ok /\ o' = o
      /\ positions' = positions /\ leftBehind' = leftBehind
  BY DEF ClaimFees, Commit, Untouched
<1>2. o \in Oracles
  BY DEF MarketInv, WellFormed
<1> HIDE DEF cond, amount
<1>3. Keeps(m, n)
  <2>1. PICK t \in BOOLEAN : t = side
    BY Zenon
  <2>2. ClaimableFee \in LiquidityPools
    BY LiquidityNames
  <2>3. Keeps(m, m)
    BY KeepsItself
  <2>4. Keeps(m, take(m, t)) /\ Keeps(m, take(m, TRUE))
    BY <2>2, <2>3, LiquidityDelta
  <2>5. Keeps(m, take(take(m, TRUE), FALSE))
    BY <2>2, <2>4, LiquidityDelta
  <2> HIDE DEF side, take
  <2> QED BY <2>1, <2>4, <2>5
<1> HIDE DEF n
<1>4. Keeps(n, r) /\ Keeps(r, m')
  BY <1>1, TransferOutKeeps, CheckKeeps
<1> HIDE DEF r
<1>5. Keeps(m, m')
  BY <1>3, <1>4, KeepsTransitive
<1> QED BY <1>1, <1>2, <1>5, KeepsMarketInv


LEMMA OrderStep ==
  ASSUME MarketInv, NEW k \in Kinds, NEW req, req.size \in Nat, req.withdraw \in Int,
         ExecuteDecrease(k, req)
  PROVE  MarketInv'
<1> DEFINE n == PreExecute(m, o)
           r == Decrease(n, o, positions[k], req)
<1>1. n.ok /\ DecreaseTo(k, r)
  BY DEF ExecuteDecrease
<1>2. Keeps(m, n)
  BY PreExecuteKeeps DEF MarketInv, WellFormed
<1> HIDE DEF n
<1> QED BY <1>1, <1>2, DecreaseStep

LEMMA DeleverageStep ==
  ASSUME MarketInv, NEW k \in Kinds, NEW size \in Nat, NEW lag, AutoDeleverage(k, size, lag)
  PROVE  MarketInv'
<1> DEFINE n == PreExecute(m, o)
           req == [size |-> Least(size, positions[k].size), withdraw |-> 0, insolvent |-> TRUE,
                   liquidation |-> FALSE, cap |-> FALSE,
                   swap |-> "PnlTokenToCollateralToken"]
           r == Decrease(n, o, positions[k], req)
<1>1. n.ok /\ DecreaseTo(k, r)
  BY DEF AutoDeleverage
<1>2. Keeps(m, n)
  BY PreExecuteKeeps DEF MarketInv, WellFormed
<1>3. req.size \in Nat /\ req.withdraw \in Int
  <2>1. positions[k].size \in Nat
    BY BookTypes, PositionFields DEF MarketInv
  <2> QED BY <2>1 DEF Least
<1> HIDE DEF n, req
<1> QED BY <1>1, <1>2, <1>3, DecreaseStep

LEMMA NextMarketInv == MarketInv /\ [Next]_vars => MarketInv'
<1> SUFFICES ASSUME MarketInv, [Next]_vars PROVE MarketInv'
  OBVIOUS
<1>1. ASSUME NEW amount \in Deposits, ExecuteDeposit(amount) \/ ShiftIn(amount) PROVE MarketInv'
  BY <1>1, DepositStep DEF ExecuteDeposit, ShiftIn
<1>2. ASSUME NEW burnt \in Burns, ExecuteWithdrawal(burnt) \/ ShiftOut(burnt) PROVE MarketInv'
  BY <1>2, WithdrawStep DEF ExecuteWithdrawal, ShiftOut
<1>3. ASSUME NEW s \in BOOLEAN, NEW amount \in Amounts, ExecuteSwap(s, amount) PROVE MarketInv'
  BY <1>3, SwapStep
<1>4. ASSUME NEW k \in Kinds, NEW paid \in Amounts \cup {0}, NEW delta \in Sizes \cup {0},
             ExecuteIncrease(k, paid, delta)
      PROVE  MarketInv'
  <2>1. paid \in Nat /\ delta \in Nat
    BY PerpAssumption
  <2> QED BY <1>4, <2>1, IncreaseStep
<1>5. ASSUME NEW k \in Kinds, NEW size \in Sizes \cup {0}, NEW withdraw \in Amounts \cup {0},
             NEW swap \in SwapTypes, NEW cap \in BOOLEAN,
             OwnerDecrease(k, size, withdraw, swap, cap)
      PROVE  MarketInv'
  <2> DEFINE req == [size |-> size, withdraw |-> withdraw, insolvent |-> FALSE,
                     liquidation |-> FALSE, cap |-> cap, swap |-> swap]
  <2>1. ExecuteDecrease(k, req)
    BY <1>5 DEF OwnerDecrease
  <2>2. size \in Nat /\ withdraw \in Int
    BY PerpAssumption
  <2>3. req.size \in Nat /\ req.withdraw \in Int
    BY <2>2
  <2> HIDE DEF req
  <2> QED BY <2>1, <2>3, OrderStep
<1>6. ASSUME NEW k \in Kinds, Liquidate(k) PROVE MarketInv'
  <2> DEFINE req == [size |-> positions[k].size, withdraw |-> 0, insolvent |-> TRUE,
                     liquidation |-> TRUE, cap |-> FALSE,
                     swap |-> "PnlTokenToCollateralToken"]
  <2>1. ExecuteDecrease(k, req)
    BY <1>6 DEF Liquidate
  <2>2. req.size \in Nat /\ req.withdraw \in Int
    BY BookTypes, PositionFields DEF MarketInv
  <2> HIDE DEF req
  <2> QED BY <2>1, <2>2, OrderStep
<1>7. ASSUME NEW k \in Kinds, NEW size \in Sizes, NEW lag \in Lags, AutoDeleverage(k, size, lag)
      PROVE  MarketInv'
  BY <1>7, DeleverageStep, PerpAssumption
<1>8. ASSUME NEW s \in BOOLEAN, NEW lag \in Lags, UpdateAdlState(s, lag) PROVE MarketInv'
  <2>1. UNCHANGED <<m, positions, o, leftBehind>>
    BY <1>8 DEF UpdateAdlState
  <2> QED BY <2>1, KeepsItself, KeepsMarketInv DEF MarketInv, WellFormed, Sound
<1>9. ASSUME NEW s \in BOOLEAN, ClaimFees(s) PROVE MarketInv'
  BY <1>9, ClaimFeesStep
<1>10. ASSUME NEW p \in PriceSets[m.pure], NEW step \in Steps, NewPrices(p, step) PROVE MarketInv'
  <2>1. /\ UNCHANGED <<m, positions, leftBehind>>
        /\ o' = [index |-> p.index, long |-> p.long, short |-> p.short, now |-> o.now + step]
    BY <1>10 DEF NewPrices
  <2>2. Sound(m) /\ o \in Oracles
    BY DEF MarketInv, WellFormed
  <2>3. p \in PriceRecords /\ step \in Nat
    BY <2>2, PerpAssumption DEF Sound, IsMarket
  <2>4. o.now + step \in Int
    BY <2>2, <2>3 DEF Oracles
  <2>5. o' \in Oracles
    BY <2>1, <2>3, <2>4 DEF Oracles, PriceRecords
  <2>6. m'.ok /\ Keeps(m, m')
    BY <2>1, <2>2, KeepsItself DEF Sound
  <2> QED BY <2>1, <2>5, <2>6, KeepsMarketInv
<1>11. CASE UNCHANGED vars
  <2>1. UNCHANGED <<m, positions, o, leftBehind>>
    BY <1>11 DEF vars
  <2> QED BY <2>1, KeepsItself, KeepsMarketInv DEF MarketInv, WellFormed, Sound
<1> QED BY <1>1, <1>2, <1>3, <1>4, <1>5, <1>6, <1>7, <1>8, <1>9, <1>10, <1>11 DEF Next

\* The inductive invariant: the market is sound, its positions are well formed, their
\* settled amounts are not ahead of the market's, and the books agree with them.
THEOREM MarketInvariant == Spec => []MarketInv
<1>1. Init => MarketInv
  BY InitMarketInv
<1>2. MarketInv /\ [Next]_vars => MarketInv'
  BY NextMarketInv
<1> QED BY <1>1, <1>2, PTL DEF Spec

\* PoolsMatchPositions, for all positions, prices, amounts and configurations and
\* executions of any length: open interest in USD and in tokens, collateral and total
\* borrowing are the sums over the positions, up to what removed positions left behind.
THEOREM BooksMatchPositions == Spec => []PoolsMatchPositions
<1>1. MarketInv => PoolsMatchPositions
  <2> SUFFICES ASSUME MarketInv PROVE PoolsMatchPositions
    OBVIOUS
  <2>1. \A k \in Kinds \ Open : IsEmpty(positions[k])
    BY DEF MarketInv, Healthy, Open
  <2>2. ASSUME NEW s \in BOOLEAN
        PROVE  /\ Books("OpenInterest", s, SizeOf)
               /\ Books("OpenInterestInTokens", s, LAMBDA k : positions[k].tokens)
               /\ Books("CollateralSum", s, LAMBDA k : positions[k].collateral)
               /\ m.pool[TotalBorrowing][s] = SumOf(BorrowingOf, {k \in Kinds : k[1] = s})
    BY DEF MarketInv, BooksAgree, Books, SumOf, SizeBook, TokenBook, CollateralBook, BorrowingBook
  <2> QED BY <2>1, <2>2 DEF PoolsMatchPositions
<1> QED BY <1>1, MarketInvariant, PTL


\* The open interest of a side is the sum of the sizes of its positions.
LEMMA InterestIsSum ==
  ASSUME MarketInv, NEW s \in BOOLEAN
  PROVE  OpenInterest(m, s) = SumFunctionOnSet(SizeBook, {k \in Kinds : k[1] = s})
<1> DEFINE pool == <<"OpenInterest", s>>
           longs == PositionsOf(s, TRUE)
           shorts == PositionsOf(s, FALSE)
<1>1. Sound(m) /\ WellFormed /\ m.pure \in BOOLEAN
  BY DEF MarketInv, WellFormed, Sound, IsMarket
<1>2. m.pool[pool][TRUE] \in Nat /\ m.pool[pool][FALSE] \in Nat
  BY <1>1, BookNat
<1>3. /\ m.pool[pool][TRUE] = SumFunctionOnSet(SizeBook, longs)
      /\ m.pool[pool][FALSE] = SumFunctionOnSet(SizeBook, shorts)
  BY DEF MarketInv, BooksAgree
<1>4. longs \cup shorts = {k \in Kinds : k[1] = s} /\ longs \cap shorts = {}
  BY <1>1, KindsFinite DEF PositionsOf
<1>5. IsFiniteSet(longs) /\ IsFiniteSet(shorts) /\ longs \subseteq Kinds /\ shorts \subseteq Kinds
  BY <1>1, KindsFinite
<1>6. \A k \in longs \cup shorts : SizeBook[k] \in Int
  BY <1>1, <1>5, BookTypes, NatInt
<1>7. m.pure => m.pool[pool][FALSE] = 0
  <2>1. ASSUME m.pure PROVE shorts = {}
    BY <1>1, <2>1, KindsFinite DEF PositionsOf
  <2> QED BY <1>3, <2>1, SumEmpty
<1> HIDE DEF longs, shorts
<1>8. SumFunctionOnSet(SizeBook, longs \cup shorts) = m.pool[pool][TRUE] + m.pool[pool][FALSE]
  <2>1. SumFunctionOnSet(SizeBook, longs \cup shorts)
          = SumFunctionOnSet(SizeBook, longs) + SumFunctionOnSet(SizeBook, shorts)
    BY <1>4, <1>5, <1>6, SumUnion
  <2> QED BY <1>3, <2>1
<1>9. OpenInterest(m, s) = m.pool[pool][TRUE] + m.pool[pool][FALSE]
  <2>1. pool[1] = "OpenInterest"
    OBVIOUS
  <2>2. IsPure(m, pool) = m.pure
    BY <1>1, <2>1, Zenon DEF IsPure, PositionImpact, BorrowingFactor, TotalBorrowing
  <2>3. \A i \in Nat : CeilDiv(i, 2) + i \div 2 = i
    BY DEF CeilDiv
  <2>4. CASE m.pure
    <3>1. OpenInterest(m, s) = CeilDiv(m.pool[pool][TRUE], 2) + m.pool[pool][TRUE] \div 2
      BY <2>2, <2>4 DEF OpenInterest, BothSides, Amount
    <3> DEFINE i == m.pool[pool][TRUE]
    <3>2. i \in Nat /\ m.pool[pool][FALSE] = 0 /\ OpenInterest(m, s) = CeilDiv(i, 2) + i \div 2
      BY <1>2, <1>7, <2>4, <3>1
    <3> HIDE DEF i
    <3>3. CeilDiv(i, 2) + i \div 2 = i /\ i + 0 = i
      BY <2>3, <3>2
    <3>4. OpenInterest(m, s) = i + m.pool[pool][FALSE]
      BY <3>2, <3>3
    <3> QED BY <3>4 DEF i
  <2>5. CASE ~m.pure
    BY <2>2, <2>5 DEF OpenInterest, BothSides, Amount
  <2> QED BY <1>1, <2>4, <2>5
<1> QED BY <1>4, <1>8, <1>9

\* Rounded down one by one, the borrowing of the positions is at most what their open
\* interest together owes.
LEMMA BorrowingCovered ==
  ASSUME MarketInv, NEW s \in BOOLEAN
  PROVE  m.pool[TotalBorrowing][s] * Unit <= OpenInterest(m, s) * m.pool[BorrowingFactor][s]
<1> DEFINE S == {k \in Kinds : k[1] = s}
           factor == m.pool[BorrowingFactor][s]
           scaled == [k \in Kinds |-> BorrowingBook[k] * Unit]
           owed == [k \in Kinds |-> SizeBook[k] * factor]
<1>1. Sound(m) /\ WellFormed
  BY DEF MarketInv, WellFormed
<1>2. IsFiniteSet(S) /\ S \subseteq Kinds
  BY <1>1, KindsFinite
<1>3. factor \in Nat /\ Unit \in Nat \ {0}
  BY <1>1, BookNat, UnitAssumption
<1>4. m.pool[TotalBorrowing][s] = SumFunctionOnSet(BorrowingBook, S)
  BY DEF MarketInv, BooksAgree
<1>5. OpenInterest(m, s) = SumFunctionOnSet(SizeBook, S)
  BY InterestIsSum
<1>6. ASSUME NEW k \in S
      PROVE  /\ BorrowingBook[k] \in Nat /\ SizeBook[k] \in Nat
             /\ scaled[k] = BorrowingBook[k] * Unit /\ owed[k] = SizeBook[k] * factor
             /\ scaled[k] <= owed[k]
  <2> DEFINE p == positions[k]
             left == leftBehind[k]
  <2>1. /\ p \in PositionStates /\ left.size \in Nat /\ left.borrowing \in Nat
        /\ SizeBook[k] = p.size + left.size
        /\ BorrowingBook[k] = ApplyFactor(p.size, p.borrowing) + left.borrowing
        /\ BorrowingBook[k] \in Nat /\ SizeBook[k] \in Nat /\ p.long = k[1] /\ k[1] = s
    BY <1>1, <1>2, BookTypes DEF WellFormed
  <2>2. p.size \in Nat /\ p.borrowing \in Nat
    BY <2>1, PositionFields
  <2>3. left.borrowing * Unit <= left.size * factor
    BY <1>2, <2>1 DEF MarketInv, LeftBounded
  <2>4. p.size # 0 => p.borrowing <= factor
    <3>1. ~IsPure(m, BorrowingFactor)
      BY Zenon DEF IsPure
    <3>2. ASSUME p.size # 0 PROVE Settleable(m, p)
      BY <1>2, <3>2 DEF MarketInv, Healthy
    <3> QED BY <2>1, <3>1, <3>2 DEF Settleable, CumulativeBorrowing, Amount
  <2>5. /\ scaled[k] = BorrowingBook[k] * Unit /\ owed[k] = SizeBook[k] * factor
    BY <1>2
  <2> HIDE DEF p, left, factor, scaled, owed
  <2>6. BorrowingBook[k] * Unit <= SizeBook[k] * factor
    <3>1. CASE p.size # 0
      <4>1. (left.borrowing + ApplyFactor(p.size, p.borrowing)) * Unit
              <= (left.size + p.size) * factor
        BY <1>3, <2>1, <2>2, <2>3, <2>4, <3>1, LeftGrows
      <4>2. ApplyFactor(p.size, p.borrowing) \in Nat
        BY <2>2, FactorNat
      <4>3. /\ left.borrowing + ApplyFactor(p.size, p.borrowing) = BorrowingBook[k]
            /\ left.size + p.size = SizeBook[k]
        BY <2>1, <2>2, <4>2
      <4> QED BY <4>1, <4>3
    <3>2. CASE p.size = 0
      <4>1. ApplyFactor(p.size, p.borrowing) = 0
        BY <1>3, <2>2, <3>2 DEF ApplyFactor, MulDiv
      <4>2. BorrowingBook[k] = left.borrowing /\ SizeBook[k] = left.size
        BY <2>1, <3>2, <4>1
      <4> QED BY <2>3, <4>2
    <3> QED BY <3>1, <3>2
  <2> QED BY <2>1, <2>5, <2>6
<1> HIDE DEF S, factor, scaled, owed
<1>7. \A k \in S : BorrowingBook[k] \in Int /\ scaled[k] = BorrowingBook[k] * Unit
  BY <1>6, NatInt
<1>8. \A k \in S : SizeBook[k] \in Int /\ owed[k] = SizeBook[k] * factor
  BY <1>6, NatInt
<1>9. \A k \in S : scaled[k] \in Int /\ owed[k] \in Int /\ scaled[k] <= owed[k]
  BY <1>3, <1>6, IntOps, NatInt
<1>10. factor \in Int /\ Unit \in Int
  BY <1>3
<1>11. SumFunctionOnSet(scaled, S) = SumFunctionOnSet(BorrowingBook, S) * Unit
  BY <1>2, <1>7, <1>10, SumScale
<1>12. SumFunctionOnSet(owed, S) = SumFunctionOnSet(SizeBook, S) * factor
  BY <1>2, <1>8, <1>10, SumScale
<1>13. SumFunctionOnSet(scaled, S) <= SumFunctionOnSet(owed, S)
  BY <1>2, <1>9, SumMonotone
<1> QED BY <1>4, <1>5, <1>11, <1>12, <1>13 DEF factor

\* AlwaysSettleable, for all positions, prices, amounts and configurations: no position
\* is ahead of the market's accumulators, and the total borrowing never exceeds what the
\* open interest owes, so that total_pending_borrowing_fees and with it the value of the
\* pool never fail.
THEOREM PositionsStaySettleable == Spec => []AlwaysSettleable
<1>1. MarketInv => AlwaysSettleable
  <2> SUFFICES ASSUME MarketInv PROVE AlwaysSettleable
    OBVIOUS
  <2>1. Sound(m) /\ o \in Oracles
    BY DEF MarketInv, WellFormed
  <2>2. \A k \in Open : Settleable(m, positions[k])
    BY DEF MarketInv, Healthy, Open
  <2>3. ASSUME NEW s \in BOOLEAN
        PROVE  TotalPendingBorrowing(m, [o EXCEPT !.now = m.clock["Borrowing"]], s) >= 0
    <3> DEFINE x == [o EXCEPT !.now = m.clock["Borrowing"]]
               factor == m.pool[BorrowingFactor][s]
               total == m.pool[TotalBorrowing][s]
               rise == BorrowingDelta(m, x, s)
               interest == OpenInterest(m, s)
    <3>1. x \in Oracles
      <4>1. m.clock["Borrowing"] \in Int
        BY <2>1 DEF Sound, ClockKinds
      <4> QED BY <2>1, <4>1 DEF Oracles
    <3>2. Amount(m, BorrowingFactor, s) = factor /\ Amount(m, TotalBorrowing, s) = total
      <4>1. ~IsPure(m, BorrowingFactor) /\ ~IsPure(m, TotalBorrowing)
        BY Zenon DEF IsPure
      <4> QED BY <4>1 DEF Amount
    <3>3. factor \in Nat /\ total \in Nat /\ interest \in Nat
      BY <2>1, BookNat, InterestNat
    <3>4. total * Unit <= interest * factor
      BY BorrowingCovered
    <3> HIDE DEF x
    <3>5. rise \in Nat
      BY <2>1, <3>1, BorrowingDeltaNat
    <3>6. TotalPendingBorrowing(m, x, s) = ((interest * (factor + rise)) \div Unit) - total
      BY <3>2 DEF TotalPendingBorrowing, ApplyFactor, MulDiv
    <3> HIDE DEF factor, total, rise, interest
    <3>7. total * Unit <= interest * (factor + rise)
      <4>1. interest * factor <= interest * (factor + rise)
        BY <3>3, <3>5, ProductMonotone
      <4>2. total * Unit \in Nat /\ interest * factor \in Nat /\ interest * (factor + rise) \in Nat
        BY <3>3, <3>5, UnitAssumption, NatOps
      <4> QED BY <3>4, <4>1, <4>2
    <3> DEFINE owed == interest * (factor + rise)
    <3>8. owed \in Nat
      BY <3>3, <3>5, NatOps
    <3> HIDE DEF owed
    <3>9. total <= owed \div Unit
      BY <3>3, <3>7, <3>8, UnitAssumption, QuotientAtLeast DEF owed
    <3>10. owed \div Unit \in Nat
      BY <3>8, UnitAssumption, Quotient
    <3>11. (owed \div Unit) - total >= 0
      <4> DEFINE quotient == owed \div Unit
      <4>1. quotient \in Nat /\ total <= quotient
        BY <3>9, <3>10
      <4> HIDE DEF quotient
      <4>2. quotient - total >= 0
        BY <3>3, <4>1
      <4> QED BY <4>2 DEF quotient
    <3> QED BY <3>6, <3>11 DEF owed, x
  <2> QED BY <2>2, <2>3 DEF AlwaysSettleable
<1> QED BY <1>1, MarketInvariant, PTL

-----------------------------------------------------------------------------
(* The ledger of a market of two tokens.  Of each token, what is recorded  *)
(* beyond what the pools and the collateral need, with what was forgiven,  *)
(* and the funding that is owed and not claimed yet: the funding in units  *)
(* per size, before it is rounded to tokens when a position pays or takes  *)
(* it.  Funding is owed also by what removed positions left in the books.  *)
OwingAt(b, p, l, t) ==
  (IF p.cl = t
   THEN (p.size + l.size) * b.pool[FundingPool(p.long)][t] - p.size * p.funding - l.funding
   ELSE 0)
    - p.size * (b.pool[ClaimPool(p.long)][t] - p.claimable[t])

OwingBook(b, t) == [k \in Kinds |-> OwingAt(b, positions[k], leftBehind[k], t)]
OwingIn(b, t) == SumFunctionOnSet(OwingBook(b, t), Kinds)

Spare(t) == m.bal[t] + forgiven[t] - Backing(m, t)

Ledger(t) == Spare(t) * (Adjustment * Unit) + OwingIn(m, t)

LedgerInv ==
  ~m.pure => /\ TwoTokens(m) /\ forgiven \in TokenAmounts
             /\ \A t \in BOOLEAN : Ledger(t) >= 0

\* The funding a position owes and may claim, split into what it left behind and the rest.
LEMMA OwingSplit ==
  ASSUME NEW b, Sound(b), NEW p \in PositionStates, NEW l \in LeftRecords, NEW t \in BOOLEAN
  PROVE  /\ OwingAt(b, p, l, t) \in Int
         /\ OwingAt(b, p, l, t)
              = (IF p.cl = t THEN l.size * b.pool[FundingPool(p.long)][t] - l.funding ELSE 0)
                + (IF p.cl = t THEN p.size * (b.pool[FundingPool(p.long)][t] - p.funding) ELSE 0)
                - p.size * (b.pool[ClaimPool(p.long)][t] - p.claimable[t])
<1> DEFINE f == b.pool[FundingPool(p.long)][t]
           c == b.pool[ClaimPool(p.long)][t]
           d == p.claimable[t]
           size == p.size
           left == l.size
           paid == p.funding
           kept == l.funding
<1>1. p.long \in BOOLEAN /\ size \in Nat /\ paid \in Nat /\ d \in Nat
  BY PositionFields
<1>2. left \in Nat /\ kept \in Nat
  BY DEF LeftRecords
<1>3. f \in Nat /\ c \in Nat
  BY <1>1, FundingNames, BackingNames DEF Sound
<1>4. OwingAt(b, p, l, t)
        = (IF p.cl = t THEN (size + left) * f - size * paid - kept ELSE 0) - size * (c - d)
  BY DEF OwingAt
<1> HIDE DEF f, c, d, size, left, paid, kept
<1>5. /\ (size + left) * f - size * paid - kept = (left * f - kept) + size * (f - paid)
      /\ size * (c - d) \in Int /\ size * (f - paid) \in Int /\ left * f - kept \in Int
  BY <1>1, <1>2, <1>3
<1>6. /\ OwingAt(b, p, l, t) \in Int
      /\ OwingAt(b, p, l, t)
           = (IF p.cl = t THEN left * f - kept ELSE 0)
             + (IF p.cl = t THEN size * (f - paid) ELSE 0) - size * (c - d)
  BY <1>4, <1>5
<1> QED BY <1>6 DEF f, c, d, size, left, paid, kept

\* A position that has just settled its funding owes what it left behind and nothing else.
LEMMA OwingSettled ==
  ASSUME NEW b, Sound(b), NEW p \in PositionStates, NEW l \in LeftRecords, NEW t \in BOOLEAN,
         SettledAt(b, p)
  PROVE  OwingAt(b, p, l, t)
           = IF p.cl = t THEN l.size * b.pool[FundingPool(p.long)][t] - l.funding ELSE 0
<1> DEFINE f == b.pool[FundingPool(p.long)][t]
           c == b.pool[ClaimPool(p.long)][t]
           base == IF p.cl = t THEN l.size * f - l.funding ELSE 0
           x == IF p.cl = t THEN p.size * (f - p.funding) ELSE 0
           y == p.size * (c - p.claimable[t])
<1>1. OwingAt(b, p, l, t) = base + x - y
  BY OwingSplit
<1>2. p.long \in BOOLEAN /\ p.size \in Nat
  BY PositionFields
<1>3. f \in Nat /\ c \in Nat
  BY <1>2, FundingNames, BackingNames DEF Sound
<1>4. p.claimable[t] = c /\ (p.cl = t => p.funding = f)
  BY DEF SettledAt
<1>5. l.size \in Nat /\ l.funding \in Nat
  BY DEF LeftRecords
<1> HIDE DEF f, c
<1>6. y = 0
  BY <1>2, <1>3, <1>4
<1>7. x = 0
  BY <1>2, <1>3, <1>4
<1>8. base \in Int
  BY <1>3, <1>5
<1> HIDE DEF base, x, y
<1>9. OwingAt(b, p, l, t) = base
  BY <1>1, <1>6, <1>7, <1>8
<1> QED BY <1>9 DEF base, f

\* A removed position owes what it left behind, which is charged from now on.
LEMMA OwingRemoved ==
  ASSUME NEW b, Sound(b), NEW p \in PositionStates, NEW q \in PositionStates,
         q.size = 0, q.long = p.long, q.cl = p.cl, NEW l \in LeftRecords, NEW rest \in Nat,
         NEW h \in LeftRecords, h.size = l.size + rest,
         h.funding = l.funding + rest * b.pool[FundingPool(p.long)][p.cl], NEW t \in BOOLEAN
  PROVE  OwingAt(b, q, h, t)
           = IF p.cl = t THEN l.size * b.pool[FundingPool(p.long)][t] - l.funding ELSE 0
<1> DEFINE f == b.pool[FundingPool(p.long)][t]
           c == b.pool[ClaimPool(p.long)][t] - q.claimable[t]
           g == f - q.funding
           base == IF p.cl = t THEN h.size * f - h.funding ELSE 0
           x == IF p.cl = t THEN q.size * g ELSE 0
           y == q.size * c
<1>1. OwingAt(b, q, h, t) = base + x - y
  BY OwingSplit
<1>2. p.long \in BOOLEAN /\ q.funding \in Nat /\ q.claimable[t] \in Nat
  BY PositionFields
<1>3. f \in Nat /\ b.pool[ClaimPool(p.long)][t] \in Nat
  BY <1>2, FundingNames, BackingNames DEF Sound
<1>4. g \in Int /\ c \in Int
  BY <1>2, <1>3
<1>5. l.size \in Nat /\ l.funding \in Nat
  BY DEF LeftRecords
<1> HIDE DEF g, c
<1>6. x = 0 /\ y = 0
  BY <1>4
<1>7. p.cl = t => h.funding = l.funding + rest * f
  OBVIOUS
<1> HIDE DEF f
<1>8. p.cl = t => h.size * f - h.funding = l.size * f - l.funding
  BY <1>3, <1>5, <1>7
<1>9. base = (IF p.cl = t THEN l.size * f - l.funding ELSE 0) /\ base \in Int
  BY <1>3, <1>5, <1>8
<1> HIDE DEF base, x, y
<1>10. OwingAt(b, q, h, t) = base
  BY <1>1, <1>6, <1>9
<1> QED BY <1>9, <1>10 DEF f

LEMMA OwingBookInt ==
  ASSUME WellFormed, NEW b, Sound(b), NEW t \in BOOLEAN
  PROVE  /\ \A k \in Kinds : OwingBook(b, t)[k] = OwingAt(b, positions[k], leftBehind[k], t)
                               /\ OwingBook(b, t)[k] \in Int
         /\ IsFiniteSet(Kinds) /\ OwingIn(b, t) \in Int
<1>1. ASSUME NEW k \in Kinds
      PROVE  OwingBook(b, t)[k] = OwingAt(b, positions[k], leftBehind[k], t)
               /\ OwingBook(b, t)[k] \in Int
  <2>1. positions[k] \in PositionStates /\ leftBehind[k] \in LeftRecords
    BY DEF WellFormed
  <2> QED BY <2>1, OwingSplit DEF OwingBook
<1>2. IsFiniteSet(Kinds)
  BY KindsFinite DEF WellFormed
<1> QED BY <1>1, <1>2, SumInt DEF OwingIn

\* The growth of a position's funding: it owes its share of what its side is charged, and
\* claims at most its share of what its side may claim.
LEMMA PositionGrows ==
  ASSUME WellFormed, NEW b, Sound(b), NEW t \in BOOLEAN, NEW k \in Kinds,
         \A j \in FundingPools, c \in BOOLEAN : m.pool[j][c] <= b.pool[j][c]
  PROVE  OwingBook(b, t)[k] + SizeBook[k] * Grown(m, b, ClaimPool(k[1]), t)
           >= OwingBook(m, t)[k]
                + (IF k[2] = t THEN SizeBook[k] * Grown(m, b, FundingPool(k[1]), t) ELSE 0)
<1> DEFINE p == positions[k]
           l == leftBehind[k]
           f == m.pool[FundingPool(k[1])][t]
           g == b.pool[FundingPool(k[1])][t]
           c == m.pool[ClaimPool(k[1])][t]
           d == b.pool[ClaimPool(k[1])][t]
           size == p.size
           left == l.size
           paid == p.funding
           kept == l.funding
           taken == p.claimable[t]
<1>1. /\ Sound(m) /\ p \in PositionStates /\ l \in LeftRecords /\ p.long = k[1] /\ p.cl = k[2]
      /\ SizeBook[k] = size + left
  BY BookTypes DEF WellFormed
<1>2. /\ k[1] \in BOOLEAN /\ size \in Nat /\ paid \in Nat /\ taken \in Nat
      /\ left \in Nat /\ kept \in Nat
  BY <1>1, PositionFields DEF LeftRecords
<1>3. f \in Nat /\ g \in Nat /\ c \in Nat /\ d \in Nat /\ f <= g /\ c <= d
  BY <1>1, <1>2, FundingNames, BackingNames DEF Sound
<1>4. /\ OwingBook(m, t)[k]
           = (IF k[2] = t THEN (size + left) * f - size * paid - kept ELSE 0) - size * (c - taken)
      /\ OwingBook(b, t)[k]
           = (IF k[2] = t THEN (size + left) * g - size * paid - kept ELSE 0) - size * (d - taken)
  BY <1>1, OwingBookInt DEF OwingAt
<1>5. /\ Grown(m, b, ClaimPool(k[1]), t) = d - c /\ Grown(m, b, FundingPool(k[1]), t) = g - f
  BY DEF Grown
<1> DEFINE x == size * (d - c)
           y == left * (d - c)
           z == (size + left) * (g - f)
           v == size * (c - taken)
           w == (size + left) * f - size * paid - kept
<1> HIDE DEF f, g, c, d, size, left, paid, kept, taken
<1>6. x \in Int /\ y \in Nat /\ z \in Int /\ v \in Int /\ w \in Int
  <2>1. d - c \in Nat
    BY <1>3
  <2> QED BY <1>2, <1>3, <2>1, NatOps
<1>7. /\ (size + left) * (d - c) = x + y
      /\ size * (d - taken) = v + x
      /\ (size + left) * g - size * paid - kept = w + z
  BY <1>2, <1>3
<1>8. /\ OwingBook(m, t)[k] = (IF k[2] = t THEN w ELSE 0) - v
      /\ OwingBook(b, t)[k] = (IF k[2] = t THEN w + z ELSE 0) - (v + x)
      /\ SizeBook[k] * Grown(m, b, ClaimPool(k[1]), t) = x + y
      /\ SizeBook[k] * Grown(m, b, FundingPool(k[1]), t) = z
  BY <1>1, <1>4, <1>5, <1>7 DEF size, left
<1> HIDE DEF x, y, z, v, w
<1>9. ((IF k[2] = t THEN w + z ELSE 0) - (v + x)) + (x + y)
         >= ((IF k[2] = t THEN w ELSE 0) - v) + (IF k[2] = t THEN z ELSE 0)
  BY <1>6
<1> QED BY <1>8, <1>9

\* All positions of a side together: what it is charged stays ahead of what it claims.
LEMMA SideGrows ==
  ASSUME MarketInv, ~m.pure, NEW b, Sound(b), NEW t \in BOOLEAN, NEW s \in BOOLEAN,
         \A j \in FundingPools, c \in BOOLEAN : m.pool[j][c] <= b.pool[j][c]
  PROVE  SumFunctionOnSet(OwingBook(b, t), {k \in Kinds : k[1] = s}) + Claimed(m, b, s, t)
           >= SumFunctionOnSet(OwingBook(m, t), {k \in Kinds : k[1] = s}) + Charged(m, b, s, t)
<1> DEFINE S == {k \in Kinds : k[1] = s}
           T == PositionsOf(s, t)
           before == OwingBook(m, t)
           after == OwingBook(b, t)
           size == SizeBook
           gf == Grown(m, b, FundingPool(s), t)
           gc == Grown(m, b, ClaimPool(s), t)
           claimed == [k \in Kinds |-> size[k] * gc]
           charged == [k \in Kinds |-> size[k] * gf]
           part == [k \in Kinds |-> IF k \in T THEN charged[k] ELSE 0]
           low == [k \in Kinds |-> before[k] + part[k]]
           high == [k \in Kinds |-> after[k] + claimed[k]]
<1>1. Sound(m) /\ WellFormed
  BY DEF MarketInv, WellFormed
<1>2. /\ IsFiniteSet(S) /\ S \subseteq Kinds /\ IsFiniteSet(T) /\ T \subseteq S
      /\ \A k \in S : k[1] = s /\ (k \in T <=> k[2] = t)
  BY <1>1, KindsFinite DEF PositionsOf
<1>3. gf \in Int /\ gc \in Int
  <2>1. /\ m.pool[FundingPool(s)][t] \in Nat /\ m.pool[ClaimPool(s)][t] \in Nat
        /\ b.pool[FundingPool(s)][t] \in Nat /\ b.pool[ClaimPool(s)][t] \in Nat
    BY <1>1, FundingNames, BackingNames DEF Sound
  <2> QED BY <2>1 DEF Grown
<1>4. \A k \in Kinds : before[k] \in Int /\ after[k] \in Int /\ size[k] \in Int
  BY <1>1, OwingBookInt, BookTypes, NatInt
<1>5. \A k \in S : after[k] + size[k] * gc >= before[k] + (IF k[2] = t THEN size[k] * gf ELSE 0)
  BY <1>1, <1>2, PositionGrows
<1>6. m.pool[InterestPool(s)][t] = SumFunctionOnSet(size, T)
  BY DEF MarketInv, BooksAgree, InterestPool
<1>7. OpenInterest(m, s) = SumFunctionOnSet(size, S)
  BY InterestIsSum
<1>8. Charged(m, b, s, t) = gf * SumFunctionOnSet(size, T)
      /\ Claimed(m, b, s, t) = gc * SumFunctionOnSet(size, S)
  BY <1>6, <1>7 DEF Charged, Claimed
<1> HIDE DEF S, T, before, after, size, gf, gc
<1>9. \A k \in Kinds : /\ claimed[k] = size[k] * gc /\ charged[k] = size[k] * gf
                       /\ claimed[k] \in Int /\ charged[k] \in Int
                       /\ part[k] = (IF k \in T THEN charged[k] ELSE 0) /\ part[k] \in Int
  BY <1>3, <1>4
<1> HIDE DEF claimed, charged, part
<1>10. \A k \in Kinds : /\ low[k] = before[k] + part[k] /\ high[k] = after[k] + claimed[k]
                        /\ low[k] \in Int /\ high[k] \in Int
  BY <1>4, <1>9
<1> HIDE DEF low, high
<1>11. \A k \in S : low[k] <= high[k]
  BY <1>2, <1>4, <1>5, <1>9, <1>10
<1>12. SumFunctionOnSet(low, S) <= SumFunctionOnSet(high, S)
  BY <1>2, <1>10, <1>11, SumMonotone
<1>13. SumFunctionOnSet(low, S) = SumFunctionOnSet(before, S) + SumFunctionOnSet(part, S)
  BY <1>2, <1>4, <1>9, <1>10, SumAdd
<1>14. SumFunctionOnSet(high, S) = SumFunctionOnSet(after, S) + SumFunctionOnSet(claimed, S)
  BY <1>2, <1>4, <1>9, <1>10, SumAdd
<1>15. SumFunctionOnSet(part, S) = SumFunctionOnSet(charged, T)
  BY <1>2, <1>9, SumWhere
<1>16. SumFunctionOnSet(charged, T) = SumFunctionOnSet(size, T) * gf
  <2>1. \A k \in T : size[k] \in Int /\ charged[k] = size[k] * gf
    BY <1>2, <1>4, <1>9
  <2> QED BY <1>2, <1>3, <2>1, SumScale
<1>17. SumFunctionOnSet(claimed, S) = SumFunctionOnSet(size, S) * gc
  <2>1. \A k \in S : size[k] \in Int /\ claimed[k] = size[k] * gc
    BY <1>2, <1>4, <1>9
  <2> QED BY <1>2, <1>3, <2>1, SumScale
<1> DEFINE sb == SumFunctionOnSet(before, S)
           sa == SumFunctionOnSet(after, S)
           ss == SumFunctionOnSet(size, S)
           st == SumFunctionOnSet(size, T)
<1>18. sb \in Int /\ sa \in Int /\ ss \in Int /\ st \in Int
  <2>1. \A k \in T : size[k] \in Int
    BY <1>2, <1>4
  <2> QED BY <1>2, <1>4, <2>1, SumInt
<1>19. sb + st * gf <= sa + ss * gc /\ Charged(m, b, s, t) = gf * st /\ Claimed(m, b, s, t) = gc * ss
  BY <1>8, <1>12, <1>13, <1>14, <1>15, <1>16, <1>17
<1> HIDE DEF sb, sa, ss, st
<1>20. gf * st = st * gf /\ gc * ss = ss * gc /\ st * gf \in Int /\ ss * gc \in Int
  BY <1>3, <1>18
<1>21. sa + Claimed(m, b, s, t) >= sb + Charged(m, b, s, t)
  BY <1>18, <1>19, <1>20
<1> QED BY <1>21 DEF sa, sb, S, before, after

LEMMA OwingGrows ==
  ASSUME MarketInv, ~m.pure, NEW b, Sound(b), Funds(m, b), NEW t \in BOOLEAN
  PROVE  OwingIn(b, t) >= OwingIn(m, t) /\ OwingIn(b, t) \in Int /\ OwingIn(m, t) \in Int
<1> DEFINE L == {k \in Kinds : k[1] = TRUE}
           H == {k \in Kinds : k[1] = FALSE}
           before == OwingBook(m, t)
           after == OwingBook(b, t)
<1>1. WellFormed /\ Sound(m)
  BY DEF MarketInv, WellFormed
<1>2. /\ OwingIn(b, t) \in Int /\ OwingIn(m, t) \in Int
      /\ \A k \in Kinds : before[k] \in Int /\ after[k] \in Int
  BY <1>1, OwingBookInt
<1>3. \A j \in FundingPools, c \in BOOLEAN : m.pool[j][c] <= b.pool[j][c]
  BY DEF Funds
<1>4. \A s \in BOOLEAN :
        SumFunctionOnSet(after, {k \in Kinds : k[1] = s}) + Claimed(m, b, s, t)
          >= SumFunctionOnSet(before, {k \in Kinds : k[1] = s}) + Charged(m, b, s, t)
  BY <1>3, SideGrows
<1>5. /\ SumFunctionOnSet(after, L) + Claimed(m, b, TRUE, t)
           >= SumFunctionOnSet(before, L) + Charged(m, b, TRUE, t)
      /\ SumFunctionOnSet(after, H) + Claimed(m, b, FALSE, t)
           >= SumFunctionOnSet(before, H) + Charged(m, b, FALSE, t)
  BY <1>4
<1>6. Charged(m, b, TRUE, t) + Charged(m, b, FALSE, t)
        >= Claimed(m, b, TRUE, t) + Claimed(m, b, FALSE, t)
  BY DEF Funds
<1>7. \A s \in BOOLEAN : Charged(m, b, s, t) \in Int /\ Claimed(m, b, s, t) \in Int
  <2> SUFFICES ASSUME NEW s \in BOOLEAN
               PROVE  Charged(m, b, s, t) \in Int /\ Claimed(m, b, s, t) \in Int
    OBVIOUS
  <2>1. /\ m.pool[FundingPool(s)][t] \in Nat /\ m.pool[ClaimPool(s)][t] \in Nat
        /\ b.pool[FundingPool(s)][t] \in Nat /\ b.pool[ClaimPool(s)][t] \in Nat
        /\ m.pool[InterestPool(s)][t] \in Nat
    BY <1>1, FundingNames, BackingNames DEF Sound
  <2>2. OpenInterest(m, s) \in Nat
    BY <1>1, InterestNat
  <2>3. Grown(m, b, FundingPool(s), t) \in Int /\ Grown(m, b, ClaimPool(s), t) \in Int
    BY <2>1 DEF Grown
  <2> QED BY <2>1, <2>2, <2>3 DEF Charged, Claimed
<1>8. /\ L \cup H = Kinds /\ L \cap H = {} /\ IsFiniteSet(L) /\ IsFiniteSet(H)
  BY <1>1, KindsFinite
<1>9. /\ \A k \in L \cup H : before[k] \in Int /\ after[k] \in Int
  BY <1>2, <1>8
<1> DEFINE lb == SumFunctionOnSet(before, L)
           hb == SumFunctionOnSet(before, H)
           la == SumFunctionOnSet(after, L)
           ha == SumFunctionOnSet(after, H)
           cl == Charged(m, b, TRUE, t)
           ch == Charged(m, b, FALSE, t)
           dl == Claimed(m, b, TRUE, t)
           dh == Claimed(m, b, FALSE, t)
<1> HIDE DEF L, H
<1>10. OwingIn(m, t) = lb + hb /\ OwingIn(b, t) = la + ha
  <2>1. SumFunctionOnSet(before, L \cup H) = lb + hb /\ SumFunctionOnSet(after, L \cup H) = la + ha
    <3> HIDE DEF before, after
    <3> QED BY <1>8, <1>9, SumUnion
  <2> QED BY <1>8, <2>1, Zenon DEF OwingIn
<1>11. lb \in Int /\ hb \in Int /\ la \in Int /\ ha \in Int
  <2> HIDE DEF before, after
  <2> QED BY <1>8, <1>9, SumInt
<1>12. cl \in Int /\ ch \in Int /\ dl \in Int /\ dh \in Int
  BY <1>7
<1>13. la + dl >= lb + cl /\ ha + dh >= hb + ch /\ cl + ch >= dl + dh
  BY <1>5, <1>6
<1> HIDE DEF lb, hb, la, ha, cl, ch, dl, dh
<1>14. la + ha >= lb + hb
  BY <1>11, <1>12, <1>13
<1> QED BY <1>2, <1>10, <1>14

\* Whatever leaves positions alone keeps the ledger.
LEMMA ExecutesLedger ==
  ASSUME MarketInv, LedgerInv, ~m.pure => Executes(m, m'), m'.pure = m.pure,
         positions' = positions, leftBehind' = leftBehind, forgiven' = forgiven
  PROVE  LedgerInv'
<1> SUFFICES ASSUME ~m.pure
             PROVE  /\ TwoTokens(m') /\ forgiven' \in TokenAmounts
                    /\ \A t \in BOOLEAN : Ledger(t)' >= 0
  BY DEF LedgerInv
<1>1. /\ TwoTokens(m') /\ Funds(m, m')
      /\ \A t \in BOOLEAN : m'.bal[t] - Backing(m', t) = m.bal[t] - Backing(m, t)
  BY DEF Executes
<1>2. TwoTokens(m) /\ forgiven \in TokenAmounts
  BY DEF LedgerInv
<1>3. Sound(m) /\ Sound(m') /\ m.bal \in TokenAmounts /\ m'.bal \in TokenAmounts /\ ~m'.pure
  BY <1>1, <1>2 DEF TwoTokens
<1>4. ASSUME NEW t \in BOOLEAN PROVE Ledger(t)' >= 0
  <2> DEFINE n == Adjustment * Unit
             g == OwingIn(m, t)
             h == OwingIn(m', t)
             i == m.bal[t]
             j == m'.bal[t]
             f == forgiven[t]
             x == Backing(m, t)
             y == Backing(m', t)
  <2>1. h >= g /\ g \in Int /\ h \in Int
    BY <1>1, <1>3, OwingGrows
  <2>2. OwingIn(m, t)' = h
    <3>1. Kinds' = Kinds
      BY DEF Kinds
    <3> QED BY <3>1 DEF OwingIn, OwingBook
  <2>3. x \in Int /\ y \in Int
    BY <1>3, SoundWhole, BackingInt
  <2>4. i \in Int /\ j \in Int /\ f \in Int
    BY <1>2, <1>3 DEF TokenAmounts
  <2>5. j - y = i - x
    BY <1>1
  <2>6. (i + f - x) * n + g >= 0
    BY DEF LedgerInv, Ledger, Spare
  <2>7. Ledger(t)' = (j + f - y) * n + h
    BY <2>2 DEF Ledger, Spare
  <2>8. n \in Int
    BY FundingScale
  <2> HIDE DEF n, g, h, i, j, f, x, y
  <2>9. j + f - y = i + f - x
    BY <2>3, <2>4, <2>5
  <2>10. (i + f - x) * n \in Int
    BY <2>3, <2>4, <2>8
  <2>11. Ledger(t)' = (i + f - x) * n + h
    BY <2>7, <2>9
  <2> QED BY <2>1, <2>6, <2>10, <2>11
<1> QED BY <1>1, <1>2, <1>4

\* The order of a position keeps the ledger when what it pays and takes of funding, rounded,
\* is booked to what is spare: the fee in its collateral token, the claims in both.
LEMMA OrderLedger ==
  ASSUME MarketInv, LedgerInv, ~m.pure, NEW k \in Kinds, NEW n, TwoTokens(n), n.supply = m.supply,
         Funds(m, n), NEW b, TwoTokens(b), m' = b,
         \A j \in FundingPools, c \in BOOLEAN : b.pool[j][c] = n.pool[j][c],
         NEW q \in PositionStates, q.long = positions[k].long, q.cl = positions[k].cl,
         NEW l \in LeftRecords, forgiven' \in TokenAmounts,
         positions' = [positions EXCEPT ![k] = q], leftBehind' = [leftBehind EXCEPT ![k] = l],
         \A t \in BOOLEAN :
           OwingAt(n, q, l, t)
             = IF positions[k].cl = t
               THEN leftBehind[k].size * n.pool[FundingPool(positions[k].long)][t]
                      - leftBehind[k].funding
               ELSE 0,
         \A t \in BOOLEAN :
           Spare(t)' = Spare(t) + Only(positions[k].cl, FundingFee(n, positions[k]))[t]
                         - FundingClaim(n, positions[k], t)
  PROVE  LedgerInv'
<1>1. /\ WellFormed /\ Sound(m) /\ TwoTokens(m) /\ forgiven \in TokenAmounts
      /\ Sound(n) /\ ~n.pure /\ Sound(b) /\ ~b.pure
  BY DEF MarketInv, WellFormed, LedgerInv, TwoTokens
<1>2. ASSUME NEW t \in BOOLEAN PROVE Ledger(t)' >= 0
  <2> DEFINE u == Adjustment * Unit
             p == positions[k]
             left == leftBehind[k]
             base == IF p.cl = t THEN left.size * n.pool[FundingPool(p.long)][t] - left.funding
                     ELSE 0
             due == IF p.cl = t THEN p.size * (n.pool[FundingPool(p.long)][t] - p.funding) ELSE 0
             take == p.size * (n.pool[ClaimPool(p.long)][t] - p.claimable[t])
             fee == Only(p.cl, FundingFee(n, p))[t]
             claim == FundingClaim(n, p, t)
             before == OwingBook(n, t)
             after == [j \in Kinds |-> OwingAt(n, positions'[j], leftBehind'[j], t)]
             g == OwingIn(m, t)
             h == OwingIn(n, t)
             spare == Spare(t)
             w == SumFunctionOnSet(after, Kinds)
  <2>1. h >= g /\ g \in Int /\ h \in Int
    BY <1>1, OwingGrows
  <2>2. p \in PositionStates /\ left \in LeftRecords
    BY <1>1 DEF WellFormed
  <2>3. before[k] = base + due - take /\ before[k] \in Int
    BY <1>1, <2>2, OwingSplit, OwingBookInt
  <2>4. \A j \in Kinds : /\ positions'[j] = IF j = k THEN q ELSE positions[j]
                         /\ leftBehind'[j] = IF j = k THEN l ELSE leftBehind[j]
    BY <1>1 DEF WellFormed
  <2>5. after[k] = base
    BY <2>4
  <2>6. (\A j \in Kinds : before[j] \in Int) /\ \A j \in Kinds \ {k} : after[j] = before[j]
    BY <1>1, <2>4, OwingBookInt
  <2>7. /\ p.long \in BOOLEAN /\ p.cl \in BOOLEAN /\ p.size \in Nat /\ p.funding \in Nat
        /\ p.claimable[t] \in Nat /\ left.size \in Nat /\ left.funding \in Nat
    BY <2>2, PositionFields DEF LeftRecords
  <2>8. n.pool[FundingPool(p.long)][t] \in Nat /\ n.pool[ClaimPool(p.long)][t] \in Nat
    BY <1>1, <2>7, FundingNames, BackingNames DEF Sound
  <2>9. base \in Int /\ due \in Int /\ take \in Int
    <3> DEFINE e == n.pool[FundingPool(p.long)][t]
               c == n.pool[ClaimPool(p.long)][t]
    <3>1. e \in Nat /\ c \in Nat
      BY <2>8
    <3> HIDE DEF e, c, p, left
    <3> QED BY <2>7, <3>1 DEF e, c
  <2>10. IsFiniteSet(Kinds)
    BY <1>1, OwingBookInt
  <2>11. w = h + (base - (base + due - take))
    <3>1. SumFunctionOnSet(after, Kinds)
            = SumFunctionOnSet(before, Kinds) + (after[k] - before[k])
      <4>1. after[k] \in Int
        BY <2>5, <2>9
      <4> HIDE DEF after, before
      <4> QED BY <2>6, <2>10, <4>1, SumChange
    <3>2. SumFunctionOnSet(before, Kinds) = h
      BY DEF OwingIn
    <3> HIDE DEF after, before, h
    <3> QED BY <2>3, <2>5, <3>1, <3>2
  <2>12. OwingIn(m, t)' = w
    <3>1. Kinds' = Kinds
      <4>1. m.pure \in BOOLEAN /\ b.pure \in BOOLEAN
        BY <1>1 DEF Sound, IsMarket
      <4>2. m'.pure = m.pure
        BY <1>1, <4>1
      <4> QED BY <4>2 DEF Kinds
    <3>2. OwingIn(m, t)' = SumFunctionOnSet([j \in Kinds |-> OwingAt(b, positions'[j], leftBehind'[j], t)], Kinds)
      BY <3>1 DEF OwingIn, OwingBook
    <3>3. ASSUME NEW j \in Kinds
          PROVE  OwingAt(b, positions'[j], leftBehind'[j], t) = after[j]
      <4>1. positions'[j].long \in BOOLEAN
        BY <1>1, <2>4, PositionFields DEF WellFormed
      <4>2. /\ FundingPool(positions'[j].long) \in FundingPools
            /\ ClaimPool(positions'[j].long) \in FundingPools
        BY <4>1, FundingNames
      <4> QED BY <4>2 DEF OwingAt
    <3>4. [j \in Kinds |-> OwingAt(b, positions'[j], leftBehind'[j], t)] = after
      BY <3>3
    <3> HIDE DEF after
    <3> QED BY <3>2, <3>4
  <2>13. fee \in Int /\ claim \in Int /\ fee * u >= due /\ claim * u <= take
    <3>1. /\ FundingFee(n, p) \in Int
          /\ FundingFee(n, p) * u >= p.size * (n.pool[FundingPool(p.long)][p.cl] - p.funding)
          /\ claim \in Int /\ claim * u <= take
      BY <1>1, <2>2, FundingRounded
    <3>2. fee = IF p.cl = t THEN FundingFee(n, p) ELSE 0
      BY <2>7, OnlyAt
    <3>3. u \in Int
      BY FundingScale
    <3> HIDE DEF fee, claim, take, u, p
    <3>4. CASE p.cl = t
      BY <3>1, <3>2, <3>4
    <3>5. CASE p.cl # t
      BY <3>1, <3>2, <3>3, <3>5
    <3> QED BY <3>4, <3>5
  <2>14. spare \in Int
    <3>1. m.bal[t] \in Int /\ forgiven[t] \in Int /\ Backing(m, t) \in Int
      BY <1>1, SoundWhole, BackingInt DEF TwoTokens, TokenAmounts
    <3> QED BY <3>1 DEF Spare
  <2>15. Ledger(t)' = (spare + fee - claim) * u + w
    <3>1. Spare(t)' = spare + fee - claim
      OBVIOUS
    <3> QED BY <2>12, <3>1 DEF Ledger
  <2>16. spare * u + g >= 0
    BY DEF LedgerInv, Ledger
  <2>17. u \in Int
    BY FundingScale
  <2> HIDE DEF u, base, due, take, fee, claim, g, h, spare, w, before, after, p, left
  <2>18. /\ (spare + fee - claim) * u = spare * u + fee * u - claim * u
         /\ spare * u \in Int /\ fee * u \in Int /\ claim * u \in Int
    BY <2>13, <2>14, <2>17
  <2>19. w = h - due + take
    BY <2>1, <2>9, <2>11
  <2> DEFINE x == spare * u
             y == fee * u
             z == claim * u
  <2>20. x \in Int /\ y \in Int /\ z \in Int /\ y >= due /\ z <= take /\ x + g >= 0
         /\ Ledger(t)' = x + y - z + w
    BY <2>13, <2>15, <2>16, <2>18
  <2> HIDE DEF x, y, z
  <2>21. x + y - z + w >= 0
    BY <2>1, <2>9, <2>19, <2>20
  <2> QED BY <2>20, <2>21
<1> QED BY <1>1, <1>2 DEF LedgerInv

LEMMA DepositLedger ==
  ASSUME MarketInv, LedgerInv, NEW amount \in Deposits, NEW fees \in FeeParams,
         DepositWith(amount, fees)
  PROVE  LedgerInv'
<1> DEFINE two == BothIn(m, amount)
           n == PreExecute(two, o)
           r == Deposit(n, o, amount, fees)
<1>1. /\ m' = Covered(r.m) /\ m'.ok
      /\ positions' = positions /\ leftBehind' = leftBehind /\ forgiven' = forgiven
  BY DEF DepositWith, Commit, BothIn
<1>2. amount \in [BOOLEAN -> Nat] /\ o \in Oracles
  BY PerpAssumption DEF MarketInv, WellFormed
<1>3. ASSUME ~m.pure PROVE Executes(m, m')
  <2>1. TwoTokens(m)
    BY <1>3 DEF LedgerInv
  <2> HIDE DEF two, n, r
  <2> QED BY <1>1, <1>2, <2>1, DepositExecuted DEF two, n, r
<1>4. m'.pure = m.pure
  <2>1. Keeps(m, two) /\ Keeps(two, n) /\ Keeps(n, r.m) /\ Keeps(r.m, m')
    <3>1. Keeps(m, two)
      <4> DEFINE one == TransferIn(m, TRUE, amount[TRUE])
      <4>1. Keeps(m, one) /\ Keeps(one, two)
        BY TransferInKeeps DEF BothIn
      <4> HIDE DEF one, two
      <4> QED BY <4>1, KeepsTransitive
    <3> QED BY <1>1, <1>2, <3>1, PreExecuteKeeps, DepositKeeps, PaidKeeps
  <2> HIDE DEF two, n, r
  <2>2. Keeps(m, m')
    BY <2>1, KeepsTransitive
  <2> QED BY <1>1, <2>2 DEF Keeps, MarketInv, WellFormed, Sound
<1> QED BY <1>1, <1>3, <1>4, ExecutesLedger

LEMMA WithdrawLedger ==
  ASSUME MarketInv, LedgerInv, NEW burnt \in Burns, NEW fees \in FeeParams,
         WithdrawWith(burnt, fees)
  PROVE  LedgerInv'
<1> DEFINE n == PreExecute(m, o)
           r == Withdraw(n, o, burnt, fees)
<1>1. /\ m' = Paid(r.m, r.out) /\ m'.ok
      /\ positions' = positions /\ leftBehind' = leftBehind /\ forgiven' = forgiven
  BY DEF WithdrawWith, Commit
<1>2. burnt \in Nat /\ o \in Oracles
  BY PerpAssumption DEF MarketInv, WellFormed
<1>3. ASSUME ~m.pure PROVE Executes(m, m')
  <2>1. TwoTokens(m)
    BY <1>3 DEF LedgerInv
  <2> HIDE DEF n, r
  <2> QED BY <1>1, <1>2, <2>1, WithdrawExecuted DEF n, r
<1>4. m'.pure = m.pure
  <2>1. Keeps(m, n) /\ Keeps(n, r.m) /\ Keeps(r.m, m')
    BY <1>1, <1>2, PreExecuteKeeps, WithdrawKeeps, PaidKeeps
  <2> HIDE DEF n, r
  <2>2. Keeps(m, m')
    BY <2>1, KeepsTransitive
  <2> QED BY <1>1, <2>2 DEF Keeps, MarketInv, WellFormed, Sound
<1> QED BY <1>1, <1>3, <1>4, ExecutesLedger

LEMMA SwapLedger ==
  ASSUME MarketInv, LedgerInv, NEW s \in BOOLEAN, NEW amount \in Amounts, ExecuteSwap(s, amount)
  PROVE  LedgerInv'
<1> DEFINE u == ~s
           one == TransferIn(m, s, amount)
           n == PreExecute(one, o)
           fees == SwapFeeParams("Swap")
           r == Swap(n, o, s, amount, fees)
<1>1. /\ m' = Paid(r.m, Only(u, r.out)) /\ m'.ok
      /\ positions' = positions /\ leftBehind' = leftBehind /\ forgiven' = forgiven
  BY DEF ExecuteSwap, Commit
<1>2. amount \in Nat /\ o \in Oracles /\ u \in BOOLEAN /\ fees \in FeeParams
  BY PerpAssumption, FeeParamTypes DEF MarketInv, WellFormed
<1>3. ASSUME ~m.pure PROVE Executes(m, m')
  <2>1. TwoTokens(m)
    BY <1>3 DEF LedgerInv
  <2>2. n = PreExecute(TransferIn(m, s, amount), o) /\ u = ~s
    OBVIOUS
  <2> HIDE DEF u, one, n, fees, r
  <2> QED BY <1>1, <1>2, <2>1, <2>2, SwapExecuted DEF r
<1>4. m'.pure = m.pure
  <2>1. Keeps(m, one) /\ Keeps(one, n) /\ Keeps(n, r.m) /\ Keeps(r.m, m')
    BY <1>1, <1>2, TransferInKeeps, PreExecuteKeeps, SwapKeeps, PaidKeeps
  <2> HIDE DEF one, n, r
  <2>2. Keeps(m, m')
    BY <2>1, KeepsTransitive
  <2> QED BY <1>1, <2>2 DEF Keeps, MarketInv, WellFormed, Sound
<1> QED BY <1>1, <1>3, <1>4, ExecutesLedger

LEMMA StandsStill ==
  ASSUME MarketInv, LedgerInv, UNCHANGED <<m, positions, leftBehind, forgiven>>
  PROVE  LedgerInv'
BY DEF LedgerInv, Ledger, Spare, OwingIn, OwingBook, Kinds

LEMMA FundsItself == \A a : TwoTokens(a) => Funds(a, a)
<1> SUFFICES ASSUME NEW a, TwoTokens(a) PROVE Funds(a, a)
  OBVIOUS
<1>1. Sound(a)
  BY DEF TwoTokens
<1>2. \A k \in FundingPools, t \in BOOLEAN : a.pool[k][t] \in Nat
  BY <1>1, BackingNames DEF Sound
<1>3. ASSUME NEW s \in BOOLEAN, NEW t \in BOOLEAN
      PROVE  Charged(a, a, s, t) = 0 /\ Claimed(a, a, s, t) = 0
  <2>1. Grown(a, a, FundingPool(s), t) = 0 /\ Grown(a, a, ClaimPool(s), t) = 0
    BY <1>2, FundingNames DEF Grown
  <2>2. a.pool[InterestPool(s)][t] \in Nat /\ OpenInterest(a, s) \in Nat
    BY <1>1, FundingNames, InterestNat DEF Sound
  <2> QED BY <2>1, <2>2 DEF Charged, Claimed
<1>4. \A t \in BOOLEAN : Charged(a, a, TRUE, t) + Charged(a, a, FALSE, t)
                           >= Claimed(a, a, TRUE, t) + Claimed(a, a, FALSE, t)
  <2> SUFFICES ASSUME NEW t \in BOOLEAN
               PROVE  Charged(a, a, TRUE, t) + Charged(a, a, FALSE, t)
                        >= Claimed(a, a, TRUE, t) + Claimed(a, a, FALSE, t)
    OBVIOUS
  <2> DEFINE g == Charged(a, a, TRUE, t)
             h == Charged(a, a, FALSE, t)
             i == Claimed(a, a, TRUE, t)
             j == Claimed(a, a, FALSE, t)
  <2>1. g = 0 /\ h = 0 /\ i = 0 /\ j = 0
    BY <1>3
  <2> HIDE DEF g, h, i, j
  <2>2. g + h >= i + j
    BY <2>1
  <2> QED BY <2>2 DEF g, h, i, j
<1>5. \A k \in FundingPools, t \in BOOLEAN : a.pool[k][t] <= a.pool[k][t]
  BY <1>2
<1> QED BY <1>4, <1>5 DEF Funds

\* Claimed fees leave the market and its recorded balance.
LEMMA ClaimFeesLedger ==
  ASSUME MarketInv, LedgerInv, NEW s \in BOOLEAN, ClaimFees(s), MarketInv'
  PROVE  LedgerInv'
<1> DEFINE side == s \/ m.pure
           take(n, t) == ApplyDelta(n, ClaimableFee, t, -Amount(m, ClaimableFee, t))
           amount == OfToken(m, LAMBDA t : Amount(m, ClaimableFee, t), side)
           n == IF m.pure THEN take(take(m, TRUE), FALSE) ELSE take(m, side)
           r == TransferOut(n, Only(side, amount))
           cond == r.bal[side] >= PoolTokens(r, side) /\ r.bal[side] >= CollateralTokens(r, side)
<1>1. /\ m' = Check(r, cond) /\ m'.ok
      /\ positions' = positions /\ leftBehind' = leftBehind /\ forgiven' = forgiven
  BY DEF ClaimFees, Commit
<1> HIDE DEF cond
<1>2. CASE m.pure
  <2>1. m'.pure = m.pure
    <3>1. Keeps(m, m')
      <4>1. ClaimableFee \in LiquidityPools /\ Keeps(m, m)
        BY LiquidityNames, KeepsItself
      <4>2. Keeps(m, take(m, TRUE))
        BY <4>1, LiquidityDelta
      <4>3. Keeps(m, n)
        BY <1>2, <4>1, <4>2, LiquidityDelta
      <4> HIDE DEF n, amount, side
      <4>4. Keeps(n, r) /\ Keeps(r, m')
        BY <1>1, TransferOutKeeps, CheckKeeps
      <4> HIDE DEF r
      <4> QED BY <4>3, <4>4, KeepsTransitive
    <3> QED BY <1>1, <3>1 DEF Keeps, MarketInv, WellFormed, Sound
  <2> QED BY <1>1, <1>2, <2>1, ExecutesLedger
<1>3. CASE ~m.pure
  <2> DEFINE fee == m.pool[ClaimableFee][s]
             d == Plus(NoTokens, Only(s, -fee))
             e == Only(s, fee)
  <2>1. TwoTokens(m) /\ Sound(m) /\ Whole(m)
    BY <1>3, SoundWhole DEF LedgerInv, TwoTokens
  <2>2. fee \in Nat
    BY <2>1, BackingNames DEF Sound
  <2>3. Amount(m, ClaimableFee, s) = fee
    BY <1>3, NotPureAmount
  <2>4. amount = fee /\ n = ApplyDelta(m, ClaimableFee, s, -fee) /\ side = s
    <3>1. side = s
      BY <1>3, Zenon
    <3>2. n = take(m, side)
      BY <1>3
    <3>3. amount = fee
      BY <1>3, <2>3, <3>1 DEF OfToken
    <3> HIDE DEF side, fee, amount
    <3> QED BY <2>3, <3>1, <3>2, <3>3
  <2>5. Moves(m, n, d)
    <3>1. -fee \in Int
      BY <2>2
    <3> HIDE DEF fee
    <3> QED BY <2>4, <3>1, MovesNothing, MovesToken, BackingNames, TokenAmountTypes
  <2>6. e \in TokenAmounts
    BY <2>2, TokenAmountTypes
  <2>7. r = TransferOut(n, e)
    BY <2>4
  <2> HIDE DEF n, r, e, fee, amount, side
  <2>8. Receives(n, r, Negative(e)) /\ Same(r, m')
    BY <1>1, <2>6, <2>7, PaidReceives, CheckSame
  <2>9. /\ IsMarket(n) /\ n.pure = m.pure /\ n.bal = m.bal /\ n.supply = m.supply
        /\ \A t \in BOOLEAN : Backing(n, t) = Backing(m, t) + d[t]
        /\ \A k \in FundingPools, t \in BOOLEAN : n.pool[k][t] = m.pool[k][t]
    BY <2>1, <2>5 DEF Moves, Sound
  <2>10. /\ m'.pure = m.pure /\ m'.pool = n.pool /\ m'.supply = m.supply
         /\ m'.bal \in TokenAmounts
         /\ \A t \in BOOLEAN : m'.bal[t] = m.bal[t] + Negative(e)[t]
    BY <1>3, <2>1, <2>8, <2>9 DEF Receives, Same, TwoTokens
  <2>11. TwoTokens(m')
    BY <1>3, <2>1, <2>10 DEF TwoTokens, MarketInv, WellFormed
  <2>12. Funds(m, m')
    <3>1. Funds(m, m)
      BY <2>1, FundsItself
    <3> QED BY <1>3, <2>9, <2>10, <3>1, FundsSame
  <2>13. ASSUME NEW t \in BOOLEAN PROVE m'.bal[t] - Backing(m', t) = m.bal[t] - Backing(m, t)
    <3> DEFINE x == m.bal[t]
               y == Backing(m, t)
               z == Backing(m', t)
               w == m'.bal[t]
    <3>1. z = y + d[t] /\ w = x + Negative(e)[t]
      BY <2>9, <2>10 DEF Backing
    <3>2. d[t] = (IF t = s THEN -fee ELSE 0) /\ Negative(e)[t] = -(IF t = s THEN fee ELSE 0)
      <4>1. NoTokens[t] = 0 /\ Only(s, -fee)[t] = (IF t = s THEN -fee ELSE 0)
        BY OnlyAt
      <4>2. Plus(NoTokens, Only(s, -fee))[t] = NoTokens[t] + Only(s, -fee)[t]
        BY PlusAt
      <4>3. e[t] = IF t = s THEN fee ELSE 0
        BY OnlyAt DEF e
      <4> QED BY <2>2, <4>1, <4>2, <4>3 DEF Negative
    <3>3. x \in Int /\ y \in Int
      BY <2>1, BackingInt DEF TwoTokens, TokenAmounts
    <3> HIDE DEF x, y, z, w, d
    <3>4. w - z = x - y
      BY <2>2, <3>1, <3>2, <3>3
    <3> QED BY <3>4 DEF x, y, z, w
  <2> QED BY <1>1, <2>10, <2>11, <2>12, <2>13, ExecutesLedger DEF Executes
<1> QED BY <1>2, <1>3

(* The execution of an order: tokens come in, the market is updated, the   *)
(* order moves what is backed and forgives what it cannot collect, and     *)
(* tokens go out; the position has paid and taken its funding, and owes    *)
(* what it has left behind.                                                *)
Balanced(n, p, in, f, e, d) ==
  \A t \in BOOLEAN :
    in[t] + f[t] - e[t] - d[t] = Only(p.cl, FundingFee(n, p))[t] - FundingClaim(n, p, t)

Owes(n, p, left, q, l) ==
  \A t \in BOOLEAN :
    OwingAt(n, q, l, t)
      = IF p.cl = t THEN left.size * n.pool[FundingPool(p.long)][t] - left.funding ELSE 0

LEMMA OrderExecuted ==
  ASSUME MarketInv, LedgerInv, ~m.pure, NEW k \in Kinds,
         NEW in \in TokenAmounts, NEW n, Updated(m, n, in),
         NEW b, NEW d \in TokenAmounts, Moves(n, b, d),
         NEW e \in TokenAmounts, m' = Paid(b, e), Sound(m'),
         NEW f \in TokenAmounts, forgiven' = Plus(forgiven, f),
         Balanced(n, positions[k], in, f, e, d),
         NEW q \in PositionStates, q.long = positions[k].long, q.cl = positions[k].cl,
         NEW l \in LeftRecords, Owes(n, positions[k], leftBehind[k], q, l),
         positions' = [positions EXCEPT ![k] = q], leftBehind' = [leftBehind EXCEPT ![k] = l]
  PROVE  LedgerInv'
<1>1. /\ TwoTokens(m) /\ forgiven \in TokenAmounts /\ TwoTokens(n) /\ n.supply = m.supply
      /\ Funds(m, n)
      /\ \A t \in BOOLEAN : n.bal[t] = m.bal[t] + in[t] /\ Backing(n, t) = Backing(m, t)
  BY DEF LedgerInv, Updated
<1>2. Sound(m) /\ Sound(n) /\ ~n.pure /\ Whole(n) /\ Whole(m) /\ n.bal \in TokenAmounts
  BY <1>1, SoundWhole DEF TwoTokens
<1>3. /\ IsMarket(b) /\ b.pure = n.pure /\ b.bal = n.bal /\ b.supply = n.supply
      /\ \A t \in BOOLEAN : Backing(b, t) = Backing(n, t) + d[t]
      /\ \A j \in FundingPools, t \in BOOLEAN : b.pool[j][t] = n.pool[j][t]
  BY <1>2 DEF Moves, Sound
<1>4. Receives(b, m', Negative(e))
  BY PaidReceives
<1>5. /\ m'.pure = n.pure /\ m'.pool = b.pool /\ m'.supply = n.supply
      /\ m'.bal \in TokenAmounts
      /\ \A t \in BOOLEAN : m'.bal[t] = n.bal[t] + Negative(e)[t]
  BY <1>2, <1>3, <1>4 DEF Receives
<1>6. TwoTokens(m')
  BY <1>1, <1>2, <1>5 DEF TwoTokens
<1>7. ASSUME NEW t \in BOOLEAN
      PROVE  Spare(t)' = Spare(t) + Only(positions[k].cl, FundingFee(n, positions[k]))[t]
                           - FundingClaim(n, positions[k], t)
  <2> DEFINE x == m.bal[t]
             y == Backing(m, t)
             z == forgiven[t]
             g == Only(positions[k].cl, FundingFee(n, positions[k]))[t]
             h == FundingClaim(n, positions[k], t)
             ti == in[t]
             td == d[t]
             te == e[t]
             tf == f[t]
  <2>1. /\ x \in Int /\ y \in Int /\ z \in Int /\ ti \in Int /\ td \in Int /\ te \in Int
        /\ tf \in Int
    BY <1>1, <1>2, BackingInt DEF TwoTokens, TokenAmounts
  <2>2. g \in Int /\ h \in Int
    <3>1. positions[k] \in PositionStates
      BY DEF MarketInv, WellFormed
    <3>2. positions[k].cl \in BOOLEAN
      BY <3>1, PositionFields
    <3>3. FundingFee(n, positions[k]) \in Int /\ h \in Int
      BY <1>2, <3>1, FundingRounded
    <3> QED BY <3>2, <3>3, OnlyAt
  <2>3. Spare(t) = x + z - y
    BY DEF Spare
  <2>4. Spare(t)' = (x + ti - te) + (z + tf) - (y + td)
    <3>1. m'.bal[t] = x + ti - te
      <4>1. Negative(e)[t] = -te
        BY DEF Negative
      <4>2. m'.bal[t] = (x + ti) + Negative(e)[t]
        BY <1>1, <1>5
      <4> HIDE DEF x, ti, te
      <4> QED BY <2>1, <4>1, <4>2
    <3>2. Backing(m, t)' = y + td
      <4>1. Backing(m', t) = Backing(b, t)
        BY <1>5 DEF Backing
      <4> QED BY <1>1, <1>3, <4>1
    <3>3. forgiven'[t] = z + tf
      BY PlusAt
    <3> QED BY <3>1, <3>2, <3>3 DEF Spare
  <2>5. ti + tf - te - td = g - h
    BY DEF Balanced
  <2> HIDE DEF x, y, z, g, h, ti, td, te, tf
  <2>6. (x + ti - te) + (z + tf) - (y + td) = (x + z - y) + g - h
    BY <2>1, <2>2, <2>5
  <2> QED BY <2>3, <2>4, <2>6 DEF g, h
<1>8. \A j \in FundingPools, c \in BOOLEAN : m'.pool[j][c] = n.pool[j][c]
  BY <1>3, <1>5
<1> DEFINE b2 == m'
<1>9. m' = b2 /\ TwoTokens(b2) /\ \A j \in FundingPools, c \in BOOLEAN : b2.pool[j][c] = n.pool[j][c]
  BY <1>6, <1>8
<1>10. forgiven' \in TokenAmounts
  BY <1>1, TokenAmountTypes
<1>11. \A t \in BOOLEAN :
         OwingAt(n, q, l, t)
           = IF positions[k].cl = t
             THEN leftBehind[k].size * n.pool[FundingPool(positions[k].long)][t]
                    - leftBehind[k].funding
             ELSE 0
  BY DEF Owes
<1> HIDE DEF b2
<1> QED BY <1>1, <1>7, <1>9, <1>10, <1>11, OrderLedger

LEMMA SettledBefore ==
  ASSUME NEW a, Whole(a), IsMarket(a), NEW b, NEW d, Moves(a, b, d), NEW q, q.long \in BOOLEAN,
         q.cl \in BOOLEAN, SettledAt(b, q)
  PROVE  SettledAt(a, q)
<1>1. \A j \in FundingPools, t \in BOOLEAN : b.pool[j][t] = a.pool[j][t]
  BY DEF Moves
<1>2. FundingPool(q.long) \in FundingPools /\ ClaimPool(q.long) \in FundingPools
  BY FundingNames
<1> QED BY <1>1, <1>2 DEF SettledAt

LEMMA EmptyFunding ==
  ASSUME NEW a, Sound(a), ~a.pure, NEW p \in PositionStates, p.size = 0
  PROVE  FundingFee(a, p) = 0 /\ \A t \in BOOLEAN : FundingClaim(a, p, t) = 0
<1> DEFINE u == Adjustment * Unit
           f == FundingPerSize(a, p) - p.funding
<1>1. u \in Nat \ {0}
  BY FundingScale
<1>2. f \in Int
  <2>1. FundingPerSize(a, p) \in Nat /\ p.funding \in Nat
    BY PositionReads, PositionFields
  <2> QED BY <2>1
<1>3. FundingFee(a, p) = CeilDiv(p.size * f, u)
  BY Zenon DEF FundingFee, UnpackFunding, MulDivCeil, u, f
<1> HIDE DEF u, f
<1>4. p.size * f = 0
  BY <1>2
<1>5. CeilDiv(0, u) = 0
  BY <1>1 DEF CeilDiv
<1>6. ASSUME NEW t \in BOOLEAN PROVE FundingClaim(a, p, t) = 0
  <2> DEFINE g == ClaimablePerSize(a, p, t) - p.claimable[t]
  <2>1. g \in Int
    <3>1. ClaimablePerSize(a, p, t) \in Nat /\ p.claimable[t] \in Nat
      BY PositionReads, PositionFields
    <3> QED BY <3>1
  <2>2. FundingClaim(a, p, t) = (p.size * g) \div u
    BY Zenon DEF FundingClaim, UnpackFunding, MulDiv, u, g
  <2> HIDE DEF g
  <2>3. p.size * g = 0
    BY <2>1
  <2>4. 0 \div u = 0
    BY <1>1
  <2> QED BY <2>2, <2>3, <2>4
<1> QED BY <1>3, <1>4, <1>5, <1>6

LEMMA InitIfEmptyFunding ==
  ASSUME NEW a, Sound(a), ~a.pure, NEW p \in PositionStates, p.size = 0 => p.tokens = 0,
         NEW q, q = InitIfEmpty(a, p)
  PROVE  /\ FundingFee(a, q) = FundingFee(a, p)
         /\ \A t \in BOOLEAN : FundingClaim(a, q, t) = FundingClaim(a, p, t)
<1>1. CASE p.size = 0
  <2>1. q \in PositionStates /\ q.size = 0
    BY <1>1, InitIfEmptyFields
  <2> QED BY <1>1, <2>1, EmptyFunding
<1>2. CASE p.size # 0
  BY <1>2 DEF InitIfEmpty
<1> QED BY <1>1, <1>2

LEMMA IncreaseLedger ==
  ASSUME MarketInv, LedgerInv, NEW k \in Kinds, NEW paid \in Nat, NEW delta \in Nat,
         ExecuteIncrease(k, paid, delta)
  PROVE  LedgerInv'
<1>0. MarketInv' /\ m'.pure = m.pure
  BY IncreaseStep
<1> SUFFICES ASSUME ~m.pure PROVE LedgerInv'
  BY <1>0 DEF LedgerInv
<1> DEFINE one == TransferIn(m, k[2], paid)
           n == PreExecute(one, o)
           p == positions[k]
           r == Increase(n, o, p, paid, delta)
           q == InitIfEmpty(n, p)
           fee == FundingFee(n, p)
           in == Only(k[2], paid)
           d == Only(k[2], paid - fee)
           e == r.claim
           left == leftBehind[k]
<1>1. /\ n.ok /\ r.m.ok /\ m' = Paid(r.m, e) /\ m'.ok
      /\ positions' = [positions EXCEPT ![k] = r.p] /\ leftBehind' = leftBehind
      /\ forgiven' = forgiven
  BY DEF ExecuteIncrease, Commit
<1>2. /\ WellFormed /\ TwoTokens(m) /\ o \in Oracles /\ p \in PositionStates /\ Fits(m, p)
      /\ left \in LeftRecords /\ forgiven \in TokenAmounts
      /\ p.long = k[1] /\ p.cl = k[2] /\ k[2] \in BOOLEAN
  BY BookTypes, PositionFields DEF MarketInv, WellFormed, LedgerInv
<1>3. Updated(m, n, in)
  <2>1. Receives(m, one, in) /\ Keeps(m, one)
    BY <1>2, TransferInReceives, TransferInKeeps
  <2> HIDE DEF one, in
  <2> QED BY <1>1, <1>2, <2>1, PreExecuted
<1> HIDE DEF one, n
<1>4. Sound(n) /\ ~n.pure /\ Whole(n)
  BY <1>3, SoundWhole DEF Updated, TwoTokens
<1>5. Fits(n, p)
  <2>1. n.pure = m.pure
    BY <1>2, <1>4 DEF TwoTokens, Sound, IsMarket
  <2> QED BY <1>2, <2>1 DEF Fits
<1>6. p.size = 0 => p.tokens = 0
  BY DEF MarketInv, Healthy, IsEmpty
<1>7. /\ Moves(n, r.m, Only(p.cl, paid - FundingFee(n, q)))
      /\ e = [s \in BOOLEAN |-> FundingClaim(n, q, s)] /\ SettledAt(r.m, r.p)
  BY <1>1, <1>2, <1>4, <1>5, <1>6, IncreaseMoves
<1>8. r.p \in PositionStates /\ r.p.long = p.long /\ r.p.cl = p.cl
  BY <1>1, <1>2, <1>4, <1>5, <1>6, IncreasePosts
<1> HIDE DEF r, q, e, in
<1>9. FundingFee(n, q) = fee /\ \A t \in BOOLEAN : FundingClaim(n, q, t) = FundingClaim(n, p, t)
  BY <1>2, <1>4, <1>6, InitIfEmptyFunding DEF q
<1>10. fee \in Int /\ \A t \in BOOLEAN : FundingClaim(n, p, t) \in Int
  BY <1>2, <1>4, FundingRounded
<1> HIDE DEF fee
<1>11. Moves(n, r.m, d) /\ d \in TokenAmounts /\ in \in TokenAmounts /\ e \in TokenAmounts
  <2>1. paid - fee \in Int
    BY <1>10
  <2>2. e \in [BOOLEAN -> Int]
    BY <1>7, <1>9, <1>10
  <2> QED BY <1>2, <1>7, <1>9, <2>1, <2>2, TokenAmountTypes DEF TokenAmounts, in
<1>12. Balanced(n, p, in, NoTokens, e, d)
  <2> SUFFICES ASSUME NEW t \in BOOLEAN
               PROVE  in[t] + NoTokens[t] - e[t] - d[t]
                        = Only(p.cl, fee)[t] - FundingClaim(n, p, t)
    BY DEF Balanced, fee
  <2> DEFINE c == FundingClaim(n, p, t)
  <2>1. e[t] = c /\ c \in Int
    BY <1>7, <1>9, <1>10
  <2>2. /\ in[t] = (IF t = k[2] THEN paid ELSE 0) /\ d[t] = (IF t = k[2] THEN paid - fee ELSE 0)
        /\ Only(p.cl, fee)[t] = (IF t = k[2] THEN fee ELSE 0) /\ NoTokens[t] = 0
    BY <1>2, OnlyAt DEF in
  <2> HIDE DEF c, d
  <2>3. in[t] + NoTokens[t] - e[t] - d[t] = Only(p.cl, fee)[t] - c
    BY <1>10, <2>1, <2>2
  <2> QED BY <2>3 DEF c
<1>13. Owes(n, p, left, r.p, left)
  <2>1. r.p.long \in BOOLEAN /\ r.p.cl \in BOOLEAN
    BY <1>8, PositionFields
  <2>2. SettledAt(n, r.p)
    BY <1>4, <1>7, <2>1, SettledBefore DEF Sound
  <2> QED BY <1>2, <1>4, <1>8, <2>2, OwingSettled DEF Owes
<1>14. /\ Sound(m') /\ leftBehind' = [leftBehind EXCEPT ![k] = left]
       /\ NoTokens \in TokenAmounts /\ forgiven' = Plus(forgiven, NoTokens)
  <2>1. \A t \in BOOLEAN : forgiven[t] \in Int /\ NoTokens[t] = 0
    BY <1>2, OnlyAt DEF TokenAmounts
  <2>2. leftBehind = [leftBehind EXCEPT ![k] = left]
    BY <1>2 DEF WellFormed
  <2>3. forgiven = Plus(forgiven, NoTokens)
    <3>1. Plus(forgiven, NoTokens) \in TokenAmounts
      BY <1>2, TokenAmountTypes
    <3>2. \A t \in BOOLEAN : Plus(forgiven, NoTokens)[t] = forgiven[t]
      BY <2>1, PlusAt
    <3> QED BY <1>2, <3>1, <3>2 DEF TokenAmounts
  <2> QED BY <1>0, <1>1, <2>2, <2>3, TokenAmountTypes DEF MarketInv, WellFormed
<1> DEFINE g == NoTokens
           nm == r.m
           np == r.p
<1>15. /\ g \in TokenAmounts /\ forgiven' = Plus(forgiven, g) /\ Balanced(n, p, in, g, e, d)
       /\ np \in PositionStates /\ np.long = p.long /\ np.cl = p.cl /\ Owes(n, p, left, np, left)
       /\ m' = Paid(nm, e) /\ Moves(n, nm, d) /\ positions' = [positions EXCEPT ![k] = np]
  BY <1>1, <1>8, <1>11, <1>12, <1>13, <1>14
<1> HIDE DEF d, g, nm, np
<1> QED BY <1>2, <1>3, <1>11, <1>14, <1>15, OrderExecuted

\* What a decrease pays and forgives, against what it takes from the market.
LEMMA DecreaseBalanced ==
  ASSUME NEW n, Sound(n), ~n.pure, NEW k, NEW p \in PositionStates, p.long = k[1], p.cl = k[2],
         NEW r, r.claim = [s \in BOOLEAN |-> FundingClaim(n, p, s)],
         r.out \in Int, r.sec \in Int, r.holding \in Int, r.user \in TokenAmounts,
         r.unpaid \in Int, r.waived \in Int, NEW fee, fee = FundingFee(n, p)
  PROVE  /\ Balanced(n, p, NoTokens, Only(k[2], r.unpaid + r.waived), DecreasePays(k, r),
                     GivenAway(r, r.out, r.sec, p, fee))
         /\ DecreasePays(k, r) \in TokenAmounts /\ Only(k[2], r.unpaid + r.waived) \in TokenAmounts
         /\ GivenAway(r, r.out, r.sec, p, fee) \in TokenAmounts
<1>1. k[1] \in BOOLEAN /\ k[2] \in BOOLEAN
  BY PositionFields
<1>2. fee \in Int /\ \A t \in BOOLEAN : FundingClaim(n, p, t) \in Int
  BY FundingRounded
<1> DEFINE ua == r.user[FALSE]
           ub == r.user[TRUE]
           lost == r.unpaid + r.waived
           v == r.holding + ua
           w == r.unpaid + r.waived - fee - r.out - ub
           z == 0 - (r.sec + r.holding + ua)
           oc == Only(k[2], r.out)
           os == Only(k[1], r.sec)
           ac == Only(k[2], ub)
           hs == Only(k[1], v)
           gc == Only(k[2], w)
           gs == Only(k[1], z)
           e == DecreasePays(k, r)
           d == GivenAway(r, r.out, r.sec, p, fee)
           f == Only(k[2], lost)
<1>3. ua \in Int /\ ub \in Int /\ lost \in Int
  <2>1. \A t \in BOOLEAN : r.user[t] \in Int
    BY DEF TokenAmounts
  <2>2. ua \in Int /\ ub \in Int
    BY <2>1, Zenon
  <2>3. lost \in Int
    OBVIOUS
  <2> QED BY <2>2, <2>3
<1>4. /\ e = Plus(Plus(Plus(oc, os), Plus(hs, ac)), r.claim)
      /\ d = Plus(gc, gs)
  <2>1. e = Plus(Plus(Plus(oc, os), Plus(hs, ac)), r.claim)
    BY DEF DecreasePays
  <2>2. d = Plus(Only(p.cl, w), Only(p.long, z))
    BY SMT DEF GivenAway
  <2> HIDE DEF e, d, w, z, oc, os, hs, ac
  <2> QED BY <2>1, <2>2
<1> HIDE DEF ua, ub, lost
<1>5. v \in Int /\ w \in Int /\ z \in Int
  BY <1>2, <1>3
<1>6. r.claim \in TokenAmounts
  BY <1>2 DEF TokenAmounts
<1> HIDE DEF v, w, z
<1>7. /\ oc \in TokenAmounts /\ os \in TokenAmounts /\ ac \in TokenAmounts
      /\ hs \in TokenAmounts /\ gc \in TokenAmounts /\ gs \in TokenAmounts
      /\ f \in TokenAmounts
  BY <1>1, <1>3, <1>5, TokenAmountTypes
<1>8. e \in TokenAmounts /\ d \in TokenAmounts
  <2> HIDE DEF oc, os, ac, hs, gc, gs, e, d
  <2> QED BY <1>4, <1>6, <1>7, TokenAmountTypes
<1>9. ASSUME NEW t \in BOOLEAN
      PROVE  NoTokens[t] + f[t] - e[t] - d[t] = Only(p.cl, fee)[t] - FundingClaim(n, p, t)
  <2> DEFINE c == FundingClaim(n, p, t)
             x == oc[t]
             y == os[t]
             i == hs[t]
             j == ac[t]
             g == gc[t]
             h == gs[t]
  <2>1. /\ x = (IF t = k[2] THEN r.out ELSE 0) /\ y = (IF t = k[1] THEN r.sec ELSE 0)
        /\ i = (IF t = k[1] THEN v ELSE 0) /\ j = (IF t = k[2] THEN ub ELSE 0)
        /\ g = (IF t = k[2] THEN w ELSE 0) /\ h = (IF t = k[1] THEN z ELSE 0)
        /\ f[t] = (IF t = k[2] THEN lost ELSE 0) /\ NoTokens[t] = 0
        /\ Only(p.cl, fee)[t] = IF t = k[2] THEN fee ELSE 0
    BY <1>1, OnlyAt
  <2>2. r.claim[t] = c /\ c \in Int
    BY <1>2
  <2> HIDE DEF oc, os, ac, hs, gc, gs, e, d, f, c
  <2>3. e[t] = x + y + (i + j) + c /\ d[t] = g + h
    <3> DEFINE paid == Plus(oc, os)
               aside == Plus(hs, ac)
               both == Plus(paid, aside)
               rc == r.claim
    <3>1. paid[t] = x + y /\ aside[t] = i + j
      <4>1. paid[t] = x + y
        BY SMT DEF Plus
      <4>2. aside[t] = i + j
        BY SMT DEF Plus
      <4> QED BY <4>1, <4>2
    <3>2. e = Plus(both, rc)
      BY <1>4
    <3> HIDE DEF paid, aside, rc
    <3>3. both[t] = paid[t] + aside[t]
      BY PlusAt
    <3> HIDE DEF both
    <3>4. e[t] = both[t] + rc[t]
      BY <3>2, PlusAt
    <3>5. d[t] = g + h
      BY <1>4, PlusAt
    <3> QED BY <2>2, <3>1, <3>3, <3>4, <3>5 DEF rc
  <2>4. h = 0 - (y + i)
    BY <1>3, <1>5, <2>1 DEF z, v
  <2>5. g = f[t] - Only(p.cl, fee)[t] - x - j
    BY <1>2, <1>3, <1>5, <2>1 DEF w, lost
  <2>6. /\ x \in Int /\ y \in Int /\ i \in Int /\ j \in Int /\ f[t] \in Int
        /\ Only(p.cl, fee)[t] \in Int
    BY <1>2, <1>3, <1>5, <2>1
  <2> DEFINE ft == f[t]
             et == e[t]
             dt == d[t]
             pt == Only(p.cl, fee)[t]
             nt == NoTokens[t]
  <2>7. et = x + y + (i + j) + c /\ dt = g + h /\ g = ft - pt - x - j /\ nt = 0
        /\ ft \in Int /\ pt \in Int
    BY <2>1, <2>3, <2>5, <2>6
  <2> HIDE DEF x, y, i, j, g, h, ft, et, dt, pt, nt
  <2>8. nt + ft - et - dt = pt - c
    BY <2>2, <2>4, <2>6, <2>7
  <2> QED BY <2>8 DEF nt, ft, et, dt, pt, c
<1>10. Balanced(n, p, NoTokens, f, e, d)
  BY <1>9 DEF Balanced
<1> QED BY <1>7, <1>8, <1>10 DEF lost

LEMMA DecreaseLedger ==
  ASSUME MarketInv, LedgerInv, NEW k \in Kinds, NEW n, n = PreExecute(m, o), n.ok,
         NEW req, req.size \in Nat, req.withdraw \in Int,
         NEW r, r = Decrease(n, o, positions[k], req), DecreaseTo(k, r)
  PROVE  LedgerInv'
<1>0. MarketInv' /\ m'.pure = m.pure
  <2>1. Keeps(m, n)
    BY PreExecuteKeeps DEF MarketInv, WellFormed
  <2> QED BY <2>1, DecreaseStep
<1> SUFFICES ASSUME ~m.pure PROVE LedgerInv'
  BY <1>0 DEF LedgerInv
<1> DEFINE p == positions[k]
           left == leftBehind[k]
           fee == FundingFee(n, p)
           f == Only(k[2], r.unpaid + r.waived)
           e == DecreasePays(k, r)
           d == GivenAway(r, r.out, r.sec, p, fee)
           rest == p.size - r.size
           q == IF r.removed THEN NewPosition(k[1], k[2]) ELSE r.p
           l == IF r.removed
                THEN [size |-> left.size + rest,
                      borrowing |-> left.borrowing + ApplyFactor(rest, r.p.borrowing),
                      funding |-> left.funding + rest * r.p.funding]
                ELSE left
<1>1. /\ r.m.ok /\ m' = Paid(r.m, e) /\ m'.ok /\ forgiven' = Plus(forgiven, f)
      /\ positions' = [positions EXCEPT ![k] = q]
      /\ leftBehind' = [leftBehind EXCEPT ![k] = l]
  BY DEF DecreaseTo, Commit, LeftBehind
<1>2. /\ WellFormed /\ TwoTokens(m) /\ o \in Oracles /\ p \in PositionStates /\ Fits(m, p)
      /\ left \in LeftRecords /\ forgiven \in TokenAmounts /\ Sound(m')
      /\ p.long = k[1] /\ p.cl = k[2] /\ k[1] \in BOOLEAN /\ k[2] \in BOOLEAN
  BY <1>0, BookTypes, PositionFields DEF MarketInv, WellFormed, LedgerInv
<1>3. Updated(m, n, NoTokens)
  <2>1. Receives(m, m, NoTokens) /\ Keeps(m, m)
    BY <1>2, ReceivesNothing, KeepsItself
  <2> QED BY <1>2, <2>1, PreExecuted
<1>4. Sound(n) /\ ~n.pure /\ Whole(n) /\ IsMarket(n)
  BY <1>3, SoundWhole DEF Updated, TwoTokens, Sound
<1>5. Fits(n, p)
  <2>1. n.pure = m.pure
    BY <1>2, <1>4 DEF TwoTokens, Sound, IsMarket
  <2> QED BY <1>2, <2>1 DEF Fits
<1>6. p.size # 0 => p.tokens # 0
  BY DEF MarketInv, Healthy
<1>7. /\ Moves(n, r.m, d) /\ r.claim = [s \in BOOLEAN |-> FundingClaim(n, p, s)]
      /\ SettledAt(r.m, r.p)
      /\ r.out \in Int /\ r.sec \in Int /\ r.holding \in Int /\ r.user \in TokenAmounts
      /\ r.unpaid \in Int /\ r.waived \in Int
  BY <1>1, <1>2, <1>4, <1>5, <1>6, DecreaseMoves
<1>8. /\ r.p \in PositionStates /\ r.p.long = p.long /\ r.p.cl = p.cl
      /\ r.size \in Nat /\ r.size <= p.size /\ r.removed \in BOOLEAN
  BY <1>1, <1>2, <1>4, <1>5, <1>6, DecreasePosts
<1> HIDE DEF p, left, fee
<1>9. /\ Balanced(n, p, NoTokens, f, e, d)
      /\ e \in TokenAmounts /\ f \in TokenAmounts /\ d \in TokenAmounts
  BY <1>2, <1>4, <1>7, DecreaseBalanced DEF fee
<1>10. SettledAt(n, r.p)
  <2>1. r.p.long \in BOOLEAN /\ r.p.cl \in BOOLEAN
    BY <1>8, PositionFields
  <2> HIDE DEF d
  <2> QED BY <1>4, <1>7, <2>1, SettledBefore
<1>11. p.size \in Nat /\ rest \in Nat /\ r.p.funding \in Nat /\ r.p.borrowing \in Nat
  BY <1>2, <1>8, PositionFields
<1> HIDE DEF rest, e, f, d
<1>12. /\ q \in PositionStates /\ q.long = p.long /\ q.cl = p.cl /\ l \in LeftRecords
       /\ Owes(n, p, left, q, l)
  <2>1. CASE r.removed
    <3>1. q = NewPosition(k[1], k[2])
      BY <2>1
    <3>2. /\ l.size = left.size + rest /\ l.funding = left.funding + rest * r.p.funding
          /\ l \in LeftRecords
      <4>1. left.size \in Nat /\ left.borrowing \in Nat /\ left.funding \in Nat
        BY <1>2 DEF LeftRecords
      <4>2. ApplyFactor(rest, r.p.borrowing) \in Nat
        BY <1>11, FactorNat
      <4>3. /\ left.size + rest \in Nat /\ left.funding + rest * r.p.funding \in Nat
            /\ left.borrowing + ApplyFactor(rest, r.p.borrowing) \in Nat
        BY <1>11, <4>1, <4>2, NatOps
      <4> QED BY <2>1, <4>3 DEF LeftRecords
    <3> HIDE DEF q, l
    <3>3. q \in PositionStates /\ q.size = 0 /\ q.long = p.long /\ q.cl = p.cl
      BY <1>2, <3>1, NewPositionFields
    <3>4. r.p.funding = n.pool[FundingPool(p.long)][p.cl]
      BY <1>8, <1>10 DEF SettledAt
    <3>5. l.funding = left.funding + rest * n.pool[FundingPool(p.long)][p.cl]
      BY <3>2, <3>4
    <3>6. \A t \in BOOLEAN :
            OwingAt(n, q, l, t)
              = IF p.cl = t THEN left.size * n.pool[FundingPool(p.long)][t] - left.funding ELSE 0
      BY <1>2, <1>4, <1>11, <3>2, <3>3, <3>5, OwingRemoved
    <3> QED BY <3>2, <3>3, <3>6 DEF Owes
  <2>2. CASE ~r.removed
    <3>1. q = r.p /\ l = left
      BY <2>2
    <3> HIDE DEF q, l
    <3> QED BY <1>2, <1>4, <1>8, <1>10, <3>1, OwingSettled DEF Owes
  <2> QED BY <1>8, <2>1, <2>2
<1> DEFINE in == NoTokens
           nm == r.m
<1>13. /\ in \in TokenAmounts /\ Balanced(n, p, in, f, e, d) /\ Updated(m, n, in)
       /\ m' = Paid(nm, e) /\ Moves(n, nm, d)
  BY <1>1, <1>3, <1>7, <1>9, TokenAmountTypes
<1> HIDE DEF q, l, in, nm
<1> QED BY <1>1, <1>2, <1>9, <1>12, <1>13, OrderExecuted DEF p, left

LEMMA InitLedger == Init => LedgerInv
<1> SUFFICES ASSUME Init, ~m.pure
             PROVE  /\ TwoTokens(m) /\ forgiven \in TokenAmounts
                    /\ \A t \in BOOLEAN : Ledger(t) >= 0
  BY DEF LedgerInv
<1>1. PICK pure \in PureChoices : \E p \in FirstPrices[pure] :
             o = Start(p) /\ m = Opened(pure, Start(p))
  BY DEF Init
<1>2. PICK p \in FirstPrices[pure] : o = Start(p) /\ m = Opened(pure, Start(p))
  BY <1>1
<1>3. MarketInv /\ pure \in BOOLEAN
  BY InitMarketInv, PerpAssumption
<1>4. o \in Oracles /\ WellFormed /\ Sound(m)
  BY <1>3 DEF MarketInv, WellFormed
<1> DEFINE new == NewMarket(pure, 0)
           two == BothIn(new, FirstDeposit)
           fees == SwapFeeParams("Deposit")
           n == PreExecute(two, o)
           r == Deposit(n, o, FirstDeposit, fees)
<1>5. /\ Sound(new) /\ new.pure = pure
      /\ \A j \in PoolKinds, s \in BOOLEAN : new.pool[j][s] = 0
  BY <1>3, NewMarketSound
<1>6. new.supply = 0 /\ new.bal = [s \in BOOLEAN |-> 0]
  BY DEF NewMarket
<1>7. m = Covered(r.m) /\ m.ok
  BY <1>2 DEF Opened, BothIn, Init
<1>8. pure = FALSE
  <2> HIDE DEF new
  <2>1. Keeps(new, two)
    <3> DEFINE one == TransferIn(new, TRUE, FirstDeposit[TRUE])
    <3>1. Keeps(new, one) /\ Keeps(one, two)
      BY TransferInKeeps DEF BothIn
    <3> HIDE DEF one, two
    <3> QED BY <3>1, KeepsTransitive
  <2>2. Keeps(two, n) /\ Keeps(n, r.m) /\ Keeps(r.m, m)
    BY <1>4, <1>7, PreExecuteKeeps, DepositKeeps, PaidKeeps
  <2> HIDE DEF two, n, r
  <2>3. Keeps(new, m)
    BY <2>1, <2>2, KeepsTransitive
  <2> QED BY <1>3, <1>5, <2>3 DEF Keeps, Sound
<1>9. TwoTokens(new)
  <2> HIDE DEF new
  <2> QED BY <1>5, <1>6, <1>8 DEF TwoTokens, TokenAmounts
<1>10. Executes(new, m)
  <2>1. FirstDeposit \in [BOOLEAN -> Nat] /\ fees \in FeeParams
    BY PerpAssumption, FeeParamTypes
  <2> HIDE DEF new, two, n, r, fees
  <2> QED BY <1>4, <1>7, <1>9, <2>1, DepositExecuted DEF two, n, r
<1> HIDE DEF new
<1>11. forgiven = NoTokens /\ forgiven \in TokenAmounts /\ TwoTokens(m)
  BY <1>10, TokenAmountTypes DEF Init, Executes
<1>12. ASSUME NEW t \in BOOLEAN PROVE Ledger(t) >= 0
  <2>1. new.bal[t] = 0 /\ Backing(new, t) = 0
    <3>1. /\ new.pool[Primary][t] = 0 /\ new.pool[SwapImpact][t] = 0
          /\ new.pool[ClaimableFee][t] = 0
          /\ new.pool[LongCollateral][t] = 0 /\ new.pool[ShortCollateral][t] = 0
      BY <1>5, BackingNames
    <3> QED BY <1>6, <3>1 DEF Backing
  <2>2. Spare(t) = 0
    <3> DEFINE x == m.bal[t]
               y == Backing(m, t)
    <3>1. x - y = new.bal[t] - Backing(new, t)
      BY <1>10 DEF Executes
    <3>2. forgiven[t] = 0
      BY <1>11, OnlyAt
    <3>3. x \in Int /\ y \in Int
      BY <1>11, SoundWhole, BackingInt DEF TwoTokens, TokenAmounts
    <3>4. Spare(t) = x + 0 - y
      BY <3>2 DEF Spare
    <3> HIDE DEF x, y
    <3> QED BY <2>1, <3>1, <3>3, <3>4
  <2>3. OwingIn(m, t) = 0
    <3>1. ASSUME NEW k \in Kinds PROVE OwingBook(m, t)[k] = 0
      <4> DEFINE q == positions[k]
                 l == leftBehind[k]
      <4>1. positions[k] = NewPosition(k[1], k[2])
            /\ leftBehind[k] = [size |-> 0, borrowing |-> 0, funding |-> 0]
        BY DEF Init
      <4>2. q \in PositionStates /\ l \in LeftRecords /\ k[1] \in BOOLEAN /\ k[2] \in BOOLEAN
        BY <1>4, KindsFinite DEF WellFormed
      <4>3. q.size = 0 /\ q.long = k[1] /\ q.cl = k[2]
        BY <4>1, <4>2, NewPositionFields
      <4>4. l.size = 0 /\ l.funding = 0
        BY <4>1
      <4>5. OwingBook(m, t)[k] = OwingAt(m, q, l, t)
        BY <1>4, OwingBookInt
      <4> DEFINE f == m.pool[FundingPool(q.long)][t]
                 c == m.pool[ClaimPool(q.long)][t]
                 g == q.funding
                 h == q.claimable[t]
      <4>6. f \in Nat /\ c \in Nat /\ g \in Nat /\ h \in Nat
        BY <1>4, <4>2, <4>3, PositionFields, FundingNames, BackingNames DEF Sound
      <4>7. OwingAt(m, q, l, t) = (IF q.cl = t THEN (0 + 0) * f - 0 * g - 0 ELSE 0) - 0 * (c - h)
        BY <4>3, <4>4 DEF OwingAt
      <4> HIDE DEF q, l, f, c, g, h
      <4> QED BY <4>5, <4>6, <4>7
    <3>2. IsFiniteSet(Kinds)
      BY <1>4, OwingBookInt
    <3> QED BY <3>1, <3>2, SumZero DEF OwingIn
  <2>4. 0 * (Adjustment * Unit) + 0 >= 0
    BY FundingScale
  <2> QED BY <2>2, <2>3, <2>4 DEF Ledger
<1> QED BY <1>11, <1>12

LEMMA OrderStepLedger ==
  ASSUME MarketInv, LedgerInv, NEW k \in Kinds, NEW req, req.size \in Nat, req.withdraw \in Int,
         ExecuteDecrease(k, req)
  PROVE  LedgerInv'
<1> DEFINE n == PreExecute(m, o)
           r == Decrease(n, o, positions[k], req)
<1>1. n.ok /\ DecreaseTo(k, r)
  BY DEF ExecuteDecrease
<1>2. n = PreExecute(m, o) /\ r = Decrease(n, o, positions[k], req)
  OBVIOUS
<1> HIDE DEF n, r
<1> QED BY <1>1, <1>2, DecreaseLedger

LEMMA DeleverageLedger ==
  ASSUME MarketInv, LedgerInv, NEW k \in Kinds, NEW size \in Nat, NEW lag,
         AutoDeleverage(k, size, lag)
  PROVE  LedgerInv'
<1> DEFINE n == PreExecute(m, o)
           req == [size |-> Least(size, positions[k].size), withdraw |-> 0, insolvent |-> TRUE,
                   liquidation |-> FALSE, cap |-> FALSE,
                   swap |-> "PnlTokenToCollateralToken"]
           r == Decrease(n, o, positions[k], req)
<1>1. n.ok /\ DecreaseTo(k, r)
  BY DEF AutoDeleverage
<1>2. n = PreExecute(m, o) /\ r = Decrease(n, o, positions[k], req)
  OBVIOUS
<1>3. req.size \in Nat /\ req.withdraw \in Int
  <2>1. positions[k].size \in Nat
    BY BookTypes, PositionFields DEF MarketInv
  <2> QED BY <2>1 DEF Least
<1> HIDE DEF n, req, r
<1> QED BY <1>1, <1>2, <1>3, DecreaseLedger

LEMMA NextLedger == MarketInv /\ LedgerInv /\ [Next]_vars => LedgerInv'
<1> SUFFICES ASSUME MarketInv, LedgerInv, [Next]_vars PROVE LedgerInv'
  OBVIOUS
<1>0. MarketInv'
  BY NextMarketInv
<1>1. ASSUME NEW amount \in Deposits, ExecuteDeposit(amount) \/ ShiftIn(amount) PROVE LedgerInv'
  BY <1>1, DepositLedger, FeeParamTypes DEF ExecuteDeposit, ShiftIn
<1>2. ASSUME NEW burnt \in Burns, ExecuteWithdrawal(burnt) \/ ShiftOut(burnt) PROVE LedgerInv'
  BY <1>2, WithdrawLedger, FeeParamTypes DEF ExecuteWithdrawal, ShiftOut
<1>3. ASSUME NEW s \in BOOLEAN, NEW amount \in Amounts, ExecuteSwap(s, amount) PROVE LedgerInv'
  BY <1>3, SwapLedger
<1>4. ASSUME NEW k \in Kinds, NEW paid \in Amounts \cup {0}, NEW delta \in Sizes \cup {0},
             ExecuteIncrease(k, paid, delta)
      PROVE  LedgerInv'
  <2>1. paid \in Nat /\ delta \in Nat
    BY PerpAssumption
  <2> QED BY <1>4, <2>1, IncreaseLedger
<1>5. ASSUME NEW k \in Kinds, NEW size \in Sizes \cup {0}, NEW withdraw \in Amounts \cup {0},
             NEW swap \in SwapTypes, NEW cap \in BOOLEAN,
             OwnerDecrease(k, size, withdraw, swap, cap)
      PROVE  LedgerInv'
  <2> DEFINE req == [size |-> size, withdraw |-> withdraw, insolvent |-> FALSE,
                     liquidation |-> FALSE, cap |-> cap, swap |-> swap]
  <2>1. ExecuteDecrease(k, req)
    BY <1>5 DEF OwnerDecrease
  <2>2. size \in Nat /\ withdraw \in Int
    BY PerpAssumption
  <2>3. req.size \in Nat /\ req.withdraw \in Int
    BY <2>2
  <2> HIDE DEF req
  <2> QED BY <2>1, <2>3, OrderStepLedger
<1>6. ASSUME NEW k \in Kinds, Liquidate(k) PROVE LedgerInv'
  <2> DEFINE req == [size |-> positions[k].size, withdraw |-> 0, insolvent |-> TRUE,
                     liquidation |-> TRUE, cap |-> FALSE,
                     swap |-> "PnlTokenToCollateralToken"]
  <2>1. ExecuteDecrease(k, req)
    BY <1>6 DEF Liquidate
  <2>2. req.size \in Nat /\ req.withdraw \in Int
    BY BookTypes, PositionFields DEF MarketInv
  <2> HIDE DEF req
  <2> QED BY <2>1, <2>2, OrderStepLedger
<1>7. ASSUME NEW k \in Kinds, NEW size \in Sizes, NEW lag \in Lags, AutoDeleverage(k, size, lag)
      PROVE  LedgerInv'
  BY <1>7, DeleverageLedger, PerpAssumption
<1>8. ASSUME NEW s \in BOOLEAN, NEW lag \in Lags, UpdateAdlState(s, lag) PROVE LedgerInv'
  BY <1>8, StandsStill DEF UpdateAdlState
<1>9. ASSUME NEW s \in BOOLEAN, ClaimFees(s) PROVE LedgerInv'
  BY <1>0, <1>9, ClaimFeesLedger
<1>10. ASSUME NEW p \in PriceSets[m.pure], NEW step \in Steps, NewPrices(p, step) PROVE LedgerInv'
  BY <1>10, StandsStill DEF NewPrices
<1>11. CASE UNCHANGED vars
  BY <1>11, StandsStill DEF vars
<1> QED BY <1>1, <1>2, <1>3, <1>4, <1>5, <1>6, <1>7, <1>8, <1>9, <1>10, <1>11 DEF Next

\* What a position and what it left behind owe is charged, rounded up, and what it may claim
\* is rounded down.
LEMMA OwedCovers ==
  ASSUME MarketInv, ~m.pure, NEW k \in Kinds, NEW t \in BOOLEAN
  PROVE  /\ Owed(k) \in Int /\ FundingClaim(m, positions[k], t) \in Int
         /\ OwingBook(m, t)[k] + FundingClaim(m, positions[k], t) * (Adjustment * Unit)
              <= IF k[2] = t THEN Owed(k) * (Adjustment * Unit) ELSE 0
<1> DEFINE p == positions[k]
           l == leftBehind[k]
           u == Adjustment * Unit
           f == m.pool[FundingPool(p.long)][p.cl]
           x == l.size * f - l.funding
           y == p.size * (f - p.funding)
           z == p.size * (m.pool[ClaimPool(p.long)][t] - p.claimable[t])
           fee == FundingFee(m, p)
           left == LeftFunding(k)
           claim == FundingClaim(m, p, t)
<1>1. /\ WellFormed /\ Sound(m) /\ p \in PositionStates /\ l \in LeftRecords
      /\ p.long = k[1] /\ p.cl = k[2]
  BY BookTypes DEF MarketInv, WellFormed
<1>2. u \in Nat \ {0}
  BY FundingScale
<1>3. /\ p.long \in BOOLEAN /\ p.cl \in BOOLEAN /\ p.size \in Nat /\ p.funding \in Nat
      /\ p.claimable[t] \in Nat /\ l.size \in Nat /\ l.funding \in Nat
  BY <1>1, PositionFields DEF LeftRecords
<1>4. f \in Nat /\ m.pool[ClaimPool(p.long)][t] \in Nat
  BY <1>1, <1>3, FundingNames, BackingNames DEF Sound
<1>5. fee \in Int /\ fee * u >= y /\ claim \in Int /\ claim * u <= z
  BY <1>1, FundingRounded
<1>6. left = CeilDiv(x, u)
  <2>1. FundingPerSize(m, p) = f
    BY NotPureAmount DEF FundingPerSize, FundingPool
  <2> QED BY <2>1 DEF LeftFunding
<1>7. Owed(k) = fee + left
  BY DEF Owed
<1>8. /\ OwingBook(m, t)[k] = OwingAt(m, p, l, t) /\ OwingBook(m, t)[k] \in Int
      /\ OwingAt(m, p, l, t)
              = (IF p.cl = t THEN l.size * m.pool[FundingPool(p.long)][t] - l.funding ELSE 0)
                + (IF p.cl = t THEN p.size * (m.pool[FundingPool(p.long)][t] - p.funding) ELSE 0)
                - z
  BY <1>1, OwingBookInt, OwingSplit
<1>9. OwingBook(m, t)[k] = (IF k[2] = t THEN x ELSE 0) + (IF k[2] = t THEN y ELSE 0) - z
  BY <1>1, <1>8
<1>10. x \in Int /\ y \in Int /\ z \in Int
  <2> DEFINE c == m.pool[ClaimPool(p.long)][t]
             e == p.claimable[t]
  <2> HIDE DEF f, p, l, c, e
  <2> QED BY <1>3, <1>4 DEF c, e
<1> HIDE DEF u, f, x, y, z, fee, left, claim, p, l
<1>11. left \in Int /\ left * u >= x
  BY <1>2, <1>6, <1>10, CeilAtLeastInt
<1> DEFINE i == fee * u
           j == left * u
           v == claim * u
<1>12. (fee + left) * u = i + j /\ i \in Int /\ j \in Int /\ v \in Int
  BY <1>2, <1>5, <1>11
<1>13. i >= y /\ j >= x /\ v <= z
  BY <1>5, <1>11
<1> DEFINE g == OwingBook(m, t)[k]
<1>14. g = (IF k[2] = t THEN x ELSE 0) + (IF k[2] = t THEN y ELSE 0) - z
  BY <1>9
<1> HIDE DEF i, j, v, g
<1>15. g + v <= IF k[2] = t THEN i + j ELSE 0
  BY <1>10, <1>12, <1>13, <1>14
<1>16. fee + left \in Int
  BY <1>5, <1>11
<1> QED BY <1>5, <1>7, <1>12, <1>15, <1>16 DEF g, v, u, claim, p

LEMMA LedgerSolvent == MarketInv /\ LedgerInv /\ ~m.pure => Solvent
<1> SUFFICES ASSUME MarketInv, LedgerInv, ~m.pure, NEW s \in BOOLEAN
             PROVE  m.bal[s] + OfToken(m, LAMBDA t : forgiven[t], s) + Rounding
                      + SumOf(Owed, {k \in Kinds : k[2] = s})
                    >= PoolTokens(m, s) + CollateralTokens(m, s)
                         + SumOf(LAMBDA k : OfToken(m, LAMBDA t : FundingClaim(m, positions[k], t), s),
                                 Kinds)
  BY DEF Solvent
<1> DEFINE u == Adjustment * Unit
           T == {k \in Kinds : k[2] = s}
           owed == [k \in Kinds |-> Owed(k)]
           claim == [k \in Kinds |-> FundingClaim(m, positions[k], s)]
           book == OwingBook(m, s)
           paid == [k \in Kinds |-> owed[k] * u]
           part == [k \in Kinds |-> IF k \in T THEN paid[k] ELSE 0]
           taken == [k \in Kinds |-> claim[k] * u]
           low == [k \in Kinds |-> book[k] + taken[k]]
           so == SumFunctionOnSet(owed, T)
           sc == SumFunctionOnSet(claim, Kinds)
           sb == SumFunctionOnSet(book, Kinds)
<1>1. WellFormed /\ Sound(m) /\ TwoTokens(m) /\ forgiven \in TokenAmounts /\ Whole(m)
  BY SoundWhole DEF MarketInv, WellFormed, LedgerInv
<1>2. /\ SumOf(Owed, {k \in Kinds : k[2] = s}) = so
      /\ SumOf(LAMBDA k : OfToken(m, LAMBDA t : FundingClaim(m, positions[k], t), s), Kinds) = sc
  BY DEF SumOf, OfToken
<1>3. OfToken(m, LAMBDA t : forgiven[t], s) = forgiven[s] /\ Rounding = 0
  BY DEF OfToken, Rounding
<1>4. PoolTokens(m, s) + CollateralTokens(m, s) = Backing(m, s)
  <2> DEFINE a == m.pool[Primary][s]
             b == m.pool[SwapImpact][s]
             c == m.pool[ClaimableFee][s]
             d == m.pool[LongCollateral][s]
             e == m.pool[ShortCollateral][s]
  <2>1. a \in Int /\ b \in Int /\ c \in Int /\ d \in Int /\ e \in Int
    BY <1>1, BackingNames DEF Whole
  <2>2. PoolTokens(m, s) = a + b + c
    BY NotPureAmount DEF PoolTokens, OfToken
  <2>3. CollateralTokens(m, s) = d + e
    BY NotPureAmount DEF CollateralTokens, OfToken, LongCollateral, ShortCollateral
  <2>4. Backing(m, s) = a + b + c + d + e
    BY DEF Backing
  <2> HIDE DEF a, b, c, d, e
  <2> QED BY <2>1, <2>2, <2>3, <2>4
<1>5. IsFiniteSet(Kinds) /\ IsFiniteSet(T) /\ T \subseteq Kinds
  <2>1. IsFiniteSet(Kinds)
    BY <1>1, OwingBookInt
  <2> QED BY <2>1, FS_Subset
<1>6. u \in Nat \ {0}
  BY FundingScale
<1>7. \A k \in Kinds : /\ owed[k] \in Int /\ claim[k] \in Int /\ book[k] \in Int
                       /\ book[k] + claim[k] * u <= IF k \in T THEN owed[k] * u ELSE 0
  BY <1>1, OwedCovers, OwingBookInt
<1> HIDE DEF u, T, owed, claim, book
<1>8. \A k \in Kinds : /\ paid[k] = owed[k] * u /\ taken[k] = claim[k] * u
                       /\ paid[k] \in Int /\ taken[k] \in Int
  BY <1>6, <1>7
<1> HIDE DEF paid, taken
<1>9. \A k \in Kinds : /\ part[k] = (IF k \in T THEN paid[k] ELSE 0) /\ part[k] \in Int
                       /\ low[k] = book[k] + taken[k] /\ low[k] \in Int
  BY <1>7, <1>8
<1> HIDE DEF part, low
<1>10. \A k \in Kinds : low[k] <= part[k]
  BY <1>7, <1>8, <1>9
<1>11. SumFunctionOnSet(low, Kinds) <= SumFunctionOnSet(part, Kinds)
  BY <1>5, <1>9, <1>10, SumMonotone
<1>12. SumFunctionOnSet(low, Kinds) = sb + SumFunctionOnSet(taken, Kinds)
  BY <1>5, <1>7, <1>8, <1>9, SumAdd
<1>13. SumFunctionOnSet(part, Kinds) = SumFunctionOnSet(paid, T)
  BY <1>5, <1>8, <1>9, SumWhere
<1>14. SumFunctionOnSet(paid, T) = so * u
  <2>1. \A k \in T : owed[k] \in Int /\ paid[k] = owed[k] * u
    BY <1>5, <1>7, <1>8
  <2> QED BY <1>5, <1>6, <2>1, SumScale
<1>15. SumFunctionOnSet(taken, Kinds) = sc * u
  BY <1>5, <1>6, <1>7, <1>8, SumScale
<1>16. so \in Int /\ sc \in Int /\ sb \in Int
  BY <1>5, <1>7, SumInt
<1>17. Spare(s) * u + sb >= 0
  BY DEF LedgerInv, Ledger, OwingIn, u, book
<1>18. Spare(s) = m.bal[s] + forgiven[s] - Backing(m, s)
  BY DEF Spare
<1> DEFINE x == m.bal[s]
           y == forgiven[s]
           z == Backing(m, s)
           spare == x + y - z
<1>19. x \in Int /\ y \in Int /\ z \in Int
  BY <1>1, BackingInt DEF TwoTokens, TokenAmounts
<1>20. spare * u + sb >= 0 /\ sb + sc * u <= so * u
  BY <1>11, <1>12, <1>13, <1>14, <1>15, <1>17, <1>18
<1> HIDE DEF x, y, z, so, sc, sb
<1>21. spare + so - sc >= 0
  <2>1. spare \in Int
    BY <1>19
  <2> HIDE DEF spare
  <2> DEFINE i == spare * u
             j == so * u
             g == sc * u
             h == spare + so - sc
  <2>2. h * u = i + j - g /\ i \in Int /\ j \in Int /\ g \in Int /\ h \in Int
    BY <1>6, <1>16, <2>1
  <2>3. i + sb >= 0 /\ sb + g <= j
    BY <1>20
  <2> HIDE DEF i, j, g, h
  <2>4. h * u >= 0
    BY <1>16, <2>2, <2>3
  <2>5. h >= 0
    BY <1>6, <2>2, <2>4
  <2> QED BY <2>5 DEF h
<1>22. x + y + 0 + so >= z + sc
  BY <1>16, <1>19, <1>21
<1> QED BY <1>2, <1>3, <1>4, <1>22 DEF x, y, z

\* Solvent, in every market of two tokens, for all positions, prices, amounts and
\* configurations and over any number of executions: each recorded balance, with the funding
\* still owed and the costs forgiven, covers the pools, the collateral and every funding fee
\* that may be claimed.
THEOREM MarketStaysSolvent == Spec => [](~m.pure => Solvent)
<1>1. Init => MarketInv /\ LedgerInv
  BY InitMarketInv, InitLedger
<1>2. MarketInv /\ LedgerInv /\ [Next]_vars => (MarketInv /\ LedgerInv)'
  BY NextMarketInv, NextLedger
<1>3. MarketInv /\ LedgerInv => (~m.pure => Solvent)
  BY LedgerSolvent
<1> QED BY <1>1, <1>2, <1>3, PTL DEF Spec

-----------------------------------------------------------------------------
(* The GLV.                                                                *)
(* Values.                                                                 *)

\* What amounts are worth in a market that has a price.
LEMMA ValueNat ==
  ASSUME oracle \in Oracles, NEW n, Sound(n), n.supply \in Nat, NEW balance \in Nat,
         NEW maximize \in BOOLEAN, Priceable(n, balance, maximize)
  PROVE  ValueForMarket(n, balance, maximize) \in Nat
<1> DEFINE value == PoolValue(n, oracle, "MaxAfterDeposit", maximize)
<1>1. CASE balance = 0
  BY <1>1 DEF ValueForMarket
<1>2. CASE balance # 0
  <2>1. value \in Int
    BY PoolValueInt DEF PnlFactorKinds
  <2>2. value >= 0 /\ n.supply \in Nat \ {0}
    BY <1>2 DEF Priceable
  <2>3. ValueForMarket(n, balance, maximize) = MulDiv(balance, value, n.supply)
    BY <1>2 DEF ValueForMarket
  <2> HIDE DEF value
  <2> QED BY <2>1, <2>2, <2>3, MulDivNat
<1> QED BY <1>1, <1>2

(* The configuration of the GLV, and the markets.                          *)
IsConfig(c) ==
  /\ DOMAIN c \subseteq Markets
  /\ c = [k \in DOMAIN c |-> c[k]]
  /\ \A k \in DOMAIN c :
       /\ c[k] = [max_amount |-> c[k].max_amount, max_value |-> c[k].max_value,
                  allowed |-> c[k].allowed, balance |-> c[k].balance]
       /\ c[k].balance \in Nat

AreMarkets(states) ==
  /\ states = [mk \in Markets |-> states[mk]]
  /\ \A mk \in Markets : TwoTokens(states[mk])

\* What the whole GLV is worth.
LEMMA GlvValueNat ==
  ASSUME oracle \in Oracles, AreMarkets(market), IsConfig(config), NEW mk, NEW n, TwoTokens(n),
         NEW maximize \in BOOLEAN, GlvPriceable(mk, n, maximize)
  PROVE  GlvValue(mk, n, maximize) \in Nat
<1> DEFINE state(k) == IF k = mk THEN n ELSE market[k]
           value == [k \in DOMAIN config |->
                       ValueForMarket(state(k), config[k].balance, maximize)]
<1>1. ASSUME NEW k \in DOMAIN config
      PROVE  value[k] \in Nat
  <2> DEFINE a == state(k)
             b == config[k].balance
  <2>1. TwoTokens(a) /\ b \in Nat /\ Priceable(a, b, maximize)
    BY DEF AreMarkets, IsConfig, GlvPriceable
  <2>2. value[k] = ValueForMarket(a, b, maximize)
    OBVIOUS
  <2> HIDE DEF a, b, value
  <2> QED BY <2>1, <2>2, ValueNat DEF TwoTokens
<1>2. IsFiniteSet(DOMAIN config)
  BY GlvAssumption, FS_Subset DEF IsConfig
<1>3. GlvValue(mk, n, maximize) = SumFunctionOnSet(value, DOMAIN config)
  BY DEF GlvValue
<1> HIDE DEF value
<1> QED BY <1>1, <1>2, <1>3, SumNat

-----------------------------------------------------------------------------
(* What a deposit, a withdrawal and a shift do to a market.                *)

\* What holds of a market that covers its pools holds of the market.
LEMMA CoveredTwoTokens ==
  ASSUME NEW a, IsMarket(a), a.ok, NEW c, c = Covered(a), TwoTokens(c)
  PROVE  TwoTokens(a)
<1>1. /\ c.pool = a.pool /\ c.pure = a.pure /\ c.clock = a.clock /\ c.factor = a.factor
      /\ c.bal = a.bal /\ c.supply = a.supply
  BY CheckShape DEF Covered
<1> QED BY <1>1 DEF TwoTokens, Sound

\* The market's part of a deposit.
LEMMA MarketDeposited ==
  ASSUME oracle \in Oracles, NEW a, TwoTokens(a), NEW tokens \in [BOOLEAN -> Nat],
         NEW fees \in FeeParams, NEW d, d = MarketDeposit(a, tokens, fees), d.m.ok,
         BalancesCover(d.m)
  PROVE  /\ TwoTokens(d.m) /\ d.minted \in Nat
         /\ \A t \in BOOLEAN : d.m.bal[t] = a.bal[t] + tokens[t]
<1>1. CASE tokens = NoTokens
  <2>1. d.m = a /\ d.minted = 0
    BY <1>1 DEF MarketDeposit
  <2>2. \A t \in BOOLEAN : tokens[t] = 0 /\ a.bal[t] \in Int
    BY <1>1 DEF NoTokens, TwoTokens, TokenAmounts
  <2> QED BY <2>1, <2>2
<1>2. CASE tokens # NoTokens
  <2> DEFINE two == BothIn(a, tokens)
             n == PreExecute(two, oracle)
             c == Covered(d.m)
  <2>1. d = Deposit(n, oracle, tokens, fees)
    BY <1>2 DEF MarketDeposit, BothIn
  <2>2. Keeps(two, n) /\ Keeps(n, d.m) /\ IsMarket(a) /\ tokens \in TokenAmounts
    BY <2>1, PreExecuteKeeps, DepositKeeps DEF TwoTokens, Sound, TokenAmounts
  <2>3. IsMarket(two)
    BY <2>2, ReceivesBoth DEF Keeps
  <2> HIDE DEF two, n
  <2>4. IsMarket(d.m)
    BY <2>2, <2>3 DEF Keeps
  <2>5. c.ok /\ c.bal = d.m.bal
    BY <2>4, CheckShape DEF Covered
  <2> HIDE DEF c
  <2>6. /\ Executes(a, c) /\ d.minted \in Nat
        /\ \A t \in BOOLEAN : c.bal[t] = a.bal[t] + tokens[t]
    BY <2>1, <2>5, DepositExecuted DEF two, n, c
  <2>7. TwoTokens(d.m)
    BY <2>4, <2>6, CoveredTwoTokens DEF Executes, c
  <2> QED BY <2>5, <2>6, <2>7
<1> QED BY <1>1, <1>2

-----------------------------------------------------------------------------
(* The invariant, in three parts.  The markets and the vaults they share:  *)
MarketsInv ==
  /\ oracle \in Oracles /\ AreMarkets(market)
  /\ vault = [s \in BOOLEAN |-> vault[s]]
  /\ SharedVaultExact

(* ... the configuration of the GLV and the vaults of its market tokens    *)
VaultsInv ==
  /\ IsConfig(config) /\ gmVault \in [Markets -> Nat]
  /\ RecordedIsInVault

(* ... and its tokens: the ones minted are those that somebody holds, that *)
(* an executed deposit has yet to hand over, and that a withdrawal holds   *)
(* in escrow.  Of the ones that are locked, or will be, there are at least *)
(* least.                                                                  *)
RequestStates == {"pending", "completed", "cancelled"}

DepositRequests ==
  [kind : {"deposit"}, state : RequestStates, at : Int, market : Markets,
   tokens : [BOOLEAN -> Nat], gm : Nat, min : Nat, receiver : {User, Locked}, minted : Nat]

WithdrawalRequests ==
  [kind : {"withdrawal"}, state : RequestStates, at : Int, market : Markets, glv : Nat \ {0},
   out : TokenAmounts]

ShiftRequests ==
  [kind : {"shift"}, state : RequestStates, at : Int, from : Markets, to : Markets, gm : Nat]

IsRequest(r) ==
  \/ r = None
  \/ r \in DepositRequests /\ (r.state = "pending" => r.minted = 0)
  \/ r \in WithdrawalRequests
  \/ r \in ShiftRequests /\ r.from # r.to

InRequest(r) ==
  IF r.kind = "deposit" THEN r.minted
  ELSE IF r.kind = "withdrawal" /\ r.state # "completed" THEN r.glv ELSE 0

LockedIn(r) == IF r.kind = "deposit" /\ r.receiver = Locked THEN r.minted ELSE 0

InRequests(q) == SumFunctionOnSet([i \in Slots |-> InRequest(q[i])], Slots)
LockedInRequests(q) == SumFunctionOnSet([i \in Slots |-> LockedIn(q[i])], Slots)

AreRequests(q) == q = [i \in Slots |-> q[i]] /\ \A i \in Slots : IsRequest(q[i])

TokensInv(least) ==
  /\ supply \in Nat /\ held \in [{User, Locked} -> Nat] /\ AreRequests(requests)
  /\ \E k \in 1 .. Len(Params) : params = Params[k]
  /\ supply = held[User] + held[Locked] + InRequests(requests)
  /\ supply # 0 => held[Locked] + LockedInRequests(requests) >= least

GlvInv(least) == MarketsInv /\ VaultsInv /\ TokensInv(least)

-----------------------------------------------------------------------------
(* Sums over the requests and over the markets.                            *)

\* The tokens of a request are a number, and so are the locked ones.
LEMMA RequestTokens ==
  ASSUME NEW r, IsRequest(r)
  PROVE  InRequest(r) \in Nat /\ LockedIn(r) \in Nat /\ LockedIn(r) <= InRequest(r)
<1>1. CASE r = None
  BY <1>1 DEF None, InRequest, LockedIn
<1>2. CASE r \in DepositRequests
  BY <1>2 DEF DepositRequests, InRequest, LockedIn
<1>3. CASE r \in WithdrawalRequests
  BY <1>3 DEF WithdrawalRequests, InRequest, LockedIn
<1>4. CASE r \in ShiftRequests
  BY <1>4 DEF ShiftRequests, InRequest, LockedIn
<1> QED BY <1>1, <1>2, <1>3, <1>4 DEF IsRequest

\* The tokens of all requests.
LEMMA RequestsTokens ==
  ASSUME NEW q, AreRequests(q)
  PROVE  /\ InRequests(q) \in Nat /\ LockedInRequests(q) \in Nat
         /\ LockedInRequests(q) <= InRequests(q)
         /\ \A i \in Slots : InRequest(q[i]) <= InRequests(q)
<1> DEFINE f == [i \in Slots |-> InRequest(q[i])]
           g == [i \in Slots |-> LockedIn(q[i])]
<1>1. \A i \in Slots : f[i] \in Nat /\ g[i] \in Nat /\ g[i] <= f[i] /\ f[i] = InRequest(q[i])
  BY RequestTokens DEF AreRequests
<1>2. /\ InRequests(q) = SumFunctionOnSet(f, Slots)
      /\ LockedInRequests(q) = SumFunctionOnSet(g, Slots)
  BY DEF InRequests, LockedInRequests
<1>3. IsFiniteSet(Slots)
  BY GlvAssumption
<1> HIDE DEF f, g
<1>4. /\ SumFunctionOnSet(f, Slots) \in Nat /\ SumFunctionOnSet(g, Slots) \in Nat
      /\ \A i \in Slots : f[i] <= SumFunctionOnSet(f, Slots)
  BY <1>1, <1>3, SumNat
<1>5. SumFunctionOnSet(g, Slots) <= SumFunctionOnSet(f, Slots)
  BY <1>1, <1>3, SumMonotone
<1> QED BY <1>1, <1>2, <1>4, <1>5

\* One request changes.
LEMMA RequestChanges ==
  ASSUME NEW q, AreRequests(q), NEW i \in Slots, NEW r, IsRequest(r),
         NEW p, p = [q EXCEPT ![i] = r]
  PROVE  /\ AreRequests(p)
         /\ InRequests(p) = InRequests(q) + (InRequest(r) - InRequest(q[i]))
         /\ LockedInRequests(p) = LockedInRequests(q) + (LockedIn(r) - LockedIn(q[i]))
<1>1. /\ p = [j \in Slots |-> p[j]] /\ p[i] = r /\ \A j \in Slots \ {i} : p[j] = q[j]
  BY DEF AreRequests
<1>2. AreRequests(p)
  BY <1>1 DEF AreRequests
<1> DEFINE f == [j \in Slots |-> InRequest(q[j])]
           fp == [j \in Slots |-> InRequest(p[j])]
           g == [j \in Slots |-> LockedIn(q[j])]
           gp == [j \in Slots |-> LockedIn(p[j])]
<1>3. /\ InRequests(q) = SumFunctionOnSet(f, Slots) /\ InRequests(p) = SumFunctionOnSet(fp, Slots)
      /\ LockedInRequests(q) = SumFunctionOnSet(g, Slots)
      /\ LockedInRequests(p) = SumFunctionOnSet(gp, Slots)
  BY DEF InRequests, LockedInRequests
<1>4. /\ \A j \in Slots : f[j] \in Int /\ g[j] \in Int /\ fp[j] \in Int /\ gp[j] \in Int
      /\ \A j \in Slots \ {i} : fp[j] = f[j] /\ gp[j] = g[j]
      /\ f[i] = InRequest(q[i]) /\ fp[i] = InRequest(r)
      /\ g[i] = LockedIn(q[i]) /\ gp[i] = LockedIn(r)
  BY <1>1, <1>2, RequestTokens DEF AreRequests
<1>5. IsFiniteSet(Slots)
  BY GlvAssumption
<1> HIDE DEF f, fp, g, gp
<1>6. SumFunctionOnSet(fp, Slots) = SumFunctionOnSet(f, Slots) + (fp[i] - f[i])
  BY <1>4, <1>5, SumChange
<1>7. SumFunctionOnSet(gp, Slots) = SumFunctionOnSet(g, Slots) + (gp[i] - g[i])
  BY <1>4, <1>5, SumChange
<1> QED BY <1>2, <1>3, <1>4, <1>6, <1>7

\* A market records d tokens more than another.
Records(a, b, d) == \A t \in BOOLEAN : b.bal[t] = a.bal[t] + d[t]

\* Only the state of mk changes, to n.
Replaces(states, next, mk, n) ==
  /\ next = [k \in Markets |-> next[k]] /\ next[mk] = n
  /\ \A k \in Markets \ {mk} : next[k] = states[k]

\* One market changes.
LEMMA MarketChanges ==
  ASSUME NEW states, AreMarkets(states), NEW mk \in Markets, NEW n, TwoTokens(n),
         NEW d \in TokenAmounts, Records(states[mk], n, d),
         NEW next, Replaces(states, next, mk, n)
  PROVE  /\ AreMarkets(next)
         /\ \A t \in BOOLEAN : /\ Recorded(states, t) \in Int
                               /\ Recorded(next, t) = Recorded(states, t) + d[t]
<1>1. /\ next = [k \in Markets |-> next[k]] /\ next[mk] = n
      /\ \A k \in Markets \ {mk} : next[k] = states[k]
  BY DEF Replaces
<1>2. AreMarkets(next)
  BY <1>1 DEF AreMarkets
<1>3. ASSUME NEW t \in BOOLEAN
      PROVE  Recorded(states, t) \in Int /\ Recorded(next, t) = Recorded(states, t) + d[t]
  <2> DEFINE f == [k \in Markets |-> states[k].bal[t]]
             g == [k \in Markets |-> next[k].bal[t]]
  <2>1. /\ Recorded(states, t) = SumFunctionOnSet(f, Markets)
        /\ Recorded(next, t) = SumFunctionOnSet(g, Markets)
    BY DEF Recorded
  <2>2. \A k \in Markets : states[k].bal[t] \in Int /\ next[k].bal[t] \in Int
    BY <1>2 DEF AreMarkets, TwoTokens, TokenAmounts
  <2>3. /\ \A k \in Markets : f[k] \in Int /\ g[k] \in Int
        /\ \A k \in Markets \ {mk} : g[k] = f[k]
        /\ g[mk] = f[mk] + d[t]
    BY <1>1, <2>2 DEF Records
  <2>4. IsFiniteSet(Markets) /\ d[t] \in Int
    BY GlvAssumption DEF TokenAmounts
  <2> HIDE DEF f, g
  <2>5. SumFunctionOnSet(g, Markets) = SumFunctionOnSet(f, Markets) + (g[mk] - f[mk])
    BY <2>3, <2>4, SumChange
  <2>6. SumFunctionOnSet(f, Markets) \in Int
    BY <2>3, <2>4, SumInt
  <2>7. g[mk] - f[mk] = d[t]
    BY <2>3, <2>4
  <2> QED BY <2>1, <2>5, <2>6, <2>7
<1> QED BY <1>2, <1>3

-----------------------------------------------------------------------------
(* Steps that change one of the three parts.                               *)

\* The balance of one market is recorded.
LEMMA RecordConfig ==
  ASSUME NEW c, IsConfig(c), NEW mk \in DOMAIN c, NEW balance \in Nat,
         NEW d, d = Record(c, mk, balance)
  PROVE  /\ IsConfig(d) /\ DOMAIN d = DOMAIN c /\ d[mk].balance = balance
         /\ \A k \in DOMAIN c \ {mk} : d[k] = c[k]
<1>1. d = [c EXCEPT ![mk].balance = balance]
  BY DEF Record
<1>2. /\ DOMAIN d = DOMAIN c /\ d = [k \in DOMAIN d |-> d[k]]
      /\ \A k \in DOMAIN c \ {mk} : d[k] = c[k]
      /\ d[mk] = [c[mk] EXCEPT !.balance = balance]
  BY <1>1 DEF IsConfig
<1>3. c[mk] = [max_amount |-> c[mk].max_amount, max_value |-> c[mk].max_value,
               allowed |-> c[mk].allowed, balance |-> c[mk].balance]
  BY DEF IsConfig
<1>4. d[mk] = [max_amount |-> c[mk].max_amount, max_value |-> c[mk].max_value,
               allowed |-> c[mk].allowed, balance |-> balance]
  BY <1>2, <1>3
<1>5. /\ d[mk] = [max_amount |-> d[mk].max_amount, max_value |-> d[mk].max_value,
                  allowed |-> d[mk].allowed, balance |-> d[mk].balance]
      /\ d[mk].balance = balance
  BY <1>4
<1> QED BY <1>2, <1>5 DEF IsConfig

\* The flag or the caps of one market change: its balance does not.
LEMMA FlagConfig ==
  ASSUME NEW c, IsConfig(c), NEW mk \in DOMAIN c, NEW cap, NEW d,
         d = Toggled(c, mk) \/ d = Capped(c, mk, cap)
  PROVE  IsConfig(d) /\ DOMAIN d = DOMAIN c /\ \A k \in DOMAIN c : d[k].balance = c[k].balance
<1>1. c[mk] = [max_amount |-> c[mk].max_amount, max_value |-> c[mk].max_value,
               allowed |-> c[mk].allowed, balance |-> c[mk].balance]
  BY DEF IsConfig
<1>2. /\ DOMAIN d = DOMAIN c /\ d = [k \in DOMAIN d |-> d[k]]
      /\ \A k \in DOMAIN c \ {mk} : d[k] = c[k]
      /\ \/ d[mk] = [c[mk] EXCEPT !.allowed = ~@]
         \/ d[mk] = [c[mk] EXCEPT !.max_amount = cap[1], !.max_value = cap[2]]
  BY DEF IsConfig, Toggled, Capped
<1>3. /\ d[mk] = [max_amount |-> d[mk].max_amount, max_value |-> d[mk].max_value,
                  allowed |-> d[mk].allowed, balance |-> d[mk].balance]
      /\ d[mk].balance = c[mk].balance
  BY <1>1, <1>2
<1> QED BY <1>2, <1>3 DEF IsConfig

\* A market is inserted or removed.
LEMMA MarketsConfig ==
  ASSUME NEW c, IsConfig(c), NEW mk \in Markets, NEW d,
         d = Inserted(c, mk) \/ d = Removed(c, mk)
  PROVE  /\ IsConfig(d) /\ DOMAIN d \subseteq DOMAIN c \cup {mk}
         /\ \A k \in DOMAIN d \ {mk} : d[k] = c[k]
         /\ mk \in DOMAIN d => d[mk].balance = 0
<1>1. CASE d = Inserted(c, mk)
  <2>1. /\ DOMAIN d = DOMAIN c \cup {mk} /\ d = [k \in DOMAIN d |-> d[k]]
        /\ d[mk] = DefaultConfig /\ \A k \in DOMAIN c \ {mk} : d[k] = c[k]
    BY <1>1 DEF Inserted
  <2>2. /\ d[mk] = [max_amount |-> d[mk].max_amount, max_value |-> d[mk].max_value,
                    allowed |-> d[mk].allowed, balance |-> d[mk].balance]
        /\ d[mk].balance = 0
    BY <2>1 DEF DefaultConfig
  <2> QED BY <2>1, <2>2 DEF IsConfig
<1>2. CASE d = Removed(c, mk)
  BY <1>2 DEF Removed, IsConfig
<1> QED BY <1>1, <1>2

\* What is recorded is in the vaults.
InVaults(c, v) == \A k \in DOMAIN c : c[k].balance <= v[k]

\* Only the vault of mk changes, by delta.
Adds(v, w, mk, delta) == w = [v EXCEPT ![mk] = @ + delta]

\* The same market tokens are added to what is recorded and to the vault, or
\* taken from both.
LEMMA VaultsChange ==
  ASSUME NEW c, IsConfig(c), NEW v \in [Markets -> Nat],
         InVaults(c, v),
         NEW mk \in DOMAIN c, NEW delta \in Int, NEW b \in Nat, b = c[mk].balance + delta,
         NEW d, d = Record(c, mk, b), NEW w, Adds(v, w, mk, delta)
  PROVE  /\ IsConfig(d) /\ DOMAIN d = DOMAIN c /\ w \in [Markets -> Nat]
         /\ InVaults(d, w)
         /\ \A k \in DOMAIN c \ {mk} : d[k] = c[k]
         /\ \A k \in Markets \ {mk} : w[k] = v[k]
<1>1. mk \in Markets /\ c[mk].balance \in Nat /\ v[mk] \in Nat
  BY DEF IsConfig
<1>2. /\ IsConfig(d) /\ DOMAIN d = DOMAIN c /\ d[mk].balance = b
      /\ \A k \in DOMAIN c \ {mk} : d[k] = c[k]
  BY RecordConfig
<1>3. c[mk].balance <= v[mk] /\ v[mk] + delta \in Nat /\ b <= v[mk] + delta
  BY <1>1 DEF InVaults
<1>4. /\ w[mk] = v[mk] + delta /\ \A k \in Markets \ {mk} : w[k] = v[k]
      /\ w = [k \in Markets |-> w[k]]
  BY <1>1 DEF Adds
<1>5. w \in [Markets -> Nat]
  BY <1>3, <1>4
<1>6. ASSUME NEW k \in DOMAIN d
      PROVE  d[k].balance <= w[k]
  BY <1>2, <1>3, <1>4 DEF IsConfig, InVaults
<1> QED BY <1>2, <1>4, <1>5, <1>6 DEF InVaults

\* The arithmetic of the next lemma.
LEMMA TokensAdd ==
  ASSUME NEW before \in Nat, NEW after \in Nat, NEW u \in Nat, NEW l \in Nat, NEW up \in Nat,
         NEW lp \in Nat, NEW n \in Nat, NEW np \in Nat, NEW j \in Nat, NEW k \in Nat,
         before = u + l + n, np = n + (j - k),
         after - before = (up - u) + (lp - l) + (j - k)
  PROVE  after = up + lp + np
OBVIOUS

LEMMA TokensNone ==
  ASSUME NEW u \in Nat, NEW l \in Nat, NEW n \in Nat, NEW nl \in Nat, NEW k \in Nat, NEW j \in Nat,
         0 = u + l + n, nl <= n, j <= k, k <= n
  PROVE  n = 0 /\ nl = 0 /\ j = 0
OBVIOUS

\* One request and the tokens held change: what is minted is somewhere.
LEMMA TokensChange ==
  ASSUME NEW least, least \in Nat, TokensInv(least), NEW i \in Slots, NEW r, IsRequest(r),
         requests' = [requests EXCEPT ![i] = r],
         supply' \in Nat, held' \in [{User, Locked} -> Nat], params' = params,
         supply' - supply = (held'[User] - held[User]) + (held'[Locked] - held[Locked])
                              + (InRequest(r) - InRequest(requests[i])),
         \/ supply' = 0
         \/ supply # 0 /\ held'[Locked] + LockedIn(r) >= held[Locked] + LockedIn(requests[i])
         \/ supply = 0 /\ held'[Locked] + LockedIn(r) >= least
  PROVE  TokensInv(least)'
<1> DEFINE j == InRequest(r)
           k == InRequest(requests[i])
           jl == LockedIn(r)
           kl == LockedIn(requests[i])
           u == held[User]
           l == held[Locked]
           up == held'[User]
           lp == held'[Locked]
           n == InRequests(requests)
           np == InRequests(requests')
           nl == LockedInRequests(requests)
           nlp == LockedInRequests(requests')
<1>1. /\ AreRequests(requests') /\ np = n + (j - k) /\ nlp = nl + (jl - kl)
  BY RequestChanges DEF TokensInv
<1>2. n \in Nat /\ nl \in Nat /\ np \in Nat /\ nlp \in Nat /\ nl <= n /\ k <= n
  BY <1>1, RequestsTokens DEF TokensInv
<1>3. j \in Nat /\ k \in Nat /\ jl \in Nat /\ kl \in Nat /\ kl <= k
  BY RequestTokens DEF TokensInv, AreRequests
<1>4. u \in Nat /\ l \in Nat /\ up \in Nat /\ lp \in Nat /\ supply \in Nat
  BY DEF TokensInv
<1>5. supply = u + l + n /\ (supply # 0 => l + nl >= least)
  BY DEF TokensInv
<1>6. supply' - supply = (up - u) + (lp - l) + (j - k)
  OBVIOUS
<1>7. supply' = 0 \/ (supply # 0 /\ lp + jl >= l + kl) \/ (supply = 0 /\ lp + jl >= least)
  OBVIOUS
<1> HIDE DEF j, k, jl, kl, u, l, up, lp, n, np, nl, nlp
<1>8. supply' = up + lp + np
  <2>1. np = n + (j - k) /\ supply = u + l + n
    BY <1>1, <1>5
  <2>2. n \in Nat /\ np \in Nat /\ j \in Nat /\ k \in Nat
    BY <1>2, <1>3
  <2>3. u \in Nat /\ l \in Nat /\ up \in Nat /\ lp \in Nat /\ supply \in Nat /\ supply' \in Nat
    BY <1>4
  <2> DEFINE before == supply
             after == supply'
  <2>4. /\ before = u + l + n /\ after - before = (up - u) + (lp - l) + (j - k)
        /\ before \in Nat /\ after \in Nat
    BY <1>6, <2>1, <2>3
  <2> HIDE DEF before, after
  <2>5. after = up + lp + np
    BY <2>1, <2>2, <2>3, <2>4, TokensAdd
  <2> QED BY <2>5 DEF after
<1>9. supply' # 0 => lp + nlp >= least
  <2>1. CASE supply # 0 /\ lp + jl >= l + kl
    BY <2>1, <1>1, <1>2, <1>3, <1>4, <1>5
  <2>2. CASE supply = 0 /\ lp + jl >= least
    <3>1. n = 0 /\ nl = 0 /\ kl = 0
      <4>1. 0 = u + l + n
        BY <2>2, <1>5
      <4> QED BY <4>1, <1>2, <1>3, <1>4, TokensNone
    <3> QED BY <2>2, <3>1, <1>1, <1>3, <1>4
  <2> QED BY <1>7, <2>1, <2>2
<1>10. \E h \in 1 .. Len(Params) : params' = Params[h]
  BY DEF TokensInv
<1> QED BY <1>1, <1>8, <1>9, <1>10 DEF TokensInv, up, lp, np, nlp

\* Nothing of a part changes.
LEMMA MarketsSame ==
  ASSUME MarketsInv, UNCHANGED <<market, vault, oracle>>
  PROVE  MarketsInv'
BY DEF MarketsInv, SharedVaultExact, Recorded

LEMMA VaultsSame ==
  ASSUME VaultsInv, UNCHANGED <<config, gmVault>>
  PROVE  VaultsInv'
BY DEF VaultsInv, RecordedIsInVault

LEMMA TokensSame ==
  ASSUME NEW least, TokensInv(least), UNCHANGED <<supply, held, requests, params>>
  PROVE  TokensInv(least)'
BY DEF TokensInv

-----------------------------------------------------------------------------
(* Requests.                                                               *)

\* The kind of a request tells its fields.
LEMMA RequestKinds ==
  ASSUME NEW r, IsRequest(r)
  PROVE  /\ r.kind = "deposit" => r \in DepositRequests /\ (r.state = "pending" => r.minted = 0)
         /\ r.kind = "withdrawal" => r \in WithdrawalRequests
         /\ r.kind = "shift" => r \in ShiftRequests /\ r.from # r.to
         /\ r.kind = "none" => r = None
<1>1. r = None => r.kind = "none"
  BY DEF None
<1>2. /\ r \in DepositRequests => r.kind = "deposit"
      /\ r \in WithdrawalRequests => r.kind = "withdrawal"
      /\ r \in ShiftRequests => r.kind = "shift"
  BY DEF DepositRequests, WithdrawalRequests, ShiftRequests
<1> QED BY <1>1, <1>2 DEF IsRequest

\* A request is cancelled, or a shift is completed: its tokens stay.
LEMMA RequestState ==
  ASSUME NEW r, IsRequest(r), r.kind # "none", r.state = "pending", NEW state,
         state = "cancelled" \/ (state = "completed" /\ r.kind = "shift"),
         NEW q, q = [r EXCEPT !.state = state]
  PROVE  IsRequest(q) /\ InRequest(q) = InRequest(r) /\ LockedIn(q) = LockedIn(r)
<1>1. r # None
  BY DEF None
<1>2. CASE r \in DepositRequests /\ r.minted = 0
  <2>1. state = "cancelled"
    BY <1>2 DEF DepositRequests
  <2>2. /\ q \in DepositRequests /\ q.kind = r.kind /\ q.minted = r.minted /\ q.receiver = r.receiver
        /\ q.state = "cancelled" /\ r.kind = "deposit"
    BY <1>2, <2>1 DEF DepositRequests, RequestStates
  <2> QED BY <2>2 DEF IsRequest, InRequest, LockedIn
<1>3. CASE r \in WithdrawalRequests
  <2>1. state = "cancelled"
    BY <1>3 DEF WithdrawalRequests
  <2>2. /\ q \in WithdrawalRequests /\ q.kind = r.kind /\ q.glv = r.glv /\ q.state = "cancelled"
        /\ r.kind = "withdrawal"
    BY <1>3, <2>1 DEF WithdrawalRequests, RequestStates
  <2> QED BY <2>2 DEF IsRequest, InRequest, LockedIn
<1>4. CASE r \in ShiftRequests /\ r.from # r.to
  <2>1. /\ q \in ShiftRequests /\ q.kind = r.kind /\ q.from = r.from /\ q.to = r.to
        /\ r.kind = "shift"
    BY <1>4 DEF ShiftRequests, RequestStates
  <2> QED BY <1>4, <2>1 DEF IsRequest, InRequest, LockedIn
<1> QED BY <1>1, <1>2, <1>3, <1>4 DEF IsRequest

\* A change of the state alone.
LEMMA StateChange ==
  ASSUME NEW least \in Nat, TokensInv(least), NEW i \in Slots, requests[i].kind # "none",
         requests[i].state = "pending", NEW state,
         state = "cancelled" \/ (state = "completed" /\ requests[i].kind = "shift"),
         Set(i, state), UNCHANGED <<supply, held, params>>
  PROVE  TokensInv(least)'
<1> DEFINE r == requests[i]
           q == [r EXCEPT !.state = state]
<1>1. IsRequest(r) /\ supply \in Nat /\ held \in [{User, Locked} -> Nat]
  BY DEF TokensInv, AreRequests
<1>2. requests' = [requests EXCEPT ![i] = q]
  BY DEF Set
<1>3. IsRequest(q) /\ InRequest(q) = InRequest(r) /\ LockedIn(q) = LockedIn(r)
  <2> HIDE DEF r
  <2>1. r.kind # "none" /\ r.state = "pending" /\ (state = "cancelled" \/ (state = "completed" /\ r.kind = "shift"))
    BY DEF r
  <2> QED BY <1>1, <2>1, RequestState
<1>4. InRequest(r) \in Nat /\ LockedIn(r) \in Nat
  BY <1>1, RequestTokens
<1> DEFINE u == held[User]
           l == held[Locked]
           j == InRequest(q)
           k == InRequest(r)
           jl == LockedIn(q)
           kl == LockedIn(r)
<1>5. u \in Nat /\ l \in Nat /\ j = k /\ jl = kl /\ k \in Nat /\ kl \in Nat
  BY <1>1, <1>3, <1>4
<1>6. supply' = supply /\ held' = held /\ params' = params
  OBVIOUS
<1> HIDE DEF q
<1>7. supply' - supply = (held'[User] - held[User]) + (held'[Locked] - held[Locked])
                           + (InRequest(q) - InRequest(requests[i]))
  <2>1. supply - supply = (u - u) + (l - l) + (j - k)
    <3> HIDE DEF u, l, j, k
    <3> QED BY <1>1, <1>5
  <2> QED BY <1>6, <2>1
<1>8. held'[Locked] + LockedIn(q) >= held[Locked] + LockedIn(requests[i])
  <2>1. l + jl >= l + kl
    <3> HIDE DEF l, jl, kl
    <3> QED BY <1>5
  <2> QED BY <1>6, <2>1
<1>9. supply' = 0 \/ supply # 0
  BY <1>6
<1> QED BY <1>1, <1>2, <1>3, <1>6, <1>7, <1>8, <1>9, TokensChange

\* An execution that is cancelled.
LEMMA CancelledInv ==
  ASSUME NEW least \in Nat, GlvInv(least), NEW i \in Slots, requests[i].kind # "none",
         requests[i].state = "pending", Cancelled(i)
  PROVE  GlvInv(least)'
<1>1. /\ Set(i, "cancelled") /\ UNCHANGED <<market, vault, oracle>> /\ UNCHANGED <<config, gmVault>>
      /\ UNCHANGED <<supply, held, params>>
  BY DEF Cancelled
<1>2. TokensInv(least)'
  BY <1>1, StateChange DEF GlvInv
<1> QED BY <1>1, <1>2, MarketsSame, VaultsSame DEF GlvInv

\* Who holds how much.
LEMMA HeldChange ==
  ASSUME held \in [{User, Locked} -> Nat], NEW h \in {User, Locked}, NEW delta \in Int,
         held[h] + delta \in Nat, NEW next, next = [held EXCEPT ![h] = @ + delta]
  PROVE  /\ next \in [{User, Locked} -> Nat]
         /\ next[User] - held[User] = (IF h = User THEN delta ELSE 0)
         /\ next[Locked] - held[Locked] = (IF h = Locked THEN delta ELSE 0)
<1>1. User # Locked
  BY DEF User, Locked
<1>2. /\ next = [k \in {User, Locked} |-> IF k = h THEN held[k] + delta ELSE held[k]]
      /\ held[User] \in Nat /\ held[Locked] \in Nat
  OBVIOUS
<1>3. /\ next[User] = (IF h = User THEN held[User] + delta ELSE held[User])
      /\ next[Locked] = (IF h = Locked THEN held[Locked] + delta ELSE held[Locked])
  BY <1>2
<1> QED BY <1>1, <1>2, <1>3

\* GLV tokens move between a holder and a request, and nothing is minted.
LEMMA TokensMove ==
  ASSUME NEW least \in Nat, TokensInv(least), NEW i \in Slots, NEW r, IsRequest(r),
         requests' = [requests EXCEPT ![i] = r], NEW h \in {User, Locked}, NEW delta \in Int,
         held[h] + delta \in Nat, held' = [held EXCEPT ![h] = @ + delta],
         supply' = supply, params' = params,
         InRequest(requests[i]) - InRequest(r) = delta,
         LockedIn(requests[i]) - LockedIn(r) <= (IF h = Locked THEN delta ELSE 0)
  PROVE  TokensInv(least)'
<1> DEFINE u == held[User]
           l == held[Locked]
           up == held'[User]
           lp == held'[Locked]
           j == InRequest(r)
           k == InRequest(requests[i])
           jl == LockedIn(r)
           kl == LockedIn(requests[i])
<1>1. /\ held' \in [{User, Locked} -> Nat] /\ held \in [{User, Locked} -> Nat] /\ supply \in Nat
      /\ up - u = (IF h = User THEN delta ELSE 0) /\ lp - l = (IF h = Locked THEN delta ELSE 0)
  BY HeldChange, SMTT(30) DEF TokensInv
<1>2. u \in Nat /\ l \in Nat /\ up \in Nat /\ lp \in Nat
  BY <1>1
<1>3. j \in Nat /\ k \in Nat /\ jl \in Nat /\ kl \in Nat
  BY RequestTokens DEF TokensInv, AreRequests
<1>4. k - j = delta /\ kl - jl <= (IF h = Locked THEN delta ELSE 0) /\ User # Locked
  BY DEF User, Locked
<1>5. supply' - supply = (up - u) + (lp - l) + (j - k) /\ lp + jl >= l + kl
  <2>1. supply' - supply = 0
    BY <1>1
  <2> HIDE DEF u, l, up, lp, j, k, jl, kl
  <2> QED BY <1>1, <1>2, <1>3, <1>4, <2>1
<1>6. supply' = 0 \/ supply # 0
  OBVIOUS
<1>7. supply' \in Nat
  BY <1>1
<1> QED BY <1>1, <1>5, <1>6, <1>7, TokensChange

\* A request is created with what it holds in escrow.
LEMMA CreateDepositInv ==
  ASSUME NEW least \in Nat, GlvInv(least), NEW i \in Slots, NEW mk \in Markets,
         NEW d \in GlvDeposits, NEW receiver \in {User, Locked},
         CreateGlvDeposit(i, mk, d[1], d[2], d[3], receiver)
  PROVE  GlvInv(least)'
<1> DEFINE r == DepositRequest(mk, d[1], d[2], d[3], receiver)
<1>1. /\ requests[i] = None /\ requests' = [requests EXCEPT ![i] = r]
      /\ UNCHANGED <<market, vault, oracle>> /\ UNCHANGED <<config, gmVault>>
      /\ supply' = supply /\ held' = held /\ params' = params
  BY DEF CreateGlvDeposit, Create
<1>2. oracle.now \in Int /\ TokensInv(least)
  BY DEF GlvInv, MarketsInv, Oracles
<1>3. /\ r \in DepositRequests /\ r.minted = 0 /\ r.kind = "deposit"
  BY <1>2, GlvAssumption DEF DepositRequest, DepositRequests, RequestStates
<1>4. /\ IsRequest(r) /\ InRequest(r) = 0 /\ LockedIn(r) = 0
      /\ InRequest(requests[i]) = 0 /\ LockedIn(requests[i]) = 0
  BY <1>1, <1>3 DEF IsRequest, InRequest, LockedIn, None
<1>5. held \in [{User, Locked} -> Nat]
  BY <1>2 DEF TokensInv
<1> DEFINE delta == 0
<1>6. /\ held' = [held EXCEPT ![User] = @ + delta] /\ held[User] + delta \in Nat /\ delta \in Int
      /\ User \in {User, Locked}
  BY <1>1, <1>5
<1> HIDE DEF r
<1>7. /\ InRequest(requests[i]) - InRequest(r) = delta
      /\ LockedIn(requests[i]) - LockedIn(r) <= (IF User = Locked THEN delta ELSE 0)
  BY <1>4
<1>8. TokensInv(least)'
  <2> HIDE DEF delta
  <2> QED BY <1>1, <1>2, <1>4, <1>6, <1>7, TokensMove
<1> QED BY <1>1, <1>8, MarketsSame, VaultsSame DEF GlvInv

LEMMA CreateWithdrawalInv ==
  ASSUME NEW least \in Nat, GlvInv(least), NEW i \in Slots, NEW mk \in Markets,
         NEW amount \in GlvBurns, CreateGlvWithdrawal(i, mk, amount)
  PROVE  GlvInv(least)'
<1> DEFINE r == WithdrawalRequest(mk, amount)
<1>1. /\ requests[i] = None /\ requests' = [requests EXCEPT ![i] = r]
      /\ UNCHANGED <<market, vault, oracle>> /\ UNCHANGED <<config, gmVault>>
      /\ supply' = supply /\ params' = params
      /\ amount # 0 /\ held[User] >= amount /\ held' = [held EXCEPT ![User] = @ - amount]
  BY DEF CreateGlvWithdrawal, Create, TakeGlvTokens
<1>2. oracle.now \in Int /\ TokensInv(least) /\ amount \in Nat
  BY GlvAssumption DEF GlvInv, MarketsInv, Oracles
<1>3. /\ r \in WithdrawalRequests /\ r.kind = "withdrawal" /\ r.state = "pending" /\ r.glv = amount
  BY <1>1, <1>2, TokenAmountTypes DEF WithdrawalRequest, WithdrawalRequests, RequestStates
<1>4. /\ IsRequest(r) /\ InRequest(r) = amount /\ LockedIn(r) = 0
      /\ InRequest(requests[i]) = 0 /\ LockedIn(requests[i]) = 0
  BY <1>1, <1>3 DEF IsRequest, InRequest, LockedIn, None
<1>5. held \in [{User, Locked} -> Nat] /\ held[User] \in Nat
  BY <1>2 DEF TokensInv
<1> DEFINE delta == -amount
<1>6. /\ held[User] - amount = held[User] + delta /\ held[User] + delta \in Nat /\ delta \in Int
      /\ 0 - amount = delta
  BY <1>1, <1>2, <1>5
<1> HIDE DEF r, delta
<1>7. /\ InRequest(requests[i]) - InRequest(r) = delta
      /\ LockedIn(requests[i]) - LockedIn(r) <= (IF User = Locked THEN delta ELSE 0)
  BY <1>4, <1>6 DEF User, Locked
<1>8. held' = [held EXCEPT ![User] = @ + delta]
  BY <1>1, <1>6
<1>9. TokensInv(least)'
  BY <1>1, <1>2, <1>4, <1>6, <1>7, <1>8, TokensMove
<1> QED BY <1>1, <1>9, MarketsSame, VaultsSame DEF GlvInv

LEMMA CreateShiftInv ==
  ASSUME NEW least \in Nat, GlvInv(least), NEW i \in Slots, NEW from \in Markets, NEW to \in Markets,
         NEW amount \in ShiftAmounts, CreateGlvShift(i, from, to, amount)
  PROVE  GlvInv(least)'
<1> DEFINE r == ShiftRequest(from, to, amount)
<1>1. /\ requests[i] = None /\ requests' = [requests EXCEPT ![i] = r] /\ from # to
      /\ UNCHANGED <<market, vault, oracle>> /\ UNCHANGED <<config, gmVault>>
      /\ supply' = supply /\ held' = held /\ params' = params
  BY DEF CreateGlvShift, GlvShiftCreatable, Create
<1>2. oracle.now \in Int /\ TokensInv(least) /\ amount \in Nat
  BY GlvAssumption DEF GlvInv, MarketsInv, Oracles
<1>3. /\ r \in ShiftRequests /\ r.from # r.to /\ r.kind = "shift"
  BY <1>1, <1>2 DEF ShiftRequest, ShiftRequests, RequestStates
<1>4. /\ IsRequest(r) /\ InRequest(r) = 0 /\ LockedIn(r) = 0
      /\ InRequest(requests[i]) = 0 /\ LockedIn(requests[i]) = 0
  BY <1>1, <1>3 DEF IsRequest, InRequest, LockedIn, None
<1>5. held \in [{User, Locked} -> Nat]
  BY <1>2 DEF TokensInv
<1> DEFINE delta == 0
<1>6. /\ held' = [held EXCEPT ![User] = @ + delta] /\ held[User] + delta \in Nat /\ delta \in Int
      /\ User \in {User, Locked}
  BY <1>1, <1>5
<1> HIDE DEF r
<1>7. /\ InRequest(requests[i]) - InRequest(r) = delta
      /\ LockedIn(requests[i]) - LockedIn(r) <= (IF User = Locked THEN delta ELSE 0)
  BY <1>4
<1>8. TokensInv(least)'
  <2> HIDE DEF delta
  <2> QED BY <1>1, <1>2, <1>4, <1>6, <1>7, TokensMove
<1> QED BY <1>1, <1>8, MarketsSame, VaultsSame DEF GlvInv

\* A request is closed: what it holds goes to its receiver or its owner.
LEMMA CloseInv ==
  ASSUME NEW least \in Nat, GlvInv(least), NEW i \in Slots,
         CloseGlvDeposit(i) \/ CloseGlvWithdrawal(i) \/ CloseGlvShift(i)
  PROVE  GlvInv(least)'
<1> DEFINE r == requests[i]
<1>1. /\ requests' = [requests EXCEPT ![i] = None]
      /\ UNCHANGED <<market, vault, oracle>> /\ UNCHANGED <<config, gmVault>>
      /\ supply' = supply /\ params' = params
  BY DEF CloseGlvDeposit, CloseGlvWithdrawal, CloseGlvShift
<1>2. TokensInv(least) /\ IsRequest(r) /\ held \in [{User, Locked} -> Nat] /\ IsRequest(None)
  BY DEF GlvInv, TokensInv, AreRequests, IsRequest
<1>3. InRequest(None) = 0 /\ LockedIn(None) = 0 /\ InRequest(r) \in Nat /\ LockedIn(r) \in Nat
  BY <1>2, RequestTokens DEF None, InRequest, LockedIn
<1>4. PICK h \in {User, Locked} :
        /\ held' = [held EXCEPT ![h] = @ + InRequest(r)]
        /\ LockedIn(r) <= (IF h = Locked THEN InRequest(r) ELSE 0)
  <2>1. CASE CloseGlvDeposit(i)
    <3>1. r.kind = "deposit" /\ held' = [held EXCEPT ![r.receiver] = @ + r.minted]
      BY <2>1 DEF CloseGlvDeposit
    <3>2. r.receiver \in {User, Locked} /\ r.minted \in Nat
      BY <1>2, <3>1, RequestKinds DEF DepositRequests
    <3>3. InRequest(r) = r.minted /\ LockedIn(r) = (IF r.receiver = Locked THEN r.minted ELSE 0)
      BY <3>1 DEF InRequest, LockedIn
    <3> HIDE DEF r
    <3>4. LockedIn(r) <= (IF r.receiver = Locked THEN InRequest(r) ELSE 0)
      BY <3>2, <3>3
    <3> QED BY <3>1, <3>2, <3>3, <3>4
  <2>2. CASE CloseGlvWithdrawal(i)
    <3>1. /\ r.kind = "withdrawal"
          /\ held' = IF r.state = "completed" THEN held ELSE [held EXCEPT ![User] = @ + r.glv]
      BY <2>2 DEF CloseGlvWithdrawal, ReturnGlvTokens
    <3>2. /\ InRequest(r) = (IF r.state = "completed" THEN 0 ELSE r.glv) /\ LockedIn(r) = 0
      BY <3>1 DEF InRequest, LockedIn
    <3>3. held' = [held EXCEPT ![User] = @ + InRequest(r)]
      <4>1. CASE r.state = "completed"
        <5>1. InRequest(r) = 0 /\ held' = held
          BY <3>1, <3>2, <4>1
        <5>2. held = [held EXCEPT ![User] = @ + 0]
          BY <1>2
        <5> QED BY <5>1, <5>2
      <4>2. CASE r.state # "completed"
        BY <3>1, <3>2, <4>2
      <4> QED BY <4>1, <4>2
    <3>4. User # Locked
      BY DEF User, Locked
    <3> QED BY <3>2, <3>3, <3>4
  <2>3. CASE CloseGlvShift(i)
    <3>1. r.kind = "shift" /\ held' = held
      BY <2>3 DEF CloseGlvShift
    <3>2. InRequest(r) = 0 /\ LockedIn(r) = 0
      BY <3>1 DEF InRequest, LockedIn
    <3>3. held = [held EXCEPT ![User] = @ + 0]
      BY <1>2
    <3>4. User # Locked
      BY DEF User, Locked
    <3> QED BY <3>1, <3>2, <3>3, <3>4
  <2> QED BY <2>1, <2>2, <2>3
<1> DEFINE delta == InRequest(r)
<1>5. /\ delta \in Int /\ held[h] + delta \in Nat
      /\ InRequest(r) - InRequest(None) = delta
      /\ LockedIn(r) - LockedIn(None) <= (IF h = Locked THEN delta ELSE 0)
  <2>1. held[h] \in Nat
    BY <1>2
  <2> QED BY <1>3, <1>4, <2>1
<1>6. TokensInv(least)'
  <2>1. held' = [held EXCEPT ![h] = @ + delta]
    BY <1>4
  <2> HIDE DEF delta
  <2> QED BY <1>1, <1>2, <1>5, <2>1, TokensMove
<1> QED BY <1>1, <1>6, MarketsSame, VaultsSame DEF GlvInv

-----------------------------------------------------------------------------
(* Executions.                                                             *)

\* What a GLV deposit that is executed has checked.
LEMMA DepositPerformed ==
  ASSUME NEW r, NEW e, NEW d, d = GlvDepositDone(r, e), d.ok
  PROVE  /\ GlvDepositValid(r) /\ GlvDepositAllowed(r.market, e.m, r.gm + e.minted)
         /\ d.m = e.m /\ d.gm = r.gm + e.minted
         /\ d.minted = GlvMinted(r.market, e.m, r.gm + e.minted) /\ d.minted >= r.min
<1>1. CASE ~GlvDepositValid(r) \/ ~GlvDepositAllowed(r.market, e.m, r.gm + e.minted)
  <2>1. d = [ok |-> FALSE]
    BY <1>1 DEF GlvDepositDone
  <2> QED BY <2>1
<1>2. CASE GlvDepositValid(r) /\ GlvDepositAllowed(r.market, e.m, r.gm + e.minted)
  <2> DEFINE minted == GlvMinted(r.market, e.m, r.gm + e.minted)
             gm == r.gm + e.minted
             good == minted >= r.min
  <2>1. d = [ok |-> good, m |-> e.m, gm |-> gm, minted |-> minted]
    BY <1>2 DEF GlvDepositDone
  <2> HIDE DEF minted, gm, good
  <2>2. d.m = e.m /\ d.gm = gm /\ d.minted = minted /\ d.ok = good
    BY <2>1
  <2> QED BY <1>2, <2>2 DEF minted, gm, good
<1> QED BY <1>1, <1>2

\* What it mints is a number of tokens.
LEMMA GlvMintedNat ==
  ASSUME oracle \in Oracles, AreMarkets(market), IsConfig(config), supply \in Nat,
         NEW mk, NEW n, TwoTokens(n), NEW amount \in Nat, GlvDepositAllowed(mk, n, amount)
  PROVE  GlvMinted(mk, n, amount) \in Nat
<1> DEFINE usd == ValueForMarket(n, amount, FALSE)
           value == GlvValue(mk, n, TRUE)
<1>1. PICK f \in BOOLEAN, t \in BOOLEAN : f = FALSE /\ t = TRUE
  OBVIOUS
<1>2. /\ GlvPriceable(mk, n, t) /\ Priceable(n, amount, f)
      /\ supply # 0 => value # 0
  BY <1>1 DEF GlvDepositAllowed
<1>3. ValueForMarket(n, amount, f) \in Nat /\ GlvValue(mk, n, t) \in Nat
  BY <1>2, ValueNat, GlvValueNat DEF TwoTokens
<1>4. usd \in Nat /\ value \in Nat
  BY <1>1, <1>3
<1>5. GlvMinted(mk, n, amount) = UsdToMarketTokens(usd, value, supply)
  BY DEF GlvMinted
<1>6. value = 0 => supply = 0
  BY <1>2
<1> HIDE DEF usd, value
<1>7. UsdToMarketTokens(usd, value, supply) \in Nat
  BY <1>4, <1>6, MintNat
<1> QED BY <1>5, <1>7

\* A deposit in one market: the vault takes what the market records.
LEMMA MarketsDeposit ==
  ASSUME MarketsInv, NEW mk \in Markets, NEW n, TwoTokens(n), NEW d \in TokenAmounts,
         Records(market[mk], n, d), market' = [market EXCEPT ![mk] = n],
         vault' = Plus(vault, d), oracle' = oracle
  PROVE  MarketsInv'
<1>1. AreMarkets(market) /\ \A t \in BOOLEAN : d[t] \in Int /\ vault[t] = Recorded(market, t)
  BY DEF MarketsInv, SharedVaultExact, TokenAmounts
<1>2. /\ AreMarkets(market')
      /\ \A t \in BOOLEAN : Recorded(market', t) = Recorded(market, t) + d[t]
  <2> DEFINE next == market'
             states == market
  <2>1. AreMarkets(states) /\ Replaces(states, next, mk, n) /\ Records(states[mk], n, d)
    BY <1>1 DEF AreMarkets, Replaces
  <2> HIDE DEF next, states
  <2>2. AreMarkets(next) /\ \A t \in BOOLEAN : Recorded(next, t) = Recorded(states, t) + d[t]
    BY <2>1, MarketChanges
  <2> QED BY <2>2 DEF next, states
<1>3. vault' = [s \in BOOLEAN |-> vault'[s]] /\ \A t \in BOOLEAN : vault'[t] = vault[t] + d[t]
  BY DEF Plus
<1>4. SharedVaultExact'
  BY <1>1, <1>2, <1>3 DEF SharedVaultExact, Recorded
<1> QED BY <1>2, <1>3, <1>4 DEF MarketsInv

\* Market tokens go to the vault of one market, or leave it.
LEMMA VaultsStep ==
  ASSUME VaultsInv, NEW mk \in DOMAIN config, NEW delta \in Int, config[mk].balance + delta \in Nat,
         config' = Record(config, mk, config[mk].balance + delta),
         gmVault' = [gmVault EXCEPT ![mk] = @ + delta]
  PROVE  VaultsInv'
<1> DEFINE c == config
           v == gmVault
           cp == config'
           vp == gmVault'
           b == c[mk].balance + delta
<1>1. /\ IsConfig(c) /\ v \in [Markets -> Nat] /\ InVaults(c, v) /\ mk \in DOMAIN c
      /\ b \in Nat /\ b = c[mk].balance + delta /\ cp = Record(c, mk, b) /\ Adds(v, vp, mk, delta)
  BY DEF VaultsInv, RecordedIsInVault, InVaults, Adds
<1>2. IsConfig(cp) /\ vp \in [Markets -> Nat] /\ InVaults(cp, vp)
  <2> HIDE DEF c, v, cp, vp, b
  <2> QED BY <1>1, VaultsChange
<1> QED BY <1>2 DEF VaultsInv, RecordedIsInVault, InVaults, IsConfig

LEMMA ExecuteDepositInv ==
  ASSUME NEW least \in Nat, \A k \in 1 .. Len(Params) : least <= Params[k].first,
         GlvInv(least), NEW i \in Slots, ExecuteGlvDeposit(i)
  PROVE  GlvInv(least)'
<1> DEFINE r == requests[i]
           mk == r.market
           fees == SwapFeeParams("Deposit")
           e == MarketDeposit(market[mk], r.tokens, fees)
           d == PerformGlvDeposit(r)
           gm == r.gm + e.minted
<1>1. /\ r.kind = "deposit" /\ r.state = "pending" /\ mk \in DOMAIN config
  BY DEF ExecuteGlvDeposit, GlvDepositExecutable, Pending, Contains
<1>2. MarketsInv /\ VaultsInv /\ TokensInv(least) /\ IsRequest(r)
  BY DEF GlvInv, TokensInv, AreRequests
<1>3. CASE Cancelled(i)
  BY <1>1, <1>3, CancelledInv
<1>4. CASE CommitGlvDeposit(i, r, d)
  <2>1. r \in DepositRequests /\ r.minted = 0
    BY <1>1, <1>2, RequestKinds
  <2>2. /\ mk \in Markets /\ r.tokens \in [BOOLEAN -> Nat] /\ r.gm \in Nat /\ r.min \in Nat
        /\ r.receiver \in {User, Locked}
    BY <2>1 DEF DepositRequests
  <2>3. /\ d.ok /\ market' = [market EXCEPT ![mk] = d.m] /\ vault' = Plus(vault, r.tokens)
        /\ config' = Record(config, mk, config[mk].balance + d.gm)
        /\ gmVault' = [gmVault EXCEPT ![mk] = @ + d.gm] /\ supply' = supply + d.minted
        /\ requests' = [requests EXCEPT ![i].state = "completed", ![i].minted = d.minted]
        /\ params' = params /\ held' = held /\ oracle' = oracle
    BY <1>4 DEF CommitGlvDeposit
  <2>4. /\ GlvDepositValid(r) /\ GlvDepositAllowed(mk, e.m, gm) /\ d.m = e.m /\ d.gm = gm
        /\ d.minted = GlvMinted(mk, e.m, gm) /\ d.minted >= r.min
    <3>1. d = GlvDepositDone(r, e)
      BY DEF PerformGlvDeposit
    <3> HIDE DEF d, e, r
    <3> QED BY <2>3, <3>1, DepositPerformed
  <2>5. /\ oracle \in Oracles /\ AreMarkets(market) /\ IsConfig(config) /\ supply \in Nat
        /\ TwoTokens(market[mk]) /\ fees \in FeeParams
    BY <1>2, <2>2, FeeParamTypes DEF MarketsInv, VaultsInv, TokensInv, AreMarkets
  <2>6. e.m.ok /\ BalancesCover(e.m)
    BY <2>4 DEF GlvDepositAllowed
  <2>7. /\ TwoTokens(e.m) /\ e.minted \in Nat
        /\ \A t \in BOOLEAN : e.m.bal[t] = market[mk].bal[t] + r.tokens[t]
    <3> HIDE DEF e, fees, mk, r
    <3>1. e = MarketDeposit(market[mk], r.tokens, fees)
      BY DEF e
    <3> QED BY <2>2, <2>5, <2>6, <3>1, MarketDeposited
  <2>8. gm \in Nat /\ d.minted \in Nat
    <3>1. gm \in Nat
      BY <2>2, <2>7
    <3> HIDE DEF gm, mk, e
    <3> QED BY <2>4, <2>5, <2>7, <3>1, GlvMintedNat
  <2>9. MarketsInv'
    <3>1. r.tokens \in TokenAmounts
      BY <2>2 DEF TokenAmounts
    <3> HIDE DEF e, mk, r
    <3>2. Records(market[mk], e.m, r.tokens)
      BY <2>7 DEF Records
    <3> QED BY <1>2, <2>2, <2>3, <2>4, <2>7, <3>1, <3>2, MarketsDeposit
  <2>10. VaultsInv'
    <3>1. gm \in Int /\ config[mk].balance + gm \in Nat
      BY <1>1, <2>5, <2>8 DEF IsConfig
    <3>2. /\ config' = Record(config, mk, config[mk].balance + gm)
          /\ gmVault' = [gmVault EXCEPT ![mk] = @ + gm]
      BY <2>3, <2>4
    <3> HIDE DEF gm, mk
    <3> QED BY <1>1, <1>2, <3>1, <3>2, VaultsStep
  <2>11. TokensInv(least)'
    <3> DEFINE j == d.minted
               q == [r EXCEPT !.state = "completed", !.minted = j]
    <3>1. requests' = [requests EXCEPT ![i] = q]
      BY <2>3
    <3>2. j \in Nat /\ j >= r.min /\ supply' = supply + j
      BY <2>3, <2>4, <2>8
    <3> HIDE DEF d
    <3>3. /\ q \in DepositRequests /\ q.kind = "deposit" /\ q.state = "completed" /\ q.minted = j
          /\ q.receiver = r.receiver
      <4> HIDE DEF j, r
      <4> QED BY <2>1, <3>2 DEF DepositRequests, RequestStates
    <3>4. /\ IsRequest(q) /\ InRequest(q) = j /\ InRequest(r) = 0 /\ LockedIn(r) = 0
          /\ LockedIn(q) = (IF r.receiver = Locked THEN j ELSE 0)
      <4> HIDE DEF j, q, r
      <4> QED BY <1>1, <2>1, <3>3 DEF IsRequest, InRequest, LockedIn
    <3>5. PICK k \in 1 .. Len(Params) : params = Params[k]
      BY <1>2 DEF TokensInv
    <3>6. params.first \in Nat /\ least <= params.first
      BY <3>5, GlvAssumption
    <3>7. supply = 0 /\ params.first # 0 => r.receiver = Locked /\ r.min >= params.first
      BY <2>4 DEF GlvDepositValid, FirstDepositAllowed
    <3>8. held \in [{User, Locked} -> Nat]
      BY <1>2 DEF TokensInv
    <3> DEFINE l == held[Locked]
               u == held[User]
               jl == LockedIn(q)
               first == params.first
               min == r.min
               locks == r.receiver = Locked
    <3>9. /\ l \in Nat /\ u \in Nat /\ first \in Nat /\ least <= first /\ min \in Nat /\ j >= min
          /\ (supply = 0 /\ first # 0 => locks /\ min >= first)
          /\ jl = (IF locks THEN j ELSE 0)
      BY <2>2, <3>2, <3>4, <3>6, <3>7, <3>8
    <3>10. /\ supply' \in Nat /\ supply' - supply = (u - u) + (l - l) + (j - 0)
           /\ \/ supply # 0 /\ l + jl >= l + 0
              \/ supply = 0 /\ l + jl >= least
      <4> HIDE DEF l, u, j, jl, first, min, locks
      <4> QED BY <2>5, <3>2, <3>9
    <3>11. /\ supply' - supply = (held'[User] - held[User]) + (held'[Locked] - held[Locked])
                                   + (InRequest(q) - InRequest(requests[i]))
           /\ \/ supply # 0 /\ held'[Locked] + LockedIn(q) >= held[Locked] + LockedIn(requests[i])
              \/ supply = 0 /\ held'[Locked] + LockedIn(q) >= least
      BY <2>3, <3>4, <3>10
    <3>12. held' \in [{User, Locked} -> Nat]
      BY <2>3, <3>8
    <3> HIDE DEF q, j
    <3> QED BY <1>2, <2>3, <3>1, <3>4, <3>10, <3>11, <3>12, TokensChange
  <2> QED BY <2>9, <2>10, <2>11 DEF GlvInv
<1> QED BY <1>3, <1>4 DEF ExecuteGlvDeposit

\* What the markets record of a token together.
LEMMA RecordedInt ==
  ASSUME NEW states, AreMarkets(states), NEW t \in BOOLEAN
  PROVE  Recorded(states, t) \in Int
<1> DEFINE f == [k \in Markets |-> states[k].bal[t]]
<1>1. Recorded(states, t) = SumFunctionOnSet(f, Markets)
  BY DEF Recorded
<1>2. \A k \in Markets : states[k].bal[t] \in Int
  BY DEF AreMarkets, TwoTokens, TokenAmounts
<1>3. \A k \in Markets : f[k] \in Int
  BY <1>2
<1>4. IsFiniteSet(Markets)
  BY GlvAssumption
<1> HIDE DEF f
<1> QED BY <1>1, <1>3, <1>4, SumInt

\* What a GLV withdrawal that is executed has checked.
LEMMA WithdrawalPerformed ==
  ASSUME NEW r, NEW d, d = PerformGlvWithdrawal(r), d.ok, NEW gm,
         gm = MarketTokensFor(market[r.market], GlvTokensValue(r.market, r.glv)), NEW w,
         w = Withdraw(PreExecute(market[r.market], oracle), oracle, gm, SwapFeeParams("Withdrawal"))
  PROVE  /\ GlvWithdrawalPriced(r.market)
         /\ d.m = Paid(w.m, w.out) /\ d.out = w.out /\ d.gm = gm
         /\ gm <= gmVault[r.market] /\ gm <= config[r.market].balance
<1>1. CASE ~GlvWithdrawalPriced(r.market)
  <2>1. d = [ok |-> FALSE]
    BY <1>1 DEF PerformGlvWithdrawal
  <2> QED BY <2>1
<1>2. CASE GlvWithdrawalPriced(r.market)
  <2>1. d = GlvWithdrawalPaid(r, gm, w)
    BY <1>2 DEF PerformGlvWithdrawal, GlvWithdrawn
  <2> DEFINE good == w.m.ok /\ gm <= gmVault[r.market] /\ gm <= config[r.market].balance
             paid == Paid(w.m, w.out)
  <2>2. d = [ok |-> good, m |-> paid, out |-> w.out, gm |-> gm]
    BY <2>1 DEF GlvWithdrawalPaid
  <2> HIDE DEF good, paid
  <2>3. d.ok = good /\ d.m = paid /\ d.out = w.out /\ d.gm = gm
    BY <2>2
  <2> QED BY <1>2, <2>3 DEF good, paid
<1> QED BY <1>1, <1>2

\* The market tokens that a withdrawal burns are a number of tokens.
LEMMA MarketTokensNat ==
  ASSUME oracle \in Oracles, AreMarkets(market), IsConfig(config), supply \in Nat \ {0},
         NEW mk \in Markets, NEW glv \in Nat, GlvWithdrawalPriced(mk)
  PROVE  MarketTokensFor(market[mk], GlvTokensValue(mk, glv)) \in Nat
<1> DEFINE n == market[mk]
           all == GlvValue(mk, n, FALSE)
           usd == GlvTokensValue(mk, glv)
           value == PoolValue(n, oracle, "MaxAfterWithdrawal", TRUE)
<1>1. PICK f \in BOOLEAN, t \in BOOLEAN : f = FALSE /\ t = TRUE
  OBVIOUS
<1>2. TwoTokens(n) /\ Sound(n) /\ n.supply \in Nat
  BY DEF AreMarkets, TwoTokens
<1>3. GlvPriceable(mk, n, f) /\ value > 0
  BY <1>1 DEF GlvWithdrawalPriced
<1>4. all \in Nat
  <2>1. GlvValue(mk, n, f) \in Nat
    <3> HIDE DEF n
    <3> QED BY <1>2, <1>3, GlvValueNat
  <2> QED BY <1>1, <2>1
<1>5. value \in Nat \ {0}
  <2>1. PoolValue(n, oracle, "MaxAfterWithdrawal", t) \in Int
    BY <1>2, PoolValueInt DEF PnlFactorKinds
  <2>2. value \in Int
    BY <1>1, <2>1
  <2> HIDE DEF value
  <2> QED BY <1>3, <2>2
<1>6. usd = MulDiv(glv, all, supply)
  BY DEF GlvTokensValue
<1>7. MarketTokensFor(n, usd) = UsdToMarketTokens(usd, value, n.supply)
  BY DEF MarketTokensFor
<1> HIDE DEF n, all, usd, value
<1>8. usd \in Nat
  BY <1>4, <1>6, MulDivNat
<1>9. UsdToMarketTokens(usd, value, n.supply) \in Nat
  <2> DEFINE minted == n.supply
  <2>1. minted \in Nat /\ value \in Nat /\ (value = 0 => minted = 0)
    BY <1>2, <1>5
  <2> HIDE DEF minted
  <2>2. UsdToMarketTokens(usd, value, minted) \in Nat
    BY <1>8, <2>1, MintNat
  <2> QED BY <2>2 DEF minted
<1>10. MarketTokensFor(n, usd) \in Nat
  BY <1>7, <1>9
<1> QED BY <1>10 DEF n, usd

LEMMA ExecuteWithdrawalInv ==
  ASSUME NEW least \in Nat, GlvInv(least), NEW i \in Slots, ExecuteGlvWithdrawal(i)
  PROVE  GlvInv(least)'
<1> DEFINE r == requests[i]
           mk == r.market
           glv == r.glv
           fees == SwapFeeParams("Withdrawal")
           gm == MarketTokensFor(market[mk], GlvTokensValue(mk, glv))
           n == PreExecute(market[mk], oracle)
           w == Withdraw(n, oracle, gm, fees)
           d == PerformGlvWithdrawal(r)
<1>1. /\ r.kind = "withdrawal" /\ r.state = "pending" /\ mk \in DOMAIN config
  BY DEF ExecuteGlvWithdrawal, GlvWithdrawalExecutable, Pending, Contains
<1>2. MarketsInv /\ VaultsInv /\ TokensInv(least) /\ IsRequest(r)
  BY DEF GlvInv, TokensInv, AreRequests
<1>3. CASE Cancelled(i)
  BY <1>1, <1>3, CancelledInv
<1>4. CASE CommitGlvWithdrawal(i, r, d)
  <2>1. r \in WithdrawalRequests
    BY <1>1, <1>2, RequestKinds
  <2>2. mk \in Markets /\ glv \in Nat \ {0}
    BY <2>1 DEF WithdrawalRequests
  <2>3. /\ d.ok /\ d.m.ok /\ market' = [market EXCEPT ![mk] = d.m] /\ PaidOut(d.out)
        /\ config' = Record(config, mk, config[mk].balance - d.gm)
        /\ gmVault' = [gmVault EXCEPT ![mk] = @ - d.gm] /\ supply' = supply - glv
        /\ requests' = [requests EXCEPT ![i].state = "completed", ![i].out = d.out]
        /\ params' = params /\ held' = held /\ oracle' = oracle
    BY <1>4 DEF CommitGlvWithdrawal
  <2>4. /\ GlvWithdrawalPriced(mk) /\ d.m = Paid(w.m, w.out) /\ d.out = w.out /\ d.gm = gm
        /\ gm <= gmVault[mk] /\ gm <= config[mk].balance
    BY <2>3, WithdrawalPerformed
  <2>5. /\ oracle \in Oracles /\ AreMarkets(market) /\ IsConfig(config) /\ supply \in Nat
        /\ gmVault \in [Markets -> Nat] /\ held \in [{User, Locked} -> Nat]
        /\ TwoTokens(market[mk]) /\ fees \in FeeParams
    BY <1>2, <2>2, FeeParamTypes DEF MarketsInv, VaultsInv, TokensInv, AreMarkets
  <2>6. InRequest(r) = glv /\ LockedIn(r) = 0
    BY <1>1 DEF InRequest, LockedIn
  <2>7. glv <= supply
    <3>1. glv <= InRequests(requests) /\ InRequests(requests) \in Nat
      BY <1>2, <2>6, RequestsTokens DEF TokensInv
    <3>2. supply = held[User] + held[Locked] + InRequests(requests)
      BY <1>2 DEF TokensInv
    <3>3. held[User] \in Nat /\ held[Locked] \in Nat
      BY <2>5
    <3> DEFINE u == held[User]
               l == held[Locked]
               k == InRequests(requests)
    <3> HIDE DEF glv, u, l, k
    <3> QED BY <2>2, <3>1, <3>2, <3>3 DEF u, l, k
  <2>8. gm \in Nat
    <3>1. supply \in Nat \ {0} /\ glv \in Nat
      BY <2>2, <2>5, <2>7
    <3> HIDE DEF glv, mk
    <3> QED BY <2>2, <2>4, <2>5, <3>1, MarketTokensNat
  <2>9. /\ TwoTokens(d.m) /\ d.out \in TokenAmounts
        /\ \A t \in BOOLEAN : d.m.bal[t] = market[mk].bal[t] - d.out[t]
    <3> DEFINE a == market[mk]
               c == d.m
    <3>1. n = PreExecute(a, oracle) /\ w = Withdraw(n, oracle, gm, fees) /\ c = Paid(w.m, w.out)
      BY <2>4
    <3>2. TwoTokens(a) /\ c.ok
      BY <2>3, <2>5
    <3> HIDE DEF a, c, n, w, gm, fees, d
    <3>3. /\ Executes(a, c) /\ w.out \in TokenAmounts
          /\ \A t \in BOOLEAN : c.bal[t] = a.bal[t] - w.out[t]
      BY <2>5, <2>8, <3>1, <3>2, WithdrawExecuted
    <3> QED BY <2>4, <3>3 DEF Executes, a, c
  <2>10. MarketsInv'
    <3> DEFINE out == d.out
               paid == Negative(out)
    <3>1. /\ paid \in TokenAmounts /\ \A t \in BOOLEAN : paid[t] = -out[t] /\ out[t] \in Int
      BY <2>9 DEF Negative, TokenAmounts
    <3>2. \A t \in BOOLEAN : vault[t] \in Int /\ market[mk].bal[t] \in Int
      BY <1>2, <2>5, RecordedInt DEF MarketsInv, SharedVaultExact, TwoTokens, TokenAmounts
    <3> HIDE DEF paid
    <3>3. vault' = Plus(vault, paid)
      <4>1. vault' = [s \in BOOLEAN |-> vault[s] - out[s]]
        BY <2>3 DEF PaidOut
      <4> HIDE DEF out
      <4>2. \A s \in BOOLEAN : vault[s] - out[s] = vault[s] + paid[s]
        BY <3>1, <3>2
      <4> QED BY <4>1, <4>2 DEF Plus
    <3>4. Records(market[mk], d.m, paid)
      <4> DEFINE a == market[mk].bal
                 b == d.m.bal
      <4>1. \A t \in BOOLEAN : b[t] = a[t] - out[t] /\ a[t] \in Int
        BY <2>9, <3>2
      <4> HIDE DEF a, b, out
      <4>2. \A t \in BOOLEAN : b[t] = a[t] + paid[t]
        BY <3>1, <4>1
      <4> QED BY <4>2 DEF Records, a, b
    <3> HIDE DEF d, mk, out
    <3> QED BY <1>2, <2>2, <2>3, <2>9, <3>1, <3>3, <3>4, MarketsDeposit
  <2>11. VaultsInv'
    <3> DEFINE delta == -gm
    <3>1. config[mk].balance \in Nat /\ gmVault[mk] \in Nat
      BY <1>1, <2>2, <2>5 DEF IsConfig
    <3> HIDE DEF gm
    <3>2. /\ delta \in Int /\ config[mk].balance + delta \in Nat
          /\ config[mk].balance - gm = config[mk].balance + delta
          /\ gmVault[mk] - gm = gmVault[mk] + delta
      BY <2>4, <2>8, <3>1
    <3> HIDE DEF delta
    <3>3. /\ config' = Record(config, mk, config[mk].balance + delta)
          /\ gmVault' = [gmVault EXCEPT ![mk] = @ + delta]
      BY <2>3, <2>4, <3>2
    <3> HIDE DEF mk
    <3> QED BY <1>1, <1>2, <3>2, <3>3, VaultsStep
  <2>12. TokensInv(least)'
    <3> DEFINE out == d.out
               q == [r EXCEPT !.state = "completed", !.out = out]
    <3>1. requests' = [requests EXCEPT ![i] = q]
      BY <2>3
    <3>2. q \in WithdrawalRequests /\ q.kind = "withdrawal" /\ q.state = "completed"
      <4>1. out \in TokenAmounts
        BY <2>9
      <4> HIDE DEF out, r
      <4> QED BY <2>1, <4>1 DEF WithdrawalRequests, RequestStates
    <3>3. IsRequest(q) /\ InRequest(q) = 0 /\ LockedIn(q) = 0
      <4> HIDE DEF q
      <4> QED BY <3>2 DEF IsRequest, InRequest, LockedIn
    <3> DEFINE u == held[User]
               l == held[Locked]
    <3>4. u \in Nat /\ l \in Nat
      BY <2>5
    <3>5. /\ supply' \in Nat /\ supply' - supply = (u - u) + (l - l) + (0 - glv)
          /\ (supply' = 0 \/ supply # 0) /\ l + 0 >= l + 0
      <4> HIDE DEF u, l, glv
      <4> QED BY <2>2, <2>3, <2>5, <2>7, <3>4
    <3>6. /\ supply' - supply = (held'[User] - held[User]) + (held'[Locked] - held[Locked])
                                  + (InRequest(q) - InRequest(requests[i]))
          /\ held'[Locked] + LockedIn(q) >= held[Locked] + LockedIn(requests[i])
      BY <2>3, <2>6, <3>3, <3>5
    <3>7. held' \in [{User, Locked} -> Nat]
      BY <2>3, <2>5
    <3> HIDE DEF q
    <3> QED BY <1>2, <2>3, <3>1, <3>3, <3>5, <3>6, <3>7, TokensChange
  <2> QED BY <2>10, <2>11, <2>12 DEF GlvInv
<1> QED BY <1>3, <1>4 DEF ExecuteGlvWithdrawal

\* What a GLV shift that is executed has checked.
LEMMA ShiftPerformed ==
  ASSUME NEW r, NEW d, d = PerformGlvShift(r), d.ok, NEW w,
         w = Withdraw(PreExecute(market[r.from], oracle), oracle, r.gm, SwapFeeParams("Shift")),
         NEW e, e = MarketDeposit(market[r.to], w.out, SwapFeeParams("Shift"))
  PROVE  /\ d.from = Paid(w.m, w.out) /\ d.to = e.m /\ d.received = e.minted
         /\ d.from.ok /\ e.m.ok /\ BalancesCover(e.m)
         /\ config[r.from].balance >= r.gm
<1>1. CASE ~ShiftIntervalPassed \/ gmVault[r.from] < r.gm
  <2>1. d = [ok |-> FALSE]
    BY <1>1 DEF PerformGlvShift
  <2> QED BY <2>1
<1>2. CASE ShiftIntervalPassed /\ ~(gmVault[r.from] < r.gm)
  <2> DEFINE from == Paid(w.m, w.out)
             good == GlvShiftAllowed(r, from, e.m, e.minted)
  <2>1. d = GlvShiftDone(r, from, e)
    BY <1>2 DEF PerformGlvShift, GlvShifted, ShiftedOut, ShiftedIn
  <2>2. d = [ok |-> good, from |-> from, to |-> e.m, received |-> e.minted]
    BY <2>1 DEF GlvShiftDone
  <2> HIDE DEF good, from
  <2>3. d.ok = good /\ d.from = from /\ d.to = e.m /\ d.received = e.minted
    BY <2>2
  <2>4. from.ok /\ e.m.ok /\ BalancesCover(e.m) /\ config[r.from].balance >= r.gm
    BY <2>3 DEF good, GlvShiftAllowed
  <2> QED BY <2>3, <2>4 DEF from
<1> QED BY <1>1, <1>2

\* Two markets change, by the same tokens: the vaults they share stay exact.
LEMMA MarketsShift ==
  ASSUME MarketsInv, NEW from \in Markets, NEW to \in Markets, from # to, NEW n, TwoTokens(n),
         NEW mp, TwoTokens(mp), NEW out \in TokenAmounts,
         Records(market[from], n, Negative(out)), Records(market[to], mp, out),
         market' = [market EXCEPT ![from] = n, ![to] = mp], UNCHANGED <<vault, oracle>>
  PROVE  MarketsInv'
<1> DEFINE states == market
           mid == [market EXCEPT ![from] = n]
           next == market'
           paid == Negative(out)
<1>1. AreMarkets(states) /\ \A t \in BOOLEAN : vault[t] = Recorded(states, t)
  BY DEF MarketsInv, SharedVaultExact
<1>2. /\ paid \in TokenAmounts /\ \A t \in BOOLEAN : paid[t] = -out[t] /\ out[t] \in Int
  BY DEF Negative, TokenAmounts
<1>3. /\ Replaces(states, mid, from, n) /\ Replaces(mid, next, to, mp) /\ mid[to] = states[to]
  BY <1>1 DEF AreMarkets, Replaces
<1>4. Records(states[from], n, paid) /\ Records(mid[to], mp, out)
  BY <1>3
<1> HIDE DEF states, mid, next, paid
<1>5. /\ AreMarkets(mid)
      /\ \A t \in BOOLEAN : /\ Recorded(states, t) \in Int
                            /\ Recorded(mid, t) = Recorded(states, t) + paid[t]
  BY <1>1, <1>2, <1>3, <1>4, MarketChanges
<1>6. /\ AreMarkets(next)
      /\ \A t \in BOOLEAN : Recorded(next, t) = Recorded(mid, t) + out[t]
  BY <1>3, <1>4, <1>5, MarketChanges
<1>7. \A t \in BOOLEAN : Recorded(next, t) = vault[t]
  BY <1>1, <1>2, <1>5, <1>6
<1>8. SharedVaultExact'
  BY <1>7 DEF SharedVaultExact, Recorded, next
<1> QED BY <1>6, <1>8 DEF MarketsInv, next

\* Market tokens leave the vault of one market and others go to another one.
LEMMA VaultsShift ==
  ASSUME VaultsInv, NEW from \in DOMAIN config, NEW to \in DOMAIN config, from # to,
         NEW gm \in Nat, NEW received \in Nat, config[from].balance >= gm,
         config' = Record(Record(config, from, config[from].balance - gm), to,
                          config[to].balance + received),
         gmVault' = [gmVault EXCEPT ![from] = @ - gm, ![to] = @ + received]
  PROVE  VaultsInv'
<1> DEFINE c == config
           v == gmVault
           b == c[from].balance - gm
           delta == -gm
           cm == Record(c, from, b)
           vm == [v EXCEPT ![from] = @ + delta]
           bp == c[to].balance + received
           cp == config'
           vp == gmVault'
<1>1. /\ IsConfig(c) /\ v \in [Markets -> Nat] /\ InVaults(c, v) /\ from \in DOMAIN c
      /\ to \in DOMAIN c /\ from \in Markets /\ to \in Markets
  BY DEF VaultsInv, RecordedIsInVault, InVaults, IsConfig
<1>2. c[from].balance \in Nat /\ c[to].balance \in Nat /\ v[from] \in Nat
  BY <1>1 DEF IsConfig
<1>3. /\ b \in Nat /\ b = c[from].balance + delta /\ delta \in Int /\ bp \in Nat
      /\ v[from] - gm = v[from] + delta
  <2> DEFINE x == c[from].balance
             y == c[to].balance
             z == v[from]
  <2>1. x \in Nat /\ y \in Nat /\ z \in Nat /\ x >= gm
    BY <1>2
  <2> HIDE DEF x, y, z
  <2>2. x - gm \in Nat /\ x - gm = x + (-gm) /\ -gm \in Int /\ y + received \in Nat
    BY <2>1
  <2>3. z - gm = z + (-gm)
    BY <2>1
  <2> QED BY <2>2, <2>3 DEF x, y, z
<1>4. cp = Record(cm, to, bp) /\ vp = [v EXCEPT ![from] = @ - gm, ![to] = @ + received]
  OBVIOUS
<1> HIDE DEF b, delta
<1>5. Adds(v, vm, from, delta) /\ Adds(vm, vp, to, received)
  <2>1. vm = [v EXCEPT ![from] = v[from] - gm]
    BY <1>3
  <2> QED BY <1>1, <1>4, <2>1 DEF Adds
<1> HIDE DEF c, v, cm, vm, bp, cp, vp
<1>6. cm = Record(c, from, b)
  BY DEF cm
<1>7. /\ IsConfig(cm) /\ DOMAIN cm = DOMAIN c /\ vm \in [Markets -> Nat] /\ InVaults(cm, vm)
      /\ \A k \in DOMAIN c \ {from} : cm[k] = c[k]
  BY <1>1, <1>3, <1>5, <1>6, VaultsChange
<1>8. bp = cm[to].balance + received /\ to \in DOMAIN cm /\ received \in Int
  BY <1>1, <1>7 DEF bp
<1>9. IsConfig(cp) /\ vp \in [Markets -> Nat] /\ InVaults(cp, vp)
  <2>1. /\ IsConfig(cm) /\ vm \in [Markets -> Nat] /\ InVaults(cm, vm) /\ to \in DOMAIN cm
        /\ received \in Int /\ bp \in Nat /\ bp = cm[to].balance + received
        /\ cp = Record(cm, to, bp) /\ Adds(vm, vp, to, received)
    BY <1>3, <1>4, <1>5, <1>7, <1>8
  <2> QED BY <2>1, VaultsChange
<1> QED BY <1>9 DEF VaultsInv, RecordedIsInVault, InVaults, IsConfig, cp, vp

LEMMA ExecuteShiftInv ==
  ASSUME NEW least \in Nat, GlvInv(least), NEW i \in Slots, ExecuteGlvShift(i)
  PROVE  GlvInv(least)'
<1> DEFINE r == requests[i]
           from == r.from
           to == r.to
           gm == r.gm
           fees == SwapFeeParams("Shift")
           n == PreExecute(market[from], oracle)
           w == Withdraw(n, oracle, gm, fees)
           e == MarketDeposit(market[to], w.out, fees)
           d == PerformGlvShift(r)
<1>1. /\ r.kind = "shift" /\ r.state = "pending" /\ from \in DOMAIN config /\ to \in DOMAIN config
  BY DEF ExecuteGlvShift, GlvShiftExecutable, Pending, Contains
<1>2. MarketsInv /\ VaultsInv /\ TokensInv(least) /\ IsRequest(r)
  BY DEF GlvInv, TokensInv, AreRequests
<1>3. CASE Cancelled(i)
  BY <1>1, <1>3, CancelledInv
<1>4. CASE CommitGlvShift(i, r, d)
  <2>1. r \in ShiftRequests /\ from # to
    BY <1>1, <1>2, RequestKinds
  <2>2. from \in Markets /\ to \in Markets /\ gm \in Nat
    BY <2>1 DEF ShiftRequests
  <2>3. /\ d.ok /\ market' = [market EXCEPT ![from] = d.from, ![to] = d.to]
        /\ config' = Record(Record(config, from, config[from].balance - gm), to,
                            config[to].balance + d.received)
        /\ gmVault' = [gmVault EXCEPT ![from] = @ - gm, ![to] = @ + d.received]
        /\ Set(i, "completed") /\ UNCHANGED <<supply, held, params>> /\ UNCHANGED <<vault, oracle>>
    BY <1>4 DEF CommitGlvShift
  <2>4. /\ d.from = Paid(w.m, w.out) /\ d.to = e.m /\ d.received = e.minted
        /\ d.from.ok /\ e.m.ok /\ BalancesCover(e.m) /\ config[from].balance >= gm
    BY <2>3, ShiftPerformed
  <2>5. /\ oracle \in Oracles /\ TwoTokens(market[from]) /\ TwoTokens(market[to])
        /\ fees \in FeeParams
    BY <1>2, <2>2, FeeParamTypes DEF MarketsInv, AreMarkets
  <2>6. /\ TwoTokens(d.from) /\ w.out \in TokenAmounts /\ w.out \in [BOOLEAN -> Nat]
        /\ \A t \in BOOLEAN : d.from.bal[t] = market[from].bal[t] - w.out[t]
    <3> DEFINE a == market[from]
               c == d.from
    <3>1. /\ n = PreExecute(a, oracle) /\ w = Withdraw(n, oracle, gm, fees) /\ c = Paid(w.m, w.out)
          /\ TwoTokens(a) /\ c.ok /\ fees = SwapFeeParams("Shift")
      BY <2>4, <2>5
    <3> HIDE DEF a, c, n, w, gm, fees, d
    <3>2. /\ Executes(a, c) /\ w.out \in TokenAmounts
          /\ \A t \in BOOLEAN : c.bal[t] = a.bal[t] - w.out[t]
          /\ w.out \in [BOOLEAN -> Nat]
      BY <2>2, <2>5, <3>1, WithdrawExecuted
    <3> QED BY <3>2 DEF Executes, a, c
  <2>7. /\ TwoTokens(d.to) /\ d.received \in Nat
        /\ \A t \in BOOLEAN : d.to.bal[t] = market[to].bal[t] + w.out[t]
    <3> DEFINE a == market[to]
               out == w.out
    <3>1. e = MarketDeposit(a, out, fees) /\ TwoTokens(a) /\ out \in [BOOLEAN -> Nat]
      BY <2>5, <2>6
    <3> HIDE DEF a, out, e, fees
    <3>2. /\ TwoTokens(e.m) /\ e.minted \in Nat
          /\ \A t \in BOOLEAN : e.m.bal[t] = a.bal[t] + out[t]
      BY <2>4, <2>5, <3>1, MarketDeposited
    <3> QED BY <2>4, <3>2 DEF a, out
  <2>8. MarketsInv'
    <3> DEFINE out == w.out
               left == d.from
               reached == d.to
    <3>1. Records(market[to], reached, out)
      BY <2>7 DEF Records
    <3>2. Records(market[from], left, Negative(out))
      <4> DEFINE a == market[from].bal
                 b == left.bal
      <4>1. \A t \in BOOLEAN : Negative(out)[t] = -out[t] /\ out[t] \in Int
        BY <2>6 DEF Negative, TokenAmounts
      <4>2. \A t \in BOOLEAN : b[t] = a[t] - out[t] /\ a[t] \in Int
        BY <2>5, <2>6 DEF TwoTokens, TokenAmounts
      <4> HIDE DEF a, b, out
      <4>3. \A t \in BOOLEAN : b[t] = a[t] + Negative(out)[t]
        BY <4>1, <4>2
      <4> QED BY <4>3 DEF Records, a, b
    <3>3. /\ TwoTokens(left) /\ TwoTokens(reached) /\ out \in TokenAmounts
          /\ market' = [market EXCEPT ![from] = left, ![to] = reached]
      BY <2>3, <2>6, <2>7
    <3> HIDE DEF out, left, reached, from, to
    <3> QED BY <1>2, <2>1, <2>2, <2>3, <3>1, <3>2, <3>3, MarketsShift
  <2>9. VaultsInv'
    <3> DEFINE received == d.received
    <3>1. /\ received \in Nat
          /\ config' = Record(Record(config, from, config[from].balance - gm), to,
                              config[to].balance + received)
          /\ gmVault' = [gmVault EXCEPT ![from] = @ - gm, ![to] = @ + received]
      BY <2>3, <2>7
    <3> HIDE DEF received, from, to, gm
    <3> QED BY <1>1, <1>2, <2>1, <2>2, <2>4, <3>1, VaultsShift
  <2>10. TokensInv(least)'
    BY <1>1, <1>2, <2>3, StateChange
  <2> QED BY <2>8, <2>9, <2>10 DEF GlvInv
<1> QED BY <1>3, <1>4 DEF ExecuteGlvShift

-----------------------------------------------------------------------------
(* What keepers change, donations and the oracle.                          *)

LEMMA ConfigInv ==
  ASSUME NEW least \in Nat, GlvInv(least), NEW mk \in Markets, NEW cap,
         ToggleGlvMarketFlag(mk) \/ UpdateGlvMarketConfig(mk, cap) \/ InsertGlvMarket(mk)
  PROVE  GlvInv(least)'
<1>1. /\ UNCHANGED <<market, vault, oracle>> /\ UNCHANGED <<supply, held, requests, params>>
      /\ gmVault' = gmVault
  BY DEF ToggleGlvMarketFlag, UpdateGlvMarketConfig, InsertGlvMarket, Change
<1> DEFINE c == config
           d == config'
<1>2. IsConfig(c) /\ gmVault \in [Markets -> Nat] /\ InVaults(c, gmVault)
  BY DEF GlvInv, VaultsInv, RecordedIsInVault, InVaults
<1>3. IsConfig(d) /\ InVaults(d, gmVault)
  <2>1. CASE ToggleGlvMarketFlag(mk) \/ UpdateGlvMarketConfig(mk, cap)
    <3>1. (d = Toggled(c, mk) \/ d = Capped(c, mk, cap)) /\ mk \in DOMAIN c
      BY <2>1 DEF ToggleGlvMarketFlag, UpdateGlvMarketConfig, Contains
    <3> HIDE DEF c, d
    <3>2. IsConfig(d) /\ DOMAIN d = DOMAIN c /\ \A k \in DOMAIN c : d[k].balance = c[k].balance
      BY <1>2, <3>1, FlagConfig
    <3> QED BY <1>2, <3>2 DEF InVaults
  <2>2. CASE InsertGlvMarket(mk)
    <3>1. d = Inserted(c, mk)
      BY <2>2 DEF InsertGlvMarket
    <3> HIDE DEF c, d
    <3>2. /\ IsConfig(d) /\ DOMAIN d \subseteq DOMAIN c \cup {mk}
          /\ \A k \in DOMAIN d \ {mk} : d[k] = c[k]
          /\ mk \in DOMAIN d => d[mk].balance = 0
      BY <1>2, <3>1, MarketsConfig
    <3>3. gmVault[mk] \in Nat
      BY <1>2
    <3>4. ASSUME NEW k \in DOMAIN d
          PROVE  d[k].balance <= gmVault[k]
      BY <1>2, <3>2, <3>3 DEF InVaults
    <3> QED BY <3>2, <3>4 DEF InVaults
  <2> QED BY <2>1, <2>2
<1>4. VaultsInv'
  BY <1>1, <1>2, <1>3 DEF VaultsInv, RecordedIsInVault, InVaults, IsConfig
<1> QED BY <1>1, <1>4, MarketsSame, TokensSame DEF GlvInv

LEMMA RemoveInv ==
  ASSUME NEW least \in Nat, GlvInv(least), NEW mk \in Markets, RemoveGlvMarket(mk)
  PROVE  GlvInv(least)'
<1>1. /\ UNCHANGED <<market, vault, oracle>> /\ UNCHANGED <<supply, held, requests, params>>
      /\ gmVault' = [gmVault EXCEPT ![mk] = 0] /\ config' = Removed(config, mk)
  BY DEF RemoveGlvMarket, Change
<1> DEFINE c == config
           d == config'
<1>2. IsConfig(c) /\ gmVault \in [Markets -> Nat] /\ InVaults(c, gmVault)
  BY DEF GlvInv, VaultsInv, RecordedIsInVault, InVaults
<1>3. IsConfig(d)
  <2>1. d = Removed(c, mk)
    BY <1>1
  <2> HIDE DEF c, d
  <2> QED BY <1>2, <2>1, MarketsConfig
<1>4. DOMAIN d = DOMAIN c \ {mk} /\ \A k \in DOMAIN d : d[k] = c[k]
  BY <1>1 DEF Removed
<1>5. gmVault' \in [Markets -> Nat] /\ \A k \in Markets \ {mk} : gmVault'[k] = gmVault[k]
  BY <1>1, <1>2
<1>6. InVaults(d, gmVault')
  <2> HIDE DEF c, d
  <2> QED BY <1>2, <1>4, <1>5 DEF InVaults, IsConfig
<1>7. VaultsInv'
  BY <1>3, <1>5, <1>6 DEF VaultsInv, RecordedIsInVault, InVaults, IsConfig
<1> QED BY <1>1, <1>7, MarketsSame, TokensSame DEF GlvInv

LEMMA DonateInv ==
  ASSUME NEW least \in Nat, GlvInv(least), NEW mk \in Markets, Donate(mk, Donated)
  PROVE  GlvInv(least)'
<1>1. /\ UNCHANGED <<market, vault, oracle>> /\ UNCHANGED <<supply, held, requests, params>>
      /\ gmVault' = [gmVault EXCEPT ![mk] = @ + Donated] /\ config' = config
  BY DEF Donate
<1>2. IsConfig(config) /\ gmVault \in [Markets -> Nat] /\ InVaults(config, gmVault) /\ Donated \in Nat
  BY GlvAssumption DEF GlvInv, VaultsInv, RecordedIsInVault, InVaults
<1>3. gmVault[mk] \in Nat /\ gmVault[mk] + Donated \in Nat /\ gmVault[mk] <= gmVault[mk] + Donated
  BY <1>2
<1>4. /\ gmVault'[mk] = gmVault[mk] + Donated /\ \A k \in Markets \ {mk} : gmVault'[k] = gmVault[k]
      /\ gmVault' = [k \in Markets |-> gmVault'[k]]
  BY <1>1, <1>2
<1>5. gmVault' \in [Markets -> Nat]
  BY <1>2, <1>3, <1>4
<1>6. ASSUME NEW k \in DOMAIN config
      PROVE  config[k].balance <= gmVault'[k]
  <2>1. k \in Markets /\ config[k].balance \in Nat /\ config[k].balance <= gmVault[k]
    BY <1>2 DEF IsConfig, InVaults
  <2>2. CASE k = mk
    BY <1>3, <1>4, <2>1, <2>2
  <2>3. CASE k # mk
    BY <1>4, <2>1, <2>3
  <2> QED BY <2>2, <2>3
<1>7. VaultsInv'
  BY <1>1, <1>2, <1>5, <1>6 DEF VaultsInv, RecordedIsInVault, IsConfig
<1> QED BY <1>1, <1>7, MarketsSame, TokensSame DEF GlvInv

\* Prices that the oracle may give, at some time.
LEMMA PricedOracle ==
  ASSUME NEW prices \in PriceRecords, NEW now \in Int
  PROVE  Priced(prices, now) \in Oracles
BY DEF Priced, PriceRecords, Oracles

LEMMA PassInv ==
  ASSUME NEW least \in Nat, GlvInv(least), NEW prices \in PriceSet, Pass(prices)
  PROVE  GlvInv(least)'
<1>1. /\ UNCHANGED <<market, vault>> /\ UNCHANGED <<config, gmVault>>
      /\ UNCHANGED <<supply, held, requests, params>> /\ oracle' = Priced(prices, oracle.now + 1)
  BY DEF Pass
<1>2. oracle.now + 1 \in Int /\ prices \in PriceRecords
  BY GlvAssumption DEF GlvInv, MarketsInv, Oracles
<1>3. oracle' \in Oracles
  BY <1>1, <1>2, PricedOracle
<1>4. MarketsInv'
  BY <1>1, <1>3 DEF GlvInv, MarketsInv, SharedVaultExact, Recorded
<1> QED BY <1>1, <1>4, VaultsSame, TokensSame DEF GlvInv

LEMMA UpdateConfigInv ==
  ASSUME NEW least \in Nat, GlvInv(least), NEW k \in 1 .. Len(Params), UpdateGlvConfig(Params[k])
  PROVE  GlvInv(least)'
<1>1. /\ UNCHANGED <<market, vault, oracle>> /\ UNCHANGED <<config, gmVault>>
      /\ UNCHANGED <<supply, held, requests>> /\ params' = Params[k]
  BY DEF UpdateGlvConfig, ParamsUpdated, Change
<1>2. TokensInv(least)'
  BY <1>1 DEF GlvInv, TokensInv
<1> QED BY <1>1, <1>2, MarketsSame, VaultsSame DEF GlvInv

-----------------------------------------------------------------------------
(* The invariant.                                                          *)

\* A market that joins the GLV has two tokens and is in order.
LEMMA OpeningMarkets == AreMarkets(Opening)
<1>1. Opening = [mk \in Markets |-> Opening[mk]] /\ \A mk \in Markets : Opening[mk] \in MarketStates
  BY GlvAssumption
<1>2. ASSUME NEW a \in MarketStates
      PROVE  TwoTokens(a)
  <2>1. /\ a.pure = FALSE /\ a.ok = TRUE /\ a.supply \in Nat /\ a.factor \in Int
        /\ a.pool \in [PoolKinds -> [BOOLEAN -> Nat]] /\ a.bal \in [BOOLEAN -> Nat]
        /\ a.clock \in [ClockKinds -> Int]
        /\ a = [pure |-> a.pure, supply |-> a.supply, factor |-> a.factor, ok |-> a.ok,
                pool |-> a.pool, bal |-> a.bal, clock |-> a.clock]
    BY DEF MarketStates
  <2>2. /\ a.pool = [k \in PoolKinds |-> [s \in BOOLEAN |-> a.pool[k][s]]]
        /\ \A k \in PoolKinds, s \in BOOLEAN : a.pool[k][s] \in Nat
    BY <2>1
  <2>3. a.clock = [k \in ClockKinds |-> a.clock[k]] /\ \A k \in ClockKinds : a.clock[k] \in Int
    BY <2>1
  <2>4. IsMarket(a)
    BY <2>1, <2>2, <2>3 DEF IsMarket
  <2>5. a.bal \in TokenAmounts
    BY <2>1 DEF TokenAmounts
  <2> QED BY <2>1, <2>2, <2>3, <2>4, <2>5 DEF Sound, TwoTokens
<1> QED BY <1>1, <1>2 DEF AreMarkets

LEMMA GlvInitInv ==
  ASSUME NEW least \in Nat, GlvInit
  PROVE  GlvInv(least)
<1>1. MarketsInv
  <2>1. oracle \in Oracles
    BY GlvAssumption, PricedOracle DEF GlvInit
  <2>2. AreMarkets(market)
    BY OpeningMarkets DEF GlvInit
  <2>3. vault = [s \in BOOLEAN |-> vault[s]] /\ SharedVaultExact
    BY DEF GlvInit, SharedVaultExact
  <2> QED BY <2>1, <2>2, <2>3 DEF MarketsInv
<1>2. VaultsInv
  <2>1. DOMAIN config = FirstMarkets /\ config = [k \in FirstMarkets |-> config[k]]
    BY DEF GlvInit, FirstConfig
  <2>2. \A k \in FirstMarkets :
           config[k] = [max_amount |-> 0, max_value |-> 0, allowed |-> TRUE, balance |-> 0]
    BY DEF GlvInit, FirstConfig, DefaultConfig
  <2>3. IsConfig(config)
    BY <2>1, <2>2, GlvAssumption DEF IsConfig
  <2>4. gmVault \in [Markets -> Nat] /\ \A k \in Markets : gmVault[k] = 0
    BY DEF GlvInit
  <2> QED BY <2>1, <2>2, <2>3, <2>4, GlvAssumption DEF VaultsInv, RecordedIsInVault
<1>3. TokensInv(least)
  <2>1. /\ supply = 0 /\ held \in [{User, Locked} -> Nat] /\ held[User] = 0 /\ held[Locked] = 0
    BY DEF GlvInit
  <2>2. requests = [i \in Slots |-> None] /\ AreRequests(requests)
    BY DEF GlvInit, AreRequests, IsRequest
  <2>3. InRequests(requests) = 0
    <3> DEFINE f == [i \in Slots |-> InRequest(requests[i])]
    <3>1. \A i \in Slots : f[i] = 0
      BY <2>2 DEF InRequest, None
    <3>2. InRequests(requests) = SumFunctionOnSet(f, Slots) /\ IsFiniteSet(Slots)
      BY GlvAssumption DEF InRequests
    <3> HIDE DEF f
    <3> QED BY <3>1, <3>2, SumZero
  <2>4. \E k \in 1 .. Len(Params) : params = Params[k]
    <3>1. 1 \in 1 .. Len(Params) /\ params = Params[1]
      BY GlvAssumption DEF GlvInit
    <3> QED BY <3>1
  <2> QED BY <2>1, <2>2, <2>3, <2>4 DEF TokensInv
<1> QED BY <1>1, <1>2, <1>3 DEF GlvInv

LEMMA GlvNextInv ==
  ASSUME NEW least \in Nat, \A k \in 1 .. Len(Params) : least <= Params[k].first,
         GlvInv(least), [GlvNext]_glvVars
  PROVE  GlvInv(least)'
<1>1. CASE UNCHANGED glvVars
  <2>1. /\ UNCHANGED <<market, vault, oracle>> /\ UNCHANGED <<config, gmVault>>
        /\ UNCHANGED <<supply, held, requests, params>>
    BY <1>1 DEF glvVars
  <2> QED BY <2>1, MarketsSame, VaultsSame, TokensSame DEF GlvInv
<1>2. CASE \E i \in Slots, mk \in Markets, d \in GlvDeposits,
              receiver \in {User} \cup (IF supply = 0 THEN {Locked} ELSE {}) :
              CreateGlvDeposit(i, mk, d[1], d[2], d[3], receiver)
  <2>1. PICK i \in Slots, mk \in Markets, d \in GlvDeposits,
             receiver \in {User} \cup (IF supply = 0 THEN {Locked} ELSE {}) :
             CreateGlvDeposit(i, mk, d[1], d[2], d[3], receiver)
    BY <1>2
  <2>2. receiver \in {User, Locked}
    OBVIOUS
  <2> QED BY <2>1, <2>2, CreateDepositInv
<1>3. CASE \E i \in Slots, mk \in Markets, amount \in GlvBurns : CreateGlvWithdrawal(i, mk, amount)
  BY <1>3, CreateWithdrawalInv
<1>4. CASE \E i \in Slots, from, to \in Markets, amount \in ShiftAmounts :
              CreateGlvShift(i, from, to, amount)
  BY <1>4, CreateShiftInv
<1>5. CASE \E i \in Slots : \/ ExecuteGlvDeposit(i) \/ CloseGlvDeposit(i)
                            \/ ExecuteGlvWithdrawal(i) \/ CloseGlvWithdrawal(i)
                            \/ ExecuteGlvShift(i) \/ CloseGlvShift(i)
  BY <1>5, ExecuteDepositInv, ExecuteWithdrawalInv, ExecuteShiftInv, CloseInv
<1>6. CASE \E mk \in Markets : \/ ToggleGlvMarketFlag(mk) \/ InsertGlvMarket(mk)
                               \/ RemoveGlvMarket(mk)
  BY <1>6, ConfigInv, RemoveInv
<1>7. CASE \E mk \in Markets, cap \in Caps : UpdateGlvMarketConfig(mk, cap)
  BY <1>7, ConfigInv
<1>8. CASE \E k \in 1 .. Len(Params) : UpdateGlvConfig(Params[k])
  BY <1>8, UpdateConfigInv
<1>9. CASE \E mk \in Markets : Donate(mk, Donated)
  BY <1>9, DonateInv
<1>10. CASE \E prices \in PriceSet : Pass(prices)
  BY <1>10, PassInv
<1> QED BY <1>1, <1>2, <1>3, <1>4, <1>5, <1>6, <1>7, <1>8, <1>9, <1>10 DEF GlvNext

\* The GLV tokens that are locked are among those that are minted.
LEMMA EnoughLocked ==
  ASSUME NEW least \in Nat, GlvInv(least), supply # 0
  PROVE  supply >= least
<1> DEFINE u == held[User]
           l == held[Locked]
           n == InRequests(requests)
           nl == LockedInRequests(requests)
<1>1. /\ supply = u + l + n /\ l + nl >= least /\ u \in Nat /\ l \in Nat
      /\ AreRequests(requests)
  BY DEF GlvInv, TokensInv
<1>2. n \in Nat /\ nl \in Nat /\ nl <= n
  BY <1>1, RequestsTokens
<1> HIDE DEF u, l, n, nl
<1> QED BY <1>1, <1>2

\* Of no tokens at all none are locked.
LEMMA NothingLocked == 0 \in Nat /\ \A k \in 1 .. Len(Params) : 0 <= Params[k].first
BY GlvAssumption

\* The balance that the GLV records for a market, and prices its token with,
\* is in the market's vault (Glv::update_market_token_balance,
\* GlvMarketConfig; validate_after_execution would throw otherwise).
THEOREM RecordedStaysInVault == GlvSpec => []RecordedIsInVault
<1>1. GlvInit => GlvInv(0)
  BY NothingLocked, GlvInitInv
<1>2. GlvInv(0) /\ [GlvNext]_glvVars => GlvInv(0)'
  BY NothingLocked, GlvNextInv
<1>3. GlvInv(0) => RecordedIsInVault
  BY DEF GlvInv, VaultsInv
<1> QED BY <1>1, <1>2, <1>3, PTL DEF GlvSpec

\* What the markets of a GLV record together is what the vaults they share
\* hold, through shifts that transfer nothing (ops/market.rs,
\* unchecked_shift).
THEOREM SharedVaultStaysExact == GlvSpec => []SharedVaultExact
<1>1. GlvInit => GlvInv(0)
  BY NothingLocked, GlvInitInv
<1>2. GlvInv(0) /\ [GlvNext]_glvVars => GlvInv(0)'
  BY NothingLocked, GlvNextInv
<1>3. GlvInv(0) => SharedVaultExact
  BY DEF GlvInv, MarketsInv
<1> QED BY <1>1, <1>2, <1>3, PTL DEF GlvSpec

\* Every GLV token that is minted is held by somebody, waits in the escrow of
\* an executed deposit, or is in the escrow of a withdrawal that has not been
\* executed: a request that is cancelled, closed or executed loses none and
\* hands none out twice (instructions/glv, ops/glv.rs).
GlvTokensAccounted == supply = held[User] + held[Locked] + InRequests(requests)

THEOREM GlvTokensStayAccounted == GlvSpec => []GlvTokensAccounted
<1>1. GlvInit => GlvInv(0)
  BY NothingLocked, GlvInitInv
<1>2. GlvInv(0) /\ [GlvNext]_glvVars => GlvInv(0)'
  BY NothingLocked, GlvNextInv
<1>3. GlvInv(0) => GlvTokensAccounted
  BY DEF GlvInv, TokensInv, GlvTokensAccounted
<1> QED BY <1>1, <1>2, <1>3, PTL DEF GlvSpec

\* Whatever the parameter of the first deposit is changed to, at least the
\* lowest value it may have stays locked while GLV tokens exist
\* (validate_first_deposit, first_deposit_receiver).
LeastLocked(least) == supply # 0 => supply >= least

THEOREM LeastFirstDepositLocked ==
  ASSUME NEW CONSTANT least \in Nat, \A k \in 1 .. Len(Params) : least <= Params[k].first
  PROVE  GlvSpec => []LeastLocked(least)
<1>1. GlvInit => GlvInv(least)
  BY GlvInitInv
<1>2. GlvInv(least) /\ [GlvNext]_glvVars => GlvInv(least)'
  BY GlvNextInv
<1>3. GlvInv(least) => LeastLocked(least)
  BY EnoughLocked DEF LeastLocked
<1> QED BY <1>1, <1>2, <1>3, PTL DEF GlvSpec

\* With a parameter that stays the same, the first deposit is locked for
\* ever (validate_first_deposit): from then on there are at least as many GLV
\* tokens as it had to mint.
THEOREM FirstDepositStaysLocked ==
  ASSUME \A k \in 1 .. Len(Params) : Params[k].first = Params[1].first
  PROVE  GlvSpec => []FirstDepositLocked
<1> DEFINE least == Params[1].first
<1>1. least \in Nat /\ \A k \in 1 .. Len(Params) : least <= Params[k].first
  BY GlvAssumption
<1>2. GlvInit => GlvInv(least)
  <2> HIDE DEF least
  <2> QED BY <1>1, GlvInitInv
<1>3. GlvInv(least) /\ [GlvNext]_glvVars => GlvInv(least)'
  <2> HIDE DEF least
  <2> QED BY <1>1, GlvNextInv
<1>4. GlvInv(least) => FirstDepositLocked
  <2> SUFFICES ASSUME GlvInv(least), supply # 0
               PROVE  supply >= params.first
    BY DEF FirstDepositLocked
  <2>1. params.first = least
    BY DEF GlvInv, TokensInv
  <2> HIDE DEF least
  <2>2. supply >= least
    BY <1>1, EnoughLocked
  <2> QED BY <2>1, <2>2
<1> QED BY <1>2, <1>3, <1>4, PTL DEF GlvSpec
=============================================================================
