--------------------------- MODULE NumberTheorems ---------------------------
(***************************************************************************)
(* Facts about numbers that the proofs of several components rest on:      *)
(* quotients and extremes, least counterexamples, which take the place of  *)
(* induction, and the sums of SumFunctionOnSet.                            *)
(***************************************************************************)
EXTENDS Integers, FiniteSets, FiniteSetsExt, Functions, FiniteSetTheorems,
        WellFoundedInduction, TLAPS

\* The quotient, rounded down, and the remainder.
LEMMA Quotient ==
  ASSUME NEW a \in Nat, NEW b \in Nat \ {0}
  PROVE  /\ a \div b \in Nat
         /\ (a \div b) * b <= a
         /\ a < (a \div b) * b + b
OBVIOUS

LEMMA Remainder ==
  ASSUME NEW a \in Nat, NEW b \in Nat \ {0}
  PROVE  /\ a % b \in Nat /\ a % b < b
         /\ a - (a % b) = (a \div b) * b
OBVIOUS

\* Comparing a quotient with a number, without the division.
LEMMA QuotientAtMost ==
  ASSUME NEW a \in Nat, NEW b \in Nat \ {0}, NEW q \in Nat, a <= q * b
  PROVE  a \div b <= q
OBVIOUS

LEMMA QuotientAtLeast ==
  ASSUME NEW a \in Nat, NEW b \in Nat \ {0}, NEW q \in Nat, q * b <= a
  PROVE  q <= a \div b
OBVIOUS

\* Products of natural numbers.
LEMMA ProductMonotone ==
  ASSUME NEW a \in Nat, NEW b \in Nat, NEW c \in Nat, a <= b
  PROVE  a * c <= b * c /\ c * a <= c * b
OBVIOUS

LEMMA ProductCancel ==
  ASSUME NEW a \in Int, NEW b \in Int, NEW c \in Nat \ {0}, a * c <= b * c
  PROVE  a <= b
OBVIOUS

\* The smaller of two numbers.
LEMMA MinOfTwo ==
  ASSUME NEW a \in Int, NEW b \in Int
  PROVE  Min({a, b}) = IF a <= b THEN a ELSE b
BY DEF Min

-----------------------------------------------------------------------------

\* Induction over the natural numbers and over the subsets of a finite set:
\* a set of counterexamples that is not empty has a least one.
LEMMA LeastNatural ==
  ASSUME NEW T, T \subseteq Nat, T # {}
  PROVE  \E n \in T : \A m \in T : n <= m
<1> DEFINE R == {ss \in Nat \X Nat : ss[1] < ss[2]}
<1>1. IsWellFoundedOn(R, Nat)
  BY NatLessThanWellFounded DEF OpToRel
<1>2. PICK x \in T : \A y \in T : <<y, x>> \notin R
  BY <1>1, WFMin, Zenon
<1>3. ASSUME NEW y \in T PROVE x <= y
  <2>1. x \in Nat /\ y \in Nat OBVIOUS
  <2>2. <<y, x>> \notin R BY <1>2
  <2>3. ~(y < x) BY <2>1, <2>2
  <2> QED BY <2>1, <2>3
<1>4. QED BY <1>3

\* A subset of a finite set that is a counterexample while no smaller one is.
LEMMA SmallestSubset ==
  ASSUME NEW S, IsFiniteSet(S), NEW T, T \subseteq SUBSET S, T # {}
  PROVE  \E s \in T : \A x \in s : s \ {x} \notin T
<1> DEFINE N == {Cardinality(s) : s \in T}
<1>1. \A s \in T : IsFiniteSet(s) /\ Cardinality(s) \in Nat
  BY FS_Subset, FS_CardinalityType
<1>2. N \subseteq Nat /\ N # {}
  BY <1>1
<1>3. PICK n \in N : \A m \in N : n <= m
  BY <1>2, LeastNatural
<1>4. PICK s \in T : Cardinality(s) = n
  BY <1>3
<1>5. ASSUME NEW x \in s, s \ {x} \in T PROVE FALSE
  <2>1. Cardinality(s \ {x}) = Cardinality(s) - 1
    BY <1>1, FS_RemoveElement
  <2>2. n <= Cardinality(s \ {x})
    BY <1>3, <1>5
  <2> QED BY <1>1, <1>4, <2>1, <2>2
<1> QED BY <1>5

-----------------------------------------------------------------------------
(* The recursive function behind SumFunctionOnSet.                         *)
Pick(s) == CHOOSE x \in s : TRUE
SumStep(f, h, s) == IF s = {} THEN 0 ELSE f[Pick(s)] + h[s \ {Pick(s)}]
SumsUpTo(f, S, n, h) ==
    h = [s \in {t \in SUBSET S : Cardinality(t) <= n} |-> SumStep(f, h, s)]
Sums(f, S, h) == h = [s \in SUBSET S |-> SumStep(f, h, s)]

LEMMA PickInSet == \A s : s # {} => Pick(s) \in s
BY DEF Pick

LEMMA SumsExist ==
  ASSUME NEW S, NEW f, IsFiniteSet(S)
  PROVE  \E h : Sums(f, S, h)
<1> DEFINE Small(n) == {t \in SUBSET S : Cardinality(t) <= n}
           Bad == {n \in Nat : ~\E h : SumsUpTo(f, S, n, h)}
<1>1. \A s \in SUBSET S : IsFiniteSet(s) /\ Cardinality(s) \in Nat /\ Cardinality(s) <= Cardinality(S)
  BY FS_Subset, FS_CardinalityType
<1>2. 0 \notin Bad
  <2> DEFINE h == [s \in Small(0) |-> 0]
  <2>1. \A s \in Small(0) : s = {}
    BY <1>1, FS_EmptySet
  <2>2. \A s \in Small(0) : SumStep(f, h, s) = 0
    BY <2>1, Zenon DEF SumStep
  <2>3. SumsUpTo(f, S, 0, h)
    BY <2>2 DEF SumsUpTo
  <2> QED BY <2>3
<1>3. ASSUME NEW n \in Nat, n \notin Bad PROVE n + 1 \notin Bad
  <2>1. PICK h : SumsUpTo(f, S, n, h)
    BY <1>3
  <2> DEFINE g == [s \in Small(n + 1) |-> SumStep(f, h, s)]
  <2> HIDE DEF g
  <2>2. \A s \in Small(n) : g[s] = h[s]
    BY <2>1, <1>1 DEF SumsUpTo, g
  <2>3. ASSUME NEW s \in Small(n + 1), s # {} PROVE s \ {Pick(s)} \in Small(n)
    <3>1. Pick(s) \in s BY <2>3, PickInSet
    <3>2. Cardinality(s \ {Pick(s)}) = Cardinality(s) - 1
      BY <3>1, <1>1, FS_RemoveElement
    <3> QED BY <3>2, <1>1
  <2>4. \A s \in Small(n + 1) : SumStep(f, g, s) = SumStep(f, h, s)
    BY <2>2, <2>3 DEF SumStep
  <2>5. SumsUpTo(f, S, n + 1, g)
    BY <2>4 DEF SumsUpTo, g
  <2> QED BY <2>5
<1>4. Bad = {}
  <2> SUFFICES ASSUME Bad # {} PROVE FALSE
    OBVIOUS
  <2>1. PICK n \in Bad : \A m \in Bad : n <= m
    BY LeastNatural
  <2>2. n \in Nat /\ n # 0
    BY <1>2
  <2>3. n - 1 \in Nat /\ n - 1 \notin Bad
    BY <2>1, <2>2
  <2>4. (n - 1) + 1 \notin Bad
    BY <2>3, <1>3
  <2> QED BY <2>4, <2>2
<1>5. PICK h : SumsUpTo(f, S, Cardinality(S), h)
  BY <1>4, FS_CardinalityType
<1>6. Small(Cardinality(S)) = SUBSET S
  BY <1>1
<1>7. Sums(f, S, h)
  BY <1>5, <1>6 DEF SumsUpTo, Sums
<1> QED BY <1>7

LEMMA SumsAsSum ==
  ASSUME NEW S, NEW f, IsFiniteSet(S)
  PROVE  \E h : Sums(f, S, h) /\ SumFunctionOnSet(f, S) = h[S]
<1>1. \E h : Sums(f, S, h)
  BY SumsExist
<1> QED BY <1>1, Zenon
           DEF SumFunctionOnSet, FoldFunctionOnSet, MapThenFoldSet, Sums, SumStep, Pick

LEMMA SumsUnique ==
  ASSUME NEW S, NEW f, IsFiniteSet(S), NEW s \in SUBSET S,
         NEW h, Sums(f, S, h), NEW g, Sums(f, s, g)
  PROVE  \A t \in SUBSET s : h[t] = g[t]
<1> DEFINE Bad == {t \in SUBSET s : h[t] # g[t]}
<1> SUFFICES ASSUME Bad # {} PROVE FALSE
  OBVIOUS
<1>1. IsFiniteSet(s)
  BY FS_Subset
<1>2. PICK t \in Bad : \A x \in t : t \ {x} \notin Bad
  BY <1>1, SmallestSubset
<1>3. t \in SUBSET s /\ t \in SUBSET S
  OBVIOUS
<1>4. h[t] = SumStep(f, h, t)
  BY <1>3 DEF Sums
<1>5. g[t] = SumStep(f, g, t)
  BY <1>3 DEF Sums
<1>6. CASE t = {}
  BY <1>6, <1>4, <1>5 DEF SumStep
<1>7. CASE t # {}
  <2>1. Pick(t) \in t
    BY <1>7, PickInSet
  <2>2. h[t \ {Pick(t)}] = g[t \ {Pick(t)}]
    BY <2>1, <1>2, <1>3
  <2> QED BY <2>2, <1>4, <1>5, <1>7 DEF SumStep
<1> QED BY <1>6, <1>7

LEMMA SumUnfold ==
  ASSUME NEW S, NEW f, IsFiniteSet(S)
  PROVE  SumFunctionOnSet(f, S) =
            IF S = {} THEN 0 ELSE f[Pick(S)] + SumFunctionOnSet(f, S \ {Pick(S)})
<1>1. PICK h : Sums(f, S, h) /\ SumFunctionOnSet(f, S) = h[S]
  BY SumsAsSum
<1>2. h[S] = SumStep(f, h, S)
  BY <1>1 DEF Sums
<1>3. CASE S = {}
  BY <1>1, <1>2, <1>3 DEF SumStep
<1>4. CASE S # {}
  <2> DEFINE s == S \ {Pick(S)}
  <2>1. s \in SUBSET S /\ IsFiniteSet(s)
    BY FS_RemoveElement
  <2>2. PICK g : Sums(f, s, g) /\ SumFunctionOnSet(f, s) = g[s]
    BY <2>1, SumsAsSum
  <2>3. h[s] = g[s]
    BY <1>1, <2>1, <2>2, SumsUnique
  <2> QED BY <1>1, <1>2, <1>4, <2>2, <2>3 DEF SumStep
<1> QED BY <1>3, <1>4

-----------------------------------------------------------------------------
(* The facts that proofs about sums use.                                   *)

\* The sum of nothing.
THEOREM SumEmpty == \A f : SumFunctionOnSet(f, {}) = 0
BY SumUnfold, FS_EmptySet

\* A sum of integers is an integer.
THEOREM SumInt ==
  ASSUME NEW S, NEW f, IsFiniteSet(S), \A x \in S : f[x] \in Int
  PROVE  SumFunctionOnSet(f, S) \in Int
<1> DEFINE Bad == {s \in SUBSET S : SumFunctionOnSet(f, s) \notin Int}
<1> SUFFICES ASSUME Bad # {} PROVE FALSE
  OBVIOUS
<1>1. PICK s \in Bad : \A x \in s : s \ {x} \notin Bad
  BY SmallestSubset
<1>2. IsFiniteSet(s)
  BY FS_Subset
<1>3. s # {}
  BY SumEmpty
<1>4. Pick(s) \in s
  BY <1>3, PickInSet
<1>5. SumFunctionOnSet(f, s) = f[Pick(s)] + SumFunctionOnSet(f, s \ {Pick(s)})
  BY <1>2, <1>3, SumUnfold
<1>6. SumFunctionOnSet(f, s \ {Pick(s)}) \in Int /\ f[Pick(s)] \in Int
  BY <1>1, <1>4
<1> QED BY <1>5, <1>6

\* Any element may be taken out first.
THEOREM SumRemove ==
  ASSUME NEW S, NEW f, IsFiniteSet(S), \A x \in S : f[x] \in Int, NEW x \in S
  PROVE  SumFunctionOnSet(f, S) = f[x] + SumFunctionOnSet(f, S \ {x})
<1> DEFINE Right(s, y) == SumFunctionOnSet(f, s) = f[y] + SumFunctionOnSet(f, s \ {y})
           Bad == {s \in SUBSET S : \E y \in s : ~Right(s, y)}
<1> SUFFICES ASSUME Bad # {} PROVE FALSE
  OBVIOUS
<1>1. PICK s \in Bad : \A y \in s : s \ {y} \notin Bad
  BY SmallestSubset
<1>2. IsFiniteSet(s) /\ s \in SUBSET S
  BY FS_Subset
<1>3. PICK y \in s : ~Right(s, y)
  OBVIOUS
<1> DEFINE p == Pick(s)
           r == (s \ {p}) \ {y}
<1>4. p \in s
  BY PickInSet
<1>5. SumFunctionOnSet(f, s) = f[p] + SumFunctionOnSet(f, s \ {p})
  BY <1>2, SumUnfold
<1>6. p # y
  BY <1>3, <1>5
<1>7. SumFunctionOnSet(f, s \ {p}) = f[y] + SumFunctionOnSet(f, r)
  <2>1. s \ {p} \in SUBSET S /\ s \ {p} \notin Bad /\ y \in s \ {p}
    BY <1>1, <1>2, <1>4, <1>6
  <2> QED BY <2>1
<1>8. SumFunctionOnSet(f, s \ {y}) = f[p] + SumFunctionOnSet(f, r)
  <2>1. s \ {y} \in SUBSET S /\ s \ {y} \notin Bad /\ p \in s \ {y}
    BY <1>1, <1>2, <1>4, <1>6
  <2>2. (s \ {y}) \ {p} = r
    OBVIOUS
  <2> QED BY <2>1, <2>2
<1>9. f[p] \in Int /\ f[y] \in Int /\ SumFunctionOnSet(f, r) \in Int
  <2>1. IsFiniteSet(r) /\ r \subseteq S
    BY <1>2, FS_Subset
  <2> QED BY <2>1, <1>2, <1>4, SumInt
<1> QED BY <1>3, <1>5, <1>7, <1>8, <1>9

\* Functions that agree have the same sum.
THEOREM SumSame ==
  ASSUME NEW S, NEW f, NEW g, IsFiniteSet(S), \A x \in S : f[x] = g[x]
  PROVE  SumFunctionOnSet(f, S) = SumFunctionOnSet(g, S)
<1> DEFINE Bad == {s \in SUBSET S : SumFunctionOnSet(f, s) # SumFunctionOnSet(g, s)}
<1> SUFFICES ASSUME Bad # {} PROVE FALSE
  OBVIOUS
<1>1. PICK s \in Bad : \A x \in s : s \ {x} \notin Bad
  BY SmallestSubset
<1>2. IsFiniteSet(s)
  BY FS_Subset
<1>3. s # {}
  BY SumEmpty
<1>4. Pick(s) \in s
  BY <1>3, PickInSet
<1>5. SumFunctionOnSet(f, s \ {Pick(s)}) = SumFunctionOnSet(g, s \ {Pick(s)})
  BY <1>1, <1>4
<1>6. f[Pick(s)] = g[Pick(s)]
  BY <1>4
<1> QED BY <1>2, <1>3, <1>5, <1>6, SumUnfold

\* A change of one value changes the sum by as much.
THEOREM SumChange ==
  ASSUME NEW S, NEW f, NEW g, IsFiniteSet(S), NEW x \in S,
         \A y \in S : f[y] \in Int, \A y \in S \ {x} : g[y] = f[y], g[x] \in Int
  PROVE  SumFunctionOnSet(g, S) = SumFunctionOnSet(f, S) + (g[x] - f[x])
<1>1. \A y \in S : g[y] \in Int
  OBVIOUS
<1>2. IsFiniteSet(S \ {x})
  BY FS_RemoveElement
<1>3. SumFunctionOnSet(g, S \ {x}) = SumFunctionOnSet(f, S \ {x})
  BY <1>2, SumSame
<1>4. SumFunctionOnSet(f, S \ {x}) \in Int
  BY <1>2, SumInt
<1>5. SumFunctionOnSet(f, S) = f[x] + SumFunctionOnSet(f, S \ {x})
  BY SumRemove
<1>6. SumFunctionOnSet(g, S) = g[x] + SumFunctionOnSet(g, S \ {x})
  BY <1>1, SumRemove
<1> QED BY <1>3, <1>4, <1>5, <1>6

\* A factor of all values is one of the sum.
THEOREM SumScale ==
  ASSUME NEW S, NEW f, NEW g, NEW c \in Int, IsFiniteSet(S),
         \A x \in S : f[x] \in Int /\ g[x] = f[x] * c
  PROVE  SumFunctionOnSet(g, S) = SumFunctionOnSet(f, S) * c
<1> DEFINE Bad == {s \in SUBSET S : SumFunctionOnSet(g, s) # SumFunctionOnSet(f, s) * c}
<1> SUFFICES ASSUME Bad # {} PROVE FALSE
  OBVIOUS
<1>1. PICK s \in Bad : \A x \in s : s \ {x} \notin Bad
  BY SmallestSubset
<1>2. IsFiniteSet(s) /\ s \in SUBSET S
  BY FS_Subset
<1>3. s # {}
  BY SumEmpty
<1> DEFINE p == Pick(s)
<1>4. p \in s
  BY <1>3, PickInSet
<1>5. SumFunctionOnSet(g, s \ {p}) = SumFunctionOnSet(f, s \ {p}) * c
  BY <1>1, <1>2, <1>4
<1>6. f[p] \in Int /\ g[p] = f[p] * c
  BY <1>2, <1>4
<1>7. SumFunctionOnSet(f, s \ {p}) \in Int
  <2>1. IsFiniteSet(s \ {p}) /\ s \ {p} \subseteq S
    BY <1>2, FS_RemoveElement
  <2> QED BY <2>1, SumInt
<1>8. /\ SumFunctionOnSet(f, s) = f[p] + SumFunctionOnSet(f, s \ {p})
      /\ SumFunctionOnSet(g, s) = g[p] + SumFunctionOnSet(g, s \ {p})
  BY <1>2, <1>3, SumUnfold
<1>9. SumFunctionOnSet(g, s) = SumFunctionOnSet(f, s) * c
  BY <1>5, <1>6, <1>7, <1>8
<1> QED BY <1>9

\* Pointwise smaller values have a smaller sum.
THEOREM SumMonotone ==
  ASSUME NEW S, NEW f, NEW g, IsFiniteSet(S),
         \A x \in S : f[x] \in Int /\ g[x] \in Int /\ f[x] <= g[x]
  PROVE  SumFunctionOnSet(f, S) <= SumFunctionOnSet(g, S)
<1> DEFINE Bad == {s \in SUBSET S : ~(SumFunctionOnSet(f, s) <= SumFunctionOnSet(g, s))}
<1> SUFFICES ASSUME Bad # {} PROVE FALSE
  OBVIOUS
<1>1. PICK s \in Bad : \A x \in s : s \ {x} \notin Bad
  BY SmallestSubset
<1>2. IsFiniteSet(s) /\ s \in SUBSET S
  BY FS_Subset
<1>3. s # {}
  BY SumEmpty
<1> DEFINE p == Pick(s)
<1>4. p \in s
  BY <1>3, PickInSet
<1>5. SumFunctionOnSet(f, s \ {p}) <= SumFunctionOnSet(g, s \ {p})
  BY <1>1, <1>2, <1>4
<1>6. f[p] \in Int /\ g[p] \in Int /\ f[p] <= g[p]
  BY <1>2, <1>4
<1>7. SumFunctionOnSet(f, s \ {p}) \in Int /\ SumFunctionOnSet(g, s \ {p}) \in Int
  <2>1. IsFiniteSet(s \ {p}) /\ s \ {p} \subseteq S
    BY <1>2, FS_RemoveElement
  <2> QED BY <2>1, SumInt
<1>8. /\ SumFunctionOnSet(f, s) = f[p] + SumFunctionOnSet(f, s \ {p})
      /\ SumFunctionOnSet(g, s) = g[p] + SumFunctionOnSet(g, s \ {p})
  BY <1>2, <1>3, SumUnfold
<1>9. SumFunctionOnSet(f, s) <= SumFunctionOnSet(g, s)
  BY <1>5, <1>6, <1>7, <1>8
<1> QED BY <1>9

\* A sum of zeros is zero.
THEOREM SumZero ==
  ASSUME NEW S, NEW f, IsFiniteSet(S), \A x \in S : f[x] = 0
  PROVE  SumFunctionOnSet(f, S) = 0
<1> DEFINE Bad == {s \in SUBSET S : SumFunctionOnSet(f, s) # 0}
<1> SUFFICES ASSUME Bad # {} PROVE FALSE
  OBVIOUS
<1>1. PICK s \in Bad : \A x \in s : s \ {x} \notin Bad
  BY SmallestSubset
<1>2. IsFiniteSet(s) /\ s \in SUBSET S
  BY FS_Subset
<1>3. s # {}
  BY SumEmpty
<1>4. Pick(s) \in s
  BY <1>3, PickInSet
<1>5. SumFunctionOnSet(f, s \ {Pick(s)}) = 0 /\ f[Pick(s)] = 0
  BY <1>1, <1>2, <1>4
<1> QED BY <1>2, <1>3, <1>5, SumUnfold

\* A sum of natural numbers is one, and no less than any of them.
THEOREM SumNat ==
  ASSUME NEW S, NEW f, IsFiniteSet(S), \A x \in S : f[x] \in Nat
  PROVE  /\ SumFunctionOnSet(f, S) \in Nat
         /\ \A x \in S : f[x] <= SumFunctionOnSet(f, S)
<1>1. ASSUME NEW T \in SUBSET S PROVE SumFunctionOnSet(f, T) \in Nat
  <2> DEFINE zero == [x \in T |-> 0]
  <2>1. IsFiniteSet(T)
    BY FS_Subset
  <2>2. SumFunctionOnSet(zero, T) = 0
    BY <2>1, SumZero
  <2>3. \A x \in T : zero[x] \in Int /\ f[x] \in Int /\ zero[x] <= f[x]
    OBVIOUS
  <2> HIDE DEF zero
  <2>4. SumFunctionOnSet(zero, T) <= SumFunctionOnSet(f, T)
    BY <2>1, <2>3, SumMonotone
  <2>5. SumFunctionOnSet(f, T) \in Int
    BY <2>1, <2>3, SumInt
  <2> QED BY <2>2, <2>4, <2>5
<1>2. ASSUME NEW x \in S PROVE f[x] <= SumFunctionOnSet(f, S)
  <2>1. SumFunctionOnSet(f, S) = f[x] + SumFunctionOnSet(f, S \ {x})
    BY SumRemove
  <2>2. SumFunctionOnSet(f, S \ {x}) \in Nat
    BY <1>1
  <2> QED BY <2>1, <2>2
<1> QED BY <1>1, <1>2

\* The sum over a part of the elements.
THEOREM SumSubset ==
  ASSUME NEW S, NEW T \in SUBSET S, NEW f, IsFiniteSet(S), \A x \in S : f[x] \in Nat
  PROVE  SumFunctionOnSet(f, T) <= SumFunctionOnSet(f, S)
<1> DEFINE Larger == {s \in SUBSET S : T \subseteq s}
           Bad == {s \in Larger : ~(SumFunctionOnSet(f, T) <= SumFunctionOnSet(f, s))}
<1> SUFFICES ASSUME Bad # {} PROVE FALSE
  OBVIOUS
<1>0. Bad \subseteq SUBSET S
  OBVIOUS
<1>1. PICK s \in Bad : \A x \in s : s \ {x} \notin Bad
  <2> HIDE DEF Bad
  <2> QED BY <1>0, SmallestSubset
<1>2. IsFiniteSet(s) /\ s \in SUBSET S /\ IsFiniteSet(T)
  BY FS_Subset
<1>3. SumFunctionOnSet(f, T) \in Nat /\ \A t \in SUBSET S : SumFunctionOnSet(f, t) \in Nat
  BY FS_Subset, SumNat
<1>4. s # T
  BY <1>3
<1>5. PICK x \in s : x \notin T
  BY <1>4
<1>6. SumFunctionOnSet(f, s) = f[x] + SumFunctionOnSet(f, s \ {x})
  BY <1>2, SumRemove
<1>7. SumFunctionOnSet(f, T) <= SumFunctionOnSet(f, s \ {x})
  BY <1>1, <1>5, <1>2
<1>8. f[x] \in Nat /\ SumFunctionOnSet(f, s \ {x}) \in Nat
  BY <1>2, <1>3
<1>9. SumFunctionOnSet(f, T) <= SumFunctionOnSet(f, s)
  BY <1>3, <1>6, <1>7, <1>8
<1> QED BY <1>9

\* The same for the sum over the whole domain of a function.
THEOREM SumFunctionChange ==
  ASSUME NEW S, IsFiniteSet(S), NEW f \in [S -> Int], NEW g \in [S -> Int],
         NEW x \in S, \A y \in S \ {x} : g[y] = f[y]
  PROVE  SumFunction(g) = SumFunction(f) + (g[x] - f[x])
<1>1. DOMAIN f = S /\ DOMAIN g = S
  OBVIOUS
<1>2. SumFunctionOnSet(g, S) = SumFunctionOnSet(f, S) + (g[x] - f[x])
  BY SumChange
<1> QED BY <1>1, <1>2 DEF SumFunction

\* The sum of natural numbers is one.
THEOREM SumFunctionNat ==
  ASSUME NEW S, IsFiniteSet(S), NEW f \in [S -> Nat]
  PROVE  SumFunction(f) \in Nat /\ \A x \in S : f[x] <= SumFunction(f)
<1>1. DOMAIN f = S
  OBVIOUS
<1> QED BY <1>1, SumNat DEF SumFunction

\* A sum of zeros, such as an account's amounts at the start, is 0.
THEOREM SumFunctionZero ==
  ASSUME NEW S, IsFiniteSet(S), NEW f \in [S -> {0}]
  PROVE  SumFunction(f) = 0
<1>1. DOMAIN f = S
  OBVIOUS
<1> QED BY <1>1, SumZero DEF SumFunction

-----------------------------------------------------------------------------
(* Least and greatest elements.                                            *)

\* The values of a function on a finite set are finitely many.
LEMMA FiniteImage ==
  ASSUME NEW S, NEW f, IsFiniteSet(S)
  PROVE  IsFiniteSet({f[x] : x \in S})
<1> DEFINE T == {f[x] : x \in S}
           g == [x \in S |-> f[x]]
<1>1. g \in Surjection(S, T)
  BY DEF Surjection
<1> HIDE DEF g
<1>2. IsFiniteSet(T)
  BY <1>1, FS_Surjection
<1> QED BY <1>2

\* A finite set of integers that is not empty has a greatest element and a
\* least one, which are what Max and Min choose.
THEOREM MaxOfFinite ==
  ASSUME NEW S, IsFiniteSet(S), S \subseteq Int, S # {}
  PROVE  Max(S) \in S /\ \A x \in S : x <= Max(S)
<1> DEFINE HasMax(s) == \E x \in s : \A y \in s : x >= y
           Bad == {s \in SUBSET S : s # {} /\ ~HasMax(s)}
<1>1. Bad = {}
  <2> SUFFICES ASSUME Bad # {} PROVE FALSE
    OBVIOUS
  <2>1. PICK s \in Bad : \A x \in s : s \ {x} \notin Bad
    BY SmallestSubset
  <2>2. PICK x \in s : TRUE
    BY <2>1
  <2>3. CASE s \ {x} = {}
    BY <2>1, <2>2, <2>3
  <2>4. CASE s \ {x} # {}
    <3>1. HasMax(s \ {x})
      BY <2>1, <2>2, <2>4
    <3>2. PICK y \in s \ {x} : \A z \in s \ {x} : y >= z
      BY <3>1
    <3>3. x \in Int /\ y \in Int
      BY <2>1, <2>2
    <3>4. CASE x >= y
      <4>1. \A z \in s : z \in Int
        BY <2>1
      <4>2. \A z \in s : x >= z
        BY <3>2, <3>3, <3>4, <4>1
      <4> QED BY <2>1, <2>2, <4>2
    <3>5. CASE y >= x
      <4>1. \A z \in s : y >= z
        BY <3>2, <3>5
      <4> QED BY <2>1, <3>2, <4>1
    <3> QED BY <3>3, <3>4, <3>5
  <2> QED BY <2>3, <2>4
<1>2. \E x \in S : \A y \in S : x >= y
  BY <1>1
<1>3. Max(S) \in S /\ \A y \in S : Max(S) >= y
  BY <1>2, Zenon DEF Max
<1> QED BY <1>3

\* Min, as in MaxOfFinite.
THEOREM MinOfFinite ==
  ASSUME NEW S, IsFiniteSet(S), S \subseteq Int, S # {}
  PROVE  Min(S) \in S /\ \A x \in S : Min(S) <= x
<1> DEFINE N == {-x : x \in S}
           negated == [x \in S |-> -x]
<1>1. IsFiniteSet(N) /\ N \subseteq Int /\ N # {}
  <2>1. {negated[x] : x \in S} = N
    OBVIOUS
  <2>2. IsFiniteSet({negated[x] : x \in S})
    BY FiniteImage
  <2>3. IsFiniteSet(N)
    BY <2>1, <2>2
  <2>4. PICK x \in S : TRUE
    OBVIOUS
  <2>5. -x \in N
    OBVIOUS
  <2>6. N \subseteq Int
    OBVIOUS
  <2> HIDE DEF N
  <2> QED BY <2>3, <2>5, <2>6
<1>2. Max(N) \in N /\ \A x \in N : x <= Max(N)
  BY <1>1, MaxOfFinite
<1>3. PICK x \in S : Max(N) = -x
  BY <1>2
<1>4. ASSUME NEW y \in S PROVE x <= y
  <2>1. -y <= -x
    BY <1>2, <1>3
  <2> QED BY <2>1
<1>5. \E z \in S : \A y \in S : z <= y
  BY <1>4
<1> QED BY <1>5, Zenon DEF Min
=============================================================================
