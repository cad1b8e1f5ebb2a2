--------------------------- MODULE TotalTheorems ---------------------------
(***************************************************************************)
(* What the proofs of the components need to know about sums.  A sum is    *)
(* defined by recursion over a finite set.  The recursion is justified,    *)
(* and every fact about it proved, from a smallest counterexample: a set   *)
(* of subsets of a finite set has a minimal element, which the library's   *)
(* well-founded orderings provide.                                         *)
(***************************************************************************)
EXTENDS Totals, FiniteSetTheorems, TLAPS

(* A set of naturals that is not empty has a least element.                *)
LEMMA LeastNatural ==
    ASSUME NEW Bad, Bad \subseteq Nat, Bad # {}
    PROVE  \E m \in Bad : \A k \in Bad : m <= k
  <1>1. PICK m \in Bad : \A k \in Bad : ~(<<k, m>> \in OpToRel(<, Nat))
    BY NatLessThanWellFounded, WFMin
  <1>2. ASSUME NEW k \in Bad PROVE m <= k
    <2>1. k \in Nat /\ m \in Nat
      OBVIOUS
    <2>2. <<k, m>> \in Nat \X Nat /\ <<k, m>>[1] = k /\ <<k, m>>[2] = m
      BY <2>1
    <2>3. ~(k < m)
      BY <1>1, <2>2 DEF OpToRel
    <2> QED
      BY <2>1, <2>3
  <1> QED
    BY <1>2

(* A family of subsets of a finite set has a minimal member.               *)
LEMMA MinimalSubset ==
    ASSUME NEW S, IsFiniteSet(S), NEW Bad, Bad \subseteq SUBSET S, Bad # {}
    PROVE  \E T \in Bad : \A U \in Bad : U \subseteq T => U = T
  <1>1. FiniteSubsetsOf(S) = SUBSET S
    BY FS_FiniteSubsetsOfFinite
  <1>2. IsWellFoundedOn(StrictSubsetOrdering(S), SUBSET S)
    BY <1>1, FS_StrictSubsetOrderingWellFounded
  <1>3. PICK T \in Bad : \A U \in Bad : ~(<<U, T>> \in StrictSubsetOrdering(S))
    BY <1>2, WFMin
  <1>4. ASSUME NEW U \in Bad, U \subseteq T PROVE U = T
    <2>1. <<U, T>> \in (SUBSET S) \X (SUBSET S) /\ <<U, T>>[1] = U /\ <<U, T>>[2] = T
      OBVIOUS
    <2> QED
      BY <1>3, <1>4, <2>1 DEF StrictSubsetOrdering
  <1> QED
    BY <1>4

----------------------------------------------------------------------------
\* The element MapThenSumSet takes next, and one step of its recursion.
Pick(T) == CHOOSE x \in T : TRUE
SumStep(f, g, s) == IF s = {} THEN 0 ELSE f[Pick(s)] + g[s \ {Pick(s)}]

(* The element taken next is one that is left.                             *)
LEMMA PickIn == ASSUME NEW T, T # {} PROVE Pick(T) \in T
  BY DEF Pick

(* There is a function that satisfies the recursion of MapThenSumSet: one  *)
(* that does so for sets up to any size, and so up to the size of S.       *)
LEMMA SumExists ==
    ASSUME NEW S, IsFiniteSet(S), NEW f, \A x \in S : f[x] \in Int
    PROVE  \E g : g = [s \in SUBSET S |-> SumStep(f, g, s)] /\ g \in [SUBSET S -> Int]
  <1> DEFINE Upto(k) == \E g \in [SUBSET S -> Int] :
                          \A s \in SUBSET S : Cardinality(s) <= k => g[s] = SumStep(f, g, s)
             Bad == {k \in Nat : ~Upto(k)}
  <1>0. \A s \in SUBSET S : IsFiniteSet(s) /\ Cardinality(s) \in Nat
    BY FS_Subset, FS_CardinalityType
  <1>1. Upto(0)
    <2> DEFINE z == [s \in SUBSET S |-> 0]
    <2>1. z \in [SUBSET S -> Int]
      OBVIOUS
    <2>2. ASSUME NEW s \in SUBSET S, Cardinality(s) <= 0 PROVE z[s] = SumStep(f, z, s)
      <3>1. s = {}
        BY <1>0, <2>2, FS_EmptySet
      <3> QED
        BY <3>1 DEF SumStep
    <2> QED
      BY <2>1, <2>2
  <1>2. ASSUME NEW k \in Nat, Upto(k) PROVE Upto(k + 1)
    <2>1. PICK g \in [SUBSET S -> Int] :
              \A s \in SUBSET S : Cardinality(s) <= k => g[s] = SumStep(f, g, s)
      BY <1>2
    <2> DEFINE h == [s \in SUBSET S |-> SumStep(f, g, s)]
    <2>2. ASSUME NEW s \in SUBSET S, s # {}
          PROVE  /\ Pick(s) \in S /\ f[Pick(s)] \in Int
                 /\ s \ {Pick(s)} \in SUBSET S
                 /\ Cardinality(s \ {Pick(s)}) = Cardinality(s) - 1
      BY <2>2, <1>0, PickIn, FS_RemoveElement
    <2>3. h \in [SUBSET S -> Int]
      BY <2>2 DEF SumStep
    <2>4. ASSUME NEW s \in SUBSET S, Cardinality(s) <= k + 1 PROVE h[s] = SumStep(f, h, s)
      <3>1. CASE s = {}
        BY <3>1 DEF SumStep
      <3>2. CASE s # {}
        <4> DEFINE r == s \ {Pick(s)}
        <4>1. r \in SUBSET S /\ Cardinality(r) <= k
          BY <1>0, <2>2, <2>4, <3>2
        <4>2. h[r] = g[r]
          BY <2>1, <4>1
        <4> QED
          BY <3>2, <4>2 DEF SumStep
      <3> QED
        BY <3>1, <3>2
    <2> QED
      BY <2>3, <2>4
  <1>3. Bad = {}
    <2> SUFFICES ASSUME Bad # {} PROVE FALSE
      OBVIOUS
    <2> HIDE DEF Upto
    <2>1. PICK m \in Bad : \A k \in Bad : m <= k
      BY LeastNatural
    <2>2. m \in Nat /\ ~Upto(m)
      OBVIOUS
    <2>3. m # 0
      BY <1>1, <2>2
    <2>4. m - 1 \in Nat /\ Upto(m - 1)
      BY <2>1, <2>2, <2>3
    <2>5. Upto((m - 1) + 1)
      BY <2>4, <1>2
    <2>6. (m - 1) + 1 = m
      BY <2>2
    <2> QED
      BY <2>2, <2>5, <2>6
  <1>4. Upto(Cardinality(S))
    <2> HIDE DEF Upto
    <2>1. Cardinality(S) \in Nat
      BY <1>0
    <2> QED
      BY <1>3, <2>1
  <1>5. PICK g \in [SUBSET S -> Int] :
            \A s \in SUBSET S : Cardinality(s) <= Cardinality(S) => g[s] = SumStep(f, g, s)
    BY <1>4
  <1>6. \A s \in SUBSET S : Cardinality(s) <= Cardinality(S)
    BY FS_Subset
  <1>7. g = [s \in SUBSET S |-> SumStep(f, g, s)]
    BY <1>5, <1>6
  <1> QED
    BY <1>7

\* The sums of f over all subsets of S.
SumOf(f, S) == CHOOSE g : g = [s \in SUBSET S |-> SumStep(f, g, s)]

(* Total is the value of that function, which satisfies its recursion.     *)
LEMMA TotalUnfold ==
    ASSUME NEW S, IsFiniteSet(S), NEW f, \A x \in S : f[x] \in Int
    PROVE  /\ SumOf(f, S) = [s \in SUBSET S |-> SumStep(f, SumOf(f, S), s)]
           /\ Total(f, S) = SumOf(f, S)[S]
  <1>1. SumOf(f, S) = [s \in SUBSET S |-> SumStep(f, SumOf(f, S), s)]
    BY SumExists DEF SumOf
  <1>2. Total(f, S) = SumOf(f, S)[S]
    BY DEF Total, SumOf, SumStep, MapThenSumSet, MapThenFoldSet, Pick
  <1> QED
    BY <1>1, <1>2

(* Induction along the recursion: what holds of a set as soon as it holds  *)
(* without the element taken next holds of the whole set.                  *)
LEMMA PickInduction ==
    ASSUME NEW S, IsFiniteSet(S), NEW Good,
           \A T \in SUBSET S : (T # {} => T \ {Pick(T)} \in Good) => T \in Good
    PROVE  S \in Good
  <1> DEFINE Bad == (SUBSET S) \ Good
  <1>1. SUFFICES ASSUME Bad # {} PROVE FALSE
    OBVIOUS
  <1>2. PICK T \in Bad : \A U \in Bad : U \subseteq T => U = T
    <2>1. Bad \subseteq SUBSET S
      OBVIOUS
    <2> HIDE DEF Bad
    <2> QED
      BY <1>1, <2>1, MinimalSubset
  <1>3. T # {} /\ T \ {Pick(T)} \notin Good
    OBVIOUS
  <1>4. T \ {Pick(T)} \in Bad /\ T \ {Pick(T)} # T
    BY <1>3, PickIn
  <1> QED
    BY <1>2, <1>4

(* One step of the recursion, for every subset.                            *)
LEMMA SumOfStep ==
    ASSUME NEW S, IsFiniteSet(S), NEW f, \A x \in S : f[x] \in Int, NEW T \in SUBSET S
    PROVE  SumOf(f, S)[T] = IF T = {} THEN 0 ELSE f[Pick(T)] + SumOf(f, S)[T \ {Pick(T)}]
  <1>1. SumOf(f, S) = [s \in SUBSET S |-> SumStep(f, SumOf(f, S), s)]
    BY TotalUnfold
  <1>2. SumOf(f, S)[T] = SumStep(f, SumOf(f, S), T)
    BY <1>1
  <1> QED
    BY <1>2 DEF SumStep

----------------------------------------------------------------------------
(* The total of integers is an integer.                                    *)
LEMMA TotalType ==
    ASSUME NEW S, IsFiniteSet(S), NEW f, \A x \in S : f[x] \in Int
    PROVE  Total(f, S) \in Int
  <1> DEFINE F == SumOf(f, S)
             Good == {T \in SUBSET S : F[T] \in Int}
  <1>1. ASSUME NEW T \in SUBSET S, T # {} => T \ {Pick(T)} \in Good PROVE T \in Good
    <2>1. F[T] = IF T = {} THEN 0 ELSE f[Pick(T)] + F[T \ {Pick(T)}]
      BY SumOfStep
    <2>2. T # {} => Pick(T) \in S
      BY PickIn
    <2> HIDE DEF F
    <2> QED
      BY <1>1, <2>1, <2>2
  <1>2. S \in Good
    <2> HIDE DEF Good
    <2> QED
      BY <1>1, PickInduction
  <1>3. Total(f, S) = SumOf(f, S)[S]
    BY TotalUnfold
  <1> QED
    BY <1>2, <1>3

(* Totals add up.                                                          *)
LEMMA TotalPlus ==
    ASSUME NEW S, IsFiniteSet(S), NEW f, NEW g, NEW h,
           \A x \in S : f[x] \in Int /\ g[x] \in Int /\ h[x] = f[x] + g[x]
    PROVE  Total(h, S) = Total(f, S) + Total(g, S)
  <1> DEFINE F == SumOf(f, S)
             G == SumOf(g, S)
             H == SumOf(h, S)
             Good == {T \in SUBSET S : F[T] \in Int /\ G[T] \in Int /\ H[T] = F[T] + G[T]}
  <1>0. \A x \in S : h[x] \in Int
    OBVIOUS
  <1>1. ASSUME NEW T \in SUBSET S, T # {} => T \ {Pick(T)} \in Good PROVE T \in Good
    <2>1. F[T] = IF T = {} THEN 0 ELSE f[Pick(T)] + F[T \ {Pick(T)}]
      BY SumOfStep
    <2>2. G[T] = IF T = {} THEN 0 ELSE g[Pick(T)] + G[T \ {Pick(T)}]
      BY SumOfStep
    <2>3. H[T] = IF T = {} THEN 0 ELSE h[Pick(T)] + H[T \ {Pick(T)}]
      BY <1>0, SumOfStep
    <2>4. T # {} => Pick(T) \in S
      BY PickIn
    <2> HIDE DEF F, G, H
    <2> QED
      BY <1>1, <2>1, <2>2, <2>3, <2>4
  <1>2. S \in Good
    <2> HIDE DEF Good
    <2> QED
      BY <1>1, PickInduction
  <1>3. Total(f, S) = F[S] /\ Total(g, S) = G[S] /\ Total(h, S) = H[S]
    BY <1>0, TotalUnfold
  <1> QED
    BY <1>2, <1>3

(* The total of what is not negative is not negative.                      *)
LEMMA TotalNat ==
    ASSUME NEW S, IsFiniteSet(S), NEW f, \A x \in S : f[x] \in Nat
    PROVE  Total(f, S) \in Nat
  <1> DEFINE F == SumOf(f, S)
             Good == {T \in SUBSET S : F[T] \in Nat}
  <1>0. \A x \in S : f[x] \in Int
    OBVIOUS
  <1>1. ASSUME NEW T \in SUBSET S, T # {} => T \ {Pick(T)} \in Good PROVE T \in Good
    <2>1. F[T] = IF T = {} THEN 0 ELSE f[Pick(T)] + F[T \ {Pick(T)}]
      BY SumOfStep
    <2>2. T # {} => Pick(T) \in S
      BY PickIn
    <2> HIDE DEF F
    <2> QED
      BY <1>1, <2>1, <2>2
  <1>2. S \in Good
    <2> HIDE DEF Good
    <2> QED
      BY <1>1, PickInduction
  <1>3. Total(f, S) = SumOf(f, S)[S]
    BY <1>0, TotalUnfold
  <1> QED
    BY <1>2, <1>3

(* What is nonzero at one place only sums to the value there.              *)
LEMMA TotalSingle ==
    ASSUME NEW S, IsFiniteSet(S), NEW x \in S, NEW f, f[x] \in Int, \A y \in S \ {x} : f[y] = 0
    PROVE  Total(f, S) = f[x]
  <1> DEFINE F == SumOf(f, S)
             Good == {T \in SUBSET S : F[T] = IF x \in T THEN f[x] ELSE 0}
  <1>0. \A y \in S : f[y] \in Int
    OBVIOUS
  <1>1. ASSUME NEW T \in SUBSET S, T # {} => T \ {Pick(T)} \in Good PROVE T \in Good
    <2>1. F[T] = IF T = {} THEN 0 ELSE f[Pick(T)] + F[T \ {Pick(T)}]
      BY <1>0, SumOfStep
    <2>2. T # {} => Pick(T) \in T
      BY PickIn
    <2> HIDE DEF F
    <2>3. CASE T # {} /\ Pick(T) = x
      BY <1>1, <2>1, <2>2, <2>3
    <2>4. CASE T # {} /\ Pick(T) # x
      BY <1>1, <2>1, <2>2, <2>4
    <2> QED
      BY <2>1, <2>3, <2>4
  <1>2. S \in Good
    <2> HIDE DEF Good
    <2> QED
      BY <1>1, PickInduction
  <1>3. Total(f, S) = SumOf(f, S)[S]
    BY <1>0, TotalUnfold
  <1> QED
    BY <1>2, <1>3

(* Two functions that agree on S have the same total.                      *)
LEMMA TotalSame ==
    ASSUME NEW S, IsFiniteSet(S), NEW f, NEW g, \A x \in S : f[x] \in Int /\ g[x] = f[x]
    PROVE  Total(g, S) = Total(f, S)
  <1> DEFINE F == SumOf(f, S)
             G == SumOf(g, S)
             Good == {T \in SUBSET S : G[T] = F[T]}
  <1>1. ASSUME NEW T \in SUBSET S, T # {} => T \ {Pick(T)} \in Good PROVE T \in Good
    <2>1. F[T] = IF T = {} THEN 0 ELSE f[Pick(T)] + F[T \ {Pick(T)}]
      BY SumOfStep
    <2>2. G[T] = IF T = {} THEN 0 ELSE g[Pick(T)] + G[T \ {Pick(T)}]
      BY SumOfStep
    <2>3. T # {} => Pick(T) \in S
      BY PickIn
    <2> HIDE DEF F, G
    <2> QED
      BY <1>1, <2>1, <2>2, <2>3
  <1>2. S \in Good
    <2> HIDE DEF Good
    <2> QED
      BY <1>1, PickInduction
  <1>3. Total(f, S) = F[S] /\ Total(g, S) = G[S]
    BY TotalUnfold
  <1> QED
    BY <1>2, <1>3

(* Changing one summand changes the total by as much.                      *)
LEMMA TotalChange ==
    ASSUME NEW S, IsFiniteSet(S), NEW x \in S, NEW f, NEW g,
           \A y \in S : f[y] \in Int, g[x] \in Int, \A y \in S \ {x} : g[y] = f[y]
    PROVE  Total(g, S) = Total(f, S) + g[x] - f[x]
  <1> DEFINE d == [y \in S |-> g[y] - f[y]]
  <1>1. \A y \in S : f[y] \in Int /\ d[y] \in Int /\ g[y] = f[y] + d[y]
    OBVIOUS
  <1>2. Total(d, S) = g[x] - f[x]
    <2>1. d[x] \in Int /\ \A y \in S \ {x} : d[y] = 0
      OBVIOUS
    <2>2. Total(d, S) = d[x]
      BY <2>1, TotalSingle
    <2> QED
      BY <2>2
  <1> HIDE DEF d
  <1>3. Total(g, S) = Total(f, S) + Total(d, S)
    BY <1>1, TotalPlus
  <1>4. Total(f, S) \in Int
    BY TotalType
  <1> QED
    BY <1>1, <1>2, <1>3, <1>4

(* Totals are monotone.                                                    *)
LEMMA TotalLeq ==
    ASSUME NEW S, IsFiniteSet(S), NEW f, NEW g,
           \A x \in S : f[x] \in Int /\ g[x] \in Int /\ f[x] <= g[x]
    PROVE  Total(f, S) <= Total(g, S)
  <1> DEFINE d == [y \in S |-> g[y] - f[y]]
  <1>1. \A y \in S : f[y] \in Int /\ d[y] \in Int /\ g[y] = f[y] + d[y] /\ d[y] \in Nat
    OBVIOUS
  <1> HIDE DEF d
  <1>2. Total(g, S) = Total(f, S) + Total(d, S)
    BY <1>1, TotalPlus
  <1>3. Total(f, S) \in Int /\ Total(d, S) \in Nat
    BY <1>1, TotalType, TotalNat
  <1> QED
    BY <1>2, <1>3

(* Zeros sum to zero.                                                      *)
LEMMA TotalZero ==
    ASSUME NEW S, IsFiniteSet(S), NEW f, \A x \in S : f[x] = 0
    PROVE  Total(f, S) = 0
  <1>1. \A x \in S : f[x] \in Int /\ f[x] = f[x] + f[x]
    OBVIOUS
  <1>2. Total(f, S) = Total(f, S) + Total(f, S)
    BY <1>1, TotalPlus
  <1>3. Total(f, S) \in Int
    BY <1>1, TotalType
  <1>4. PICK n \in Int : n = Total(f, S)
    BY <1>3
  <1>5. n = n + n
    BY <1>2, <1>4
  <1>6. n = 0
    BY <1>5
  <1> QED
    BY <1>4, <1>6

(* A summand of naturals is at most their total.                           *)
LEMMA TotalAtLeast ==
    ASSUME NEW S, IsFiniteSet(S), NEW x \in S, NEW f, \A y \in S : f[y] \in Nat
    PROVE  f[x] <= Total(f, S)
  <1> DEFINE g == [y \in S |-> IF y = x THEN f[x] ELSE 0]
  <1>1. /\ g[x] = f[x] /\ g[x] \in Int /\ \A y \in S \ {x} : g[y] = 0
        /\ \A y \in S : g[y] \in Int /\ f[y] \in Int /\ g[y] <= f[y]
    OBVIOUS
  <1> HIDE DEF g
  <1>2. Total(g, S) = g[x]
    BY <1>1, TotalSingle
  <1>3. Total(g, S) <= Total(f, S)
    BY <1>1, TotalLeq
  <1> QED
    BY <1>1, <1>2, <1>3

(* The total of a part is that of the whole with the rest set to zero.     *)
LEMMA TotalPart ==
    ASSUME NEW S, IsFiniteSet(S), NEW f, \A x \in S : f[x] \in Int, NEW T \in SUBSET S
    PROVE  Total(f, T) = Total([x \in S |-> IF x \in T THEN f[x] ELSE 0], S)
  <1> DEFINE part(U) == [x \in S |-> IF x \in U THEN f[x] ELSE 0]
             F == SumOf(f, T)
             Good == {U \in SUBSET T : F[U] = Total(part(U), S)}
  <1>0. IsFiniteSet(T) /\ \A x \in T : f[x] \in Int
    BY FS_Subset
  <1>1. ASSUME NEW U \in SUBSET T, U # {} => U \ {Pick(U)} \in Good PROVE U \in Good
    <2>1. F[U] = IF U = {} THEN 0 ELSE f[Pick(U)] + F[U \ {Pick(U)}]
      BY <1>0, SumOfStep
    <2> HIDE DEF F
    <2>2. CASE U = {}
      <3>1. \A x \in S : part(U)[x] = 0
        BY <2>2
      <3>2. Total(part(U), S) = 0
        BY <3>1, TotalZero
      <3> QED
        BY <2>1, <2>2, <3>2
    <2>3. CASE U # {}
      <3> DEFINE y == Pick(U)
                 V == U \ {y}
      <3>1. y \in U /\ y \in S /\ V \in Good
        BY <1>1, <2>3, PickIn
      <3>2. /\ \A x \in S : part(V)[x] \in Int
            /\ part(U)[y] = f[y] /\ part(V)[y] = 0 /\ f[y] \in Int
            /\ \A x \in S \ {y} : part(U)[x] = part(V)[x]
        BY <3>1
      <3>3. F[V] = Total(part(V), S)
        BY <3>1
      <3>4. F[U] = f[y] + F[V]
        BY <2>1, <2>3
      <3> HIDE DEF part, y, V
      <3>5. Total(part(U), S) = Total(part(V), S) + part(U)[y] - part(V)[y]
        BY <3>1, <3>2, TotalChange
      <3>6. Total(part(V), S) \in Int
        BY <3>2, TotalType
      <3> QED
        BY <3>2, <3>3, <3>4, <3>5, <3>6
    <2> QED
      BY <2>2, <2>3
  <1>2. T \in Good
    <2> HIDE DEF Good
    <2> QED
      BY <1>0, <1>1, PickInduction
  <1>3. Total(f, T) = F[T]
    BY <1>0, TotalUnfold
  <1> QED
    BY <1>2, <1>3

(* The total of some naturals is at most that of all.                      *)
LEMMA TotalSub ==
    ASSUME NEW S, IsFiniteSet(S), NEW f, NEW g, \A x \in S : f[x] \in Nat,
           NEW T \in SUBSET S, \A x \in T : g[x] = f[x]
    PROVE  Total(g, T) <= Total(f, S)
  <1> DEFINE part == [x \in S |-> IF x \in T THEN f[x] ELSE 0]
  <1>1. \A x \in S : part[x] \in Int /\ f[x] \in Int /\ part[x] <= f[x]
    OBVIOUS
  <1>2. Total(f, T) = Total(part, S)
    BY <1>1, TotalPart
  <1> HIDE DEF part
  <1>3. Total(part, S) <= Total(f, S)
    BY <1>1, TotalLeq
  <1>4. IsFiniteSet(T)
    BY FS_Subset
  <1>5. Total(g, T) = Total(f, T)
    BY <1>1, <1>4, TotalSame
  <1> QED
    BY <1>2, <1>3, <1>5

(* One summand more.                                                       *)
LEMMA TotalAdd ==
    ASSUME NEW S, IsFiniteSet(S), NEW x, x \notin S, NEW f, NEW g,
           \A y \in S : f[y] \in Int /\ g[y] = f[y], g[x] \in Int
    PROVE  Total(g, S \cup {x}) = Total(f, S) + g[x]
  <1> DEFINE R == S \cup {x}
             part == [y \in R |-> IF y \in S THEN g[y] ELSE 0]
  <1>1. IsFiniteSet(R) /\ x \in R /\ \A y \in R : g[y] \in Int
    BY FS_AddElement
  <1>2. Total(g, S) = Total(part, R)
    BY <1>1, TotalPart
  <1>3. /\ \A y \in R : part[y] \in Int
        /\ part[x] = 0 /\ \A y \in R \ {x} : g[y] = part[y]
    OBVIOUS
  <1> HIDE DEF part, R
  <1>4. Total(g, R) = Total(part, R) + g[x] - part[x]
    BY <1>1, <1>3, TotalChange
  <1>5. Total(g, S) = Total(f, S) /\ Total(f, S) \in Int
    BY TotalSame, TotalType
  <1> QED
    BY <1>2, <1>3, <1>4, <1>5 DEF R

(* One summand less.                                                       *)
LEMMA TotalRemove ==
    ASSUME NEW S, IsFiniteSet(S), NEW x \in S, NEW f, NEW g,
           \A y \in S : f[y] \in Int, \A y \in S \ {x} : g[y] = f[y]
    PROVE  Total(g, S \ {x}) = Total(f, S) - f[x]
  <1> DEFINE R == S \ {x}
  <1>1. IsFiniteSet(R) /\ x \notin R /\ R \cup {x} = S
    BY FS_RemoveElement
  <1>2. f[x] \in Int /\ \A y \in R : g[y] \in Int /\ f[y] = g[y]
    OBVIOUS
  <1> HIDE DEF R
  <1>3. Total(f, R \cup {x}) = Total(g, R) + f[x]
    BY <1>1, <1>2, TotalAdd
  <1>4. Total(g, R) \in Int
    BY <1>1, <1>2, TotalType
  <1>5. Total(f, S) = Total(g, R) + f[x]
    BY <1>1, <1>3
  <1> QED
    BY <1>2, <1>4, <1>5 DEF R

(* A finite set of naturals that is not empty has a greatest element.      *)
LEMMA GreatestNatural ==
    ASSUME NEW S, IsFiniteSet(S), S \subseteq Nat, S # {}
    PROVE  \E m \in S : \A k \in S : k <= m
  <1> DEFINE id == [x \in S |-> x]
             Gaps == {Total(id, S) - x : x \in S}
  <1>1. \A x \in S : id[x] \in Nat /\ id[x] = x
    OBVIOUS
  <1> HIDE DEF id
  <1>2. Total(id, S) \in Nat
    BY <1>1, TotalNat
  <1>3. ASSUME NEW x \in S PROVE x <= Total(id, S)
    <2>1. id[x] <= Total(id, S)
      BY <1>1, TotalAtLeast
    <2> QED
      BY <1>1, <2>1
  <1>4. Gaps \subseteq Nat /\ Gaps # {}
    <2>1. PICK b \in Nat : b = Total(id, S)
      BY <1>2
    <2>2. \A x \in S : x \in Nat /\ b - x \in Nat
      BY <1>3, <2>1
    <2> QED
      BY <2>1, <2>2
  <1>5. PICK d \in Gaps : \A e \in Gaps : d <= e
    <2> HIDE DEF Gaps
    <2> QED
      BY <1>4, LeastNatural
  <1>6. PICK m \in S : d = Total(id, S) - m
    OBVIOUS
  <1>7. ASSUME NEW k \in S PROVE k <= m
    <2>1. d <= Total(id, S) - k
      BY <1>5
    <2>2. PICK b \in Nat : b = Total(id, S)
      BY <1>2
    <2>3. k \in Nat /\ m \in Nat /\ b - m <= b - k
      BY <1>6, <2>1, <2>2
    <2> QED
      BY <2>3
  <1> QED
    BY <1>7
=============================================================================
