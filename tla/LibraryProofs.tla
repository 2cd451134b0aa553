----------------------------- MODULE LibraryProofs --------------------------
(***************************************************************************)
(* Facts about the library objects the components are built from, used by  *)
(* the proofs about them: the least member of a set of numbers or of sets, *)
(* the sum of counts, and what each call of a semaphore preserves.         *)
(***************************************************************************)
EXTENDS AsyncSemaphore, Sums, FiniteSetTheorems, WellFoundedInduction, TLAPS

(* A set of natural numbers has a least member.                            *)
LEMMA LeastNat ==
  ASSUME NEW T \in SUBSET Nat, T # {}
  PROVE  \E i \in T : \A j \in T : i <= j
<1> DEFINE R == {ss \in Nat \X Nat : ss[1] < ss[2]}
<1>1. IsWellFoundedOn(R, Nat)
  BY NatLessThanWellFounded DEF OpToRel
<1>2. PICK i \in T : \A j \in T : ~(<<j, i>> \in R)
  <2> HIDE DEF R
  <2> QED BY <1>1, WFMin
<1>3. \A j \in T : <<j, i>> \in Nat \X Nat
  OBVIOUS
<1>4. \A j \in T : ~(j < i)
  BY <1>2, <1>3
<1> QED
  BY <1>4

(* ... and a set of positions a last one.                                  *)
LEMMA LastPosition ==
  ASSUME NEW n \in Nat, NEW T \in SUBSET (1 .. n), T # {}
  PROVE  \E i \in T : \A j \in T : j <= i
<1> DEFINE U == {n - i : i \in T}
<1>1. U \in SUBSET Nat /\ U # {}
  <2>1. \A i \in T : i \in 1 .. n
    OBVIOUS
  <2>2. \A i \in T : n - i \in Nat
    BY <2>1
  <2> QED
    BY <2>2
<1>2. PICK u \in U : \A v \in U : u <= v
  <2> HIDE DEF U
  <2> QED BY <1>1, LeastNat
<1>3. PICK i \in T : u = n - i
  OBVIOUS
<1>4. ASSUME NEW j \in T PROVE j <= i
  <2>1. u <= n - j
    BY <1>2
  <2>2. i \in 1 .. n /\ j \in 1 .. n
    OBVIOUS
  <2> QED
    BY <1>3, <2>1, <2>2
<1> QED
  BY <1>4

(* Among sets of members of S is one from which none can be taken.         *)
LEMMA SmallestSet ==
  ASSUME NEW S, IsFiniteSet(S), NEW B \in SUBSET (SUBSET S), B # {}
  PROVE  \E T \in B : \A x \in T : T \ {x} \notin B
<1> DEFINE Sizes == {Cardinality(T) : T \in B}
<1>1. \A T \in SUBSET S : IsFiniteSet(T) /\ Cardinality(T) \in Nat
  BY FS_Subset, FS_CardinalityType
<1>2. Sizes \in SUBSET Nat /\ Sizes # {}
  BY <1>1
<1>3. PICK T \in B : \A U \in B : Cardinality(T) <= Cardinality(U)
  <2>1. PICK n \in Sizes : \A m \in Sizes : n <= m
    <3> HIDE DEF Sizes
    <3> QED BY <1>2, LeastNat
  <2> QED
    BY <2>1
<1>4. ASSUME NEW x \in T PROVE Cardinality(T \ {x}) < Cardinality(T)
  BY <1>1, FS_RemoveElement
<1> QED
  BY <1>1, <1>3, <1>4

-----------------------------------------------------------------------------
(* The sums of the parts of S, as the fold computes them: from the empty   *)
(* set up, one member at a time.                                           *)

First(T) == CHOOSE x \in T : TRUE

Adds(g, f, D) ==
  g = [T \in D |-> IF T = {} THEN 0 ELSE f[First(T)] + g[T \ {First(T)}]]

PartialSums(f, S) == CHOOSE g : Adds(g, f, SUBSET S)

LEMMA SumOverIs ==
  ASSUME NEW f, NEW S
  PROVE  SumOver(f, S) = PartialSums(f, S)[S]
BY DEF SumOver, FoldFunctionOnSet, MapThenFoldSet, PartialSums, Adds, First

LEMMA AddsOne ==
  ASSUME NEW g, NEW f, NEW D, Adds(g, f, D)
  PROVE  \A T \in D : g[T] = IF T = {} THEN 0 ELSE f[First(T)] + g[T \ {First(T)}]
BY DEF Adds

LEMMA FirstIn ==
  ASSUME NEW T, T # {}
  PROVE  First(T) \in T
BY DEF First

LEMMA PartialSumsExist ==
  ASSUME NEW f, NEW S, IsFiniteSet(S)
  PROVE  Adds(PartialSums(f, S), f, SUBSET S)
<1> DEFINE UpTo(n) == {T \in SUBSET S : Cardinality(T) <= n}
           Bad == {n \in Nat : ~ \E g : Adds(g, f, UpTo(n))}
<1>1. \A T \in SUBSET S : IsFiniteSet(T) /\ Cardinality(T) \in Nat
  BY FS_Subset, FS_CardinalityType
<1>2. Bad = {}
  <2> SUFFICES ASSUME Bad # {} PROVE FALSE
    OBVIOUS
  <2>1. PICK n \in Bad : \A m \in Bad : n <= m
    <3>1. Bad \in SUBSET Nat
      OBVIOUS
    <3> HIDE DEF Bad
    <3> QED BY <3>1, LeastNat
  <2>2. n # 0
    <3> SUFFICES ASSUME n = 0 PROVE FALSE
      OBVIOUS
    <3>1. \A T \in UpTo(0) : T = {}
      BY <1>1, FS_EmptySet
    <3> DEFINE g0 == [T \in UpTo(0) |-> 0]
    <3>2. Adds(g0, f, UpTo(0))
      <4> HIDE DEF UpTo
      <4> QED BY <3>1 DEF Adds
    <3> HIDE DEF UpTo, g0
    <3>3. ~ \E g : Adds(g, f, UpTo(0))
      BY <2>1
    <3> QED
      BY <3>2, <3>3
  <2>3. PICK g : Adds(g, f, UpTo(n - 1))
    <3>1. n \in Nat /\ n - 1 \in Nat /\ ~(n <= n - 1)
      BY <2>2
    <3>2. n - 1 \notin Bad
      <4> HIDE DEF Bad
      <4> QED BY <2>1, <3>1
    <3> HIDE DEF UpTo
    <3> QED
      BY <3>1, <3>2
  <2> DEFINE g1 == [T \in UpTo(n) |-> IF T = {} THEN 0 ELSE f[First(T)] + g[T \ {First(T)}]]
  <2>4. ASSUME NEW T \in UpTo(n), T # {}
        PROVE  T \ {First(T)} \in UpTo(n - 1) /\ T \ {First(T)} \in UpTo(n)
    <3>1. First(T) \in T
      BY <2>4, FirstIn
    <3>2. Cardinality(T \ {First(T)}) = Cardinality(T) - 1
      BY <1>1, <3>1, FS_RemoveElement
    <3> QED
      BY <1>1, <3>2
  <2>5. \A T \in UpTo(n - 1) : g[T] = IF T = {} THEN 0 ELSE f[First(T)] + g[T \ {First(T)}]
    <3> HIDE DEF UpTo
    <3> QED BY <2>3 DEF Adds
  <2>6. \A T \in UpTo(n) : g1[T] = IF T = {} THEN 0 ELSE f[First(T)] + g[T \ {First(T)}]
    <3> HIDE DEF UpTo
    <3> QED OBVIOUS
  <2>7. \A T \in UpTo(n - 1) : T \in UpTo(n)
    BY <1>1
  <2>8. \A T \in UpTo(n - 1) : g1[T] = g[T]
    <3> HIDE DEF UpTo, g1
    <3> QED BY <2>5, <2>6, <2>7
  <2>9. \A T \in UpTo(n) : T # {} => g1[T \ {First(T)}] = g[T \ {First(T)}]
    <3> HIDE DEF UpTo, g1
    <3> QED BY <2>4, <2>8
  <2>10. Adds(g1, f, UpTo(n))
    <3> HIDE DEF UpTo
    <3> QED BY <2>9 DEF Adds
  <2> QED
    BY <2>1, <2>10
<1>3. Cardinality(S) \in Nat /\ \A T \in SUBSET S : Cardinality(T) <= Cardinality(S)
  BY FS_Subset, FS_CardinalityType
<1>4. UpTo(Cardinality(S)) = SUBSET S
  BY <1>3
<1>5. \E g : Adds(g, f, SUBSET S)
  BY <1>2, <1>3, <1>4
<1> QED
  BY <1>5 DEF PartialSums

(* A sum depends only on what is summed, whatever larger set it is part of.*)
LEMMA PartialSumsSame ==
  ASSUME NEW f, NEW S, IsFiniteSet(S), NEW g, NEW R, IsFiniteSet(R),
         NEW T \in SUBSET (S \cap R), \A x \in T : f[x] = g[x]
  PROVE  PartialSums(f, S)[T] = PartialSums(g, R)[T]
<1> DEFINE p == PartialSums(f, S)
           q == PartialSums(g, R)
           Bad == {U \in SUBSET T : p[U] # q[U]}
<1>1. \A U \in SUBSET S : p[U] = IF U = {} THEN 0 ELSE f[First(U)] + p[U \ {First(U)}]
  BY PartialSumsExist, AddsOne
<1>2. \A U \in SUBSET R : q[U] = IF U = {} THEN 0 ELSE g[First(U)] + q[U \ {First(U)}]
  BY PartialSumsExist, AddsOne
<1> HIDE DEF p, q
<1>3. Bad = {}
  <2> SUFFICES ASSUME Bad # {} PROVE FALSE
    OBVIOUS
  <2>1. IsFiniteSet(T)
    BY FS_Subset
  <2>2. PICK U \in Bad : \A x \in U : U \ {x} \notin Bad
    <3>1. Bad \in SUBSET (SUBSET T)
      OBVIOUS
    <3> HIDE DEF Bad
    <3> QED BY <2>1, <3>1, SmallestSet
  <2>3. U # {}
    BY <1>1, <1>2
  <2>4. First(U) \in U
    BY <2>3, FirstIn
  <2>5. p[U \ {First(U)}] = q[U \ {First(U)}]
    BY <2>2, <2>4
  <2>6. p[U] = f[First(U)] + p[U \ {First(U)}]
    BY <1>1, <2>3
  <2>7. q[U] = g[First(U)] + q[U \ {First(U)}]
    BY <1>2, <2>3
  <2> QED
    BY <2>4, <2>5, <2>6, <2>7
<1> QED
  BY <1>3 DEF p, q

LEMMA PartialSumsAre ==
  ASSUME NEW f, NEW S, IsFiniteSet(S), NEW T \in SUBSET S
  PROVE  PartialSums(f, S)[T] = SumOver(f, T)
<1>1. IsFiniteSet(T) /\ T \in SUBSET (S \cap T)
  BY FS_Subset
<1> QED
  BY <1>1, PartialSumsSame, SumOverIs

-----------------------------------------------------------------------------
(* The facts about sums that the proofs use.                               *)

LEMMA SumOverEmpty ==
  ASSUME NEW f
  PROVE  SumOver(f, {}) = 0
<1>1. Adds(PartialSums(f, {}), f, SUBSET {})
  BY PartialSumsExist, FS_EmptySet
<1> QED
  BY <1>1, SumOverIs, AddsOne

LEMMA SumOverSame ==
  ASSUME NEW S, IsFiniteSet(S), NEW f, NEW g, \A x \in S : f[x] = g[x]
  PROVE  SumOver(f, S) = SumOver(g, S)
BY PartialSumsSame, SumOverIs

LEMMA SumOverFirst ==
  ASSUME NEW S, IsFiniteSet(S), S # {}, NEW f
  PROVE  SumOver(f, S) = f[First(S)] + SumOver(f, S \ {First(S)})
<1> DEFINE p == PartialSums(f, S)
<1>1. \A T \in SUBSET S : p[T] = IF T = {} THEN 0 ELSE f[First(T)] + p[T \ {First(T)}]
  BY PartialSumsExist, AddsOne
<1>2. p[S] = f[First(S)] + p[S \ {First(S)}]
  <2> HIDE DEF p
  <2> QED BY <1>1
<1> QED
  BY <1>2, PartialSumsAre

LEMMA SumOverInt ==
  ASSUME NEW S, IsFiniteSet(S), NEW f, \A x \in S : f[x] \in Int
  PROVE  SumOver(f, S) \in Int
<1> DEFINE Bad == {T \in SUBSET S : SumOver(f, T) \notin Int}
<1>1. Bad = {}
  <2> SUFFICES ASSUME Bad # {} PROVE FALSE
    OBVIOUS
  <2>1. PICK T \in Bad : \A x \in T : T \ {x} \notin Bad
    <3>1. Bad \in SUBSET (SUBSET S)
      OBVIOUS
    <3> HIDE DEF Bad
    <3> QED BY <3>1, SmallestSet
  <2>2. IsFiniteSet(T) /\ T # {}
    <3>1. SumOver(f, {}) = 0
      BY SumOverEmpty
    <3>2. T \in SUBSET S /\ T # {}
      BY <2>1, <3>1
    <3> QED
      BY <3>2, FS_Subset
  <2>3. First(T) \in T /\ SumOver(f, T) = f[First(T)] + SumOver(f, T \ {First(T)})
    BY <2>2, FirstIn, SumOverFirst
  <2>4. SumOver(f, T \ {First(T)}) \in Int
    BY <2>1, <2>3
  <2> QED
    BY <2>1, <2>3, <2>4
<1> QED
  BY <1>1

(* Any member may be taken out first.                                      *)
LEMMA SumOverMember ==
  ASSUME NEW S, IsFiniteSet(S), NEW f, \A x \in S : f[x] \in Int, NEW y \in S
  PROVE  SumOver(f, S) = f[y] + SumOver(f, S \ {y})
<1> DEFINE Bad == {T \in SUBSET S : \E x \in T : SumOver(f, T) # f[x] + SumOver(f, T \ {x})}
<1>1. \A T \in SUBSET S : IsFiniteSet(T) /\ SumOver(f, T) \in Int
  <2> TAKE T \in SUBSET S
  <2>1. IsFiniteSet(T)
    BY FS_Subset
  <2> QED
    BY <2>1, SumOverInt
<1>2. Bad = {}
  <2> SUFFICES ASSUME Bad # {} PROVE FALSE
    OBVIOUS
  <2>1. PICK T \in Bad : \A x \in T : T \ {x} \notin Bad
    <3>1. Bad \in SUBSET (SUBSET S)
      OBVIOUS
    <3> HIDE DEF Bad
    <3> QED BY <3>1, SmallestSet
  <2>2. PICK x \in T : SumOver(f, T) # f[x] + SumOver(f, T \ {x})
    BY <2>1
  <2> DEFINE c == First(T)
  <2>3. IsFiniteSet(T) /\ c \in T /\ SumOver(f, T) = f[c] + SumOver(f, T \ {c})
    BY <1>1, <2>2, FirstIn, SumOverFirst
  <2> HIDE DEF c
  <2>4. x # c
    BY <2>2, <2>3
  <2>5. SumOver(f, T \ {c}) = f[x] + SumOver(f, (T \ {c}) \ {x})
    BY <2>1, <2>3, <2>4
  <2>6. SumOver(f, T \ {x}) = f[c] + SumOver(f, (T \ {x}) \ {c})
    BY <2>1, <2>3, <2>4
  <2>7. (T \ {c}) \ {x} = (T \ {x}) \ {c}
    OBVIOUS
  <2>8. /\ f[x] \in Int /\ f[c] \in Int
        /\ SumOver(f, T) \in Int
        /\ SumOver(f, (T \ {x}) \ {c}) \in Int
    BY <1>1, <2>3
  <2>9. SumOver(f, T \ {c}) = f[x] + SumOver(f, (T \ {x}) \ {c})
    BY <2>5, <2>7
  <2> QED
    BY <2>2, <2>3, <2>6, <2>8, <2>9
<1> QED
  BY <1>2

(* Counts are never negative, and none exceeds the sum.                    *)
LEMMA SumOverNat ==
  ASSUME NEW S, IsFiniteSet(S), NEW f, \A x \in S : f[x] \in Nat
  PROVE  SumOver(f, S) \in Nat /\ \A x \in S : f[x] <= SumOver(f, S)
<1> DEFINE Bad == {T \in SUBSET S : SumOver(f, T) \notin Nat}
<1>1. Bad = {}
  <2> SUFFICES ASSUME Bad # {} PROVE FALSE
    OBVIOUS
  <2>1. PICK T \in Bad : \A x \in T : T \ {x} \notin Bad
    <3>1. Bad \in SUBSET (SUBSET S)
      OBVIOUS
    <3> HIDE DEF Bad
    <3> QED BY <3>1, SmallestSet
  <2>2. IsFiniteSet(T) /\ T # {}
    <3>1. SumOver(f, {}) = 0
      BY SumOverEmpty
    <3>2. T \in SUBSET S /\ T # {}
      BY <2>1, <3>1
    <3> QED
      BY <3>2, FS_Subset
  <2>3. First(T) \in T /\ SumOver(f, T) = f[First(T)] + SumOver(f, T \ {First(T)})
    BY <2>2, FirstIn, SumOverFirst
  <2>4. SumOver(f, T \ {First(T)}) \in Nat
    BY <2>1, <2>3
  <2> QED
    BY <2>1, <2>3, <2>4
<1>2. ASSUME NEW x \in S PROVE f[x] <= SumOver(f, S)
  <2>1. SumOver(f, S) = f[x] + SumOver(f, S \ {x})
    BY SumOverMember
  <2>2. SumOver(f, S \ {x}) \in Nat
    BY <1>1
  <2> QED
    BY <2>1, <2>2
<1> QED
  BY <1>1, <1>2

(* The larger the parts, the larger the sum.                               *)
LEMMA SumOverMonotone ==
  ASSUME NEW S, IsFiniteSet(S), NEW f, NEW g,
         \A x \in S : f[x] \in Int /\ g[x] \in Int /\ f[x] <= g[x]
  PROVE  SumOver(f, S) <= SumOver(g, S)
<1> DEFINE Bad == {T \in SUBSET S : ~(SumOver(f, T) <= SumOver(g, T))}
<1>1. \A T \in SUBSET S : IsFiniteSet(T)
  BY FS_Subset
<1>2. Bad = {}
  <2> SUFFICES ASSUME Bad # {} PROVE FALSE
    OBVIOUS
  <2>1. PICK T \in Bad : \A x \in T : T \ {x} \notin Bad
    <3>1. Bad \in SUBSET (SUBSET S)
      OBVIOUS
    <3> HIDE DEF Bad
    <3> QED BY <3>1, SmallestSet
  <2>2. IsFiniteSet(T) /\ T # {}
    <3>1. SumOver(f, {}) = 0 /\ SumOver(g, {}) = 0
      BY SumOverEmpty
    <3> QED
      BY <1>1, <2>1, <3>1
  <2> DEFINE x == First(T)
  <2>3. /\ x \in T /\ SumOver(f, T) = f[x] + SumOver(f, T \ {x})
        /\ SumOver(g, T) = g[x] + SumOver(g, T \ {x})
    BY <2>2, FirstIn, SumOverFirst
  <2> HIDE DEF x
  <2>4. SumOver(f, T \ {x}) <= SumOver(g, T \ {x})
    BY <2>1, <2>3
  <2>5. SumOver(f, T \ {x}) \in Int /\ SumOver(g, T \ {x}) \in Int
    <3>1. IsFiniteSet(T \ {x}) /\ \A y \in T \ {x} : y \in S
      BY <1>1
    <3> QED
      BY <3>1, SumOverInt
  <2>6. x \in S
    BY <2>3
  <2> QED
    BY <2>1, <2>3, <2>4, <2>5, <2>6
<1>3. S \notin Bad
  BY <1>2
<1> QED
  BY <1>3

LEMMA SumOverZero ==
  ASSUME NEW S, IsFiniteSet(S), NEW f, \A x \in S : f[x] = 0
  PROVE  SumOver(f, S) = 0
<1> DEFINE Bad == {T \in SUBSET S : SumOver(f, T) # 0}
<1>1. \A T \in SUBSET S : IsFiniteSet(T)
  BY FS_Subset
<1>2. Bad = {}
  <2> SUFFICES ASSUME Bad # {} PROVE FALSE
    OBVIOUS
  <2>1. PICK T \in Bad : \A x \in T : T \ {x} \notin Bad
    <3>1. Bad \in SUBSET (SUBSET S)
      OBVIOUS
    <3> HIDE DEF Bad
    <3> QED BY <3>1, SmallestSet
  <2>2. IsFiniteSet(T) /\ T # {}
    BY <1>1, <2>1, SumOverEmpty
  <2>3. First(T) \in T /\ SumOver(f, T) = f[First(T)] + SumOver(f, T \ {First(T)})
    BY <2>2, FirstIn, SumOverFirst
  <2>4. SumOver(f, T \ {First(T)}) = 0 /\ f[First(T)] = 0
    BY <2>1, <2>3
  <2> QED
    BY <2>1, <2>3, <2>4
<1>3. S \notin Bad
  BY <1>2
<1> QED
  BY <1>3

\* Ones for the members of R, zeros for the others.
LEMMA SumOverOnes ==
  ASSUME NEW S, IsFiniteSet(S), NEW R, NEW f, \A x \in S : f[x] = IF x \in R THEN 1 ELSE 0
  PROVE  SumOver(f, S) = Cardinality(S \cap R)
<1> DEFINE Bad == {T \in SUBSET S : SumOver(f, T) # Cardinality(T \cap R)}
<1>1. \A T \in SUBSET S : IsFiniteSet(T) /\ IsFiniteSet(T \cap R)
  BY FS_Subset
<1>2. Bad = {}
  <2> SUFFICES ASSUME Bad # {} PROVE FALSE
    OBVIOUS
  <2>1. PICK T \in Bad : \A x \in T : T \ {x} \notin Bad
    <3>1. Bad \in SUBSET (SUBSET S)
      OBVIOUS
    <3> HIDE DEF Bad
    <3> QED BY <3>1, SmallestSet
  <2>2. IsFiniteSet(T) /\ T # {}
    <3>1. SumOver(f, {}) = 0 /\ Cardinality({} \cap R) = 0
      BY SumOverEmpty, FS_EmptySet
    <3> QED
      BY <1>1, <2>1, <3>1
  <2> DEFINE x == First(T)
  <2>3. x \in T /\ SumOver(f, T) = f[x] + SumOver(f, T \ {x})
    BY <2>2, FirstIn, SumOverFirst
  <2> HIDE DEF x
  <2>4. SumOver(f, T \ {x}) = Cardinality((T \ {x}) \cap R) /\ x \in S
    BY <2>1, <2>3
  <2>5. IsFiniteSet(T \cap R) /\ Cardinality(T \cap R) \in Nat
    BY <1>1, <2>1, FS_CardinalityType
  <2>6. CASE x \in R
    <3>1. (T \ {x}) \cap R = (T \cap R) \ {x} /\ x \in T \cap R
      BY <2>3, <2>6
    <3>2. Cardinality((T \cap R) \ {x}) = Cardinality(T \cap R) - 1
      BY <2>5, <3>1, FS_RemoveElement
    <3>3. f[x] = 1
      BY <2>4, <2>6
    <3> QED
      BY <2>1, <2>3, <2>4, <2>5, <3>1, <3>2, <3>3
  <2>7. CASE x \notin R
    <3>1. (T \ {x}) \cap R = T \cap R
      BY <2>7
    <3> QED
      BY <2>1, <2>3, <2>4, <2>5, <2>7, <3>1
  <2> QED
    BY <2>6, <2>7
<1>3. S \notin Bad
  BY <1>2
<1> QED
  BY <1>3

(* What one member more or less counts, and all others the same.           *)
LEMMA SumOverChange ==
  ASSUME NEW S, IsFiniteSet(S), NEW f, NEW g, NEW y \in S,
         \A x \in S : f[x] \in Int /\ g[x] \in Int,
         \A x \in S \ {y} : f[x] = g[x]
  PROVE  SumOver(g, S) = SumOver(f, S) - f[y] + g[y]
<1>1. IsFiniteSet(S \ {y})
  BY FS_RemoveElement
<1>2. SumOver(f, S \ {y}) = SumOver(g, S \ {y}) /\ SumOver(f, S \ {y}) \in Int
  BY <1>1, SumOverSame, SumOverInt
<1>3. SumOver(f, S) = f[y] + SumOver(f, S \ {y}) /\ SumOver(g, S) = g[y] + SumOver(g, S \ {y})
  BY SumOverMember
<1> QED
  BY <1>2, <1>3

-----------------------------------------------------------------------------
(* The semaphore.  SemaphoreOK counts the slots; Waiters and held say      *)
(* which tasks are where.                                                  *)

(* A fresh semaphore has all its slots free.                               *)
LEMMA NewSemaphoreOK ==
  ASSUME NEW T, NEW limit \in Nat
  PROVE  /\ SemaphoreOK(NewSemaphore(limit), T, limit)
         /\ NewSemaphore(limit).held = {}
         /\ Waiters(NewSemaphore(limit)) = {}
BY FS_EmptySet DEF SemaphoreOK, SemaphoreType, NewSemaphore, Waiters

(* Waking the next waiter moves one free slot to it.                       *)
LEMMA WakeNextOK ==
  ASSUME NEW T, IsFiniteSet(T), NEW limit \in Nat, NEW s,
         SemaphoreOK(s, T, limit), s.free > 0
  PROVE  /\ SemaphoreOK(WakeNext(s), T, limit)
         /\ WakeNext(s).held = s.held
         /\ Waiters(WakeNext(s)) = Waiters(s)
         /\ s.queue = << >> => WakeNext(s).queue = << >>
<1>1. CASE s.queue = << >>
  BY <1>1 DEF WakeNext
<1>2. CASE s.queue # << >>
  <2> DEFINE h == Head(s.queue)
             r == WakeNext(s)
  <2>1. s.queue \in Seq(T) /\ Len(s.queue) > 0 /\ h = s.queue[1] /\ h \in T
    BY <1>2 DEF SemaphoreOK, SemaphoreType
  <2>2. /\ r = [free |-> s.free - 1, queue |-> Tail(s.queue),
                granted |-> s.granted \cup {h}, held |-> s.held]
        /\ r.free = s.free - 1 /\ r.queue = Tail(s.queue)
        /\ r.granted = s.granted \cup {h} /\ r.held = s.held
    BY <1>2 DEF WakeNext, SemaphoreOK, SemaphoreType
  <2>3. SemaphoreType(r, T)
    <3>1. Tail(s.queue) \in Seq(T) /\ s.free - 1 \in Nat
      BY <2>1 DEF SemaphoreOK, SemaphoreType
    <3>2. s.granted \cup {h} \in SUBSET T /\ s.held \in SUBSET T
      BY <2>1 DEF SemaphoreOK, SemaphoreType
    <3> HIDE DEF r, h
    <3> QED BY <2>2, <3>1, <3>2 DEF SemaphoreType
  <2>4. h \notin s.granted /\ h \notin s.held
    BY <2>1 DEF SemaphoreOK
  <2>5. /\ IsFiniteSet(s.granted) /\ IsFiniteSet(s.held)
        /\ Cardinality(s.granted) \in Nat /\ Cardinality(s.held) \in Nat
        /\ s.free \in Nat
    BY FS_Subset, FS_CardinalityType DEF SemaphoreOK, SemaphoreType
  <2>6. Cardinality(r.granted) = Cardinality(s.granted) + 1
    BY <2>2, <2>4, <2>5, FS_AddElement
  <2>7. r.free + Cardinality(r.granted) + Cardinality(r.held) = limit
    BY <2>2, <2>5, <2>6 DEF SemaphoreOK
  <2>8. /\ Len(r.queue) = Len(s.queue) - 1
        /\ \A i \in 1 .. Len(r.queue) : /\ r.queue[i] = s.queue[i+1]
                                        /\ i + 1 \in 1 .. Len(s.queue)
    BY <2>1, <2>2
  <2>9. \A i, j \in 1 .. Len(s.queue) : s.queue[i] = s.queue[j] => i = j
    BY DEF SemaphoreOK
  <2>10. \A i \in 1 .. Len(r.queue) : r.queue[i] \notin r.granted \cup r.held
    <3>1. SUFFICES ASSUME NEW i \in 1 .. Len(r.queue)
                   PROVE  r.queue[i] \notin r.granted \cup r.held
      OBVIOUS
    <3>2. s.queue[i+1] \notin s.granted \cup s.held
      BY <2>8 DEF SemaphoreOK
    <3>3. s.queue[i+1] # h
      BY <2>1, <2>8, <2>9
    <3> QED BY <3>2, <3>3, <2>2, <2>8
  <2>11. \A i, j \in 1 .. Len(r.queue) : r.queue[i] = r.queue[j] => i = j
    BY <2>8, <2>9
  <2>12. r.granted \cap r.held = {}
    BY <2>2, <2>4 DEF SemaphoreOK
  <2>13. Waiters(r) = Waiters(s)
    <3>1. \A x \in Waiters(r) : x \in Waiters(s)
      BY <2>1, <2>2, <2>8 DEF Waiters
    <3>2. ASSUME NEW x \in Waiters(s) PROVE x \in Waiters(r)
      <4>1. CASE x \in s.granted
        BY <4>1, <2>2 DEF Waiters
      <4>2. CASE x \notin s.granted
        <5>1. PICK i \in 1 .. Len(s.queue) : x = s.queue[i]
          BY <3>2, <4>2 DEF Waiters
        <5>2. CASE i = 1
          BY <5>1, <5>2, <2>1, <2>2 DEF Waiters
        <5>3. CASE i # 1
          <6>1. i - 1 \in 1 .. Len(r.queue) /\ r.queue[i-1] = x
            BY <5>1, <5>3, <2>1, <2>8
          <6> QED BY <6>1 DEF Waiters
        <5> QED BY <5>2, <5>3
      <4> QED BY <4>1, <4>2
    <3> QED BY <3>1, <3>2
  <2> QED
    BY <2>2, <2>3, <2>7, <2>10, <2>11, <2>12, <2>13 DEF SemaphoreOK
<1> QED BY <1>1, <1>2

(* Every set of a well-formed semaphore over a finite set is finite.       *)
LEMMA SemaphoreFinite ==
  ASSUME NEW T, IsFiniteSet(T), NEW limit \in Nat, NEW s,
         SemaphoreOK(s, T, limit)
  PROVE  /\ IsFiniteSet(s.granted) /\ IsFiniteSet(s.held)
         /\ Cardinality(s.granted) \in Nat /\ Cardinality(s.held) \in Nat
         /\ s.free \in Nat /\ s.queue \in Seq(T)
         /\ s.granted \in SUBSET T /\ s.held \in SUBSET T
         /\ SemaphoreType(s, T)
<1>1. /\ s.free \in Nat /\ s.queue \in Seq(T)
      /\ s.granted \in SUBSET T /\ s.held \in SUBSET T
      /\ SemaphoreType(s, T)
  BY DEF SemaphoreOK, SemaphoreType
<1> QED BY <1>1, FS_Subset, FS_CardinalityType

(* An unlocked semaphore gives a slot to a task that is nowhere in it.     *)
LEMMA TakeSlotOK ==
  ASSUME NEW T, IsFiniteSet(T), NEW limit \in Nat, NEW s, NEW t \in T,
         SemaphoreOK(s, T, limit), ~Locked(s), t \notin s.held
  PROVE  /\ SemaphoreOK(TakeSlot(s, t), T, limit)
         /\ TakeSlot(s, t).held = s.held \cup {t}
         /\ Waiters(TakeSlot(s, t)) = Waiters(s)
<1> DEFINE r == TakeSlot(s, t)
<1>1. /\ s.free \in Nat /\ s.free > 0 /\ s.queue = << >> /\ s.granted = {}
      /\ IsFiniteSet(s.held) /\ Cardinality(s.held) \in Nat
      /\ s.held \in SUBSET T /\ SemaphoreType(s, T)
  BY SemaphoreFinite DEF Locked
<1>0. r = [s EXCEPT !.free = @ - 1, !.held = @ \cup {t}]
  BY DEF TakeSlot
<1> HIDE DEF r
<1>2. r = [free |-> s.free - 1, queue |-> << >>, granted |-> {},
           held |-> s.held \cup {t}]
  BY <1>0, <1>1 DEF SemaphoreType
<1>3. Cardinality(r.held) = Cardinality(s.held) + 1
  BY <1>1, <1>2, FS_AddElement
<1>4. Cardinality({}) = 0
  BY FS_EmptySet
<1>5. r.free + Cardinality(r.granted) + Cardinality(r.held) = limit
  <2>1. s.free + 0 + Cardinality(s.held) = limit
    BY <1>1, <1>4 DEF SemaphoreOK
  <2> QED BY <2>1, <1>1, <1>2, <1>3, <1>4
<1>6. SemaphoreType(r, T)
  BY <1>1, <1>2 DEF SemaphoreType
<1>7. Waiters(r) = Waiters(s)
  BY <1>1, <1>2 DEF Waiters
<1> QED BY <1>1, <1>2, <1>5, <1>6, <1>7 DEF SemaphoreOK, r

(* A task that is nowhere in the semaphore joins its queue once.           *)
LEMMA JoinQueueOK ==
  ASSUME NEW T, IsFiniteSet(T), NEW limit \in Nat, NEW s, NEW t \in T,
         SemaphoreOK(s, T, limit), t \notin s.held, t \notin Waiters(s)
  PROVE  /\ SemaphoreOK(JoinQueue(s, t), T, limit)
         /\ JoinQueue(s, t).held = s.held
         /\ Waiters(JoinQueue(s, t)) = Waiters(s) \cup {t}
<1> DEFINE r == JoinQueue(s, t)
<1>1. /\ s.free \in Nat /\ s.queue \in Seq(T)
      /\ s.granted \in SUBSET T /\ s.held \in SUBSET T
  BY SemaphoreFinite
<1>0. r = [s EXCEPT !.queue = Append(@, t)]
  BY DEF JoinQueue
<1> HIDE DEF r
<1>2. r = [free |-> s.free, queue |-> Append(s.queue, t),
           granted |-> s.granted, held |-> s.held]
  BY <1>0 DEF SemaphoreOK, SemaphoreType
<1>3. /\ Append(s.queue, t) \in Seq(T)
      /\ Len(r.queue) = Len(s.queue) + 1 /\ r.queue[Len(s.queue) + 1] = t
      /\ \A i \in 1 .. Len(s.queue) : r.queue[i] = s.queue[i]
      /\ Len(s.queue) \in Nat
  BY <1>1, <1>2
<1>4. /\ t \notin s.granted
      /\ \A i \in 1 .. Len(s.queue) : s.queue[i] # t
  BY DEF Waiters
<1>5. SemaphoreType(r, T)
  BY <1>1, <1>2, <1>3 DEF SemaphoreType
<1>6. r.free + Cardinality(r.granted) + Cardinality(r.held) = limit
  BY <1>2 DEF SemaphoreOK
<1>7. \A i \in 1 .. Len(r.queue) : r.queue[i] \notin r.granted \cup r.held
  <2> SUFFICES ASSUME NEW i \in 1 .. Len(r.queue)
               PROVE  r.queue[i] \notin r.granted \cup r.held
    OBVIOUS
  <2>1. CASE i \in 1 .. Len(s.queue)
    BY <2>1, <1>2, <1>3 DEF SemaphoreOK
  <2>2. CASE i = Len(s.queue) + 1
    BY <2>2, <1>2, <1>3, <1>4
  <2> QED BY <2>1, <2>2, <1>3
<1>8. \A i, j \in 1 .. Len(r.queue) : r.queue[i] = r.queue[j] => i = j
  <2> SUFFICES ASSUME NEW i \in 1 .. Len(r.queue), NEW j \in 1 .. Len(r.queue),
                      r.queue[i] = r.queue[j]
               PROVE  i = j
    OBVIOUS
  <2>1. CASE i \in 1 .. Len(s.queue) /\ j \in 1 .. Len(s.queue)
    BY <2>1, <1>3 DEF SemaphoreOK
  <2>2. CASE i = Len(s.queue) + 1
    BY <2>2, <1>3, <1>4
  <2>3. CASE j = Len(s.queue) + 1
    BY <2>3, <1>3, <1>4
  <2> QED BY <2>1, <2>2, <2>3, <1>3
<1>9. Waiters(r) = Waiters(s) \cup {t}
  <2>1. {r.queue[i] : i \in 1 .. Len(r.queue)}
          = {s.queue[i] : i \in 1 .. Len(s.queue)} \cup {t}
    <3>1. ASSUME NEW x \in {r.queue[i] : i \in 1 .. Len(r.queue)}
          PROVE  x \in {s.queue[i] : i \in 1 .. Len(s.queue)} \cup {t}
      <4>1. PICK i \in 1 .. Len(r.queue) : x = r.queue[i]
        BY <3>1
      <4>2. CASE i \in 1 .. Len(s.queue)
        BY <4>1, <4>2, <1>3
      <4>3. CASE i = Len(s.queue) + 1
        BY <4>1, <4>3, <1>3
      <4> QED BY <4>1, <4>2, <4>3, <1>3
    <3>2. ASSUME NEW i \in 1 .. Len(s.queue)
          PROVE  s.queue[i] \in {r.queue[k] : k \in 1 .. Len(r.queue)}
      BY <1>3
    <3>3. t \in {r.queue[k] : k \in 1 .. Len(r.queue)}
      BY <1>3
    <3> QED BY <3>1, <3>2, <3>3
  <2> QED BY <2>1, <1>2 DEF Waiters
<1>10. r.held = s.held /\ r.granted = s.granted
  BY <1>2
<1>11. r.granted \cap r.held = {}
  BY <1>10 DEF SemaphoreOK
<1>12. SemaphoreOK(r, T, limit)
  BY <1>5, <1>6, <1>7, <1>8, <1>11 DEF SemaphoreOK
<1> QED BY <1>9, <1>10, <1>12 DEF r

(* A held slot is given back, to the next waiter if there is one.          *)
LEMMA ReleaseSlotOK ==
  ASSUME NEW T, IsFiniteSet(T), NEW limit \in Nat, NEW s, NEW t \in s.held,
         SemaphoreOK(s, T, limit)
  PROVE  /\ SemaphoreOK(ReleaseSlot(s, t), T, limit)
         /\ ReleaseSlot(s, t).held = s.held \ {t}
         /\ Waiters(ReleaseSlot(s, t)) = Waiters(s)
         /\ s.queue = << >> => ReleaseSlot(s, t).queue = << >>
<1> DEFINE r == [s EXCEPT !.free = @ + 1, !.held = @ \ {t}]
<1>1. /\ s.free \in Nat /\ s.queue \in Seq(T)
      /\ s.granted \in SUBSET T /\ s.held \in SUBSET T
      /\ IsFiniteSet(s.granted) /\ IsFiniteSet(s.held)
      /\ Cardinality(s.granted) \in Nat /\ Cardinality(s.held) \in Nat
      /\ SemaphoreType(s, T)
  BY SemaphoreFinite
<1>0. r = [s EXCEPT !.free = @ + 1, !.held = @ \ {t}]
  OBVIOUS
<1> HIDE DEF r
<1>2. r = [free |-> s.free + 1, queue |-> s.queue,
           granted |-> s.granted, held |-> s.held \ {t}]
  BY <1>0, <1>1 DEF SemaphoreType
<1>3. Cardinality(s.held \ {t}) = Cardinality(s.held) - 1
  BY <1>1, FS_RemoveElement
<1>4. SemaphoreType(r, T)
  <2>1. /\ s.free + 1 \in Nat /\ s.queue \in Seq(T)
        /\ s.granted \in SUBSET T /\ s.held \ {t} \in SUBSET T
    BY <1>1
  <2> QED BY <2>1, <1>2 DEF SemaphoreType
<1>5. r.free + Cardinality(r.granted) + Cardinality(r.held) = limit
  BY <1>1, <1>2, <1>3 DEF SemaphoreOK
<1>6. SemaphoreOK(r, T, limit)
  BY <1>2, <1>4, <1>5 DEF SemaphoreOK
<1>7. r.free > 0 /\ r.held = s.held \ {t} /\ Waiters(r) = Waiters(s)
      /\ r.queue = s.queue
  BY <1>1, <1>2 DEF Waiters
<1>8. /\ SemaphoreOK(WakeNext(r), T, limit)
      /\ WakeNext(r).held = r.held /\ Waiters(WakeNext(r)) = Waiters(r)
      /\ r.queue = << >> => WakeNext(r).queue = << >>
  BY <1>6, <1>7, WakeNextOK
<1> QED BY <1>7, <1>8 DEF ReleaseSlot, r

(* A granted task resumes: it holds the slot it was granted.               *)
LEMMA ResumeWaiterOK ==
  ASSUME NEW T, IsFiniteSet(T), NEW limit \in Nat, NEW s, NEW t \in s.granted,
         SemaphoreOK(s, T, limit)
  PROVE  /\ SemaphoreOK(ResumeWaiter(s, t), T, limit)
         /\ ResumeWaiter(s, t).held = s.held \cup {t}
         /\ Waiters(ResumeWaiter(s, t)) = Waiters(s) \ {t}
<1> DEFINE r == [s EXCEPT !.granted = @ \ {t}, !.held = @ \cup {t}]
<1>1. /\ s.free \in Nat /\ s.queue \in Seq(T)
      /\ s.granted \in SUBSET T /\ s.held \in SUBSET T
      /\ IsFiniteSet(s.granted) /\ IsFiniteSet(s.held)
      /\ Cardinality(s.granted) \in Nat /\ Cardinality(s.held) \in Nat
      /\ SemaphoreType(s, T)
  BY SemaphoreFinite
<1>0. r = [s EXCEPT !.granted = @ \ {t}, !.held = @ \cup {t}]
  OBVIOUS
<1> HIDE DEF r
<1>2. r = [free |-> s.free, queue |-> s.queue,
           granted |-> s.granted \ {t}, held |-> s.held \cup {t}]
  BY <1>0, <1>1 DEF SemaphoreType
<1>3. t \notin s.held
  BY DEF SemaphoreOK
<1>4. /\ Cardinality(s.granted \ {t}) = Cardinality(s.granted) - 1
      /\ Cardinality(s.held \cup {t}) = Cardinality(s.held) + 1
  BY <1>1, <1>3, FS_RemoveElement, FS_AddElement
<1>5. SemaphoreType(r, T)
  <2>1. /\ s.free \in Nat /\ s.queue \in Seq(T)
        /\ s.granted \ {t} \in SUBSET T /\ s.held \cup {t} \in SUBSET T
    BY <1>1
  <2> QED BY <2>1, <1>2 DEF SemaphoreType
<1>6. r.free + Cardinality(r.granted) + Cardinality(r.held) = limit
  BY <1>1, <1>2, <1>4 DEF SemaphoreOK
<1>7. SemaphoreOK(r, T, limit)
  BY <1>2, <1>5, <1>6 DEF SemaphoreOK
<1>8. /\ r.held = s.held \cup {t} /\ r.free \in Nat
      /\ Waiters(r) = Waiters(s) \ {t}
  BY <1>1, <1>2 DEF Waiters, SemaphoreOK
<1>9. ResumeWaiter(s, t) = IF r.free > 0 THEN WakeNext(r) ELSE r
  BY DEF ResumeWaiter, r
<1>10. CASE r.free > 0
  BY <1>7, <1>8, <1>9, <1>10, WakeNextOK
<1>11. CASE ~(r.free > 0)
  BY <1>7, <1>8, <1>9, <1>11
<1> QED BY <1>10, <1>11

(* A granted task is cancelled: its slot goes to the next waiter.          *)
LEMMA ForfeitSlotOK ==
  ASSUME NEW T, IsFiniteSet(T), NEW limit \in Nat, NEW s, NEW t \in s.granted,
         SemaphoreOK(s, T, limit)
  PROVE  /\ SemaphoreOK(ForfeitSlot(s, t), T, limit)
         /\ ForfeitSlot(s, t).held = s.held
         /\ Waiters(ForfeitSlot(s, t)) = Waiters(s) \ {t}
         /\ s.queue = << >> => ForfeitSlot(s, t).queue = << >>
<1> DEFINE r == [s EXCEPT !.free = @ + 1, !.granted = @ \ {t}]
<1>1. /\ s.free \in Nat /\ s.queue \in Seq(T)
      /\ s.granted \in SUBSET T /\ s.held \in SUBSET T
      /\ IsFiniteSet(s.granted) /\ IsFiniteSet(s.held)
      /\ Cardinality(s.granted) \in Nat /\ Cardinality(s.held) \in Nat
      /\ SemaphoreType(s, T)
  BY SemaphoreFinite
<1>0. r = [s EXCEPT !.free = @ + 1, !.granted = @ \ {t}]
  OBVIOUS
<1> HIDE DEF r
<1>2. r = [free |-> s.free + 1, queue |-> s.queue,
           granted |-> s.granted \ {t}, held |-> s.held]
  BY <1>0, <1>1 DEF SemaphoreType
<1>3. Cardinality(s.granted \ {t}) = Cardinality(s.granted) - 1
  BY <1>1, FS_RemoveElement
<1>4. SemaphoreType(r, T)
  <2>1. /\ s.free + 1 \in Nat /\ s.queue \in Seq(T)
        /\ s.granted \ {t} \in SUBSET T /\ s.held \in SUBSET T
    BY <1>1
  <2> QED BY <2>1, <1>2 DEF SemaphoreType
<1>5. r.free + Cardinality(r.granted) + Cardinality(r.held) = limit
  BY <1>1, <1>2, <1>3 DEF SemaphoreOK
<1>6. SemaphoreOK(r, T, limit)
  BY <1>2, <1>4, <1>5 DEF SemaphoreOK
<1>7. r.free > 0 /\ r.held = s.held /\ Waiters(r) = Waiters(s) \ {t}
      /\ r.queue = s.queue
  BY <1>1, <1>2 DEF Waiters, SemaphoreOK
<1>8. /\ SemaphoreOK(WakeNext(r), T, limit)
      /\ WakeNext(r).held = r.held /\ Waiters(WakeNext(r)) = Waiters(r)
      /\ r.queue = << >> => WakeNext(r).queue = << >>
  BY <1>6, <1>7, WakeNextOK
<1> QED BY <1>7, <1>8 DEF ForfeitSlot, r

(* Cancelling the waiters leaves the slots where they are.                 *)
LEMMA DropWaitersOK ==
  ASSUME NEW T, IsFiniteSet(T), NEW limit \in Nat, NEW s,
         SemaphoreOK(s, T, limit)
  PROVE  /\ SemaphoreOK(DropWaiters(s), T, limit)
         /\ DropWaiters(s).held = s.held /\ DropWaiters(s).queue = << >>
         /\ Waiters(DropWaiters(s)) = s.granted
<1>1. DropWaiters(s) = [free |-> s.free, queue |-> << >>,
                        granted |-> s.granted, held |-> s.held]
  BY DEF DropWaiters, SemaphoreOK, SemaphoreType
<1>2. SemaphoreType(DropWaiters(s), T)
  BY <1>1, SemaphoreFinite DEF SemaphoreType
<1> QED BY <1>1, <1>2 DEF SemaphoreOK, Waiters
=============================================================================
