----------------------------- MODULE FiniteSums -----------------------------
(***************************************************************************)
(* Facts about natural numbers and about the sum of a function over a      *)
(* finite set that the proofs of this project cite.  Induction is by the   *)
(* least element of a set of counterexamples, so that no statement takes   *)
(* an operator as a parameter.                                             *)
(***************************************************************************)
EXTENDS Integers, FiniteSets, FiniteSetsExt, FiniteSetTheorems, WellFoundedInduction, TLAPS

\* Every set of naturals that is not empty has a least element.
LEMMA LeastNatural ==
  ASSUME NEW S \in SUBSET Nat, S # {}
  PROVE  \E n \in S : \A m \in S : n <= m
<1> DEFINE R == OpToRel(<, Nat)
<1>1. IsWellFoundedOn(R, Nat)
  BY NatLessThanWellFounded
<1>2. \A m, n \in Nat : m < n => <<m, n>> \in R
  BY DEF OpToRel
<1> HIDE DEF R
<1>3. PICK n \in S : \A m \in S : ~(<<m, n>> \in R)
  BY <1>1, WFMin
<1>4. \A m \in S : ~(m < n)
  BY <1>2, <1>3
<1> QED BY <1>4

\* A set of naturals that holds 0, and n + 1 whenever it holds n, holds them all.
LEMMA AllNaturals ==
  ASSUME NEW S \in SUBSET Nat, 0 \in S, \A n \in S : n + 1 \in S
  PROVE  S = Nat
<1> SUFFICES ASSUME Nat \ S # {} PROVE FALSE
  OBVIOUS
<1>1. PICK n \in Nat \ S : \A m \in Nat \ S : n <= m
  BY LeastNatural
<1>2. n - 1 \in Nat /\ n - 1 \in S
  BY <1>1
<1> QED BY <1>1, <1>2

\* Every set of naturals that is not empty and bounded has a greatest element.
LEMMA GreatestNatural ==
  ASSUME NEW S \in SUBSET Nat, S # {}, NEW b \in Nat, \A n \in S : n <= b
  PROVE  Max(S) \in S /\ \A n \in S : n <= Max(S)
<1> DEFINE B == {c \in Nat : \A n \in S : n <= c}
<1>1. PICK c \in B : \A d \in B : c <= d
  <2>1. B \in SUBSET Nat /\ B # {}
    OBVIOUS
  <2> HIDE DEF B
  <2> QED BY <2>1, LeastNatural
<1>2. c \in S
  <2> SUFFICES ASSUME c \notin S PROVE FALSE
    OBVIOUS
  <2>1. \A n \in S : n <= c - 1 /\ c - 1 \in Nat
    BY <1>1
  <2>2. c - 1 \in B
    BY <2>1
  <2> QED BY <1>1, <2>2
<1>3. \E x \in S : \A y \in S : x >= y
  BY <1>1, <1>2
<1>4. Max(S) \in S /\ \A y \in S : Max(S) >= y
  BY <1>3 DEF Max
<1> QED BY <1>4

-----------------------------------------------------------------------------
(* Sums over finite sets *)

\* g maps every part of S to the sum of f over it, taking the elements in the order
\* in which CHOOSE yields them: what the recursive function of MapThenSumSet does.
First(s) == CHOOSE x \in s : TRUE
Adds(g, S, f) ==
  \A s \in SUBSET S : g[s] = IF s = {} THEN 0 ELSE f[First(s)] + g[s \ {First(s)}]
Sums(g, S, f) == g \in [SUBSET S -> Int] /\ Adds(g, S, f)

\* A set without one of its elements is smaller.
LEMMA OneLess ==
  ASSUME NEW s, IsFiniteSet(s), NEW x \in s, NEW n \in Nat, Cardinality(s) <= n + 1
  PROVE  IsFiniteSet(s \ {x}) /\ Cardinality(s \ {x}) <= n
<1>1. IsFiniteSet(s \ {x}) /\ Cardinality(s \ {x}) = Cardinality(s) - 1
  BY FS_RemoveElement
<1>2. Cardinality(s) \in Nat
  BY FS_CardinalityType
<1> QED BY <1>1, <1>2

LEMMA FirstIsIn ==
  ASSUME NEW s, s # {}
  PROVE  First(s) \in s
  BY DEF First

\* The sum over the parts of at most n elements.
Upto(S, n) == {s \in SUBSET S : Cardinality(s) <= n}
SumsUpto(g, S, f, n) ==
  /\ g \in [Upto(S, n) -> Int]
  /\ \A s \in Upto(S, n) : g[s] = IF s = {} THEN 0 ELSE f[First(s)] + g[s \ {First(s)}]

\* The sum over the parts of a finite set exists.
LEMMA SumsExist ==
  ASSUME NEW S, IsFiniteSet(S), NEW f \in [S -> Int]
  PROVE  \E g : Sums(g, S, f)
<1> DEFINE N == {n \in Nat : \E g : SumsUpto(g, S, f, n)}
<1>f. \A s \in SUBSET S : IsFiniteSet(s) /\ Cardinality(s) \in Nat
  BY FS_Subset, FS_CardinalityType
<1>1. 0 \in N
  <2> DEFINE g == [s \in Upto(S, 0) |-> 0]
  <2>1. \A s \in Upto(S, 0) : s = {}
    BY <1>f, FS_EmptySet DEF Upto
  <2>2. SumsUpto(g, S, f, 0)
    BY <2>1 DEF SumsUpto
  <2> QED BY <2>2
<1>2. ASSUME NEW n \in N
      PROVE  n + 1 \in N
  <2>1. PICK g : SumsUpto(g, S, f, n)
    OBVIOUS
  <2> DEFINE h == [s \in Upto(S, n + 1) |-> IF s = {} THEN 0 ELSE f[First(s)] + g[s \ {First(s)}]]
  <2>2. \A s \in Upto(S, n + 1) : s # {} => First(s) \in S /\ s \ {First(s)} \in Upto(S, n)
    BY <1>f, OneLess, FirstIsIn DEF Upto
  <2>3. Upto(S, n) \subseteq Upto(S, n + 1)
    BY <1>f DEF Upto
  <2>4. \A s \in Upto(S, n) : g[s] \in Int
    BY <2>1 DEF SumsUpto
  <2>5. h \in [Upto(S, n + 1) -> Int]
    BY <2>2, <2>4
  <2>6. \A s \in Upto(S, n) : h[s] = g[s]
    BY <2>1, <2>3 DEF SumsUpto
  <2>7. \A s \in Upto(S, n + 1) : h[s] = IF s = {} THEN 0 ELSE f[First(s)] + h[s \ {First(s)}]
    BY <2>2, <2>6
  <2> HIDE DEF h
  <2>8. SumsUpto(h, S, f, n + 1)
    BY <2>5, <2>7 DEF SumsUpto
  <2> QED BY <2>8
<1>3. N = Nat
  <2>1. N \in SUBSET Nat
    OBVIOUS
  <2> HIDE DEF N
  <2> QED BY <1>1, <1>2, <2>1, AllNaturals
<1>4. Cardinality(S) \in Nat
  BY FS_CardinalityType
<1>5. PICK g : SumsUpto(g, S, f, Cardinality(S))
  BY <1>3, <1>4
<1>6. Upto(S, Cardinality(S)) = SUBSET S
  BY FS_Subset DEF Upto
<1>7. Sums(g, S, f)
  BY <1>5, <1>6 DEF SumsUpto, Sums, Adds
<1> QED BY <1>7

\* The sum over a set does not depend on the set it is a part of, nor on what the
\* function is elsewhere.
LEMMA SumsAgree ==
  ASSUME NEW S, IsFiniteSet(S), NEW f \in [S -> Int], NEW g, Adds(g, S, f),
         NEW S2, NEW f2 \in [S2 -> Int], NEW g2, Adds(g2, S2, f2),
         NEW T \in SUBSET S, T \subseteq S2, \A x \in T : f[x] = f2[x]
  PROVE  g[T] = g2[T]
<1> DEFINE N == {n \in Nat : \A t \in SUBSET T : Cardinality(t) <= n => g[t] = g2[t]}
<1>f. \A t \in SUBSET T : IsFiniteSet(t) /\ Cardinality(t) \in Nat
  BY FS_Subset, FS_CardinalityType
<1>1. 0 \in N
  <2>1. \A t \in SUBSET T : Cardinality(t) <= 0 => t = {}
    BY <1>f, FS_EmptySet
  <2>2. g[{}] = 0 /\ g2[{}] = 0
    BY DEF Adds
  <2> QED BY <2>1, <2>2
<1>2. ASSUME NEW n \in N
      PROVE  n + 1 \in N
  <2> SUFFICES ASSUME NEW t \in SUBSET T, Cardinality(t) <= n + 1
               PROVE  g[t] = g2[t]
    OBVIOUS
  <2>1. CASE t = {}
    BY <2>1 DEF Adds
  <2>2. CASE t # {}
    <3>1. First(t) \in t
      BY <2>2, FirstIsIn
    <3>2. Cardinality(t \ {First(t)}) <= n /\ t \ {First(t)} \in SUBSET T
      BY <1>f, <3>1, OneLess
    <3>3. g[t \ {First(t)}] = g2[t \ {First(t)}] /\ f[First(t)] = f2[First(t)]
      BY <3>1, <3>2
    <3>4. /\ g[t] = f[First(t)] + g[t \ {First(t)}]
          /\ g2[t] = f2[First(t)] + g2[t \ {First(t)}]
      BY <2>2 DEF Adds
    <3> QED BY <3>3, <3>4
  <2> QED BY <2>1, <2>2
<1>3. N = Nat
  <2>1. N \in SUBSET Nat
    OBVIOUS
  <2> HIDE DEF N
  <2> QED BY <1>1, <1>2, <2>1, AllNaturals
<1>4. Cardinality(T) \in N
  BY <1>3, <1>f
<1> QED BY <1>4, <1>f

\* Any element of a set can be taken out of its sum.
LEMMA SumsTake ==
  ASSUME NEW S, IsFiniteSet(S), NEW f \in [S -> Int], NEW g, Sums(g, S, f),
         NEW T \in SUBSET S, NEW x \in T
  PROVE  g[T] = f[x] + g[T \ {x}]
<1> DEFINE N == {n \in Nat : \A t \in SUBSET S : Cardinality(t) <= n =>
                               \A y \in t : g[t] = f[y] + g[t \ {y}]}
<1>f. \A t \in SUBSET S : IsFiniteSet(t) /\ Cardinality(t) \in Nat
  BY FS_Subset, FS_CardinalityType
<1>1. 0 \in N
  <2>1. \A t \in SUBSET S : Cardinality(t) <= 0 => t = {}
    BY <1>f, FS_EmptySet
  <2> QED BY <2>1
<1>2. ASSUME NEW n \in N
      PROVE  n + 1 \in N
  <2> SUFFICES ASSUME NEW t \in SUBSET S, Cardinality(t) <= n + 1, NEW y \in t
               PROVE  g[t] = f[y] + g[t \ {y}]
    OBVIOUS
  <2> DEFINE z == First(t)
             u == (t \ {z}) \ {y}
  <2>1. z \in t /\ g[t] = f[z] + g[t \ {z}]
    BY FirstIsIn DEF Sums, Adds
  <2> HIDE DEF z
  <2>2. CASE y = z
    BY <2>1, <2>2
  <2>3. CASE y # z
    <3>1. /\ Cardinality(t \ {z}) <= n /\ t \ {z} \in SUBSET S /\ y \in t \ {z}
          /\ Cardinality(t \ {y}) <= n /\ t \ {y} \in SUBSET S /\ z \in t \ {y}
      BY <1>f, <2>1, <2>3, OneLess
    <3>2. g[t \ {z}] = f[y] + g[u]
      BY <3>1
    <3>3. g[t \ {y}] = f[z] + g[u]
      <4>1. (t \ {y}) \ {z} = u
        OBVIOUS
      <4> HIDE DEF u
      <4> QED BY <3>1, <4>1
    <3>4. f[y] \in Int /\ f[z] \in Int /\ g[u] \in Int
      BY <2>1 DEF Sums, Adds
    <3> HIDE DEF u
    <3> QED BY <2>1, <3>2, <3>3, <3>4
  <2> QED BY <2>2, <2>3
<1>3. N = Nat
  <2>1. N \in SUBSET Nat
    OBVIOUS
  <2> HIDE DEF N
  <2> QED BY <1>1, <1>2, <2>1, AllNaturals
<1>4. Cardinality(T) \in N
  BY <1>3, <1>f
<1> QED BY <1>4, <1>f

\* What MapThenSumSet computes, with the summand as a function.
Total(f, S) == MapThenSumSet(LAMBDA x : f[x], S)

\* It is such a sum.
LEMMA TotalIsSum ==
  ASSUME NEW S, IsFiniteSet(S), NEW f \in [S -> Int]
  PROVE  \E g : Sums(g, S, f) /\ Total(f, S) = g[S]
<1>1. PICK g : Sums(g, S, f)
  BY SumsExist
<1> DEFINE iter[s \in SUBSET S] ==
             IF s = {} THEN 0
             ELSE LET x == CHOOSE x \in s : TRUE IN f[x] + iter[s \ {x}]
<1>2. Total(f, S) = iter[S]
  BY DEF Total, MapThenSumSet, MapThenFoldSet
<1>3. iter = [s \in SUBSET S |->
               IF s = {} THEN 0
               ELSE LET x == CHOOSE x \in s : TRUE IN f[x] + iter[s \ {x}]]
  <2>1. g = [s \in SUBSET S |->
               IF s = {} THEN 0
               ELSE LET x == CHOOSE x \in s : TRUE IN f[x] + g[s \ {x}]]
    <3>1. g = [s \in SUBSET S |-> g[s]]
      BY <1>1 DEF Sums
    <3>2. \A s \in SUBSET S :
            g[s] = IF s = {} THEN 0
                   ELSE LET x == CHOOSE x \in s : TRUE IN f[x] + g[s \ {x}]
      BY <1>1 DEF Sums, Adds, First
    <3> QED BY <3>1, <3>2
  <2> QED BY <2>1
<1> HIDE DEF iter
<1>4. Adds(iter, S, f)
  BY <1>3 DEF Adds, First
<1>5. iter[S] = g[S]
  BY <1>1, <1>4, SumsAgree DEF Sums
<1> QED BY <1>1, <1>2, <1>5

\* The total over a finite set is an integer.
LEMMA TotalType ==
  ASSUME NEW S, IsFiniteSet(S), NEW f \in [S -> Int]
  PROVE  Total(f, S) \in Int
<1>1. PICK g : Sums(g, S, f) /\ Total(f, S) = g[S]
  BY TotalIsSum
<1>2. S \in SUBSET S
  OBVIOUS
<1> QED BY <1>1, <1>2 DEF Sums

\* The total over no elements.
LEMMA TotalEmpty ==
  ASSUME NEW f \in [{} -> Int]
  PROVE  Total(f, {}) = 0
<1>1. IsFiniteSet({})
  BY FS_EmptySet
<1> QED BY <1>1, TotalIsSum DEF Sums, Adds

\* The total depends on the function's values in the set alone.
LEMMA TotalSame ==
  ASSUME NEW S, IsFiniteSet(S), NEW f \in [S -> Int], NEW f2 \in [S -> Int],
         \A x \in S : f[x] = f2[x]
  PROVE  Total(f, S) = Total(f2, S)
  BY TotalIsSum, SumsAgree DEF Sums

\* A new element adds its value.
LEMMA TotalAdd ==
  ASSUME NEW S, IsFiniteSet(S), NEW x, x \notin S,
         NEW f \in [S -> Int], NEW f2 \in [S \cup {x} -> Int],
         \A y \in S : f[y] = f2[y]
  PROVE  Total(f2, S \cup {x}) = Total(f, S) + f2[x]
<1> DEFINE S2 == S \cup {x}
<1>1. IsFiniteSet(S2) /\ S \in SUBSET S2 /\ S2 \in SUBSET S2 /\ x \in S2 /\ S2 \ {x} = S
  BY FS_AddElement
<1> HIDE DEF S2
<1>2. f2 \in [S2 -> Int]
  BY DEF S2
<1>3. PICK g : Sums(g, S, f) /\ Total(f, S) = g[S]
  BY TotalIsSum
<1>4. PICK g2 : Sums(g2, S2, f2) /\ Total(f2, S2) = g2[S2]
  BY <1>1, <1>2, TotalIsSum
<1>5. g2[S2] = f2[x] + g2[S]
  BY <1>1, <1>2, <1>4, SumsTake
<1>6. g2[S] = g[S]
  BY <1>1, <1>2, <1>3, <1>4, SumsAgree DEF Sums
<1>7. f2[x] \in Int /\ g[S] \in Int
  BY <1>1, <1>2, <1>3 DEF Sums
<1> QED BY <1>3, <1>4, <1>5, <1>6, <1>7 DEF S2

\* No element loses more than `loss': nor does the total, for each element.
LEMMA TotalAtLeast ==
  ASSUME NEW S, IsFiniteSet(S), NEW f \in [S -> Int], NEW loss \in Nat,
         \A x \in S : 0 <= f[x] + loss
  PROVE  0 <= Total(f, S) + loss * Cardinality(S)
<1>1. PICK g : Sums(g, S, f) /\ Total(f, S) = g[S]
  BY TotalIsSum
<1>f. \A t \in SUBSET S : IsFiniteSet(t) /\ Cardinality(t) \in Nat /\ g[t] \in Int
  BY <1>1, FS_Subset, FS_CardinalityType DEF Sums
<1> DEFINE N == {n \in Nat : \A t \in SUBSET S : Cardinality(t) = n => 0 <= g[t] + loss * n}
<1>2. 0 \in N
  <2>1. \A t \in SUBSET S : Cardinality(t) = 0 => g[t] = 0
    BY <1>1, <1>f, FS_EmptySet DEF Sums, Adds
  <2> QED BY <2>1
<1>3. ASSUME NEW n \in N
      PROVE  n + 1 \in N
  <2> SUFFICES ASSUME NEW t \in SUBSET S, Cardinality(t) = n + 1
               PROVE  0 <= g[t] + loss * (n + 1)
    OBVIOUS
  <2> DEFINE z == First(t)
             u == t \ {z}
  <2>1. t # {}
    <3>1. Cardinality({}) = 0 /\ n + 1 # 0
      BY FS_EmptySet
    <3> QED BY <3>1
  <2>2. z \in t /\ g[t] = f[z] + g[u]
    BY <1>1, <2>1, FirstIsIn DEF Sums, Adds
  <2>3. Cardinality(u) = n /\ u \in SUBSET S
    <3> HIDE DEF z
    <3>1. Cardinality(u) = Cardinality(t) - 1
      BY <1>f, <2>2, FS_RemoveElement
    <3> QED BY <3>1
  <2>4. 0 <= g[u] + loss * n /\ g[u] \in Int
    BY <1>f, <2>3
  <2>5. f[z] \in Int /\ 0 <= f[z] + loss
    BY <2>2
  <2> HIDE DEF z, u
  <2>6. \A a, b, c \in Int : 0 <= a + loss /\ 0 <= b + c => 0 <= a + b + (c + loss)
    OBVIOUS
  <2>7. loss * (n + 1) = loss * n + loss /\ loss * n \in Int
    OBVIOUS
  <2> QED BY <2>2, <2>4, <2>5, <2>6, <2>7
<1>4. N = Nat
  <2>1. N \in SUBSET Nat
    OBVIOUS
  <2> HIDE DEF N
  <2> QED BY <1>2, <1>3, <2>1, AllNaturals
<1>5. Cardinality(S) \in N
  BY <1>4, <1>f
<1> QED BY <1>1, <1>5
=============================================================================
