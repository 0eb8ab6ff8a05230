---------------------------- MODULE SumTheorems ----------------------------
(***************************************************************************)
(* Two forms of recursion that the contracts' loops are modelled with, and *)
(* what follows from them: sums over finite sets, as MapThenSumSet computes*)
(* them, and functions that are defined step by step from 0 to a number of *)
(* iterations.                                                             *)
(***************************************************************************)
EXTENDS Integers, FiniteSetsExt, FiniteSetTheorems, WellFoundedInduction, TLAPS

---------------------------------------------------------------------------
(* Loops.                                                                  *)

(* Induction over the numbers up to L, for a set of them.                  *)
LEMMA UpTo ==
  ASSUME NEW L \in Nat, NEW T, 0 \in T, \A n \in 0 .. L : n + 1 \in 0 .. L /\ n \in T => n + 1 \in T
  PROVE  0 .. L \subseteq T
<1> DEFINE Less == OpToRel(<, Nat)
           Bad == (0 .. L) \ T
<1> SUFFICES ASSUME Bad # {}
             PROVE  FALSE
  OBVIOUS
<1>1. Bad \subseteq Nat
  OBVIOUS
<1> HIDE DEF Bad, Less
<1>2. PICK n \in Bad : \A m \in Bad : ~ (<<m, n>> \in Less)
  BY <1>1, NatLessThanWellFounded, WFMin DEF Less
<1> USE DEF Bad
<1>3. n # 0 /\ n \in Nat /\ n - 1 \in Nat /\ n - 1 \in 0 .. L /\ (n - 1) + 1 = n
  OBVIOUS
<1>4. <<n - 1, n>> \in Less
  BY <1>3 DEF Less, OpToRel
<1>5. n - 1 \in T
  BY <1>2, <1>3, <1>4
<1> QED
  BY <1>2, <1>3, <1>5

Iterates(f, g, m0, L) == f = [n \in 0 .. L |-> IF n = 0 THEN m0 ELSE g[n][f[n - 1]]]

(* A loop of L iterations, from m0, whose n-th turns a state m of the set  *)
(* S into g[n][m], another one of S, exists.                               *)
LEMMA LoopExists ==
  ASSUME NEW L \in Nat, NEW S, NEW m0 \in S, NEW g, \A n \in 1 .. L : g[n] \in [S -> S]
  PROVE  \E f \in [0 .. L -> S] : Iterates(f, g, m0, L)
<1> DEFINE Until(k) == \E f \in [0 .. k -> S] :
                         f = [n \in 0 .. k |-> IF n = 0 THEN m0 ELSE g[n][f[n - 1]]]
           T == {k \in 0 .. L : Until(k)}
<1>1. 0 \in T
  <2> DEFINE f == [n \in 0 .. 0 |-> m0]
  <2>1. f \in [0 .. 0 -> S] /\ f = [n \in 0 .. 0 |-> IF n = 0 THEN m0 ELSE g[n][f[n - 1]]]
    OBVIOUS
  <2> HIDE DEF f
  <2> QED
    BY <2>1
<1>2. ASSUME NEW k \in 0 .. L, k + 1 \in 0 .. L, k \in T
      PROVE  k + 1 \in T
  <2>1. PICK f \in [0 .. k -> S] : f = [n \in 0 .. k |-> IF n = 0 THEN m0 ELSE g[n][f[n - 1]]]
    BY <1>2
  <2> DEFINE h == [n \in 0 .. k + 1 |-> IF n = k + 1 THEN g[k + 1][f[k]] ELSE f[n]]
  <2>2. g[k + 1] \in [S -> S] /\ f[k] \in S /\ g[k + 1][f[k]] \in S
    BY <1>2
  <2>3. h \in [0 .. k + 1 -> S]
    BY <2>2
  <2>4. h = [n \in 0 .. k + 1 |-> IF n = 0 THEN m0 ELSE g[n][h[n - 1]]]
    <3>1. ASSUME NEW n \in 0 .. k + 1
          PROVE  h[n] = IF n = 0 THEN m0 ELSE g[n][h[n - 1]]
      <4>1. CASE n = k + 1
        <5>1. h[k] = f[k] /\ h[n] = g[k + 1][f[k]] /\ n # 0 /\ n - 1 = k
          BY <4>1
        <5> QED
          BY <5>1, <4>1
      <4>2. CASE n # k + 1
        <5>1. n \in 0 .. k /\ h[n] = f[n]
          BY <4>2
        <5>2. f[n] = IF n = 0 THEN m0 ELSE g[n][f[n - 1]]
          BY <2>1, <5>1
        <5>3. n # 0 => n - 1 \in 0 .. k /\ h[n - 1] = f[n - 1]
          BY <5>1
        <5> QED
          BY <5>1, <5>2, <5>3
      <4> QED
        BY <4>1, <4>2
    <3> HIDE DEF h
    <3>2. h = [n \in 0 .. k + 1 |-> h[n]]
      BY <2>3
    <3> QED
      BY <3>1, <3>2
  <2> HIDE DEF h
  <2> QED
    BY <1>2, <2>3, <2>4
<1> HIDE DEF T
<1>3. \A k \in 0 .. L : k + 1 \in 0 .. L /\ k \in T => k + 1 \in T
  BY <1>2
<1>4. 0 .. L \subseteq T
  BY <1>1, <1>3, UpTo
<1>5. L \in 0 .. L
  OBVIOUS
<1> QED
  BY <1>4, <1>5 DEF T, Iterates

---------------------------------------------------------------------------
(* Sums, by the recursion.                                                 *)

Picked(s) == CHOOSE e \in s : TRUE

(* g is the sum of f over every subset of S, by the recursion that          *)
(* MapThenSumSet computes it with.                                          *)
IsSum(g, f, S) ==
    g = [s \in SUBSET S |-> IF s = {} THEN 0 ELSE f[Picked(s)] + g[s \ {Picked(s)}]]

(* The element the recursion of MapThenSumSet takes from a set is one of   *)
(* it.                                                                     *)
LEMMA PickedIsElement == ASSUME NEW s, s # {}
                         PROVE  Picked(s) \in s
  BY DEF Picked

(* Induction on the subsets of a finite set.                                *)
LEMMA SubsetsInduction ==
  ASSUME NEW S, IsFiniteSet(S), NEW T \in SUBSET SUBSET S, {} \in T,
         \A s \in SUBSET S : s # {} /\ (\A e \in s : s \ {e} \in T) => s \in T
  PROVE  T = SUBSET S
<1> DEFINE Bad == (SUBSET S) \ T
<1>1. SUFFICES ASSUME Bad # {}
               PROVE  FALSE
  OBVIOUS
<1>2. \A s \in SUBSET S : IsFiniteSet(s)
  BY FS_Subset
<1>3. Bad \subseteq FiniteSubsetsOf(S)
  BY <1>2 DEF FiniteSubsetsOf
<1> HIDE DEF Bad
<1>4. PICK s \in Bad : \A r \in Bad : ~ (<<r, s>> \in StrictSubsetOrdering(S))
  BY <1>1, <1>3, FS_StrictSubsetOrderingWellFounded, WFMin
<1> USE DEF Bad
<1>5. ASSUME NEW e \in s
      PROVE  s \ {e} \in T
  <2> DEFINE r == s \ {e}
  <2>1. r \in SUBSET S /\ r \subseteq s /\ r # s
    OBVIOUS
  <2>2. <<r, s>> \in StrictSubsetOrdering(S)
    BY <2>1 DEF StrictSubsetOrdering
  <2> QED
    BY <1>4, <2>1, <2>2
<1> QED
  BY <1>5

(* The same, taking away the elements in the order of the recursion.       *)
LEMMA SubsetInduction ==
  ASSUME NEW S, IsFiniteSet(S), NEW T \in SUBSET SUBSET S, {} \in T,
         \A s \in SUBSET S : s # {} /\ s \ {Picked(s)} \in T => s \in T
  PROVE  T = SUBSET S
<1>1. \A s \in SUBSET S : s # {} /\ (\A e \in s : s \ {e} \in T) => s \in T
  BY PickedIsElement
<1> QED
  BY <1>1, SubsetsInduction

(* What the recursion is for the subsets of up to n elements.              *)
Small(S, n) == {s \in SUBSET S : Cardinality(s) <= n}

Sums(g, f, S, n) ==
    g = [s \in Small(S, n) |-> IF s = {} THEN 0 ELSE f[Picked(s)] + g[s \ {Picked(s)}]]

(* The recursion defines a function on all the subsets of a finite set.    *)
LEMMA SumExists ==
  ASSUME NEW S, IsFiniteSet(S), NEW f
  PROVE  \E g : IsSum(g, f, S)
<1> DEFINE Good == {s \in SUBSET S : \E g : Sums(g, f, S, Cardinality(s))}
<1>1. \A s \in SUBSET S : IsFiniteSet(s) /\ Cardinality(s) \in Nat /\ Cardinality(s) <= Cardinality(S)
  BY FS_Subset, FS_CardinalityType
<1>2. {} \in Good
  <2> DEFINE g == [s \in Small(S, 0) |-> 0]
  <2>1. \A s \in Small(S, 0) : s = {}
    BY <1>1, FS_EmptySet DEF Small
  <2>2. Sums(g, f, S, 0)
    BY <2>1 DEF Sums
  <2> QED
    BY <2>2, FS_EmptySet
<1>3. ASSUME NEW s \in SUBSET S, s # {}, s \ {Picked(s)} \in Good
      PROVE  s \in Good
  <2> DEFINE n == Cardinality(s \ {Picked(s)})
  <2>1. PICK g : Sums(g, f, S, n)
    BY <1>3
  <2>2. n \in Nat /\ Cardinality(s) = n + 1
    <3>1. s \ {Picked(s)} \in SUBSET S
      OBVIOUS
    <3>2. Cardinality(s \ {Picked(s)}) = Cardinality(s) - 1
      BY <1>1, <1>3, PickedIsElement, FS_RemoveElement
    <3> QED
      BY <1>1, <3>1, <3>2
  <2> HIDE DEF n
  <2> DEFINE Term(h, r) == IF r = {} THEN 0 ELSE f[Picked(r)] + h[r \ {Picked(r)}]
             h == [r \in Small(S, n + 1) |-> Term(g, r)]
  <2>3. \A r \in Small(S, n + 1) : r # {} => r \ {Picked(r)} \in Small(S, n)
    <3>1. ASSUME NEW r \in Small(S, n + 1), r # {}
          PROVE  r \ {Picked(r)} \in Small(S, n)
      <4>1. r \in SUBSET S /\ Cardinality(r) <= n + 1
        BY DEF Small
      <4>2. Cardinality(r \ {Picked(r)}) = Cardinality(r) - 1
        BY <1>1, <3>1, <4>1, PickedIsElement, FS_RemoveElement
      <4>3. Cardinality(r) - 1 <= n
        BY <1>1, <2>2, <4>1
      <4> QED
        BY <4>1, <4>2, <4>3 DEF Small
    <3> QED
      BY <3>1
  <2>4. \A r \in Small(S, n) : r \in Small(S, n + 1) /\ g[r] = Term(g, r)
    <3>1. \A r \in Small(S, n) : r \in Small(S, n + 1)
      BY <1>1, <2>2 DEF Small
    <3> QED
      BY <2>1, <3>1 DEF Sums
  <2>5. \A r \in Small(S, n) : h[r] = g[r]
    BY <2>4
  <2>6. \A r \in Small(S, n + 1) : Term(h, r) = Term(g, r)
    <3> HIDE DEF h
    <3> QED
      BY <2>3, <2>5
  <2>7. Sums(h, f, S, n + 1)
    <3>1. h = [r \in Small(S, n + 1) |-> Term(h, r)]
      BY <2>6
    <3> QED
      BY <3>1 DEF Sums
  <2> QED
    BY <2>2, <2>7
<1>4. Good = SUBSET S
  <2> HIDE DEF Good
  <2>1. Good \in SUBSET SUBSET S
    BY DEF Good
  <2> QED
    BY <1>2, <1>3, <2>1, SubsetInduction
<1>5. PICK g : Sums(g, f, S, Cardinality(S))
  BY <1>4
<1>6. Small(S, Cardinality(S)) = SUBSET S
  BY <1>1 DEF Small
<1> QED
  BY <1>5, <1>6 DEF Sums, IsSum

(* A sum of integers is an integer, one of natural numbers is a natural    *)
(* number.                                                                 *)
LEMMA SumType ==
  ASSUME NEW S, IsFiniteSet(S), NEW f, \A e \in S : f[e] \in Int, NEW g, IsSum(g, f, S)
  PROVE  g[S] \in Int
<1> DEFINE Good == {s \in SUBSET S : g[s] \in Int}
<1>1. {} \in Good
  BY DEF IsSum
<1>2. ASSUME NEW s \in SUBSET S, s # {}, s \ {Picked(s)} \in Good
      PROVE  s \in Good
  <2>1. Picked(s) \in S
    BY <1>2, PickedIsElement
  <2>2. g[s] = f[Picked(s)] + g[s \ {Picked(s)}]
    BY <1>2 DEF IsSum
  <2> QED
    BY <1>2, <2>1, <2>2
<1>3. Good = SUBSET S
  <2> HIDE DEF Good
  <2>1. Good \in SUBSET SUBSET S
    BY DEF Good
  <2> QED
    BY <1>1, <1>2, <2>1, SubsetInduction
<1> QED
  BY <1>3

(* A sum of zeros is zero.                                                 *)
LEMMA SumOfNothing ==
  ASSUME NEW S, IsFiniteSet(S), NEW f, \A e \in S : f[e] = 0, NEW g, IsSum(g, f, S)
  PROVE  g[S] = 0
<1> DEFINE Good == {s \in SUBSET S : g[s] = 0}
<1>1. {} \in Good
  BY DEF IsSum
<1>2. ASSUME NEW s \in SUBSET S, s # {}, s \ {Picked(s)} \in Good
      PROVE  s \in Good
  <2>1. Picked(s) \in S
    BY <1>2, PickedIsElement
  <2>2. g[s] = f[Picked(s)] + g[s \ {Picked(s)}]
    BY <1>2 DEF IsSum
  <2> QED
    BY <1>2, <2>1, <2>2
<1>3. Good = SUBSET S
  <2> HIDE DEF Good
  <2>1. Good \in SUBSET SUBSET S
    BY DEF Good
  <2> QED
    BY <1>1, <1>2, <2>1, SubsetInduction
<1> QED
  BY <1>3

(* k is f, but for two terms.                                               *)
Changed(k, f, S, x, v, y, w) ==
    /\ x \in S /\ y \in S /\ v \in Int /\ w \in Int
    /\ \A e \in S : /\ f[e] \in Int
                    /\ k[e] = f[e] + (IF e = x THEN v ELSE 0) + (IF e = y THEN w ELSE 0)

(* When f changes at two elements, its sum changes by the two differences. *)
LEMMA SumChanges ==
  ASSUME NEW S, IsFiniteSet(S), NEW f, NEW k, NEW x, NEW y, NEW v, NEW w,
         Changed(k, f, S, x, v, y, w), NEW g, IsSum(g, f, S), NEW h, IsSum(h, k, S)
  PROVE  g[S] \in Int /\ h[S] = g[S] + v + w
<1> USE DEF Changed
<1> DEFINE In(e, s, d) == IF e \in s THEN d ELSE 0
           Good == {s \in SUBSET S : g[s] \in Int /\ h[s] = g[s] + In(x, s, v) + In(y, s, w)}
<1>1. {} \in Good
  BY DEF IsSum
<1>2. ASSUME NEW s \in SUBSET S, s # {}, s \ {Picked(s)} \in Good
      PROVE  s \in Good
  <2> DEFINE p == Picked(s)
             r == s \ {p}
  <2>1. p \in s /\ p \in S
    BY <1>2, PickedIsElement
  <2>2. g[s] = f[p] + g[r] /\ h[s] = k[p] + h[r]
    BY <1>2 DEF IsSum
  <2>3. /\ f[p] \in Int
        /\ k[p] = f[p] + (IF p = x THEN v ELSE 0) + (IF p = y THEN w ELSE 0)
    BY <2>1 DEF Changed
  <2>4. g[r] \in Int /\ h[r] = g[r] + In(x, r, v) + In(y, r, w)
    BY <1>2
  <2>5. /\ In(x, s, v) = In(x, r, v) + (IF p = x THEN v ELSE 0)
        /\ In(y, s, w) = In(y, r, w) + (IF p = y THEN w ELSE 0)
        /\ In(x, r, v) \in Int /\ In(y, r, w) \in Int
    <3> HIDE DEF p
    <3> QED
      BY <2>1
  <2> HIDE DEF In, p, r
  <2>6. g[s] \in Int /\ h[s] = g[s] + In(x, s, v) + In(y, s, w)
    BY <2>2, <2>3, <2>4, <2>5
  <2> QED
    BY <2>6
<1>3. Good = SUBSET S
  <2> HIDE DEF Good
  <2>1. Good \in SUBSET SUBSET S
    BY DEF Good
  <2> QED
    BY <1>1, <1>2, <2>1, SubsetInduction
<1>4. S \in Good
  <2> HIDE DEF Good
  <2> QED
    BY <1>3
<1> QED
  BY <1>4

(* No term grows.                                                           *)
LEMMA SumShrinks ==
  ASSUME NEW S, IsFiniteSet(S), NEW f, NEW k,
         \A e \in S : f[e] \in Int /\ k[e] \in Int /\ k[e] <= f[e],
         NEW g, IsSum(g, f, S), NEW h, IsSum(h, k, S)
  PROVE  g[S] \in Int /\ h[S] \in Int /\ h[S] <= g[S]
<1> DEFINE Good == {s \in SUBSET S : g[s] \in Int /\ h[s] \in Int /\ h[s] <= g[s]}
<1>1. {} \in Good
  BY DEF IsSum
<1>2. ASSUME NEW s \in SUBSET S, s # {}, s \ {Picked(s)} \in Good
      PROVE  s \in Good
  <2> DEFINE p == Picked(s)
             r == s \ {p}
  <2>1. f[p] \in Int /\ k[p] \in Int /\ k[p] <= f[p]
    BY <1>2, PickedIsElement
  <2>2. g[s] = f[p] + g[r] /\ h[s] = k[p] + h[r]
    BY <1>2 DEF IsSum
  <2>3. g[r] \in Int /\ h[r] \in Int /\ h[r] <= g[r]
    BY <1>2
  <2> HIDE DEF p, r
  <2> QED
    BY <2>1, <2>2, <2>3
<1>3. Good = SUBSET S
  <2> HIDE DEF Good
  <2>1. Good \in SUBSET SUBSET S
    BY DEF Good
  <2> QED
    BY <1>1, <1>2, <2>1, SubsetInduction
<1> QED
  BY <1>3

---------------------------------------------------------------------------
(* The sum itself.                                                         *)

SumOf(f, S) == MapThenSumSet(LAMBDA e : f[e], S)

(* It is the value at S of the function that the recursion defines.        *)
LEMMA SumIs ==
  ASSUME NEW S, IsFiniteSet(S), NEW f
  PROVE  \E g : IsSum(g, f, S) /\ SumOf(f, S) = g[S]
<1>1. SumOf(f, S) = (CHOOSE g : IsSum(g, f, S))[S]
  BY DEF SumOf, MapThenSumSet, MapThenFoldSet, IsSum, Picked
<1>2. IsSum(CHOOSE g : IsSum(g, f, S), f, S)
  BY SumExists
<1> QED
  BY <1>1, <1>2

(* The recursion defines one function only, and it depends on the terms    *)
(* alone.                                                                  *)
LEMMA SumUnique ==
  ASSUME NEW S, IsFiniteSet(S), NEW f, NEW k, \A e \in S : f[e] = k[e],
         NEW g, IsSum(g, f, S), NEW h, IsSum(h, k, S)
  PROVE  g[S] = h[S]
<1> DEFINE Good == {s \in SUBSET S : g[s] = h[s]}
<1>1. {} \in Good
  BY DEF IsSum
<1>2. ASSUME NEW s \in SUBSET S, s # {}, s \ {Picked(s)} \in Good
      PROVE  s \in Good
  <2>1. Picked(s) \in S
    BY <1>2, PickedIsElement
  <2>2. g[s] = f[Picked(s)] + g[s \ {Picked(s)}] /\ h[s] = k[Picked(s)] + h[s \ {Picked(s)}]
    BY <1>2 DEF IsSum
  <2> QED
    BY <1>2, <2>1, <2>2
<1>3. Good = SUBSET S
  <2> HIDE DEF Good
  <2>1. Good \in SUBSET SUBSET S
    BY DEF Good
  <2> QED
    BY <1>1, <1>2, <2>1, SubsetInduction
<1> QED
  BY <1>3

(* A sum depends on its terms only.                                        *)
LEMMA SumEqual ==
  ASSUME NEW S, IsFiniteSet(S), NEW f, NEW k, \A e \in S : f[e] = k[e]
  PROVE  SumOf(f, S) = SumOf(k, S)
<1>1. PICK g : IsSum(g, f, S) /\ SumOf(f, S) = g[S]
  BY SumIs
<1>2. PICK h : IsSum(h, k, S) /\ SumOf(k, S) = h[S]
  BY SumIs
<1> QED
  BY <1>1, <1>2, SumUnique

(* The sum over no element is 0.                                           *)
LEMMA SumEmpty == ASSUME NEW f
                  PROVE  SumOf(f, {}) = 0
<1>1. PICK g : IsSum(g, f, {}) /\ SumOf(f, {}) = g[{}]
  BY SumIs, FS_EmptySet
<1> QED
  BY <1>1 DEF IsSum

(* One step of the recursion.                                              *)
LEMMA SumStep ==
  ASSUME NEW S, IsFiniteSet(S), NEW f, S # {}
  PROVE  SumOf(f, S) = f[Picked(S)] + SumOf(f, S \ {Picked(S)})
<1> DEFINE r == S \ {Picked(S)}
<1>1. PICK g : IsSum(g, f, S) /\ SumOf(f, S) = g[S]
  BY SumIs
<1>2. g[S] = f[Picked(S)] + g[r]
  BY <1>1 DEF IsSum
<1>3. IsFiniteSet(r)
  BY FS_Subset
<1>4. PICK h : IsSum(h, f, r) /\ SumOf(f, r) = h[r]
  BY <1>3, SumIs
<1> DEFINE k == [s \in SUBSET r |-> g[s]]
<1>5. IsSum(k, f, r)
  <2>1. \A s \in SUBSET r : s # {} => s \ {Picked(s)} \in SUBSET r
    OBVIOUS
  <2>2. \A s \in SUBSET r : s \in SUBSET S /\ k[s] = g[s]
    OBVIOUS
  <2>3. \A s \in SUBSET r : k[s] = IF s = {} THEN 0 ELSE f[Picked(s)] + k[s \ {Picked(s)}]
    <3> HIDE DEF k, r
    <3> QED
      BY <1>1, <2>1, <2>2 DEF IsSum
  <2>4. k = [s \in SUBSET r |-> k[s]]
    OBVIOUS
  <2> HIDE DEF k, r
  <2> QED
    BY <2>3, <2>4 DEF IsSum
<1>6. k[r] = g[r]
  OBVIOUS
<1> HIDE DEF k, r
<1>7. k[r] = h[r]
  BY <1>3, <1>4, <1>5, SumUnique
<1> QED
  BY <1>1, <1>2, <1>4, <1>6, <1>7 DEF r

(* A sum of integers is an integer, one of natural numbers is a natural    *)
(* number.                                                                 *)
LEMMA SumOfInt ==
  ASSUME NEW S, IsFiniteSet(S), NEW f, \A e \in S : f[e] \in Int
  PROVE  SumOf(f, S) \in Int
<1>1. PICK g : IsSum(g, f, S) /\ SumOf(f, S) = g[S]
  BY SumIs
<1> QED
  BY <1>1, SumType

(* Term by term the sum of two sums.                                       *)
LEMMA SumLinear ==
  ASSUME NEW S, IsFiniteSet(S), NEW f, NEW d, NEW k,
         \A e \in S : f[e] \in Int /\ d[e] \in Int /\ k[e] = f[e] + d[e]
  PROVE  SumOf(k, S) = SumOf(f, S) + SumOf(d, S)
<1> DEFINE Good == {s \in SUBSET S : /\ SumOf(f, s) \in Int /\ SumOf(d, s) \in Int
                                     /\ SumOf(k, s) = SumOf(f, s) + SumOf(d, s)}
<1>1. {} \in Good
  BY SumEmpty
<1>2. ASSUME NEW s \in SUBSET S, s # {}, s \ {Picked(s)} \in Good
      PROVE  s \in Good
  <2> DEFINE p == Picked(s)
             r == s \ {p}
  <2>1. f[p] \in Int /\ d[p] \in Int /\ k[p] = f[p] + d[p]
    BY <1>2, PickedIsElement
  <2>2. IsFiniteSet(s)
    BY FS_Subset
  <2>3. /\ SumOf(f, s) = f[p] + SumOf(f, r) /\ SumOf(d, s) = d[p] + SumOf(d, r)
        /\ SumOf(k, s) = k[p] + SumOf(k, r)
    BY <1>2, <2>2, SumStep
  <2>4. SumOf(f, r) \in Int /\ SumOf(d, r) \in Int /\ SumOf(k, r) = SumOf(f, r) + SumOf(d, r)
    BY <1>2
  <2> HIDE DEF p, r
  <2> QED
    BY <2>1, <2>3, <2>4
<1>3. Good = SUBSET S
  <2> HIDE DEF Good
  <2>1. Good \in SUBSET SUBSET S
    BY DEF Good
  <2> QED
    BY <1>1, <1>2, <2>1, SubsetInduction
<1> QED
  BY <1>3

(* A sum of natural numbers is one, and 0 only if all terms are.           *)
LEMMA SumOfNat ==
  ASSUME NEW S, IsFiniteSet(S), NEW f, \A e \in S : f[e] \in Nat
  PROVE  /\ SumOf(f, S) \in Nat
         /\ \A e \in S : f[e] <= SumOf(f, S)
<1> DEFINE Good == {s \in SUBSET S : SumOf(f, s) \in Nat /\ \A e \in s : f[e] <= SumOf(f, s)}
<1>1. {} \in Good
  BY SumEmpty
<1>2. ASSUME NEW s \in SUBSET S, s # {}, s \ {Picked(s)} \in Good
      PROVE  s \in Good
  <2> DEFINE p == Picked(s)
             r == s \ {p}
  <2>1. p \in s /\ f[p] \in Nat
    BY <1>2, PickedIsElement
  <2>2. IsFiniteSet(s)
    BY FS_Subset
  <2>3. SumOf(f, s) = f[p] + SumOf(f, r)
    BY <1>2, <2>2, SumStep
  <2>4. SumOf(f, r) \in Nat /\ \A e \in r : f[e] <= SumOf(f, r)
    BY <1>2
  <2>5. \A e \in s : e \in r \/ e = p
    OBVIOUS
  <2>6. \A e \in s : f[e] \in Nat
    OBVIOUS
  <2> HIDE DEF p, r
  <2> QED
    BY <2>1, <2>3, <2>4, <2>5, <2>6
<1>3. Good = SUBSET S
  <2> HIDE DEF Good
  <2>1. Good \in SUBSET SUBSET S
    BY DEF Good
  <2> QED
    BY <1>1, <1>2, <2>1, SubsetInduction
<1> QED
  BY <1>3

(* A sum of zeros is 0.                                                    *)
LEMMA SumOfZeros ==
  ASSUME NEW S, IsFiniteSet(S), NEW f, \A e \in S : f[e] = 0
  PROVE  SumOf(f, S) = 0
<1>1. PICK g : IsSum(g, f, S) /\ SumOf(f, S) = g[S]
  BY SumIs
<1> QED
  BY <1>1, SumOfNothing

(* A sum changes by what its one changed term does.                        *)
LEMMA SumOfChange ==
  ASSUME NEW S, IsFiniteSet(S), NEW f, NEW k, NEW x \in S, NEW v \in Int,
         \A e \in S : f[e] \in Int /\ k[e] = f[e] + (IF e = x THEN v ELSE 0)
  PROVE  SumOf(k, S) = SumOf(f, S) + v
<1>1. PICK g : IsSum(g, f, S) /\ SumOf(f, S) = g[S]
  BY SumIs
<1>2. PICK h : IsSum(h, k, S) /\ SumOf(k, S) = h[S]
  BY SumIs
<1>3. Changed(k, f, S, x, v, x, 0)
  BY DEF Changed
<1>4. g[S] \in Int /\ h[S] = g[S] + v + 0
  BY <1>1, <1>2, <1>3, SumChanges
<1> QED
  BY <1>1, <1>2, <1>4

(* One term only is not 0.                                                 *)
LEMMA SumOfOne ==
  ASSUME NEW S, IsFiniteSet(S), NEW f, NEW x \in S, f[x] \in Int,
         \A e \in S : e # x => f[e] = 0
  PROVE  SumOf(f, S) = f[x]
<1> DEFINE z == [e \in S |-> 0]
<1>1. \A e \in S : z[e] = 0
  OBVIOUS
<1> HIDE DEF z
<1>2. \A e \in S : z[e] \in Int /\ f[e] = z[e] + (IF e = x THEN f[x] ELSE 0)
  BY <1>1
<1>3. SumOf(z, S) = 0
  BY <1>1, SumOfZeros
<1>4. SumOf(f, S) = SumOf(z, S) + f[x]
  <2> DEFINE v == f[x]
  <2>1. v \in Int /\ \A e \in S : z[e] \in Int /\ f[e] = z[e] + (IF e = x THEN v ELSE 0)
    BY <1>2
  <2> HIDE DEF v
  <2>2. SumOf(f, S) = SumOf(z, S) + v
    BY <2>1, SumOfChange
  <2> QED
    BY <2>2 DEF v
<1> QED
  BY <1>3, <1>4

(* A common factor.                                                        *)
LEMMA SumOfMultiples ==
  ASSUME NEW S, IsFiniteSet(S), NEW f, NEW k, NEW c \in Int,
         \A e \in S : f[e] \in Int /\ k[e] = f[e] * c
  PROVE  SumOf(k, S) = SumOf(f, S) * c
<1> DEFINE Good == {s \in SUBSET S : SumOf(f, s) \in Int /\ SumOf(k, s) = SumOf(f, s) * c}
<1>1. {} \in Good
  BY SumEmpty
<1>2. ASSUME NEW s \in SUBSET S, s # {}, s \ {Picked(s)} \in Good
      PROVE  s \in Good
  <2> DEFINE p == Picked(s)
             r == s \ {p}
  <2>1. f[p] \in Int /\ k[p] = f[p] * c
    BY <1>2, PickedIsElement
  <2>2. IsFiniteSet(s)
    BY FS_Subset
  <2>3. SumOf(f, s) = f[p] + SumOf(f, r) /\ SumOf(k, s) = k[p] + SumOf(k, r)
    BY <1>2, <2>2, SumStep
  <2>4. SumOf(f, r) \in Int /\ SumOf(k, r) = SumOf(f, r) * c
    BY <1>2
  <2> HIDE DEF p, r
  <2>5. (f[p] + SumOf(f, r)) * c = f[p] * c + SumOf(f, r) * c
    BY <2>1, <2>4
  <2> QED
    BY <2>1, <2>3, <2>4, <2>5
<1>3. Good = SUBSET S
  <2> HIDE DEF Good
  <2>1. Good \in SUBSET SUBSET S
    BY DEF Good
  <2> QED
    BY <1>1, <1>2, <2>1, SubsetInduction
<1> QED
  BY <1>3

\* The terms of R are those of f and the other terms of S are 0
IsPart(S, R, f, k) == \A e \in S : f[e] \in Int /\ k[e] = IF e \in R THEN f[e] ELSE 0

(* A sum over a part of a set is the sum over the set without the terms of *)
(* the others.                                                             *)
LEMMA SumOverPart ==
  ASSUME NEW S, IsFiniteSet(S), NEW R \in SUBSET S, NEW f, NEW k,
         IsPart(S, R, f, k)
  PROVE  SumOf(k, S) = SumOf(f, R)
<1>0. \A e \in S : f[e] \in Int /\ k[e] = IF e \in R THEN f[e] ELSE 0
  BY DEF IsPart
<1> DEFINE part(s) == [e \in S |-> IF e \in s THEN f[e] ELSE 0]
           Good == {s \in SUBSET S : SumOf(part(s), S) = SumOf(f, s)}
<1>1. {} \in Good
  <2>1. SumOf(part({}), S) = 0
    <3> DEFINE z == part({})
    <3>1. \A e \in S : z[e] = 0
      OBVIOUS
    <3> HIDE DEF z
    <3>2. SumOf(z, S) = 0
      BY <3>1, SumOfZeros
    <3> QED
      BY <3>2 DEF z
  <2> QED
    BY <2>1, SumEmpty
<1>2. ASSUME NEW s \in SUBSET S, s # {}, s \ {Picked(s)} \in Good
      PROVE  s \in Good
  <2> DEFINE p == Picked(s)
             r == s \ {p}
             a == part(r)
             b == part(s)
  <2>1. p \in s /\ p \in S /\ f[p] \in Int
    BY <1>0, <1>2, PickedIsElement
  <2>2. IsFiniteSet(s)
    BY FS_Subset
  <2>3. SumOf(f, s) = f[p] + SumOf(f, r)
    BY <1>2, <2>2, SumStep
  <2>4. SumOf(a, S) = SumOf(f, r)
    BY <1>2
  <2>5. \A e \in S : a[e] \in Int /\ b[e] = a[e] + (IF e = p THEN f[p] ELSE 0)
    <3> HIDE DEF p
    <3> QED
      BY <1>0, <2>1
  <2>6. SumOf(b, S) = SumOf(a, S) + f[p]
    <3> DEFINE v == f[p]
    <3>1. /\ p \in S /\ v \in Int
          /\ \A e \in S : a[e] \in Int /\ b[e] = a[e] + (IF e = p THEN v ELSE 0)
      BY <2>1, <2>5
    <3> HIDE DEF p, r, a, b, v, part, Good
    <3>2. SumOf(b, S) = SumOf(a, S) + v
      BY <3>1, SumOfChange
    <3> QED
      BY <3>2 DEF v
  <2>7. SumOf(a, S) \in Int
    <3> HIDE DEF p, r, a, b, part, Good
    <3> QED
      BY <2>5, SumOfInt
  <2>8. SumOf(b, S) = SumOf(f, s)
    <3> HIDE DEF p, r, a, b, part, Good
    <3> QED
      BY <2>1, <2>3, <2>4, <2>6, <2>7
  <2> QED
    BY <2>8
<1>3. Good = SUBSET S
  <2> HIDE DEF Good
  <2>1. Good \in SUBSET SUBSET S
    BY DEF Good
  <2> QED
    BY <1>1, <1>2, <2>1, SubsetInduction
<1>4. SumOf(part(R), S) = SumOf(f, R)
  BY <1>3
<1> DEFINE q == part(R)
<1>5. \A e \in S : k[e] = q[e]
  BY <1>0
<1> HIDE DEF q
<1>6. SumOf(k, S) = SumOf(q, S)
  BY <1>5, SumEqual
<1> QED
  BY <1>4, <1>6 DEF q

(* The sum of the rows of a table is that of its columns.                  *)
Rows(m, A, B) == [x \in A |-> SumOf(m[x], B)]
Column(m, A, y) == [x \in A |-> m[x][y]]
Columns(m, A, B) == [y \in B |-> SumOf(Column(m, A, y), A)]

(* The rows of a table add up to the same as its columns.                  *)
LEMMA SumOfRows ==
  ASSUME NEW A, IsFiniteSet(A), NEW B, IsFiniteSet(B), NEW m,
         \A x \in A : \A y \in B : m[x][y] \in Int
  PROVE  SumOf(Rows(m, A, B), A) = SumOf(Columns(m, A, B), B)
<1> DEFINE row == Rows(m, A, B)
           upTo(s) == [y \in B |-> SumOf(Column(m, A, y), s)]
           Good == {s \in SUBSET A : SumOf(row, s) = SumOf(upTo(s), B)}
<1>1. {} \in Good
  <2> DEFINE z == upTo({})
  <2>1. \A y \in B : z[y] = 0
    BY SumEmpty
  <2> HIDE DEF z
  <2>2. SumOf(z, B) = 0
    BY <2>1, SumOfZeros
  <2> QED
    BY <2>2, SumEmpty DEF z
<1>2. ASSUME NEW s \in SUBSET A, s # {}, s \ {Picked(s)} \in Good
      PROVE  s \in Good
  <2> DEFINE p == Picked(s)
             r == s \ {p}
             f == upTo(r)
             k == upTo(s)
             d == m[p]
  <2>1. p \in s /\ p \in A
    BY <1>2, PickedIsElement
  <2>2. IsFiniteSet(s) /\ IsFiniteSet(r) /\ r \in SUBSET A
    BY FS_Subset
  <2>3. SumOf(row, s) = row[p] + SumOf(row, r)
    BY <1>2, <2>2, SumStep
  <2>4. row[p] = SumOf(d, B)
    BY <2>1 DEF Rows
  <2>5. SumOf(row, r) = SumOf(f, B)
    BY <1>2
  <2>6. \A y \in B : f[y] \in Int /\ d[y] \in Int /\ k[y] = f[y] + d[y]
    <3> TAKE y \in B
    <3> DEFINE c == Column(m, A, y)
    <3>1. \A x \in A : c[x] = m[x][y] /\ c[x] \in Int
      BY DEF Column
    <3> HIDE DEF c
    <3>2. \A x \in r : c[x] \in Int
      BY <2>2, <3>1
    <3>3. SumOf(c, r) \in Int
      BY <2>2, <3>2, SumOfInt
    <3>4. SumOf(c, s) = c[p] + SumOf(c, r)
      BY <1>2, <2>2, SumStep
    <3>5. c[p] = d[y] /\ d[y] \in Int
      BY <2>1, <3>1
    <3>6. f[y] = SumOf(c, r) /\ k[y] = SumOf(c, s)
      BY DEF c
    <3> HIDE DEF p, r, f, k, d
    <3> QED
      BY <3>3, <3>4, <3>5, <3>6
  <2> HIDE DEF p, r, f, k, d, row
  <2>7. SumOf(k, B) = SumOf(f, B) + SumOf(d, B)
    BY <2>6, SumLinear
  <2>8. SumOf(f, B) \in Int /\ SumOf(d, B) \in Int
    BY <2>6, SumOfInt
  <2>9. SumOf(row, s) = SumOf(k, B)
    BY <2>3, <2>4, <2>5, <2>7, <2>8
  <2> QED
    BY <2>9 DEF k
<1>3. Good = SUBSET A
  <2> HIDE DEF Good
  <2>1. Good \in SUBSET SUBSET A
    BY DEF Good
  <2> QED
    BY <1>1, <1>2, <2>1, SubsetInduction
<1>4. SumOf(row, A) = SumOf(upTo(A), B)
  BY <1>3
<1>5. upTo(A) = Columns(m, A, B)
  BY DEF Columns
<1> QED
  BY <1>4, <1>5
===========================================================================
