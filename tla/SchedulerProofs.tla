-------------------------- MODULE SchedulerProofs --------------------------
(***************************************************************************)
(* Proofs about DistributionScheduler.                                     *)
(*                                                                         *)
(* A list is Good for what is promised when it has those weeks in order,   *)
(* and when no node, not even one that was left out of it, has one before  *)
(* it as its next: then the walks of PendingRewards and Neighbours, which  *)
(* the module defines by recursion on nodes, end from wherever they begin  *)
(* (WalkExists), and what they find is shown by induction along the list   *)
(* (WalkInduction). The invariant Kept says that every reward's list is    *)
(* Good, and that the deposits are the sums of what is promised.           *)
(***************************************************************************)
EXTENDS DistributionScheduler, SumTheorems

---------------------------------------------------------------------------
(* Recursion along a list.                                                 *)

(* What holds of an element if it holds of the one it goes on to, whose    *)
(* rank is lower, holds of all.                                            *)
LEMMA WalkInduction ==
  ASSUME NEW L \in Nat, NEW S, NEW m \in [S -> 0 .. L], NEW go, NEW nx,
         \A k \in S : go[k] => nx[k] \in S /\ m[nx[k]] < m[k],
         NEW T, \A k \in S : (go[k] => nx[k] \in T) => k \in T
  PROVE  S \subseteq T
<1> DEFINE Q == {n \in 0 .. L : \A k \in S : m[k] <= n => k \in T}
<1>1. 0 \in Q
  <2>1. ASSUME NEW k \in S, m[k] <= 0
        PROVE  ~ go[k]
    <3>1. m[k] \in 0 .. L /\ (go[k] => m[nx[k]] \in 0 .. L /\ m[nx[k]] < m[k])
      OBVIOUS
    <3> QED
      BY <2>1, <3>1
  <2> QED
    BY <2>1
<1>2. ASSUME NEW n \in 0 .. L, n + 1 \in 0 .. L, n \in Q
      PROVE  n + 1 \in Q
  <2>1. ASSUME NEW k \in S, m[k] <= n + 1, go[k]
        PROVE  nx[k] \in T
    <3>1. m[k] \in 0 .. L /\ nx[k] \in S /\ m[nx[k]] \in 0 .. L /\ m[nx[k]] < m[k]
      BY <2>1
    <3>2. m[nx[k]] <= n
      BY <2>1, <3>1
    <3> QED
      BY <1>2, <3>1, <3>2
  <2> QED
    BY <1>2, <2>1
<1> HIDE DEF Q
<1>3. \A n \in 0 .. L : n + 1 \in 0 .. L /\ n \in Q => n + 1 \in Q
  BY <1>2
<1>4. 0 .. L \subseteq Q
  BY <1>1, <1>3, UpTo
<1>5. L \in Q
  BY <1>4
<1>6. \A k \in S : m[k] <= L
  OBVIOUS
<1> QED
  BY <1>5, <1>6 DEF Q

Walks(f, S, go, nx, c, b) == f = [k \in S |-> IF go[k] THEN c[k][f[nx[k]]] ELSE b[k]]

(* The function exists that applies c[k] to its value at nx[k], or has the *)
(* value b[k] where it goes no further.                                    *)
LEMMA WalkExists ==
  ASSUME NEW L \in Nat, NEW S, NEW m \in [S -> 0 .. L], NEW go, NEW nx,
         \A k \in S : go[k] => nx[k] \in S /\ m[nx[k]] < m[k],
         NEW D, NEW c \in [S -> [D -> D]], NEW b \in [S -> D]
  PROVE  \E f \in [S -> D] : Walks(f, S, go, nx, c, b)
<1> DEFINE Low(n) == {k \in S : m[k] <= n}
           Until(n) == \E f \in [Low(n) -> D] : Walks(f, Low(n), go, nx, c, b)
           Q == {n \in 0 .. L : Until(n)}
<1>0. \A k \in S : m[k] \in 0 .. L /\ (go[k] => nx[k] \in S /\ m[nx[k]] \in 0 .. L /\ m[nx[k]] < m[k])
  OBVIOUS
<1>1. 0 \in Q
  <2> DEFINE f == [k \in Low(0) |-> b[k]]
  <2>1. \A k \in Low(0) : ~ go[k]
    BY <1>0
  <2>2. f \in [Low(0) -> D]
    OBVIOUS
  <2>3. \A k \in Low(0) : f[k] = IF go[k] THEN c[k][f[nx[k]]] ELSE b[k]
    BY <2>1
  <2> HIDE DEF f, Low
  <2>4. f = [k \in Low(0) |-> IF go[k] THEN c[k][f[nx[k]]] ELSE b[k]]
    BY <2>2, <2>3
  <2>5. Until(0)
    BY <2>2, <2>4 DEF Walks
  <2> QED
    BY <2>5
<1>2. ASSUME NEW n \in 0 .. L, n + 1 \in 0 .. L, n \in Q
      PROVE  n + 1 \in Q
  <2>1. PICK f \in [Low(n) -> D] : f = [k \in Low(n) |-> IF go[k] THEN c[k][f[nx[k]]] ELSE b[k]]
    BY <1>2 DEF Walks
  <2> DEFINE h == [k \in Low(n + 1) |-> IF k \in Low(n) THEN f[k]
                                        ELSE IF go[k] THEN c[k][f[nx[k]]] ELSE b[k]]
  <2>2. \A k \in Low(n + 1) : go[k] => nx[k] \in Low(n)
    BY <1>0
  <2>3. Low(n) \subseteq Low(n + 1) /\ Low(n + 1) \subseteq S
    BY <1>0
  <2>4. \A k \in Low(n) : f[k] = IF go[k] THEN c[k][f[nx[k]]] ELSE b[k]
    BY <2>1
  <2> HIDE DEF Low
  <2>5. h \in [Low(n + 1) -> D]
    <3>1. ASSUME NEW k \in Low(n + 1)
          PROVE  h[k] \in D
      <4>1. k \in S /\ c[k] \in [D -> D] /\ b[k] \in D
        BY <2>3
      <4>2. go[k] => f[nx[k]] \in D
        BY <2>2
      <4> QED
        BY <4>1, <4>2
    <3> QED
      BY <3>1
  <2>6. \A k \in Low(n + 1) : h[k] = IF go[k] THEN c[k][f[nx[k]]] ELSE b[k]
    BY <2>4
  <2>7. \A k \in Low(n) : h[k] = f[k]
    BY <2>3
  <2> HIDE DEF h
  <2>8. \A k \in Low(n + 1) : h[k] = IF go[k] THEN c[k][h[nx[k]]] ELSE b[k]
    BY <2>2, <2>6, <2>7
  <2>9. h = [k \in Low(n + 1) |-> IF go[k] THEN c[k][h[nx[k]]] ELSE b[k]]
    BY <2>5, <2>8
  <2>10. Until(n + 1)
    BY <2>5, <2>9 DEF Walks
  <2> QED
    BY <1>2, <2>10
<1>3. Low(L) = S
  BY <1>0
<1> HIDE DEF Q
<1>4. \A n \in 0 .. L : n + 1 \in 0 .. L /\ n \in Q => n + 1 \in Q
  BY <1>2
<1>5. 0 .. L \subseteq Q
  BY <1>1, <1>4, UpTo
<1>6. L \in 0 .. L
  OBVIOUS
<1>7. Until(L)
  BY <1>5, <1>6 DEF Q
<1> HIDE DEF Low
<1> QED
  BY <1>3, <1>7

---------------------------------------------------------------------------
(* Weeks.                                                                  *)

LastKey == MaxTimestamp + YearAhead

(* The keys are some of the numbers up to the last, and 0 is one.          *)
LEMMA KeyFacts ==
  /\ LastKey \in Nat /\ Keys \subseteq 0 .. LastKey /\ IsFiniteSet(Keys)
  /\ HEAD = 0 /\ NULL = 0 /\ 0 \in Keys
<1>1. SecondsInWeek \in Nat /\ SecondsInWeek > 0 /\ LastKey \in Nat
  BY SchedulerAssumption DEF LastKey
<1>2. ASSUME NEW t \in Nat
      PROVE  StartOfWeek(t) \in 0 .. t
  <2> DEFINE q == t \div SecondsInWeek
  <2>1. q \in Nat /\ q * SecondsInWeek + (t % SecondsInWeek) = t /\ t % SecondsInWeek \in Nat
    BY <1>1
  <2>2. q * SecondsInWeek \in Nat
    <3> HIDE DEF q
    <3> QED
      BY <1>1, <2>1
  <2>3. StartOfWeek(t) = q * SecondsInWeek
    BY DEF StartOfWeek
  <2> DEFINE x == q * SecondsInWeek
             y == t % SecondsInWeek
  <2>4. x \in Nat /\ y \in Nat /\ x + y = t
    BY <2>1, <2>2
  <2> HIDE DEF x, y
  <2>5. x \in 0 .. t
    BY <2>4
  <2> QED
    BY <2>3, <2>5 DEF x
<1>3. ASSUME NEW t \in StartTimes \cup {HEAD}
      PROVE  StartOfWeek(t) \in 0 .. LastKey
  <2>1. t \in Nat /\ t <= LastKey
    BY <1>1 DEF StartTimes, HEAD, LastKey
  <2>2. StartOfWeek(t) \in 0 .. t
    BY <1>2, <2>1
  <2> QED
    BY <1>1, <2>1, <2>2
<1>4. Keys \subseteq 0 .. LastKey
  BY <1>3 DEF Keys
<1>5. IsFiniteSet(0 .. LastKey)
  BY <1>1, FS_Interval
<1>6. StartOfWeek(0) = 0
  <2>1. StartOfWeek(0) \in 0 .. 0
    BY <1>2
  <2> QED
    BY <2>1
<1> QED
  BY <1>1, <1>4, <1>5, <1>6, FS_Subset DEF Keys, HEAD, NULL

(* A set of numbers that is not empty has a least.                         *)
LEMMA MinIsLeast ==
  ASSUME NEW S \in SUBSET Nat, S # {}
  PROVE  Min(S) \in S /\ \A x \in S : Min(S) <= x
<1> DEFINE Less == OpToRel(<, Nat)
<1> HIDE DEF Less
<1>1. PICK n \in S : \A m \in S : ~ (<<m, n>> \in Less)
  BY NatLessThanWellFounded, WFMin DEF Less
<1>2. ASSUME NEW m \in S
      PROVE  n <= m
  <2>1. m < n => <<m, n>> \in Less
    BY DEF Less, OpToRel
  <2> QED
    BY <1>1, <2>1
<1> QED
  BY <1>2 DEF Min

(* The least of a set is the element that is not above any other.          *)
LEMMA LeastIsMin ==
  ASSUME NEW S \in SUBSET Nat, NEW x \in S, \A y \in S : x <= y
  PROVE  Min(S) = x
<1>1. Min(S) \in S /\ Min(S) <= x /\ x <= Min(S)
  BY MinIsLeast
<1>2. Min(S) \in Nat /\ x \in Nat
  BY <1>1
<1> QED
  BY <1>1, <1>2

\* The first of some weeks, or the end of the list
First(S) == IF S = {} THEN NULL ELSE Min(S)

---------------------------------------------------------------------------
(* The list of a reward.                                                   *)

Lists == [Keys -> [amount : Nat, nextTimestamp : Keys]]
Promises == [Keys -> Nat]

\* The weeks that something is promised for, and those of them after k
Unpaid(p) == {w \in Keys : p[w] > 0}
After(p, k) == {w \in Unpaid(p) : w > k}

\* No node, whether in the list or left out of it, has one before it as its next
Forward(list) == \A k \in Keys : list[k].nextTimestamp # NULL => k < list[k].nextTimestamp

\* The list has the weeks of p, in order, with their amounts
InOrder(list, p) ==
    /\ \A k \in Unpaid(p) \cup {HEAD} : list[k].nextTimestamp = First(After(p, k))
    /\ \A w \in Unpaid(p) : list[w].amount = p[w]

Good(list, p) ==
    /\ list \in Lists /\ Forward(list)
    /\ p \in Promises /\ p[HEAD] = 0
    /\ InOrder(list, p)

(* What the parts of Good say, node by node.                               *)
LEMMA GoodFacts ==
  ASSUME NEW list, NEW p, Good(list, p)
  PROVE  /\ \A k \in Keys : /\ list[k].nextTimestamp \in Keys /\ list[k].amount \in Nat /\ p[k] \in Nat
                            /\ list[k].nextTimestamp # 0 => k < list[k].nextTimestamp
         /\ Unpaid(p) \in SUBSET Keys /\ IsFiniteSet(Unpaid(p)) /\ 0 \notin Unpaid(p)
         /\ \A w \in Unpaid(p) : w \in Nat \ {0} /\ p[w] \in Nat \ {0} /\ list[w].amount = p[w]
         /\ \A k \in Unpaid(p) \cup {0} :
              IF After(p, k) = {} THEN list[k].nextTimestamp = 0
              ELSE /\ list[k].nextTimestamp \in Unpaid(p)
                   /\ list[k].nextTimestamp > k
                   /\ \A w \in Unpaid(p) : w > k => list[k].nextTimestamp <= w
<1>1. \A k \in Keys : /\ list[k].nextTimestamp \in Keys /\ list[k].amount \in Nat /\ p[k] \in Nat
                      /\ list[k].nextTimestamp # 0 => k < list[k].nextTimestamp
  BY KeyFacts DEF Good, Lists, Promises, Forward
<1>2. Unpaid(p) \in SUBSET Keys /\ IsFiniteSet(Unpaid(p)) /\ 0 \notin Unpaid(p)
  BY KeyFacts, FS_Subset DEF Unpaid, Good
<1>3. ASSUME NEW w \in Unpaid(p)
      PROVE  w \in Nat \ {0} /\ p[w] \in Nat \ {0} /\ list[w].amount = p[w]
  <2>1. w \in Keys /\ w # 0
    BY <1>2
  <2>2. w \in Nat
    BY <2>1, KeyFacts
  <2>3. p[w] \in Nat /\ p[w] > 0
    BY <1>1, <2>1 DEF Unpaid
  <2> QED
    BY <2>1, <2>2, <2>3 DEF Good, InOrder
<1>4. ASSUME NEW k \in Unpaid(p) \cup {0}, After(p, k) # {}
      PROVE  /\ list[k].nextTimestamp \in Unpaid(p)
             /\ list[k].nextTimestamp > k
             /\ \A w \in Unpaid(p) : w > k => list[k].nextTimestamp <= w
  <2>1. list[k].nextTimestamp = Min(After(p, k))
    BY <1>4, KeyFacts DEF Good, InOrder, First
  <2>2. After(p, k) \in SUBSET Nat
    BY <1>3 DEF After
  <2>3. Min(After(p, k)) \in After(p, k) /\ \A w \in After(p, k) : Min(After(p, k)) <= w
    BY <1>4, <2>2, MinIsLeast
  <2> QED
    BY <2>1, <2>3 DEF After
<1>5. ASSUME NEW k \in Unpaid(p) \cup {0}, After(p, k) = {}
      PROVE  list[k].nextTimestamp = 0
  BY <1>5, KeyFacts DEF Good, InOrder, First
<1> QED
  BY <1>1, <1>2, <1>3, <1>4, <1>5

(* A sum over one element more.                                            *)
LEMMA SumOfMore ==
  ASSUME NEW S, IsFiniteSet(S), NEW x, x \notin S, NEW f, f[x] \in Int, \A e \in S : f[e] \in Int
  PROVE  SumOf(f, S \cup {x}) = f[x] + SumOf(f, S)
<1> DEFINE R == S \cup {x}
           v == f[x]
           k == [e \in R |-> IF e \in S THEN f[e] ELSE 0]
<1>1. IsFiniteSet(R) /\ S \in SUBSET R /\ x \in R
  BY FS_AddElement
<1>2. \A e \in R : k[e] \in Int /\ f[e] = k[e] + (IF e = x THEN v ELSE 0)
  OBVIOUS
<1>3. IsPart(R, S, f, k)
  BY DEF IsPart
<1>4. v \in Int
  OBVIOUS
<1> HIDE DEF R, k, v
<1>5. SumOf(f, R) = SumOf(k, R) + v
  BY <1>1, <1>2, <1>4, SumOfChange
<1>6. SumOf(k, R) = SumOf(f, S)
  BY <1>1, <1>3, SumOverPart
<1>7. SumOf(f, S) \in Int
  BY SumOfInt
<1> QED
  BY <1>4, <1>5, <1>6, <1>7 DEF R, v

---------------------------------------------------------------------------
(* The walk that finds what is due.                                        *)

Pending == [key : Keys, amount : Nat]

\* from, as PendingRewards defines it
WalksFrom(f, list, t) ==
    f = [k \in Keys |->
            IF k # NULL /\ t >= k
            THEN LET rest == f[list[k].nextTimestamp]
                 IN  [rest EXCEPT !.amount = @ + list[k].amount]
            ELSE [key |-> k, amount |-> 0]]

\* The weeks of p from k on that are due at t, and those that are not
DueFrom(p, k, t) == {w \in Unpaid(p) : k <= w /\ w <= t}
NotDueFrom(p, k, t) == {w \in Unpaid(p) : k <= w /\ w > t}

(* The walk ends, wherever it begins.                                      *)
LEMMA FromExists ==
  ASSUME NEW list, NEW p, Good(list, p), NEW t \in Nat
  PROVE  \E f \in [Keys -> Pending] : WalksFrom(f, list, t)
<1> DEFINE go == [k \in Keys |-> k # 0 /\ t >= k]
           nx == [k \in Keys |-> list[k].nextTimestamp]
           m == [k \in Keys |-> IF k = 0 THEN 0 ELSE LastKey + 1 - k]
           c == [k \in Keys |-> [d \in Pending |-> [key |-> d.key, amount |-> d.amount + list[k].amount]]]
           b == [k \in Keys |-> [key |-> k, amount |-> 0]]
           L == LastKey + 1
<1>1. L \in Nat /\ Keys \subseteq 0 .. LastKey /\ LastKey \in Nat
  BY KeyFacts
<1>2. m \in [Keys -> 0 .. L]
  <2>1. ASSUME NEW k \in Keys
        PROVE  (IF k = 0 THEN 0 ELSE LastKey + 1 - k) \in 0 .. L
    <3>1. k \in 0 .. LastKey
      BY <1>1
    <3> QED
      BY <1>1, <3>1
  <2> QED
    BY <2>1
<1>3. ASSUME NEW k \in Keys, go[k]
      PROVE  nx[k] \in Keys /\ m[nx[k]] < m[k]
  <2> DEFINE n == list[k].nextTimestamp
  <2>1. n \in Keys /\ (n # 0 => k < n) /\ k # 0 /\ nx[k] = n
    BY <1>3, GoodFacts
  <2>2. k \in 0 .. LastKey /\ n \in 0 .. LastKey
    BY <1>1, <2>1
  <2> HIDE DEF n
  <2>3. m[k] = LastKey + 1 - k /\ m[n] = IF n = 0 THEN 0 ELSE LastKey + 1 - n
    BY <2>1
  <2> HIDE DEF m, nx
  <2> QED
    BY <1>1, <2>1, <2>2, <2>3
<1>4. c \in [Keys -> [Pending -> Pending]]
  <2>1. ASSUME NEW k \in Keys, NEW d \in Pending
        PROVE  [key |-> d.key, amount |-> d.amount + list[k].amount] \in Pending
    <3>1. list[k].amount \in Nat
      BY GoodFacts
    <3> QED
      BY <3>1 DEF Pending
  <2> QED
    BY <2>1
<1>5. b \in [Keys -> Pending]
  BY DEF Pending
<1>6. \A k \in Keys : go[k] => nx[k] \in Keys /\ m[nx[k]] < m[k]
  BY <1>3
<1> HIDE DEF go, nx, m, c, b, L
<1>7. PICK f \in [Keys -> Pending] : Walks(f, Keys, go, nx, c, b)
  BY <1>1, <1>2, <1>4, <1>5, <1>6, WalkExists
<1>8. ASSUME NEW k \in Keys
      PROVE  f[k] = IF k # NULL /\ t >= k
                    THEN [f[list[k].nextTimestamp] EXCEPT !.amount = @ + list[k].amount]
                    ELSE [key |-> k, amount |-> 0]
  <2> DEFINE n == list[k].nextTimestamp
  <2>1. n \in Keys /\ nx[k] = n /\ NULL = 0 /\ f[n] \in Pending
    BY GoodFacts, KeyFacts DEF nx
  <2>2. f[k] = IF go[k] THEN c[k][f[n]] ELSE b[k]
    BY <1>7, <2>1 DEF Walks
  <2>3. go[k] = (k # NULL /\ t >= k) /\ b[k] = [key |-> k, amount |-> 0]
    BY <2>1 DEF go, b
  <2>4. c[k][f[n]] = [f[n] EXCEPT !.amount = @ + list[k].amount]
    <3>1. c[k][f[n]] = [key |-> f[n].key, amount |-> f[n].amount + list[k].amount]
      BY <2>1 DEF c
    <3> HIDE DEF n
    <3> QED
      BY <2>1, <3>1 DEF Pending
  <2> HIDE DEF n
  <2> QED
    BY <2>2, <2>3, <2>4 DEF n
<1>9. f = [k \in Keys |-> f[k]]
  OBVIOUS
<1>10. WalksFrom(f, list, t)
  BY <1>8, <1>9 DEF WalksFrom
<1> QED
  BY <1>10

(* What is due from a week on, and from the next one.                      *)
LEMMA DueSplits ==
  ASSUME NEW p, Unpaid(p) \in SUBSET Nat, NEW t \in Nat, NEW k \in Unpaid(p)
  PROVE  /\ t < k => /\ DueFrom(p, k, t) = {} /\ k \in NotDueFrom(p, k, t)
                     /\ \A w \in NotDueFrom(p, k, t) : w \in Nat /\ k <= w
         /\ t >= k /\ (\A w \in Unpaid(p) : ~ (w > k)) =>
              /\ DueFrom(p, k, t) = {} \cup {k}
              /\ NotDueFrom(p, k, t) = {}
         /\ \A n \in Unpaid(p) :
              t >= k /\ n > k /\ (\A w \in Unpaid(p) : w > k => n <= w) =>
                /\ DueFrom(p, k, t) = DueFrom(p, n, t) \cup {k} /\ k \notin DueFrom(p, n, t)
                /\ NotDueFrom(p, k, t) = NotDueFrom(p, n, t)
<1> DEFINE U == Unpaid(p)
<1>1. U \in SUBSET Nat /\ k \in U /\ k \in Nat /\ \A w \in U : w \in Nat
  OBVIOUS
<1> HIDE DEF U
<1>2. ASSUME t < k
      PROVE  /\ {w \in U : k <= w /\ w <= t} = {} /\ k \in {w \in U : k <= w /\ w > t}
             /\ \A w \in {v \in U : k <= v /\ v > t} : w \in Nat /\ k <= w
  <2>1. \A w \in U : ~ (k <= w /\ w <= t)
    BY <1>1, <1>2
  <2>2. k \in U /\ k <= k /\ k > t
    BY <1>1, <1>2
  <2>3. k \in {w \in U : k <= w /\ w > t}
    BY <2>2
  <2>4. {w \in U : k <= w /\ w <= t} = {}
    BY <2>1
  <2>5. \A w \in {v \in U : k <= v /\ v > t} : w \in Nat /\ k <= w
    BY <1>1
  <2> QED
    BY <2>3, <2>4, <2>5
<1>3. ASSUME t >= k, \A w \in U : ~ (w > k)
      PROVE  /\ {w \in U : k <= w /\ w <= t} = {} \cup {k}
             /\ {w \in U : k <= w /\ w > t} = {}
  <2>1. \A w \in U : (k <= w) <=> w = k
    BY <1>1, <1>3
  <2>2. k <= t /\ ~ (k > t)
    BY <1>1, <1>3
  <2>3. \A w \in U : ~ (k <= w /\ w > t)
    BY <2>1, <2>2
  <2>4. \A w \in U : (k <= w /\ w <= t) <=> w = k
    BY <2>1, <2>2
  <2>5. {w \in U : k <= w /\ w > t} = {}
    BY <2>3
  <2>6. {w \in U : k <= w /\ w <= t} = {} \cup {k}
    BY <1>1, <2>4
  <2> QED
    BY <2>5, <2>6
<1>4. ASSUME NEW n \in U, t >= k, n > k, \A w \in U : w > k => n <= w
      PROVE  /\ {w \in U : k <= w /\ w <= t} = {w \in U : n <= w /\ w <= t} \cup {k}
             /\ k \notin {w \in U : n <= w /\ w <= t}
             /\ {w \in U : k <= w /\ w > t} = {w \in U : n <= w /\ w > t}
  <2>1. n \in Nat /\ \A w \in U : (k <= w) <=> (w = k \/ n <= w)
    BY <1>1, <1>4
  <2>2. ~ (n <= k) /\ ~ (k > t)
    BY <1>1, <1>4, <2>1
  <2> QED
    BY <1>1, <1>4, <2>1, <2>2
<1>5. \A j \in U \cup {k} : /\ DueFrom(p, j, t) = {w \in U : j <= w /\ w <= t}
                            /\ NotDueFrom(p, j, t) = {w \in U : j <= w /\ w > t}
  BY DEF DueFrom, NotDueFrom, U
<1>6. t < k => /\ DueFrom(p, k, t) = {} /\ k \in NotDueFrom(p, k, t)
               /\ \A w \in NotDueFrom(p, k, t) : w \in Nat /\ k <= w
  BY <1>2, <1>5
<1>7. t >= k /\ (\A w \in U : ~ (w > k)) =>
        /\ DueFrom(p, k, t) = {} \cup {k}
        /\ NotDueFrom(p, k, t) = {}
  BY <1>3, <1>5
<1>8. \A n \in U : t >= k /\ n > k /\ (\A w \in U : w > k => n <= w) =>
        /\ DueFrom(p, k, t) = DueFrom(p, n, t) \cup {k} /\ k \notin DueFrom(p, n, t)
        /\ NotDueFrom(p, k, t) = NotDueFrom(p, n, t)
  BY <1>4, <1>5
<1> QED
  BY <1>6, <1>7, <1>8 DEF U

\* The walk from k sums up what is due from then on and ends at the first week that is not
WalkIsRight(f, p, k, t) ==
    f[k] = [key |-> First(NotDueFrom(p, k, t)), amount |-> SumOf(p, DueFrom(p, k, t))]

(* The walk from a week, if it is right from the next one.                 *)
LEMMA WalkStep ==
  ASSUME NEW list, NEW p, Good(list, p), NEW t \in Nat,
         NEW f, WalksFrom(f, list, t), NEW k \in Unpaid(p),
         t >= k /\ list[k].nextTimestamp # 0 => WalkIsRight(f, p, list[k].nextTimestamp, t)
  PROVE  WalkIsRight(f, p, k, t)
<1> DEFINE U == Unpaid(p)
           n == list[k].nextTimestamp
           x == p[k]
           D(j) == DueFrom(p, j, t)
           N(j) == NotDueFrom(p, j, t)
<1>1. /\ U \in SUBSET Keys /\ IsFiniteSet(U) /\ 0 \notin U /\ NULL = 0 /\ U \in SUBSET Nat
      /\ k \in Nat \ {0} /\ x \in Nat \ {0} /\ list[k].amount = x /\ \A w \in U : p[w] \in Int
  BY GoodFacts, KeyFacts
<1>2. f[k] = IF t >= k THEN [f[n] EXCEPT !.amount = @ + x] ELSE [key |-> k, amount |-> 0]
  <2>1. k \in Keys /\ k # NULL
    BY <1>1
  <2> QED
    BY <1>1, <2>1 DEF WalksFrom
<1>3. f[0] = [key |-> 0, amount |-> 0]
  BY KeyFacts DEF WalksFrom
<1>4. CASE t < k
  <2>1. f[k] = [key |-> k, amount |-> 0]
    <3>1. ~ (t >= k)
      BY <1>1, <1>4
    <3> QED
      BY <1>2, <3>1
  <2>2. D(k) = {} /\ k \in N(k) /\ \A w \in N(k) : w \in Nat /\ k <= w
    BY <1>1, <1>4, DueSplits
  <2> HIDE DEF D, N
  <2>3. Min(N(k)) = k
    BY <2>2, LeastIsMin
  <2>4. First(N(k)) = k
    BY <2>2, <2>3 DEF First
  <2> QED
    BY <2>1, <2>2, <2>4, SumEmpty DEF WalkIsRight, D, N
<1>5. CASE t >= k /\ n = 0
  <2>1. f[k] = [key |-> 0, amount |-> x]
    <3>1. f[n] = [key |-> 0, amount |-> 0] /\ f[k] = [f[n] EXCEPT !.amount = @ + x]
      BY <1>2, <1>3, <1>5
    <3> HIDE DEF n, x
    <3> QED
      BY <1>1, <3>1
  <2>2. \A w \in U : ~ (w > k)
    <3>1. After(p, k) = {}
      <4>1. After(p, k) # {} => n \in U
        BY GoodFacts
      <4> QED
        BY <1>1, <1>5, <4>1
    <3> QED
      BY <3>1 DEF After
  <2>3. D(k) = {} \cup {k} /\ N(k) = {}
    BY <1>1, <1>5, <2>2, DueSplits
  <2>4. SumOf(p, {} \cup {k}) = p[k] + SumOf(p, {})
    <3>1. k \notin {} /\ p[k] \in Int /\ \A e \in {} : p[e] \in Int
      BY <1>1
    <3> QED
      BY <3>1, FS_EmptySet, SumOfMore
  <2>5. SumOf(p, D(k)) = x /\ First(N(k)) = 0
    <3> HIDE DEF D, N
    <3> QED
      BY <1>1, <2>3, <2>4, SumEmpty DEF First
  <2> QED
    BY <2>1, <2>5 DEF WalkIsRight
<1>6. CASE t >= k /\ n # 0
  <2>1. n \in U /\ n > k /\ \A w \in U : w > k => n <= w
    BY <1>6, GoodFacts
  <2>2. D(k) = D(n) \cup {k} /\ k \notin D(n) /\ N(k) = N(n)
    BY <1>1, <1>6, <2>1, DueSplits
  <2>3. IsFiniteSet(D(n)) /\ \A w \in D(n) : p[w] \in Int
    BY <1>1, FS_Subset DEF DueFrom
  <2>4. p[k] \in Int
    BY <1>1
  <2>5. SumOf(p, D(n)) \in Int
    BY <2>3, SumOfInt
  <2>6. SumOf(p, D(n) \cup {k}) = x + SumOf(p, D(n))
    BY <2>2, <2>3, <2>4, SumOfMore
  <2>7. f[n] = [key |-> First(N(n)), amount |-> SumOf(p, D(n))]
    BY <1>6 DEF WalkIsRight
  <2>8. f[k] = [f[n] EXCEPT !.amount = @ + x]
    BY <1>2, <1>6
  <2> HIDE DEF D, N, n, x
  <2>9. f[k] = [key |-> First(N(n)), amount |-> SumOf(p, D(n)) + x]
    BY <2>7, <2>8
  <2>10. SumOf(p, D(n)) + x = SumOf(p, D(k))
    BY <1>1, <2>2, <2>5, <2>6
  <2> QED
    BY <2>2, <2>9, <2>10 DEF WalkIsRight, D, N
<1>7. t < k \/ t >= k
  BY <1>1
<1> QED
  BY <1>4, <1>5, <1>6, <1>7

(* The walk from any week that something is promised for is right.         *)
LEMMA WalkSums ==
  ASSUME NEW list, NEW p, Good(list, p), NEW t \in Nat,
         NEW f, WalksFrom(f, list, t), NEW x \in Unpaid(p)
  PROVE  WalkIsRight(f, p, x, t)
<1> DEFINE U == Unpaid(p)
           T == {k \in U : WalkIsRight(f, p, k, t)}
           go == [k \in U |-> t >= k /\ list[k].nextTimestamp # 0]
           nx == [k \in U |-> list[k].nextTimestamp]
           m == [k \in U |-> LastKey - k]
<1>1. LastKey \in Nat /\ \A k \in U : k \in 0 .. LastKey
  BY GoodFacts, KeyFacts
<1>2. m \in [U -> 0 .. LastKey]
  BY <1>1
<1>3. ASSUME NEW k \in U, go[k]
      PROVE  nx[k] \in U /\ m[nx[k]] < m[k]
  <2> DEFINE n == list[k].nextTimestamp
  <2>1. n \in U /\ n > k /\ nx[k] = n
    BY <1>3, GoodFacts
  <2>2. m[n] = LastKey - n /\ m[k] = LastKey - k
    BY <2>1
  <2>3. n \in Nat /\ k \in Nat
    BY <1>1, <2>1
  <2> HIDE DEF n, m, nx
  <2> QED
    BY <1>1, <2>1, <2>2, <2>3
<1>4. ASSUME NEW k \in U, go[k] => nx[k] \in T
      PROVE  k \in T
  <2>1. t >= k /\ list[k].nextTimestamp # 0 => WalkIsRight(f, p, list[k].nextTimestamp, t)
    BY <1>4
  <2> QED
    BY <2>1, WalkStep
<1> HIDE DEF T, go, nx, m
<1>5. U \subseteq T
  <2>1. \A k \in U : go[k] => nx[k] \in U /\ m[nx[k]] < m[k]
    BY <1>3
  <2>2. \A k \in U : (go[k] => nx[k] \in T) => k \in T
    BY <1>4
  <2> HIDE DEF U
  <2> QED
    BY <1>1, <1>2, <2>1, <2>2, WalkInduction
<1> QED
  BY <1>5 DEF T

\* The weeks of p that are due at t, and those that are not
DueAt(p, t) == {w \in Unpaid(p) : w <= t}
NotDueAt(p, t) == {w \in Unpaid(p) : w > t}

(* PendingRewards returns what is due, and the first week that is not.     *)
LEMMA PendingIs ==
  ASSUME NEW list, NEW p, Good(list, p), NEW t \in Nat
  PROVE  /\ PendingRewards(list, t).amount = SumOf(p, DueAt(p, t))
         /\ PendingRewards(list, t).key = First(NotDueAt(p, t))
<1> DEFINE f == CHOOSE h : WalksFrom(h, list, t)
           n == list[HEAD].nextTimestamp
           U == Unpaid(p)
<1>1. PendingRewards(list, t) = f[n]
  BY DEF PendingRewards, WalksFrom
<1>2. PICK h \in [Keys -> Pending] : WalksFrom(h, list, t)
  BY FromExists
<1>3. WalksFrom(f, list, t)
  BY <1>2
<1> HIDE DEF f
<1>4. n \in Keys /\ 0 \in Keys /\ HEAD = 0 /\ NULL = 0 /\ Keys \subseteq Nat
  BY KeyFacts, GoodFacts
<1>5. CASE n = 0
  <2>1. f[n] = [key |-> 0, amount |-> 0]
    BY <1>3, <1>4, <1>5 DEF WalksFrom
  <2>2. U = {}
    <3>1. After(p, 0) = {}
      <4>1. After(p, 0) # {} => n \in U
        BY <1>4, GoodFacts
      <4>2. 0 \notin U
        BY GoodFacts
      <4> QED
        BY <1>5, <4>1, <4>2
    <3>2. \A w \in U : w > 0
      BY GoodFacts
    <3> QED
      BY <3>1, <3>2 DEF After
  <2>3. DueAt(p, t) = {} /\ NotDueAt(p, t) = {}
    BY <2>2 DEF DueAt, NotDueAt
  <2> QED
    BY <1>1, <1>4, <2>1, <2>3, SumEmpty DEF First
<1>6. CASE n # 0
  <2>1. After(p, 0) # {}
    BY <1>4, <1>6, GoodFacts
  <2>2. n \in U /\ \A w \in U : w > 0 => n <= w
    BY <1>4, <2>1, GoodFacts
  <2>3. \A w \in U : w \in Nat /\ n <= w
    BY <2>2, GoodFacts
  <2>4. DueAt(p, t) = DueFrom(p, n, t) /\ NotDueAt(p, t) = NotDueFrom(p, n, t)
    BY <2>3 DEF DueAt, NotDueAt, DueFrom, NotDueFrom
  <2>5. WalkIsRight(f, p, n, t)
    BY <1>3, <2>2, WalkSums
  <2> QED
    BY <1>1, <2>4, <2>5 DEF WalkIsRight
<1> QED
  BY <1>5, <1>6

(* What is passed on leaves the list, and the rest stays in order: the     *)
(* nodes behind the head keep their next ones.                             *)
LEMMA StartKeepsOrder ==
  ASSUME NEW list, NEW p, Good(list, p), NEW t \in Nat,
         NEW list2, list2 = [list EXCEPT ![HEAD].nextTimestamp = PendingRewards(list, t).key],
         NEW p2, p2 = [w \in Keys |-> IF w <= t THEN 0 ELSE p[w]]
  PROVE  /\ Good(list2, p2)
         /\ SumOf(p2, Keys) = SumOf(p, Keys) - PendingRewards(list, t).amount
         /\ PendingRewards(list, t).amount \in Nat
<1> DEFINE U == Unpaid(p)
           U2 == Unpaid(p2)
           n == PendingRewards(list, t).key
           d == PendingRewards(list, t).amount
<1>1. /\ U \in SUBSET Keys /\ IsFiniteSet(U) /\ 0 \notin U /\ NULL = 0 /\ HEAD = 0 /\ U \in SUBSET Nat
      /\ Keys \subseteq 0 .. LastKey /\ LastKey \in Nat /\ 0 \in Keys
      /\ IsFiniteSet(Keys) /\ Keys \subseteq Nat
      /\ \A k \in Keys : p[k] \in Nat
  BY GoodFacts, KeyFacts
<1>2. d = SumOf(p, DueAt(p, t)) /\ n = First(NotDueAt(p, t))
  BY PendingIs
<1>3. p2 \in Promises /\ p2[HEAD] = 0 /\ \A w \in Keys : p2[w] = IF w <= t THEN 0 ELSE p[w]
  BY <1>1 DEF Promises
<1>4. U2 = NotDueAt(p, t) /\ U2 \in SUBSET U /\ \A w \in U2 : p2[w] = p[w] /\ w > t
  <2>1. \A w \in Keys : w \in Nat /\ ((w <= t) <=> ~ (w > t))
    BY <1>1
  <2> QED
    BY <1>3, <2>1 DEF Unpaid, NotDueAt
<1>5. n = 0 \/ n \in U2
  BY <1>1, <1>2, <1>4, MinIsLeast DEF First
<1>6. n \in Keys /\ (n # 0 => 0 < n)
  <2>1. n \in Keys
    BY <1>1, <1>4, <1>5
  <2> QED
    BY <1>1, <2>1
<1> HIDE DEF n, d
<1>7. /\ list2 \in Lists /\ list2[0] = [list[0] EXCEPT !.nextTimestamp = n]
      /\ \A k \in Keys : k # 0 => list2[k] = list[k]
  BY <1>1, <1>6 DEF Good, Lists, n
<1>8. list2[0].nextTimestamp = n
  BY <1>1, <1>7 DEF Good, Lists
<1>9. Forward(list2)
  BY <1>1, <1>6, <1>7, <1>8 DEF Forward, Good
<1>10. ASSUME NEW k \in U2 \cup {HEAD}
       PROVE  list2[k].nextTimestamp = First(After(p2, k))
  <2>1. CASE k = HEAD
    <3>1. \A w \in U2 : w > 0
      BY <1>1, <1>4
    <3>2. After(p2, k) = U2
      BY <1>1, <2>1, <3>1 DEF After
    <3> QED
      BY <1>1, <1>2, <1>4, <1>8, <2>1, <3>2
  <2>2. CASE k # HEAD
    <3>1. k \in U /\ k > t /\ k \in Nat /\ list2[k] = list[k]
      BY <1>1, <1>4, <1>7, <2>2
    <3>2. list[k].nextTimestamp = First(After(p, k))
      BY <3>1 DEF Good, InOrder
    <3>3. \A w \in U : w > k => w > t
      BY <1>1, <3>1
    <3>4. After(p2, k) = After(p, k)
      BY <1>4, <3>3 DEF After, NotDueAt
    <3> QED
      BY <3>1, <3>2, <3>4
  <2> QED
    BY <2>1, <2>2
<1>11. \A w \in U2 : list2[w].amount = p2[w]
  <2>1. \A w \in U2 : w \in U /\ w # 0 /\ w \in Keys
    BY <1>1, <1>4
  <2>2. \A w \in U : list[w].amount = p[w]
    BY DEF Good, InOrder
  <2> QED
    BY <1>4, <1>7, <2>1, <2>2
<1>12. Good(list2, p2)
  BY <1>3, <1>7, <1>9, <1>10, <1>11 DEF Good, InOrder
<1>13. SumOf(p2, Keys) = SumOf(p, Keys) - d /\ d \in Nat
  <2> DEFINE D == DueAt(p, t)
             q == [w \in Keys |-> IF w \in D THEN p[w] ELSE 0]
  <2>1. D \in SUBSET Keys /\ IsFiniteSet(D) /\ \A w \in Keys : p[w] # 0 /\ w <= t => w \in D
    <3>1. D \in SUBSET Keys
      BY <1>1 DEF DueAt
    <3>2. \A w \in Keys : p[w] # 0 => w \in U
      BY <1>1 DEF Unpaid
    <3> QED
      BY <1>1, <3>1, <3>2, FS_Subset DEF DueAt
  <2>2. \A w \in D : w <= t
    BY DEF DueAt
  <2> HIDE DEF D
  <2>3. \A w \in Keys : p2[w] \in Int /\ q[w] \in Int /\ p[w] = p2[w] + q[w]
    BY <1>1, <1>3, <2>1, <2>2
  <2>4. IsPart(Keys, D, p, q)
    BY <1>1 DEF IsPart
  <2> HIDE DEF q
  <2>5. SumOf(q, Keys) = SumOf(p, D)
    BY <1>1, <2>1, <2>4, SumOverPart
  <2>6. SumOf(p, Keys) = SumOf(p2, Keys) + SumOf(q, Keys)
    BY <1>1, <2>3, SumLinear
  <2>7. SumOf(p, D) \in Nat
    <3>1. \A w \in D : p[w] \in Nat
      BY <1>1, <2>1
    <3> QED
      BY <2>1, <3>1, SumOfNat
  <2>8. SumOf(p2, Keys) \in Int
    BY <1>1, <2>3, SumOfInt
  <2> QED
    BY <1>2, <2>5, <2>6, <2>7, <2>8 DEF D
<1> QED
  BY <1>12, <1>13 DEF d

---------------------------------------------------------------------------
(* The walk that finds where an amount goes.                               *)

\* before, as Neighbours defines it
WalksBefore(f, list, key) ==
    f = [k \in Keys |->
            LET next == list[k].nextTimestamp
            IN  IF key > next /\ next # NULL THEN f[next] ELSE k]

(* The walk ends, wherever it begins.                                      *)
LEMMA BeforeExists ==
  ASSUME NEW list, NEW p, Good(list, p), NEW key
  PROVE  \E f \in [Keys -> Keys] : WalksBefore(f, list, key)
<1> DEFINE go == [k \in Keys |-> key > list[k].nextTimestamp /\ list[k].nextTimestamp # 0]
           nx == [k \in Keys |-> list[k].nextTimestamp]
           m == [k \in Keys |-> LastKey - k]
           c == [k \in Keys |-> [d \in Keys |-> d]]
           b == [k \in Keys |-> k]
<1>1. LastKey \in Nat /\ Keys \subseteq 0 .. LastKey /\ NULL = 0
  BY KeyFacts
<1>2. m \in [Keys -> 0 .. LastKey]
  BY <1>1
<1>3. ASSUME NEW k \in Keys, go[k]
      PROVE  nx[k] \in Keys /\ m[nx[k]] < m[k]
  <2> DEFINE n == list[k].nextTimestamp
  <2>1. n \in Keys /\ k < n /\ nx[k] = n
    BY <1>3, GoodFacts
  <2>2. k \in 0 .. LastKey /\ n \in 0 .. LastKey
    BY <1>1, <2>1
  <2>3. m[k] = LastKey - k /\ m[n] = LastKey - n
    BY <2>1
  <2> HIDE DEF n, m, nx
  <2> QED
    BY <1>1, <2>1, <2>2, <2>3
<1>4. c \in [Keys -> [Keys -> Keys]] /\ b \in [Keys -> Keys]
  OBVIOUS
<1>5. \A k \in Keys : go[k] => nx[k] \in Keys /\ m[nx[k]] < m[k]
  BY <1>3
<1> HIDE DEF go, nx, m, c, b
<1>6. PICK f \in [Keys -> Keys] : Walks(f, Keys, go, nx, c, b)
  BY <1>1, <1>2, <1>4, <1>5, WalkExists
<1>7. ASSUME NEW k \in Keys
      PROVE  f[k] = IF key > list[k].nextTimestamp /\ list[k].nextTimestamp # NULL
                    THEN f[list[k].nextTimestamp] ELSE k
  <2> DEFINE n == list[k].nextTimestamp
  <2>1. n \in Keys /\ nx[k] = n /\ f[n] \in Keys
    BY GoodFacts DEF nx
  <2>2. f[k] = IF go[k] THEN c[k][f[n]] ELSE b[k]
    BY <1>6, <2>1 DEF Walks
  <2>3. go[k] = (key > n /\ n # NULL) /\ b[k] = k /\ c[k][f[n]] = f[n]
    BY <1>1, <2>1 DEF go, b, c
  <2> HIDE DEF n
  <2> QED
    BY <2>2, <2>3 DEF n
<1>8. f = [k \in Keys |-> f[k]]
  OBVIOUS
<1> QED
  BY <1>7, <1>8 DEF WalksBefore

(* From a node before the key, the walk ends at the last one before it.    *)
LEMMA WalkEndsBefore ==
  ASSUME NEW list, NEW p, Good(list, p), NEW key \in Nat \ {0},
         NEW f, WalksBefore(f, list, key)
  PROVE  /\ f[HEAD] \in Unpaid(p) \cup {0} /\ f[HEAD] < key
         /\ \A w \in Unpaid(p) : w > f[HEAD] => w >= key
<1> DEFINE U == Unpaid(p)
           S == {k \in U \cup {0} : k < key}
           T == {k \in S : /\ f[k] \in U \cup {0} /\ f[k] < key
                           /\ \A w \in U : w > f[k] => w >= key}
           go == [k \in S |-> key > list[k].nextTimestamp /\ list[k].nextTimestamp # 0]
           nx == [k \in S |-> list[k].nextTimestamp]
           m == [k \in S |-> LastKey - k]
<1>1. /\ LastKey \in Nat /\ S \subseteq Keys /\ Keys \subseteq 0 .. LastKey /\ HEAD = 0 /\ NULL = 0
      /\ U \subseteq Nat /\ 0 \in S
  BY GoodFacts, KeyFacts
<1>2. m \in [S -> 0 .. LastKey]
  BY <1>1
<1>3. ASSUME NEW k \in S, go[k]
      PROVE  nx[k] \in S /\ m[nx[k]] < m[k]
  <2> DEFINE n == list[k].nextTimestamp
  <2>1. n # 0 /\ key > n /\ nx[k] = n
    BY <1>3
  <2>2. n \in U /\ n > k
    BY <2>1, GoodFacts
  <2>3. n \in S /\ n \in 0 .. LastKey /\ k \in 0 .. LastKey
    <3>1. n \in Nat
      BY <1>1, <2>2
    <3>2. n < key
      BY <2>1, <3>1
    <3>3. n \in S
      BY <2>2, <3>2
    <3> QED
      BY <1>1, <3>3
  <2>4. m[n] = LastKey - n /\ m[k] = LastKey - k
    BY <2>3
  <2> HIDE DEF n, m, nx, S
  <2> QED
    BY <1>1, <2>1, <2>2, <2>3, <2>4
<1>4. ASSUME NEW k \in S, go[k] => nx[k] \in T
      PROVE  k \in T
  <2> DEFINE n == list[k].nextTimestamp
  <2>1. f[k] = IF key > n /\ n # 0 THEN f[n] ELSE k
    BY <1>1 DEF WalksBefore
  <2>2. CASE key > n /\ n # 0
    <3>1. n \in T /\ f[k] = f[n]
      BY <1>4, <2>1, <2>2
    <3> QED
      BY <3>1
  <2>3. CASE ~ (key > n /\ n # 0)
    <3>1. f[k] = k /\ k \in U \cup {0} /\ k < key
      BY <2>1, <2>3
    <3>2. ASSUME NEW w \in U, w > k
          PROVE  w >= key
      <4>1. After(p, k) # {}
        BY <3>2 DEF After
      <4>2. n \in U /\ n > k /\ n <= w
        BY <3>2, <4>1, GoodFacts
      <4>3. n \in Nat /\ w \in Nat /\ n # 0 /\ ~ (key > n)
        BY <1>1, <2>3, <4>2, GoodFacts
      <4> HIDE DEF n
      <4> QED
        BY <4>2, <4>3
    <3> QED
      BY <3>1, <3>2
  <2> QED
    BY <2>2, <2>3
<1> HIDE DEF T, go, nx, m, S
<1>5. S \subseteq T
  <2>1. \A k \in S : go[k] => nx[k] \in S /\ m[nx[k]] < m[k]
    BY <1>3
  <2>2. \A k \in S : (go[k] => nx[k] \in T) => k \in T
    BY <1>4
  <2>3. LastKey \in Nat
    BY <1>1
  <2> HIDE DEF U
  <2> QED
    BY <1>2, <2>1, <2>2, <2>3, WalkInduction
<1> QED
  BY <1>1, <1>5 DEF T

(* Neighbours returns the last node of the list before the week, and the   *)
(* first from it on.                                                       *)
LEMMA NeighboursAre ==
  ASSUME NEW list, NEW p, Good(list, p), NEW key \in Nat \ {0}
  PROVE  LET at == Neighbours(list, key)
         IN  /\ at.current \in Unpaid(p) \cup {0} /\ at.current < key
             /\ \A w \in Unpaid(p) : w > at.current => w >= key
             /\ at.next = list[at.current].nextTimestamp
<1> DEFINE f == CHOOSE h : WalksBefore(h, list, key)
<1>1. Neighbours(list, key) = [current |-> f[HEAD], next |-> list[f[HEAD]].nextTimestamp]
  BY DEF Neighbours, WalksBefore
<1>2. WalksBefore(f, list, key)
  BY BeforeExists
<1> HIDE DEF f
<1> QED
  BY <1>1, <1>2, WalkEndsBefore

---------------------------------------------------------------------------
(* A week that an amount is scheduled for.                                 *)

\* The promise of a week grows by the amount
Grows(p, p2, key, amount) == p2 = [p EXCEPT ![key] = @ + amount]

(* It joins the weeks that something is promised for.                      *)
LEMMA PromiseGrows ==
  ASSUME NEW p \in Promises, NEW key \in Keys, NEW amount \in Nat \ {0},
         NEW p2, Grows(p, p2, key, amount)
  PROVE  /\ p2 \in Promises /\ p2[key] = p[key] + amount
         /\ \A w \in Keys : w # key => p2[w] = p[w]
         /\ Unpaid(p2) = Unpaid(p) \cup {key}
         /\ SumOf(p2, Keys) = SumOf(p, Keys) + amount
<1>1. \A w \in Keys : p[w] \in Nat /\ p2[w] = IF w = key THEN p[w] + amount ELSE p[w]
  BY DEF Promises, Grows
<1>2. p2 \in Promises
  BY <1>1 DEF Promises, Grows
<1>3. \A w \in Keys : p2[w] > 0 <=> (p[w] > 0 \/ w = key)
  BY <1>1
<1>4. Unpaid(p2) = Unpaid(p) \cup {key}
  BY <1>3 DEF Unpaid
<1>5. \A w \in Keys : p[w] \in Int /\ p2[w] = p[w] + (IF w = key THEN amount ELSE 0)
  BY <1>1
<1>6. SumOf(p2, Keys) = SumOf(p, Keys) + amount
  <2>1. IsFiniteSet(Keys) /\ amount \in Int
    BY KeyFacts
  <2> QED
    BY <1>5, <2>1, SumOfChange
<1> QED
  BY <1>1, <1>2, <1>4, <1>6

(* A node that is there takes the amount.                                  *)
LEMMA AddKeepsOrder ==
  ASSUME NEW list, NEW p, Good(list, p), NEW key \in Unpaid(p), NEW amount \in Nat \ {0},
         NEW p2, Grows(p, p2, key, amount),
         NEW list2, list2 = [list EXCEPT ![key].amount = @ + amount]
  PROVE  Good(list2, p2)
<1>1. /\ p \in Promises /\ key \in Keys /\ key # HEAD /\ key # 0 /\ list[key].amount = p[key]
      /\ p[key] \in Nat /\ list \in Lists /\ p[HEAD] = 0 /\ HEAD \in Keys
  BY GoodFacts, KeyFacts DEF Good
<1>2. /\ p2 \in Promises /\ p2[key] = p[key] + amount
      /\ \A w \in Keys : w # key => p2[w] = p[w]
      /\ Unpaid(p2) = Unpaid(p) \cup {key}
  <2>1. p \in Promises /\ key \in Keys
    BY <1>1
  <2> QED
    BY <2>1, PromiseGrows
<1>3. Unpaid(p2) = Unpaid(p)
  BY <1>2
<1>4. /\ list2 \in Lists /\ list2[key].amount = p[key] + amount
      /\ \A k \in Keys : list2[k].nextTimestamp = list[k].nextTimestamp
      /\ \A k \in Keys : k # key => list2[k] = list[k]
  BY <1>1 DEF Lists
<1>5. Forward(list2)
  BY <1>4 DEF Good, Forward
<1>6. \A k \in Unpaid(p2) \cup {HEAD} : list2[k].nextTimestamp = First(After(p2, k))
  <2>1. \A k \in Unpaid(p) \cup {HEAD} : k \in Keys /\ list[k].nextTimestamp = First(After(p, k))
    BY <1>1 DEF Good, InOrder, Unpaid
  <2>2. \A k \in Unpaid(p) \cup {HEAD} : After(p2, k) = After(p, k)
    BY <1>3 DEF After
  <2>3. \A k \in Keys : list2[k].nextTimestamp = list[k].nextTimestamp
    BY <1>4
  <2> QED
    BY <1>3, <2>1, <2>2, <2>3
<1>7. \A w \in Unpaid(p2) : list2[w].amount = p2[w]
  BY <1>2, <1>3, <1>4 DEF Good, InOrder, Unpaid
<1> QED
  BY <1>1, <1>2, <1>4, <1>5, <1>6, <1>7 DEF Good, InOrder

(* The first week after k, when the key joins the others.                  *)
LEMMA FirstWithKey ==
  ASSUME NEW p, NEW p2, Unpaid(p) \in SUBSET Nat, NEW key \in Nat \ {0}, key \notin Unpaid(p),
         Unpaid(p2) = Unpaid(p) \cup {key},
         NEW c \in Unpaid(p) \cup {0}, c < key, \A w \in Unpaid(p) : w > c => w >= key
  PROVE  /\ First(After(p2, key)) = First(After(p, c))
         /\ First(After(p2, c)) = key
         /\ \A k \in Unpaid(p) \cup {0} : k # c => First(After(p2, k)) = First(After(p, k))
<1> DEFINE U == Unpaid(p)
<1>1. U \in SUBSET Nat /\ c \in Nat /\ key \in Nat /\ key \notin U /\ Unpaid(p2) = U \cup {key}
  OBVIOUS
<1>2. \A w \in U : w \in Nat /\ (w > c <=> w > key)
  <2>1. \A w \in U : w \in Nat /\ w # key /\ (w > c => w >= key)
    BY <1>1
  <2> HIDE DEF U
  <2> QED
    BY <1>1, <2>1
<1>3. \A j : After(p2, j) = {w \in U \cup {key} : w > j} /\ After(p, j) = {w \in U : w > j}
  BY <1>1 DEF After
<1>4. After(p2, key) = After(p, c)
  <2>1. ~ (key > key)
    BY <1>1
  <2>2. After(p2, key) = {w \in U \cup {key} : w > key} /\ After(p, c) = {w \in U : w > c}
    BY <1>3
  <2> HIDE DEF U
  <2> QED
    BY <1>2, <2>1, <2>2
<1>5. First(After(p2, c)) = key
  <2> DEFINE A == {w \in U \cup {key} : w > c}
  <2>1. A \in SUBSET Nat
    BY <1>1
  <2>2. key \in A
    BY <1>1
  <2>3. \A y \in A : key <= y
    <3>1. \A y \in U : y > c => key <= y
      BY <1>1
    <3> HIDE DEF U
    <3> QED
      BY <1>1, <3>1
  <2>4. After(p2, c) = A
    BY <1>3
  <2> HIDE DEF A, U
  <2>5. Min(A) = key
    BY <2>1, <2>2, <2>3, LeastIsMin
  <2> QED
    BY <2>2, <2>4, <2>5 DEF First
<1>6. ASSUME NEW k \in U \cup {0}, k # c
      PROVE  First(After(p2, k)) = First(After(p, k))
  <2>0. k \in Nat
    BY <1>1
  <2>1. CASE k > c
    <3>1. k > key /\ ~ (key > k)
      <4>1. k \in U
        BY <1>1, <2>1
      <4> HIDE DEF U
      <4> QED
        BY <1>1, <1>2, <2>0, <2>1, <4>1
    <3>2. {w \in U \cup {key} : w > k} = {w \in U : w > k}
      BY <3>1
    <3> QED
      BY <1>3, <3>2
  <2>2. CASE k < c
    <3> DEFINE A == {w \in U : w > k}
               B == {w \in U \cup {key} : w > k}
               x == Min(A)
    <3>1. c \in A /\ A \in SUBSET Nat /\ B = A \cup {key}
      <4>1. c \in U /\ key > k
        BY <1>1, <2>0, <2>2
      <4> HIDE DEF U
      <4> QED
        BY <1>1, <2>0, <2>2, <4>1
    <3> HIDE DEF A, B, U
    <3>2. x \in A /\ (\A y \in A : x <= y) /\ x <= c
      BY <3>1, MinIsLeast
    <3>3. x \in B /\ (\A y \in B : x <= y) /\ B \in SUBSET Nat
      <4>1. x <= key
        <5>1. x \in Nat
          BY <3>1, <3>2
        <5> HIDE DEF x
        <5> QED
          BY <1>1, <3>2, <5>1
      <4> HIDE DEF x
      <4> QED
        BY <1>1, <3>1, <3>2, <4>1
    <3>4. Min(B) = x
      <4> HIDE DEF x
      <4> QED
        BY <3>3, LeastIsMin
    <3>5. First(A) = x /\ First(B) = x
      BY <3>2, <3>3, <3>4 DEF First
    <3> QED
      BY <1>3, <3>5 DEF A, B
  <2>3. k > c \/ k < c
    BY <1>1, <1>6, <2>0
  <2> QED
    BY <2>1, <2>2, <2>3
<1> QED
  BY <1>4, <1>5, <1>6

(* A new node between two others, or at the end, keeps the order.          *)
LEMMA NewNodeKeepsOrder ==
  ASSUME NEW list, NEW p, Good(list, p), NEW key \in Keys, key # 0, key \notin Unpaid(p),
         NEW amount \in Nat \ {0}, NEW p2, Grows(p, p2, key, amount),
         NEW c \in Unpaid(p) \cup {0}, c < key, \A w \in Unpaid(p) : w > c => w >= key,
         NEW list2, list2 = [list EXCEPT ![key] = Node(amount, list[c].nextTimestamp),
                                         ![c].nextTimestamp = key]
  PROVE  Good(list2, p2)
<1> DEFINE U == Unpaid(p)
           n == list[c].nextTimestamp
<1>1. /\ p \in Promises /\ list \in Lists /\ HEAD = 0 /\ NULL = 0 /\ Keys \subseteq Nat /\ 0 \in Keys
      /\ U \in SUBSET Keys /\ U \in SUBSET Nat /\ p[HEAD] = 0 /\ 0 \notin U
  BY GoodFacts, KeyFacts DEF Good
<1>2. c \in Keys /\ c # key /\ n \in Keys /\ key \in Nat \ {0} /\ c \in Nat
  <2>1. c \in Keys
    BY <1>1
  <2>2. n \in Keys
    BY <2>1, GoodFacts
  <2> QED
    BY <1>1, <2>1, <2>2
<1>3. n # 0 => key < n
  <2>1. ASSUME n # 0
        PROVE  key < n
    <3>1. n \in U /\ n > c
      BY <2>1, GoodFacts
    <3>2. n >= key /\ n # key /\ n \in Nat
      BY <1>1, <3>1
    <3> HIDE DEF n
    <3> QED
      BY <1>2, <3>2
  <2> QED
    BY <2>1
<1>4. /\ p2 \in Promises /\ p2[key] = p[key] + amount
      /\ \A w \in Keys : w # key => p2[w] = p[w]
      /\ Unpaid(p2) = U \cup {key}
  BY <1>1, PromiseGrows
<1>5. /\ list2[key] = [amount |-> amount, nextTimestamp |-> n]
      /\ list2[c] = [list[c] EXCEPT !.nextTimestamp = key]
      /\ \A k \in Keys : k # key /\ k # c => list2[k] = list[k]
      /\ DOMAIN list2 = Keys /\ list2 = [k \in Keys |-> list2[k]]
  BY <1>1, <1>2 DEF Lists, Node
<1>6. \A k \in Keys : /\ list2[k].amount = IF k = key THEN amount ELSE list[k].amount
                      /\ list2[k].nextTimestamp =
                           IF k = key THEN n ELSE IF k = c THEN key ELSE list[k].nextTimestamp
                      /\ list2[k] \in [amount : Nat, nextTimestamp : Keys]
  <2>1. \A k \in Keys : list[k] \in [amount : Nat, nextTimestamp : Keys]
    BY <1>1 DEF Lists
  <2> HIDE DEF n
  <2> QED
    BY <1>2, <1>5, <2>1
<1>7. list2 \in Lists
  BY <1>5, <1>6 DEF Lists
<1>8. Forward(list2)
  <2>1. ASSUME NEW k \in Keys, list2[k].nextTimestamp # NULL
        PROVE  k < list2[k].nextTimestamp
    <3>1. list[k].nextTimestamp # NULL => k < list[k].nextTimestamp
      BY DEF Good, Forward
    <3> HIDE DEF n
    <3> QED
      BY <1>1, <1>2, <1>3, <1>6, <2>1, <3>1
  <2> QED
    BY <2>1 DEF Forward
<1>9. /\ First(After(p2, key)) = First(After(p, c))
      /\ First(After(p2, c)) = key
      /\ \A k \in U \cup {0} : k # c => First(After(p2, k)) = First(After(p, k))
  BY <1>1, <1>2, <1>4, FirstWithKey
<1>10. \A k \in U \cup {0} : list[k].nextTimestamp = First(After(p, k))
  BY <1>1 DEF Good, InOrder
<1>11. ASSUME NEW k \in Unpaid(p2) \cup {HEAD}
       PROVE  list2[k].nextTimestamp = First(After(p2, k))
  <2>1. k \in Keys /\ (k \in U \cup {0} \/ k = key)
    BY <1>1, <1>4
  <2>2. n = First(After(p, c))
    BY <1>10
  <2>3. list2[k].nextTimestamp = IF k = key THEN n ELSE IF k = c THEN key ELSE list[k].nextTimestamp
    BY <1>6, <2>1
  <2> HIDE DEF n
  <2> QED
    BY <1>9, <1>10, <2>1, <2>2, <2>3
<1>12. ASSUME NEW w \in Unpaid(p2)
       PROVE  list2[w].amount = p2[w]
  <2>1. CASE w = key
    <3>1. p[key] = 0
      <4>1. p[key] \in Nat /\ ~ (p[key] > 0)
        BY GoodFacts DEF Unpaid
      <4> QED
        BY <4>1
    <3>2. p2[key] = amount
      BY <1>4, <3>1
    <3>3. list2[key].amount = amount
      BY <1>5
    <3> QED
      BY <2>1, <3>2, <3>3
  <2>2. CASE w # key
    <3>1. w \in U /\ w \in Keys /\ list[w].amount = p[w]
      BY <1>1, <1>4, <2>2 DEF Good, InOrder
    <3> QED
      BY <1>4, <1>6, <2>2, <3>1
  <2> QED
    BY <2>1, <2>2
<1>13. p2[HEAD] = 0
  BY <1>1, <1>4
<1> QED
  BY <1>4, <1>7, <1>8, <1>11, <1>12, <1>13 DEF Good, InOrder

(* An amount that is scheduled joins the list where it belongs.            *)
LEMMA InsertKeepsOrder ==
  ASSUME NEW list, NEW p, Good(list, p), NEW key \in Keys, key # 0,
         NEW amount \in Nat \ {0}, NEW p2, Grows(p, p2, key, amount)
  PROVE  Good(Inserted(list, key, amount), p2)
<1> DEFINE at == Neighbours(list, key)
           c == at.current
           n == at.next
           U == Unpaid(p)
<1>1. key \in Nat \ {0} /\ NULL = 0 /\ U \in SUBSET Nat /\ 0 \notin U
  BY KeyFacts, GoodFacts
<1>2. /\ c \in U \cup {0} /\ c < key
      /\ \A w \in U : w > c => w >= key
      /\ n = list[c].nextTimestamp
  BY <1>1, NeighboursAre
<1>3. Inserted(list, key, amount) =
        IF n = key THEN [list EXCEPT ![key].amount = @ + amount]
        ELSE [list EXCEPT ![key] = Node(amount, n), ![c].nextTimestamp = key]
  BY DEF Inserted
<1> HIDE DEF at, c, n
<1>4. CASE n = key
  <2>1. key \in U
    <3>1. IF After(p, c) = {} THEN list[c].nextTimestamp = 0 ELSE list[c].nextTimestamp \in U
      BY <1>2, GoodFacts
    <3> QED
      BY <1>2, <1>4, <3>1
  <2> QED
    BY <1>3, <1>4, <2>1, AddKeepsOrder
<1>5. CASE n # key
  <2>1. key \notin U
    <3>1. ASSUME key \in U
          PROVE  FALSE
      <4>1. key > c
        BY <1>1, <1>2
      <4>2. After(p, c) # {}
        BY <3>1, <4>1 DEF After
      <4>3. n \in U /\ n > c /\ n <= key
        BY <1>2, <3>1, <4>1, <4>2, GoodFacts
      <4>4. n >= key /\ n \in Nat
        BY <1>1, <1>2, <4>3
      <4> QED
        BY <1>1, <1>5, <4>3, <4>4
    <3> QED
      BY <3>1
  <2>2. Inserted(list, key, amount) =
          [list EXCEPT ![key] = Node(amount, list[c].nextTimestamp), ![c].nextTimestamp = key]
    BY <1>2, <1>3, <1>5
  <2> DEFINE list2 == Inserted(list, key, amount)
  <2>3. list2 = [list EXCEPT ![key] = Node(amount, list[c].nextTimestamp), ![c].nextTimestamp = key]
    BY <2>2
  <2> HIDE DEF list2
  <2>4. Good(list2, p2)
    BY <1>2, <2>1, <2>3, NewNodeKeepsOrder
  <2> QED
    BY <2>4 DEF list2
<1> QED
  BY <1>4, <1>5

---------------------------------------------------------------------------
(* All rewards.                                                            *)

TotalsOf(promises) == [r \in Rewards |-> SumOf(promises[r], Keys)]
RewardsIn(t) == {r \in Rewards : r[2] = t}

\* The lists have what is promised, and the scheduler has what the lists have
Kept ==
    /\ timestamp \in Nat
    /\ distributed \subseteq Rewards
    /\ rewardsLists = [r \in Rewards |-> rewardsLists[r]]
    /\ promised = [r \in Rewards |-> promised[r]]
    /\ \A r \in Rewards : Good(rewardsLists[r], promised[r])
    /\ deposited = [t \in AllTokens |-> SumOf(TotalsOf(promised), RewardsIn(t))]

(* A reward is a gauge with one of its tokens.                             *)
LEMMA RewardFacts ==
  /\ \A r \in Rewards : /\ r = <<r[1], r[2]>> /\ r[1] \in RewardGauges
                        /\ r[2] \in RewardTokens[r[1]] /\ r[2] \in AllTokens
  /\ \A g \in RewardGauges : \A t \in RewardTokens[g] : <<g, t>> \in Rewards /\ t \in AllTokens
  /\ IsFiniteSet(Rewards) /\ \A t : IsFiniteSet(RewardsIn(t))
<1>1. ASSUME NEW r \in Rewards
      PROVE  /\ r = <<r[1], r[2]>> /\ r[1] \in RewardGauges
             /\ r[2] \in RewardTokens[r[1]] /\ r[2] \in AllTokens
  <2>1. PICK g \in RewardGauges : r \in {g} \X RewardTokens[g]
    BY DEF Rewards
  <2>2. r = <<r[1], r[2]>> /\ r[1] = g /\ r[2] \in RewardTokens[g]
    BY <2>1
  <2> QED
    BY <2>2 DEF AllTokens
<1>2. ASSUME NEW g \in RewardGauges, NEW t \in RewardTokens[g]
      PROVE  <<g, t>> \in Rewards /\ t \in AllTokens
  <2>1. <<g, t>> \in {g} \X RewardTokens[g]
    OBVIOUS
  <2> QED
    BY <2>1 DEF Rewards, AllTokens
<1>3. IsFiniteSet(Rewards)
  BY SchedulerAssumption
<1>4. ASSUME NEW t
      PROVE  IsFiniteSet(RewardsIn(t))
  BY <1>3, FS_Subset DEF RewardsIn
<1> QED
  BY <1>1, <1>2, <1>3, <1>4

(* Totals are numbers.                                                     *)
LEMMA TotalFacts ==
  ASSUME NEW promises, NEW r \in Rewards, promises[r] \in Promises
  PROVE  TotalsOf(promises)[r] = SumOf(promises[r], Keys) /\ TotalsOf(promises)[r] \in Nat
<1>1. \A k \in Keys : promises[r][k] \in Nat
  BY DEF Promises
<1>2. SumOf(promises[r], Keys) \in Nat
  <2> DEFINE p == promises[r]
  <2>1. \A k \in Keys : p[k] \in Nat
    BY <1>1
  <2>2. IsFiniteSet(Keys)
    BY KeyFacts
  <2> HIDE DEF p
  <2>3. SumOf(p, Keys) \in Nat
    BY <2>1, <2>2, SumOfNat
  <2> QED
    BY <2>3 DEF p
<1> QED
  BY <1>2 DEF TotalsOf

(* Nothing is promised when the scheduler is deployed.                     *)
LEMMA KeptInitially == SchedulerInit => Kept
<1> SUFFICES ASSUME SchedulerInit
             PROVE  Kept
  OBVIOUS
<1> DEFINE empty == [k \in Keys |-> Node(0, NULL)]
           none == [k \in Keys |-> 0]
<1>1. /\ timestamp = 1 /\ distributed = Rewards
      /\ rewardsLists = [r \in Rewards |-> empty] /\ promised = [r \in Rewards |-> none]
      /\ deposited = [t \in AllTokens |-> 0]
  BY DEF SchedulerInit
<1>2. HEAD = 0 /\ NULL = 0 /\ 0 \in Keys
  BY KeyFacts
<1>3. Good(empty, none)
  <2>1. empty \in Lists /\ none \in Promises
    BY <1>2 DEF Lists, Promises, Node
  <2>2. \A k \in Keys : empty[k].nextTimestamp = 0 /\ none[k] = 0
    BY <1>2 DEF Node
  <2> HIDE DEF empty, none
  <2>3. Unpaid(none) = {}
    BY <2>2 DEF Unpaid
  <2>4. After(none, HEAD) = {}
    BY <2>3 DEF After
  <2> QED
    BY <1>2, <2>1, <2>2, <2>3, <2>4 DEF Good, Forward, InOrder, First
<1>4. ASSUME NEW r \in Rewards
      PROVE  TotalsOf(promised)[r] = 0
  <2>1. promised[r] = none
    BY <1>1
  <2>2. \A k \in Keys : none[k] = 0
    OBVIOUS
  <2> HIDE DEF none
  <2>3. SumOf(none, Keys) = 0
    BY <2>2, KeyFacts, SumOfZeros
  <2> QED
    BY <2>1, <2>3 DEF TotalsOf
<1>5. ASSUME NEW t \in AllTokens
      PROVE  SumOf(TotalsOf(promised), RewardsIn(t)) = 0
  <2> DEFINE f == TotalsOf(promised)
             S == RewardsIn(t)
  <2>1. IsFiniteSet(S) /\ \A r \in S : f[r] = 0
    BY <1>4, RewardFacts DEF RewardsIn
  <2> HIDE DEF f, S
  <2>2. SumOf(f, S) = 0
    BY <2>1, SumOfZeros
  <2> QED
    BY <2>2 DEF f, S
<1>6. deposited = [t \in AllTokens |-> SumOf(TotalsOf(promised), RewardsIn(t))]
  BY <1>1, <1>5
<1>7. \A r \in Rewards : rewardsLists[r] = empty /\ promised[r] = none
  BY <1>1
<1> HIDE DEF empty, none
<1> QED
  BY <1>1, <1>3, <1>6, <1>7 DEF Kept

(* Where nothing of the schedule moves, it is kept.                        *)
LEMMA StillKept ==
  ASSUME Kept, timestamp' \in Nat, distributed' \subseteq Rewards,
         UNCHANGED <<rewardsLists, deposited, promised>>
  PROVE  Kept'
  BY DEF Kept

(* scheduleDistribution keeps the lists and the deposits.                  *)
LEMMA SchedulingKeeps ==
  ASSUME Kept, NEW gauge \in RewardGauges, NEW token \in RewardTokens[gauge], NEW amount,
         NEW startTime \in StartTimes, ScheduleDistribution(gauge, token, amount, startTime)
  PROVE  Kept'
<1> DEFINE r == <<gauge, token>>
           list2 == Inserted(rewardsLists[r], startTime, amount)
           p2 == [promised[r] EXCEPT ![startTime] = @ + amount]
<1>1. /\ r \in Rewards /\ token \in AllTokens /\ r[2] = token
  BY RewardFacts
<1>2. amount \in Nat \ {0} /\ startTime \in Keys /\ startTime # 0
  <2>1. startTime = StartOfWeek(startTime) /\ amount \in 1 .. MaxNodeAmount
    BY DEF ScheduleDistribution
  <2>2. startTime \in Nat \ {0}
    BY SchedulerAssumption DEF StartTimes
  <2>3. startTime \in Keys
    BY <2>1 DEF Keys
  <2> QED
    BY <2>1, <2>2, <2>3, SchedulerAssumption
<1>3. /\ timestamp' = timestamp /\ distributed' = distributed
      /\ rewardsLists' = [rewardsLists EXCEPT ![r] = list2]
      /\ deposited' = [deposited EXCEPT ![token] = @ + amount]
      /\ promised' = [promised EXCEPT ![r] = p2]
  BY DEF ScheduleDistribution
<1>4. Good(rewardsLists[r], promised[r]) /\ promised[r] \in Promises
  BY <1>1 DEF Kept, Good
<1>5. Grows(promised[r], p2, startTime, amount)
  BY DEF Grows
<1> HIDE DEF r, p2
<1>6. Good(list2, p2)
  BY <1>2, <1>4, <1>5, InsertKeepsOrder
<1> HIDE DEF list2
<1>7. /\ rewardsLists' = [x \in Rewards |-> IF x = r THEN list2 ELSE rewardsLists[x]]
      /\ promised' = [x \in Rewards |-> IF x = r THEN p2 ELSE promised[x]]
      /\ deposited' = [t \in AllTokens |-> IF t = token THEN deposited[t] + amount ELSE deposited[t]]
  BY <1>3 DEF Kept
<1>8. \A x \in Rewards : Good(rewardsLists'[x], promised'[x])
  BY <1>6, <1>7 DEF Kept
<1>9. SumOf(p2, Keys) = SumOf(promised[r], Keys) + amount
  BY <1>2, <1>4, <1>5, PromiseGrows
<1>10. \A x \in Rewards : /\ TotalsOf(promised)[x] \in Int
                          /\ TotalsOf(promised')[x] = TotalsOf(promised)[x] + (IF x = r THEN amount ELSE 0)
  <2>1. ASSUME NEW x \in Rewards
        PROVE  /\ TotalsOf(promised)[x] \in Nat /\ TotalsOf(promised)[x] = SumOf(promised[x], Keys)
               /\ TotalsOf(promised')[x] = SumOf(promised'[x], Keys)
    <3>1. promised[x] \in Promises /\ promised'[x] \in Promises
      BY <1>8 DEF Kept, Good
    <3> QED
      BY <3>1, TotalFacts
  <2>2. promised'[r] = p2 /\ \A x \in Rewards : x # r => promised'[x] = promised[x]
    BY <1>1, <1>7 DEF r
  <2> QED
    BY <1>1, <1>9, <2>1, <2>2
<1>11. ASSUME NEW t \in AllTokens
       PROVE  deposited'[t] = SumOf(TotalsOf(promised'), RewardsIn(t))
  <2> DEFINE f == TotalsOf(promised)
             k == TotalsOf(promised')
             S == RewardsIn(t)
  <2>1. IsFiniteSet(S) /\ S \in SUBSET Rewards /\ deposited[t] = SumOf(f, S)
    BY RewardFacts DEF RewardsIn, Kept
  <2>2. \A x \in S : f[x] \in Int /\ k[x] = f[x] + (IF x = r THEN amount ELSE 0)
    BY <1>10, <2>1
  <2>3. r \in S <=> t = token
    BY <1>1 DEF RewardsIn
  <2>4. amount \in Int
    BY <1>2
  <2> HIDE DEF f, k, S
  <2>5. CASE t = token
    <3>1. SumOf(k, S) = SumOf(f, S) + amount
      BY <2>1, <2>2, <2>3, <2>4, <2>5, SumOfChange
    <3> QED
      BY <1>7, <2>1, <2>5, <3>1 DEF k, S
  <2>6. CASE t # token
    <3>1. \A x \in S : f[x] = k[x]
      BY <2>2, <2>3, <2>6
    <3>2. SumOf(f, S) = SumOf(k, S)
      BY <2>1, <3>1, SumEqual
    <3> QED
      BY <1>7, <2>1, <2>6, <3>2 DEF k, S
  <2> QED
    BY <2>5, <2>6
<1>12. deposited' = [t \in AllTokens |-> SumOf(TotalsOf(promised'), RewardsIn(t))]
  <2>1. deposited' = [t \in AllTokens |-> deposited'[t]]
    BY <1>7
  <2> QED
    BY <1>11, <2>1
<1>13. /\ rewardsLists' = [x \in Rewards |-> rewardsLists'[x]]
       /\ promised' = [x \in Rewards |-> promised'[x]]
  BY <1>7
<1> QED
  BY <1>3, <1>8, <1>12, <1>13 DEF Kept

(* startDistributions and startDistributionForToken keep the lists and the *)
(* deposits.                                                               *)
LEMMA StartingKeeps ==
  ASSUME Kept, NEW gauge \in RewardGauges, NEW tokens \in SUBSET RewardTokens[gauge],
         StartRewards(gauge, tokens)
  PROVE  Kept'
<1> DEFINE starts(r) == r[1] = gauge /\ r[2] \in tokens
           due(r) == PendingRewards(rewardsLists[r], timestamp).amount
           list2(r) == [rewardsLists[r] EXCEPT
                          ![HEAD].nextTimestamp = PendingRewards(rewardsLists[r], timestamp).key]
           p2(r) == [w \in Keys |-> IF w <= timestamp THEN 0 ELSE promised[r][w]]
<1>1. \A r \in Rewards : /\ r = <<r[1], r[2]>> /\ r[2] \in AllTokens
                         /\ Good(rewardsLists[r], promised[r]) /\ promised[r] \in Promises
  BY RewardFacts DEF Kept, Good
<1>2. ASSUME NEW r \in Rewards, starts(r)
      PROVE  <<gauge, r[2]>> = r
  BY <1>1, <1>2
<1>3. /\ timestamp' = timestamp /\ distributed' = distributed
      /\ rewardsLists' = [r \in Rewards |-> IF starts(r) THEN list2(r) ELSE rewardsLists[r]]
      /\ promised' = [r \in Rewards |-> IF starts(r) THEN p2(r) ELSE promised[r]]
  <2>1. \A r \in Rewards : starts(r) =>
          [t \in tokens |-> PendingRewards(rewardsLists[<<gauge, t>>], timestamp)][r[2]]
            = PendingRewards(rewardsLists[r], timestamp)
    BY <1>2
  <2> QED
    BY <2>1 DEF StartRewards
<1>4. \A t \in AllTokens :
        deposited'[t] = IF t \in tokens THEN deposited[t] - due(<<gauge, t>>) ELSE deposited[t]
  BY DEF StartRewards
<1>5. deposited' = [t \in AllTokens |-> deposited'[t]]
  BY DEF StartRewards
<1>6. ASSUME NEW r \in Rewards
      PROVE  /\ Good(list2(r), p2(r)) /\ due(r) \in Nat
             /\ SumOf(p2(r), Keys) = SumOf(promised[r], Keys) - due(r)
  <2> DEFINE a == list2(r)
             b == p2(r)
  <2>1. timestamp \in Nat
    BY DEF Kept
  <2>2. /\ a = [rewardsLists[r] EXCEPT
                   ![HEAD].nextTimestamp = PendingRewards(rewardsLists[r], timestamp).key]
        /\ b = [w \in Keys |-> IF w <= timestamp THEN 0 ELSE promised[r][w]]
    OBVIOUS
  <2> HIDE DEF a, b
  <2>3. /\ Good(a, b) /\ due(r) \in Nat
        /\ SumOf(b, Keys) = SumOf(promised[r], Keys) - due(r)
    BY <1>1, <2>1, <2>2, StartKeepsOrder
  <2> QED
    BY <2>3 DEF a, b
<1> HIDE DEF starts, due, list2, p2
<1>7. \A r \in Rewards : Good(rewardsLists'[r], promised'[r])
  BY <1>1, <1>3, <1>6
<1>8. \A r \in Rewards : /\ TotalsOf(promised)[r] \in Int
                         /\ TotalsOf(promised')[r] =
                              TotalsOf(promised)[r] + (IF starts(r) THEN - due(r) ELSE 0)
  <2>1. ASSUME NEW r \in Rewards
        PROVE  /\ TotalsOf(promised)[r] \in Nat /\ TotalsOf(promised)[r] = SumOf(promised[r], Keys)
               /\ TotalsOf(promised')[r] = SumOf(promised'[r], Keys)
    <3>1. promised[r] \in Promises /\ promised'[r] \in Promises
      BY <1>7 DEF Kept, Good
    <3> QED
      BY <3>1, TotalFacts
  <2>2. \A r \in Rewards : promised'[r] = IF starts(r) THEN p2(r) ELSE promised[r]
    BY <1>3
  <2>3. ASSUME NEW r \in Rewards
        PROVE  TotalsOf(promised')[r] = TotalsOf(promised)[r] + (IF starts(r) THEN - due(r) ELSE 0)
    <3>1. CASE starts(r)
      <4>1. TotalsOf(promised')[r] = TotalsOf(promised)[r] - due(r)
        BY <1>6, <2>1, <2>2, <3>1
      <4>2. TotalsOf(promised)[r] \in Nat /\ due(r) \in Nat
        BY <1>6, <2>1
      <4> QED
        BY <3>1, <4>1, <4>2
    <3>2. CASE ~ starts(r)
      <4>1. TotalsOf(promised')[r] = TotalsOf(promised)[r]
        BY <2>1, <2>2, <3>2
      <4>2. TotalsOf(promised)[r] \in Nat
        BY <2>1
      <4> QED
        BY <3>2, <4>1, <4>2
    <3> QED
      BY <3>1, <3>2
  <2> QED
    BY <2>1, <2>3
<1>9. ASSUME NEW t \in AllTokens
      PROVE  deposited'[t] = SumOf(TotalsOf(promised'), RewardsIn(t))
  <2> DEFINE f == TotalsOf(promised)
             k == TotalsOf(promised')
             S == RewardsIn(t)
             r == <<gauge, t>>
  <2>1. IsFiniteSet(S) /\ S \in SUBSET Rewards /\ deposited[t] = SumOf(f, S)
    BY RewardFacts DEF RewardsIn, Kept
  <2>2. \A x \in S : f[x] \in Int /\ k[x] = f[x] + (IF starts(x) THEN - due(x) ELSE 0)
    BY <1>8, <2>1
  <2>3. \A x \in S : x[2] = t
    BY DEF RewardsIn
  <2>4. CASE t \in tokens
    <3> DEFINE v == - due(r)
    <3>1. r \in S /\ r \in Rewards
      BY <2>4, RewardFacts DEF RewardsIn
    <3>2. \A x \in S : starts(x) <=> x = r
      <4>1. \A x \in S : starts(x) => x = r
        BY <1>2, <2>1, <2>3
      <4>2. starts(r)
        BY <2>4 DEF starts
      <4> QED
        BY <4>1, <4>2
    <3>3. due(r) \in Nat /\ v \in Int
      BY <1>6, <3>1
    <3>4. \A x \in S : f[x] \in Int /\ k[x] = f[x] + (IF x = r THEN v ELSE 0)
      BY <2>2, <3>2
    <3> HIDE DEF f, k, S, r, v
    <3>5. SumOf(k, S) = SumOf(f, S) + v
      BY <2>1, <3>1, <3>3, <3>4, SumOfChange
    <3>6. deposited'[t] = SumOf(f, S) - due(r)
      BY <1>4, <2>1, <2>4 DEF r
    <3>7. SumOf(f, S) \in Int
      <4>1. \A x \in S : f[x] \in Int
        BY <3>4
      <4> QED
        BY <2>1, <4>1, SumOfInt
    <3>8. SumOf(f, S) + v = SumOf(f, S) - due(r)
      BY <3>3, <3>7 DEF v
    <3> QED
      BY <3>5, <3>6, <3>8 DEF k, S
  <2>5. CASE t \notin tokens
    <3>1. \A x \in S : ~ starts(x)
      BY <2>3, <2>5 DEF starts
    <3> HIDE DEF f, k, S
    <3>2. \A x \in S : f[x] = k[x]
      BY <2>2, <3>1
    <3>3. SumOf(f, S) = SumOf(k, S)
      BY <2>1, <3>2, SumEqual
    <3> QED
      BY <1>4, <2>1, <2>5, <3>3 DEF k, S
  <2> QED
    BY <2>4, <2>5
<1>10. deposited' = [t \in AllTokens |-> SumOf(TotalsOf(promised'), RewardsIn(t))]
  BY <1>5, <1>9
<1>11. /\ rewardsLists' = [r \in Rewards |-> rewardsLists'[r]]
       /\ promised' = [r \in Rewards |-> promised'[r]]
  BY <1>3
<1>12. timestamp' \in Nat /\ distributed' \subseteq Rewards
  BY <1>3 DEF Kept
<1> QED
  BY <1>7, <1>10, <1>11, <1>12 DEF Kept

(* Every step keeps the lists and the deposits.                            *)
LEMMA KeptAlways == Kept /\ [SchedulerNext]_schedulerVars => Kept'
<1> SUFFICES ASSUME Kept, [SchedulerNext]_schedulerVars
             PROVE  Kept'
  OBVIOUS
<1>0. timestamp \in Nat /\ distributed \subseteq Rewards
  BY DEF Kept
<1>1. ASSUME TimePasses
      PROVE  Kept'
  <2>1. /\ timestamp' \in Nat /\ distributed' \subseteq Rewards
        /\ UNCHANGED <<rewardsLists, deposited, promised>>
    BY <1>0, <1>1 DEF TimePasses
  <2> QED
    BY <2>1, StillKept
<1>2. ASSUME NEW gauge \in RewardGauges, StartDistributions(gauge)
      PROVE  Kept'
  <2> DEFINE tokens == {t \in RewardTokens[gauge] : <<gauge, t>> \in distributed}
  <2>1. tokens \in SUBSET RewardTokens[gauge] /\ StartRewards(gauge, tokens)
    BY <1>2 DEF StartDistributions
  <2> HIDE DEF tokens
  <2> QED
    BY <2>1, StartingKeeps
<1>3. ASSUME NEW gauge \in RewardGauges, NEW token \in RewardTokens[gauge],
             StartDistributionForToken(gauge, token)
      PROVE  Kept'
  <2> DEFINE tokens == {token}
  <2>1. tokens \in SUBSET RewardTokens[gauge] /\ StartRewards(gauge, tokens)
    BY <1>3 DEF StartDistributionForToken
  <2> HIDE DEF tokens
  <2> QED
    BY <2>1, StartingKeeps
<1>4. ASSUME NEW gauge \in RewardGauges, NEW token \in RewardTokens[gauge],
             SetRewardDistributor(gauge, token)
      PROVE  Kept'
  <2>1. /\ timestamp' \in Nat /\ distributed' \subseteq Rewards
        /\ UNCHANGED <<rewardsLists, deposited, promised>>
    BY <1>0, <1>4, RewardFacts DEF SetRewardDistributor
  <2> QED
    BY <2>1, StillKept
<1>5. ASSUME NEW gauge \in RewardGauges, NEW token \in RewardTokens[gauge], NEW amount,
             NEW startTime \in StartTimes, ScheduleDistribution(gauge, token, amount, startTime)
      PROVE  Kept'
  BY <1>5, SchedulingKeeps
<1>6. ASSUME UNCHANGED schedulerVars
      PROVE  Kept'
  <2>1. /\ timestamp' \in Nat /\ distributed' \subseteq Rewards
        /\ UNCHANGED <<rewardsLists, deposited, promised>>
    BY <1>0, <1>6 DEF schedulerVars
  <2> QED
    BY <2>1, StillKept
<1> QED
  BY <1>1, <1>2, <1>3, <1>4, <1>5, <1>6 DEF SchedulerNext

(* What is kept is what ScheduleIsKept says.                               *)
LEMMA KeptIsSchedule == Kept => ScheduleIsKept
<1> SUFFICES ASSUME Kept
             PROVE  ScheduleIsKept
  OBVIOUS
<1>1. ASSUME NEW r \in Rewards
      PROVE  /\ \A k \in Unpaid(promised[r]) \cup {HEAD} :
                  rewardsLists[r][k].nextTimestamp = First(After(promised[r], k))
             /\ \A w \in Unpaid(promised[r]) : rewardsLists[r][w].amount = promised[r][w]
             /\ PendingRewards(rewardsLists[r], timestamp).amount =
                  SumOf(promised[r], DueAt(promised[r], timestamp))
  <2>1. Good(rewardsLists[r], promised[r]) /\ timestamp \in Nat
    BY DEF Kept
  <2>2. InOrder(rewardsLists[r], promised[r])
    BY <2>1 DEF Good
  <2> QED
    BY <2>1, <2>2, PendingIs DEF InOrder
<1>2. ASSUME NEW t \in AllTokens
      PROVE  MapThenSumSet(LAMBDA r : MapThenSumSet(LAMBDA w : promised[r][w], Keys),
                           {r \in Rewards : r[2] = t})
               = SumOf(TotalsOf(promised), RewardsIn(t))
  <2> DEFINE f == TotalsOf(promised)
             S == RewardsIn(t)
             D(r) == SumOf(promised[r], Keys)
             E(h) == h = [s \in SUBSET S |-> IF s = {} THEN 0 ELSE D(Picked(s)) + h[s \ {Picked(s)}]]
  <2>1. MapThenSumSet(LAMBDA r : MapThenSumSet(LAMBDA w : promised[r][w], Keys),
                      {r \in Rewards : r[2] = t})
          = MapThenSumSet(D, S)
    BY DEF SumOf, RewardsIn
  <2>2. MapThenSumSet(D, S) = (CHOOSE h : E(h))[S]
    BY DEF MapThenSumSet, MapThenFoldSet, Picked
  <2>3. \A s \in SUBSET S : s # {} => f[Picked(s)] = D(Picked(s))
    BY PickedIsElement DEF TotalsOf, RewardsIn
  <2>4. IsFiniteSet(S)
    BY RewardFacts
  <2> HIDE DEF f, D, S
  <2>5. \A h : E(h) <=> IsSum(h, f, S)
    BY <2>3 DEF IsSum
  <2> HIDE DEF E
  <2>6. PICK k : IsSum(k, f, S) /\ SumOf(f, S) = k[S]
    BY <2>4, SumIs
  <2>7. (CHOOSE h : E(h))[S] = k[S]
    <3> DEFINE x == CHOOSE h : E(h)
    <3>1. IsSum(x, f, S)
      BY <2>5, <2>6
    <3> HIDE DEF x
    <3>2. x[S] = k[S]
      BY <2>4, <2>6, <3>1, SumUnique
    <3> QED
      BY <3>2 DEF x
  <2> QED
    BY <2>1, <2>2, <2>6, <2>7 DEF f, S
<1>3. \A t \in AllTokens : deposited[t] = SumOf(TotalsOf(promised), RewardsIn(t))
  BY DEF Kept
<1>4. ASSUME NEW r \in Rewards
      PROVE  LET U == {w \in Keys : promised[r][w] > 0}
                 A(k) == {w \in U : w > k}
             IN  /\ \A k \in U \cup {HEAD} :
                     rewardsLists[r][k].nextTimestamp = IF A(k) = {} THEN NULL ELSE Min(A(k))
                 /\ \A w \in U : rewardsLists[r][w].amount = promised[r][w]
                 /\ PendingRewards(rewardsLists[r], timestamp).amount =
                      MapThenSumSet(LAMBDA w : promised[r][w], {w \in U : w <= timestamp})
  BY <1>1 DEF Unpaid, After, First, DueAt, SumOf
<1> QED
  BY <1>2, <1>3, <1>4 DEF ScheduleIsKept

(* In every state, the list of a gauge and a token has the weeks that      *)
(* amounts were scheduled for and not passed on, in order, with their      *)
(* sums; what is due is what of them has begun; and the scheduler holds    *)
(* what it owes to all gauges (DistributionScheduler.sol), for any number  *)
(* of gauges and tokens and any order of calls.                            *)
THEOREM ScheduleIsAlwaysKept == SchedulerSpec => []ScheduleIsKept
<1>1. SchedulerInit => Kept
  BY KeptInitially
<1>2. Kept /\ [SchedulerNext]_schedulerVars => Kept'
  BY KeptAlways
<1>3. Kept => ScheduleIsKept
  BY KeptIsSchedule
<1> QED
  BY <1>1, <1>2, <1>3, PTL DEF SchedulerSpec
============================================================================
