------------------------ MODULE FeeDistributorProofs ------------------------
(***************************************************************************)
(* Proofs about VotingEscrow, first, and about FeeDistributor together     *)
(* with it: the total supply is the sum of the balances, claims pay every  *)
(* user the exact share of every past week, and the contract holds what    *)
(* everyone can still claim.                                               *)
(*                                                                         *)
(* The invariant of VotingEscrow, Escrow, compares the records with the    *)
(* locks there are.  The last point of the history Fits: its bias and      *)
(* slope are the sums, over the users, of what is left of a lock and of    *)
(* how fast it falls.  The planned changes of the slope are those of the   *)
(* locks that end after it (Recorded), and a user's last point is that of  *)
(* his lock (UsersRecorded).  This gives the supply and the balances at    *)
(* any time from now on; those of past weeks are kept because no step      *)
(* changes what the histories say of a week that has begun (PastAgrees,    *)
(* SameAnswers).                                                           *)
(*                                                                         *)
(* The loop of _checkpoint has a bound on its weeks.  When it does not get *)
(* to the present, the new point is that of another time and the sums do   *)
(* not agree; FillsInTime says that it gets there.                         *)
(*                                                                         *)
(* The invariant of both, Distribution, adds to Escrow that the points of  *)
(* every history are in the order of time and that the records of          *)
(* FeeDistributor are Good: the copied supply and the copied balances are  *)
(* those of VotingEscrow in every week before the cursor, and the walk of  *)
(* a user's points resumes at a point that is not after the cursor         *)
(* (SupplyGood, UserGood); no more tokens are counted than are held, and   *)
(* none for weeks before the token's first (TokenGood); a user has been    *)
(* paid the dues of the weeks before his cursor, which are over for the    *)
(* token too (ClaimGood); and what is assigned has been paid or is still   *)
(* there (Funded).  A claim reads copies of weeks that have passed; weeks  *)
(* that have passed change no more, neither in VotingEscrow (PastStays)    *)
(* nor in what the token assigns to them (TokenLater).                     *)
(***************************************************************************)
EXTENDS FeeDistributor, SumTheorems, SequenceTheorems

---------------------------------------------------------------------------
(* Weeks.                                                                  *)

(* The beginning of the week of a time, and that of the week after.        *)
LEMMA RoundDownFacts ==
  ASSUME NEW t \in Nat
  PROVE  /\ RoundDown(t) \in Nat /\ RoundDown(t) <= t /\ t < RoundDown(t) + WEEK
         /\ RoundDown(t) % WEEK = 0
<1> DEFINE q == t \div WEEK
<1>1. q \in Nat /\ q * WEEK <= t /\ t < q * WEEK + WEEK
  BY TimeAssumption
<1>2. RoundDown(t) = q * WEEK
  BY DEF RoundDown
<1> HIDE DEF q
<1>3. (q * WEEK) % WEEK = 0 /\ q * WEEK \in Nat
  BY <1>1, TimeAssumption
<1> QED
  BY <1>1, <1>2, <1>3

(* Two beginnings of weeks are a week apart at least.                      *)
LEMMA WeeksApart ==
  ASSUME NEW a \in Nat, NEW b \in Nat, a % WEEK = 0, b % WEEK = 0
  PROVE  /\ a < b => a + WEEK <= b
         /\ (a + WEEK) % WEEK = 0
         /\ \E n \in Int : b - a = n * WEEK
<1> DEFINE m == a \div WEEK
           n == b \div WEEK
<1>1. m \in Nat /\ n \in Nat /\ a = m * WEEK /\ b = n * WEEK
  BY TimeAssumption
<1> HIDE DEF m, n
<1>2. a < b => m < n
  BY <1>1, TimeAssumption
<1>3. m < n => m * WEEK + WEEK <= n * WEEK
  <2> SUFFICES ASSUME m < n
               PROVE  m * WEEK + WEEK <= n * WEEK
    OBVIOUS
  <2>1. n - m - 1 \in Nat /\ WEEK \in Nat
    BY <1>1, TimeAssumption
  <2>2. (n - m - 1) * WEEK \in Nat /\ n * WEEK = m * WEEK + WEEK + (n - m - 1) * WEEK
    BY <1>1, <2>1
  <2>3. m * WEEK \in Nat
    BY <1>1, <2>1
  <2> QED
    BY <2>1, <2>2, <2>3
<1>4. ((m + 1) * WEEK) % WEEK = 0 /\ (m + 1) * WEEK = m * WEEK + WEEK
  BY <1>1, TimeAssumption
<1>5. n - m \in Int /\ b - a = (n - m) * WEEK
  BY <1>1, TimeAssumption
<1> QED
  BY <1>1, <1>2, <1>3, <1>4, <1>5

(* The weeks of a run are numbers, multiples of WEEK, and finitely many.   *)
LEMMA WeekFacts ==
  /\ \A w \in Weeks : w \in Nat /\ w % WEEK = 0 /\ w <= MaxTime + MAXTIME
  /\ \A w \in Nat : w % WEEK = 0 /\ w <= MaxTime + MAXTIME => w \in Weeks
  /\ IsFiniteSet(Weeks)
<1>1. MaxTime + MAXTIME \in Nat
  BY TimeAssumption
<1>2. /\ \A w \in Weeks : w \in Nat /\ w % WEEK = 0 /\ w <= MaxTime + MAXTIME
      /\ \A w \in Nat : w % WEEK = 0 /\ w <= MaxTime + MAXTIME => w \in Weeks
  BY <1>1 DEF Weeks
<1>3. IsFiniteSet(Weeks)
  <2>1. IsFiniteSet(0 .. MaxTime + MAXTIME)
    BY <1>1, FS_Interval
  <2>2. Weeks \subseteq 0 .. MaxTime + MAXTIME
    BY DEF Weeks
  <2> QED
    BY <2>1, <2>2, FS_Subset
<1> QED
  BY <1>2, <1>3

---------------------------------------------------------------------------
(* What locks are worth.                                                   *)

Locks == [Users -> [amount : Nat, end : Weeks]]

SlopeOf(lock) == lock.amount \div MAXTIME
\* What a lock has left at t
LeftOf(lock, t) == IF lock.end > t THEN SlopeOf(lock) * (lock.end - t) ELSE 0
FallsAt(lock, t) == IF lock.end > t THEN SlopeOf(lock) ELSE 0
EndsAt(lock, w) == IF lock.end = w THEN SlopeOf(lock) ELSE 0

\* What all locks together have left, how fast it falls and by how much
\* less after w
Left(l, t) == SumOf([u \in Users |-> LeftOf(l[u], t)], Users)
Falls(l, t) == SumOf([u \in Users |-> FallsAt(l[u], t)], Users)
Ends(l, w) == SumOf([u \in Users |-> EndsAt(l[u], w)], Users)

(* They are natural numbers.                                               *)
LEMMA LockFacts ==
  ASSUME NEW lock \in [amount : Nat, end : Weeks], NEW t \in Nat
  PROVE  /\ SlopeOf(lock) \in Nat /\ lock.end \in Weeks /\ lock.end \in Nat /\ lock.amount \in Nat
         /\ LeftOf(lock, t) \in Nat /\ FallsAt(lock, t) \in Nat /\ EndsAt(lock, t) \in Nat
<1>1. lock.end \in Weeks /\ lock.end \in Nat /\ lock.amount \in Nat
  BY WeekFacts
<1>2. SlopeOf(lock) \in Nat
  BY <1>1, TimeAssumption DEF SlopeOf
<1>3. lock.end > t => lock.end - t \in Nat
  BY <1>1
<1>4. lock.end > t => SlopeOf(lock) * (lock.end - t) \in Nat
  BY <1>2, <1>3
<1> QED
  BY <1>1, <1>2, <1>4 DEF LeftOf, FallsAt, EndsAt

(* And so are their sums.                                                  *)
LEMMA LeftFacts ==
  ASSUME NEW l \in Locks, NEW t \in Nat
  PROVE  Left(l, t) \in Nat /\ Falls(l, t) \in Nat /\ Ends(l, t) \in Nat
<1>1. \A u \in Users : LeftOf(l[u], t) \in Nat /\ FallsAt(l[u], t) \in Nat /\ EndsAt(l[u], t) \in Nat
  BY LockFacts DEF Locks
<1>2. IsFiniteSet(Users)
  BY TimeAssumption
<1>3. Left(l, t) \in Nat
  BY <1>1, <1>2, SumOfNat DEF Left
<1>4. Falls(l, t) \in Nat
  BY <1>1, <1>2, SumOfNat DEF Falls
<1>5. Ends(l, t) \in Nat
  BY <1>1, <1>2, SumOfNat DEF Ends
<1> QED
  BY <1>3, <1>4, <1>5

\* No week begins after s and before t
NoWeekBetween(s, t) == \A w \in Weeks : ~ (s < w /\ w < t)

(* What locks are worth falls by their slopes until one of them ends.      *)
LEMMA LeftLater ==
  ASSUME NEW l \in Locks, NEW s \in Nat, NEW t \in Nat, s <= t, NoWeekBetween(s, t)
  PROVE  Left(l, t) = Left(l, s) - Falls(l, s) * (t - s)
<1> DEFINE f == [u \in Users |-> FallsAt(l[u], s)]
           d == [u \in Users |-> f[u] * (s - t)]
           a == [u \in Users |-> LeftOf(l[u], s)]
           b == [u \in Users |-> LeftOf(l[u], t)]
<1>1. IsFiniteSet(Users) /\ s - t \in Int
  BY TimeAssumption
<1>2. ASSUME NEW u \in Users
      PROVE  f[u] \in Int /\ d[u] \in Int /\ a[u] \in Int /\ b[u] = a[u] + d[u] /\ d[u] = f[u] * (s - t)
  <2> DEFINE end == l[u].end
             m == SlopeOf(l[u])
  <2>1. /\ l[u].end \in Weeks /\ m \in Nat /\ end \in Nat
        /\ LeftOf(l[u], s) \in Nat /\ FallsAt(l[u], s) \in Nat
    BY LockFacts DEF Locks
  <2>2. end > s => end >= t
    BY <2>1 DEF NoWeekBetween
  <2>3. /\ f[u] = (IF end > s THEN m ELSE 0)
        /\ a[u] = (IF end > s THEN m * (end - s) ELSE 0)
        /\ b[u] = (IF end > t THEN m * (end - t) ELSE 0)
        /\ d[u] = f[u] * (s - t) /\ f[u] \in Int /\ a[u] \in Int
    BY <2>1 DEF LeftOf, FallsAt
  <2> HIDE DEF end, m, f, a, b, d
  <2>4. d[u] \in Int
    BY <1>1, <2>3
  <2>5. CASE ~ (end > s)
    BY <2>1, <2>3, <2>5
  <2>6. CASE end > s
    <3>1. m * (end - t) = m * (end - s) + m * (s - t)
      BY <2>1
    <3>2. end = t => m * (end - t) = 0
      BY <2>1
    <3> QED
      BY <2>1, <2>2, <2>3, <2>6, <3>1, <3>2
  <2> QED
    BY <2>3, <2>4, <2>5, <2>6
<1>3. Left(l, t) = SumOf(b, Users) /\ Left(l, s) = SumOf(a, Users) /\ Falls(l, s) = SumOf(f, Users)
  BY DEF Left, Falls
<1> HIDE DEF f, d, a, b
<1>4. SumOf(b, Users) = SumOf(a, Users) + SumOf(d, Users)
  BY <1>1, <1>2, SumLinear
<1>5. SumOf(d, Users) = SumOf(f, Users) * (s - t)
  BY <1>1, <1>2, SumOfMultiples
<1>6. SumOf(f, Users) \in Int /\ SumOf(a, Users) \in Int
  BY <1>1, <1>2, SumOfInt
<1> QED
  BY <1>3, <1>4, <1>5, <1>6

(* Its slope falls by those of the locks that end then.                    *)
LEMMA FallsLater ==
  ASSUME NEW l \in Locks, NEW s \in Nat, NEW t \in Nat, s < t, NoWeekBetween(s, t)
  PROVE  Falls(l, t) = Falls(l, s) - Ends(l, t)
<1> DEFINE f == [u \in Users |-> FallsAt(l[u], s)]
           d == [u \in Users |-> EndsAt(l[u], t)]
           b == [u \in Users |-> FallsAt(l[u], t)]
<1>1. IsFiniteSet(Users)
  BY TimeAssumption
<1>2. ASSUME NEW u \in Users
      PROVE  b[u] \in Int /\ d[u] \in Int /\ f[u] = b[u] + d[u]
  <2> DEFINE end == l[u].end
             m == SlopeOf(l[u])
  <2>1. end \in Weeks /\ m \in Nat /\ end \in Nat
    BY LockFacts DEF Locks
  <2>2. end > s => end >= t
    BY <2>1 DEF NoWeekBetween
  <2>3. /\ f[u] = (IF end > s THEN m ELSE 0)
        /\ b[u] = (IF end > t THEN m ELSE 0)
        /\ d[u] = (IF end = t THEN m ELSE 0)
    BY <2>1 DEF FallsAt, EndsAt
  <2> HIDE DEF end, m, f, b, d
  <2> QED
    BY <2>1, <2>2, <2>3
<1>3. Falls(l, t) = SumOf(b, Users) /\ Falls(l, s) = SumOf(f, Users) /\ Ends(l, t) = SumOf(d, Users)
  BY DEF Falls, Ends
<1> HIDE DEF f, d, b
<1>4. SumOf(f, Users) = SumOf(b, Users) + SumOf(d, Users)
  BY <1>1, <1>2, SumLinear
<1>5. SumOf(d, Users) \in Int /\ SumOf(b, Users) \in Int
  BY <1>1, <1>2, SumOfInt
<1> QED
  BY <1>3, <1>4, <1>5

(* No lock ends but at the beginning of a week.                            *)
LEMMA EndsInWeeks ==
  ASSUME NEW l \in Locks, NEW t \in Nat, t \notin Weeks
  PROVE  Ends(l, t) = 0
<1> DEFINE d == [u \in Users |-> EndsAt(l[u], t)]
<1>1. IsFiniteSet(Users)
  BY TimeAssumption
<1>2. \A u \in Users : l[u].end \in Weeks
  BY LockFacts DEF Locks
<1>3. \A u \in Users : d[u] = 0
  BY <1>2 DEF EndsAt
<1>4. Ends(l, t) = SumOf(d, Users)
  BY DEF Ends
<1> HIDE DEF d
<1> QED
  BY <1>1, <1>3, <1>4, SumOfZeros

(* The point p is what the locks l come to at its time.                    *)
Fits(p, l) == p \in Point /\ p.bias = Left(l, p.ts) /\ p.slope = Falls(l, p.ts)

\* The slopes c change, after s, by those of the locks l that end
ChangesFit(c, l, s) == \A w \in Weeks : w > s => c[w] = 0 - Ends(l, w)

\* The sum of supply_at
EndedSum(c, s, t) == MapThenSumSet(LAMBDA w : c[w] * (t - w), {w \in Weeks : s < w /\ w < t})

(* The weeks that end between s and t.                                     *)
EndedWeeks(s, t) == {w \in Weeks : s < w /\ w < t}

(* The sum of supply_at adds up a function.                                *)
LEMMA EndedSumOf ==
  ASSUME NEW c, NEW s, NEW t
  PROVE  EndedSum(c, s, t) = SumOf([w \in EndedWeeks(s, t) |-> c[w] * (t - w)], EndedWeeks(s, t))
<1> DEFINE S == EndedWeeks(s, t)
           f == [w \in S |-> c[w] * (t - w)]
           E(h) == h = [r \in SUBSET S |-> IF r = {} THEN 0
                          ELSE c[Picked(r)] * (t - Picked(r)) + h[r \ {Picked(r)}]]
<1>1. EndedSum(c, s, t) = (CHOOSE h : E(h))[S]
  BY DEF EndedSum, EndedWeeks, MapThenSumSet, MapThenFoldSet, Picked
<1>2. IsFiniteSet(S)
  <2>1. S \subseteq Weeks
    BY DEF EndedWeeks
  <2> QED
    BY <2>1, WeekFacts, FS_Subset
<1>3. \A r \in SUBSET S : r # {} => f[Picked(r)] = c[Picked(r)] * (t - Picked(r))
  BY PickedIsElement
<1>4. f = [w \in S |-> c[w] * (t - w)]
  OBVIOUS
<1> HIDE DEF S, f
<1>5. \A h : E(h) <=> IsSum(h, f, S)
  BY <1>3 DEF IsSum
<1> HIDE DEF E
<1>6. PICK k : IsSum(k, f, S) /\ SumOf(f, S) = k[S]
  BY <1>2, SumIs
<1>7. (CHOOSE h : E(h))[S] = k[S]
  <2> DEFINE x == CHOOSE h : E(h)
  <2>1. IsSum(x, f, S)
    BY <1>5, <1>6
  <2> HIDE DEF x
  <2>2. x[S] = k[S]
    BY <1>2, <1>6, <2>1, SumUnique
  <2> QED
    BY <2>2 DEF x
<1> QED
  BY <1>1, <1>4, <1>6, <1>7 DEF S

(* What the slopes that end between s and t add up to at t, by week and by *)
(* user.                                                                   *)
LEMMA EndedSumIs ==
  ASSUME NEW l \in Locks, NEW c, NEW s \in Nat, NEW t \in Nat, ChangesFit(c, l, s)
  PROVE  EndedSum(c, s, t) =
           SumOf([u \in Users |-> IF s < l[u].end /\ l[u].end < t THEN SlopeOf(l[u]) * (l[u].end - t)
                                  ELSE 0], Users)
<1> DEFINE W == EndedWeeks(s, t)
           m == [w \in W |-> [u \in Users |-> EndsAt(l[u], w) * (w - t)]]
           q == [u \in Users |-> IF s < l[u].end /\ l[u].end < t THEN SlopeOf(l[u]) * (l[u].end - t) ELSE 0]
           g == [w \in W |-> c[w] * (t - w)]
<1>1. IsFiniteSet(Users) /\ IsFiniteSet(W) /\ W \subseteq Weeks
  <2>1. W \subseteq Weeks
    BY DEF EndedWeeks
  <2> QED
    BY <2>1, TimeAssumption, WeekFacts, FS_Subset
<1>2. ASSUME NEW u \in Users
      PROVE  SlopeOf(l[u]) \in Nat /\ l[u].end \in Nat /\ l[u].end \in Weeks
  BY LockFacts DEF Locks
<1>3. \A w \in W : w \in Nat /\ w \in Weeks /\ s < w /\ w < t
  BY WeekFacts DEF EndedWeeks
<1>4. ASSUME NEW w \in W
      PROVE  Ends(l, w) \in Nat /\ \A u \in Users : EndsAt(l[u], w) \in Nat
  BY <1>3, LeftFacts, LockFacts DEF Locks
<1>5. ASSUME NEW w \in W, NEW u \in Users
      PROVE  m[w][u] = EndsAt(l[u], w) * (w - t) /\ m[w][u] \in Int
  <2>1. m[w][u] = EndsAt(l[u], w) * (w - t)
    OBVIOUS
  <2> HIDE DEF m
  <2> QED
    BY <1>3, <1>4, <2>1
<1>6. ASSUME NEW w \in W
      PROVE  g[w] = SumOf(m[w], Users)
  <2> DEFINE f == [u \in Users |-> EndsAt(l[u], w)]
             k == m[w]
  <2>1. Ends(l, w) = SumOf(f, Users)
    BY DEF Ends
  <2>2. w - t \in Int /\ w \in Nat /\ c[w] = 0 - Ends(l, w) /\ Ends(l, w) \in Nat
    BY <1>3, <1>4 DEF ChangesFit
  <2>3. \A u \in Users : f[u] \in Int /\ k[u] = f[u] * (w - t)
    BY <1>4, <1>5
  <2>4. g[w] = c[w] * (t - w)
    OBVIOUS
  <2> HIDE DEF f, k, m, g
  <2>5. SumOf(k, Users) = SumOf(f, Users) * (w - t)
    BY <1>1, <2>2, <2>3, SumOfMultiples
  <2>6. SumOf(k, Users) = Ends(l, w) * (w - t)
    BY <2>1, <2>5
  <2>7. (0 - Ends(l, w)) * (t - w) = Ends(l, w) * (w - t)
    BY <2>2
  <2> QED
    BY <2>2, <2>4, <2>6, <2>7 DEF k
<1>7. ASSUME NEW u \in Users
      PROVE  SumOf(Column(m, W, u), W) = q[u]
  <2> DEFINE k == Column(m, W, u)
             end == l[u].end
  <2>1. \A w \in W : k[w] = EndsAt(l[u], w) * (w - t) /\ k[w] \in Int
    BY <1>5 DEF Column
  <2>2. \A w \in W : w # end => k[w] = 0
    BY <1>3, <2>1 DEF EndsAt
  <2>3. q[u] = IF s < end /\ end < t THEN SlopeOf(l[u]) * (end - t) ELSE 0
    OBVIOUS
  <2> HIDE DEF k, q, m
  <2>4. CASE end \in W
    <3>1. k[end] = SlopeOf(l[u]) * (end - t) /\ k[end] \in Int
      BY <2>1, <2>4 DEF EndsAt
    <3>2. s < end /\ end < t
      BY <2>4 DEF EndedWeeks
    <3>3. SumOf(k, W) = k[end]
      <4> HIDE DEF W, end
      <4> QED
        BY <1>1, <2>2, <2>4, <3>1, SumOfOne
    <3> QED
      BY <2>3, <3>1, <3>2, <3>3 DEF k
  <2>5. CASE end \notin W
    <3>1. ~ (s < end /\ end < t)
      BY <1>2, <2>5 DEF EndedWeeks
    <3>2. \A w \in W : k[w] = 0
      BY <2>2, <2>5
    <3>3. SumOf(k, W) = 0
      <4> HIDE DEF W, end
      <4> QED
        BY <1>1, <3>2, SumOfZeros
    <3> QED
      BY <2>3, <3>1, <3>3 DEF k
  <2> QED
    BY <2>4, <2>5
<1>8. EndedSum(c, s, t) = SumOf(g, W)
  BY EndedSumOf
<1> HIDE DEF W, m, q, g
<1>9. SumOf(g, W) = SumOf(Rows(m, W, Users), W)
  BY <1>1, <1>6, SumEqual DEF Rows
<1>10. SumOf(Rows(m, W, Users), W) = SumOf(Columns(m, W, Users), Users)
  BY <1>1, <1>5, SumOfRows
<1>11. SumOf(Columns(m, W, Users), Users) = SumOf(q, Users)
  BY <1>1, <1>7, SumEqual DEF Columns
<1> QED
  BY <1>8, <1>9, <1>10, <1>11 DEF q

(* A point that is what the locks come to tells what they come to at any   *)
(* later time, by the slopes that end until then (supply_at).              *)
LEMMA SupplyAfter ==
  ASSUME NEW l \in Locks, NEW p, Fits(p, l), NEW c, ChangesFit(c, l, p.ts), NEW t \in Nat, p.ts <= t
  PROVE  AtLeastZero(p.bias - p.slope * (t - p.ts) - EndedSum(c, p.ts, t)) = Left(l, t)
<1> DEFINE s == p.ts
           f == [u \in Users |-> FallsAt(l[u], s)]
           d == [u \in Users |-> f[u] * (s - t)]
           a == [u \in Users |-> LeftOf(l[u], s)]
           b == [u \in Users |-> LeftOf(l[u], t)]
           q == [u \in Users |-> IF s < l[u].end /\ l[u].end < t THEN SlopeOf(l[u]) * (l[u].end - t) ELSE 0]
           k == [u \in Users |-> a[u] + d[u]]
<1>1. IsFiniteSet(Users) /\ s \in Nat /\ s - t \in Int
  BY TimeAssumption DEF Fits, Point
<1>2. ASSUME NEW u \in Users
      PROVE  /\ f[u] \in Int /\ d[u] \in Int /\ a[u] \in Int /\ b[u] \in Int /\ q[u] \in Int
             /\ k[u] = a[u] + d[u] /\ k[u] = b[u] + q[u] /\ d[u] = f[u] * (s - t)
  <2> DEFINE end == l[u].end
             m == SlopeOf(l[u])
  <2>1. /\ m \in Nat /\ end \in Nat
        /\ LeftOf(l[u], s) \in Nat /\ FallsAt(l[u], s) \in Nat /\ LeftOf(l[u], t) \in Nat
    BY <1>1, LockFacts DEF Locks
  <2>2. /\ f[u] = (IF end > s THEN m ELSE 0)
        /\ a[u] = (IF end > s THEN m * (end - s) ELSE 0)
        /\ b[u] = (IF end > t THEN m * (end - t) ELSE 0)
        /\ q[u] = (IF s < end /\ end < t THEN m * (end - t) ELSE 0)
        /\ d[u] = f[u] * (s - t) /\ k[u] = a[u] + d[u] /\ f[u] \in Int /\ a[u] \in Int /\ b[u] \in Int
    BY <2>1 DEF LeftOf, FallsAt
  <2> HIDE DEF end, m, f, a, b, d, q, k
  <2>3. d[u] \in Int /\ m * (end - t) \in Int
    BY <1>1, <2>1, <2>2
  <2>4. m * (end - t) = m * (end - s) + m * (s - t) /\ (end = t => m * (end - t) = 0)
    BY <1>1, <2>1
  <2>5. CASE ~ (end > s)
    BY <1>1, <2>1, <2>2, <2>5
  <2>6. CASE end > s
    BY <1>1, <2>1, <2>2, <2>3, <2>4, <2>6 DEF s
  <2> QED
    BY <2>5, <2>6
<1>3. /\ Left(l, t) = SumOf(b, Users) /\ Left(l, s) = SumOf(a, Users) /\ Falls(l, s) = SumOf(f, Users)
      /\ EndedSum(c, s, t) = SumOf(q, Users)
  BY <1>1, EndedSumIs DEF Left, Falls
<1>4. p.bias = Left(l, s) /\ p.slope = Falls(l, s)
  BY DEF Fits
<1> HIDE DEF f, d, a, b, q, k
<1>5. SumOf(k, Users) = SumOf(a, Users) + SumOf(d, Users)
  BY <1>1, <1>2, SumLinear
<1>6. SumOf(k, Users) = SumOf(b, Users) + SumOf(q, Users)
  BY <1>1, <1>2, SumLinear
<1>7. SumOf(d, Users) = SumOf(f, Users) * (s - t)
  BY <1>1, <1>2, SumOfMultiples
<1>8. SumOf(f, Users) \in Int /\ SumOf(a, Users) \in Int /\ SumOf(b, Users) \in Int /\ SumOf(q, Users) \in Int
  BY <1>1, <1>2, SumOfInt
<1>9. Left(l, t) \in Nat
  BY LeftFacts
<1> HIDE DEF s
<1>10. p.bias - p.slope * (t - s) - EndedSum(c, s, t) = Left(l, t)
  BY <1>1, <1>3, <1>4, <1>5, <1>6, <1>7, <1>8
<1> QED
  BY <1>9, <1>10 DEF AtLeastZero, s

(* A week later, or earlier, the point is again what the locks come to     *)
(* (the loop of _checkpoint).                                              *)
LEMMA AdvanceFits ==
  ASSUME NEW l \in Locks, NEW p, Fits(p, l), ChangesFit(slopeChanges, l, p.ts), NEW t \in Nat, p.ts <= t,
         NoWeekBetween(p.ts, t)
  PROVE  Fits(Advance(p, t), l) /\ Advance(p, t).ts = t
<1> DEFINE s == p.ts
           change == IF t \in Weeks /\ t > s THEN slopeChanges[t] ELSE 0
<1>1. p.bias = Left(l, s) /\ p.slope = Falls(l, s) /\ s \in Nat
  BY DEF Fits, Point
<1>2. Left(l, t) = p.bias - p.slope * (t - s) /\ Left(l, t) \in Nat
  BY <1>1, LeftLater, LeftFacts
<1>3. BalanceAtPoint(p, t) = Left(l, t)
  BY <1>2 DEF BalanceAtPoint, AtLeastZero
<1>4. Falls(l, t) \in Nat /\ Falls(l, s) \in Nat /\ Ends(l, t) \in Nat
  BY <1>1, LeftFacts
<1>5. p.slope + change = Falls(l, t)
  <2>1. CASE t = s
    BY <1>1, <1>4, <2>1
  <2>2. CASE t # s
    <3>1. s < t /\ Falls(l, t) = Falls(l, s) - Ends(l, t)
      BY <1>1, <2>2, FallsLater
    <3>2. CASE t \in Weeks
      <4>1. change = 0 - Ends(l, t)
        BY <3>1, <3>2 DEF ChangesFit
      <4> HIDE DEF change
      <4> QED
        BY <1>1, <1>4, <3>1, <4>1
    <3>3. CASE t \notin Weeks
      BY <1>1, <1>4, <3>1, <3>3, EndsInWeeks
    <3> QED
      BY <3>2, <3>3
  <2> QED
    BY <2>1, <2>2
<1> HIDE DEF change
<1>6. AtLeastZero(p.slope + change) = Falls(l, t)
  BY <1>4, <1>5 DEF AtLeastZero
<1>7. Advance(p, t) = [bias |-> Left(l, t), slope |-> Falls(l, t), ts |-> t]
  BY <1>3, <1>6 DEF Advance, change
<1> QED
  BY <1>2, <1>4, <1>7 DEF Fits, Point

---------------------------------------------------------------------------
(* The loop of _checkpoint.                                                *)

Clock == now \in Nat /\ DeployTime <= now /\ now <= MaxTime

LastPoint == IF pointHistory = <<>> THEN [bias |-> 0, slope |-> 0, ts |-> now]
             ELSE pointHistory[Len(pointHistory)]

FirstWeek == RoundDown(LastPoint.ts)
LoopWeeks == (RoundUp(now) - FirstWeek) \div WEEK
LoopCount == Earlier(CheckpointWeeks, Later(1, LoopWeeks))
LoopTime(i) == IF i = 0 THEN LastPoint.ts ELSE Earlier(now, FirstWeek + i * WEEK)

\* The loop is long enough to get to now
FillsInTime == LoopWeeks <= CheckpointWeeks

(* Multiples of WEEK.                                                      *)
LEMMA Multiples ==
  /\ \A i \in Int : i * WEEK \in Int
  /\ \A i \in Int, j \in Int : i < j => i * WEEK + WEEK <= j * WEEK
  /\ \A i \in Int, j \in Int : i <= j => i * WEEK <= j * WEEK
<1>1. WEEK \in Nat /\ WEEK > 0
  BY TimeAssumption
<1>2. \A i \in Int : i * WEEK \in Int
  BY <1>1
<1>3. ASSUME NEW i \in Int, NEW j \in Int, i < j
      PROVE  i * WEEK + WEEK <= j * WEEK
  <2>1. j - i - 1 \in Nat
    BY <1>3
  <2>2. (j - i - 1) * WEEK \in Nat /\ j * WEEK = i * WEEK + WEEK + (j - i - 1) * WEEK
    BY <1>1, <2>1
  <2> QED
    BY <1>1, <1>2, <2>2
<1>4. \A i \in Int, j \in Int : i <= j => i * WEEK <= j * WEEK
  <2> TAKE i \in Int, j \in Int
  <2> HAVE i <= j
  <2>1. CASE i = j
    BY <1>2, <2>1
  <2>2. CASE i # j
    BY <1>1, <1>2, <1>3, <2>2
  <2> QED
    BY <2>1, <2>2
<1> QED
  BY <1>2, <1>3, <1>4

(* Some weeks after the beginning of a week.                               *)
LEMMA WeeksLater ==
  ASSUME NEW r \in Nat, r % WEEK = 0, NEW i \in Nat
  PROVE  (r + i * WEEK) % WEEK = 0
<1> DEFINE m == r \div WEEK
<1>1. m \in Nat /\ r = m * WEEK
  BY TimeAssumption
<1> HIDE DEF m
<1>2. r + i * WEEK = (m + i) * WEEK
  BY <1>1, TimeAssumption
<1>3. m + i \in Nat /\ ((m + i) * WEEK) % WEEK = 0
  BY <1>1, TimeAssumption
<1> QED
  BY <1>2, <1>3

(* The next beginning of a week, or now if it is one.                      *)
LEMMA RoundUpFacts ==
  ASSUME NEW t \in Nat
  PROVE  /\ RoundUp(t) \in Nat /\ t <= RoundUp(t) /\ RoundUp(t) < t + WEEK /\ RoundUp(t) % WEEK = 0
<1>1. WEEK \in Nat /\ WEEK > 0 /\ t + WEEK - 1 \in Nat
  BY TimeAssumption
<1>2. /\ RoundDown(t + WEEK - 1) \in Nat /\ RoundDown(t + WEEK - 1) <= t + WEEK - 1
      /\ t + WEEK - 1 < RoundDown(t + WEEK - 1) + WEEK /\ RoundDown(t + WEEK - 1) % WEEK = 0
  BY <1>1, RoundDownFacts
<1> QED
  BY <1>1, <1>2 DEF RoundUp

(* The loop makes a point for each week that has begun, and one for now.   *)
LEMMA LoopRange ==
  ASSUME Clock, LastPoint.ts \in Nat, LastPoint.ts <= now, FillsInTime
  PROVE  /\ LoopCount \in Nat /\ LoopCount >= 1
         /\ FirstWeek + LoopCount * WEEK >= now
         /\ \A i \in 1 .. LoopCount - 1 : FirstWeek + i * WEEK < now
<1> DEFINE r == FirstWeek
           e == RoundUp(now)
           n == LoopWeeks
<1>1. WEEK \in Nat /\ WEEK > 0 /\ now \in Nat
  BY TimeAssumption DEF Clock
<1>2. /\ r \in Nat /\ r <= LastPoint.ts /\ LastPoint.ts < r + WEEK /\ r % WEEK = 0
      /\ e \in Nat /\ now <= e /\ e < now + WEEK /\ e % WEEK = 0
  BY <1>1, RoundDownFacts, RoundUpFacts DEF FirstWeek
<1>3. PICK m \in Int : e - r = m * WEEK
  BY <1>2, WeeksApart
<1>4. n = m
  <2>1. (m * WEEK) \div WEEK = m
    BY <1>1, <1>3
  <2> QED
    BY <1>3, <2>1 DEF LoopWeeks
<1>5. m >= 0
  <2>1. m < 0 => m * WEEK + WEEK <= 0 * WEEK
    BY Multiples
  <2> QED
    BY <1>1, <1>2, <1>3, <2>1, Multiples
<1>6. LoopCount = Later(1, m)
  BY <1>4, <1>5, TimeAssumption DEF LoopCount, FillsInTime, Earlier, Later
<1> HIDE DEF r, e, n
<1>7. LoopCount \in Nat /\ LoopCount >= 1 /\ LoopCount >= m /\ (LoopCount = m \/ (LoopCount = 1 /\ m = 0))
  BY <1>5, <1>6 DEF Later
<1>8. r + LoopCount * WEEK >= now
  <2>1. m * WEEK <= LoopCount * WEEK /\ m * WEEK \in Int /\ LoopCount * WEEK \in Int
    BY <1>7, Multiples
  <2> QED
    BY <1>1, <1>2, <1>3, <2>1
<1>9. \A i \in 1 .. LoopCount - 1 : r + i * WEEK < now
  <2> TAKE i \in 1 .. LoopCount - 1
  <2>1. i \in Int /\ i < m
    BY <1>7
  <2>2. i * WEEK + WEEK <= m * WEEK /\ i * WEEK \in Int /\ m * WEEK \in Int
    BY <2>1, Multiples
  <2> QED
    BY <1>1, <1>2, <1>3, <2>2
<1> QED
  BY <1>7, <1>8, <1>9 DEF r

(* The times of these points.                                              *)
LEMMA LoopTimes ==
  ASSUME Clock, LastPoint.ts \in Nat, LastPoint.ts <= now, FillsInTime
  PROVE  /\ LoopCount \in Nat /\ LoopCount >= 1 /\ LoopTime(LoopCount) = now
         /\ \A i \in 0 .. LoopCount : LoopTime(i) \in Nat /\ LoopTime(i) <= now /\ LastPoint.ts <= LoopTime(i)
         /\ \A i \in 1 .. LoopCount - 1 : LoopTime(i) = FirstWeek + i * WEEK /\ LoopTime(i) < now
         /\ \A i \in 1 .. LoopCount : LoopTime(i - 1) <= LoopTime(i) /\ NoWeekBetween(LoopTime(i - 1), LoopTime(i))
         /\ \A i \in 1 .. LoopCount : LoopTime(i) < now => LastPoint.ts < LoopTime(i)
<1> DEFINE r == FirstWeek
           s == LastPoint.ts
<1>1. WEEK \in Nat /\ WEEK > 0 /\ now \in Nat /\ s \in Nat /\ s <= now
  BY TimeAssumption DEF Clock
<1>2. /\ r \in Nat /\ r <= s /\ s < r + WEEK /\ r % WEEK = 0
  BY <1>1, RoundDownFacts DEF FirstWeek
<1>3. /\ LoopCount \in Nat /\ LoopCount >= 1
      /\ r + LoopCount * WEEK >= now
      /\ \A i \in 1 .. LoopCount - 1 : r + i * WEEK < now
  BY LoopRange
<1>4. LoopTime(0) = s /\ \A i \in 1 .. LoopCount : LoopTime(i) = Earlier(now, r + i * WEEK)
  BY <1>3 DEF LoopTime
<1> HIDE DEF r, s
<1>5. LoopTime(LoopCount) = now
  <2>1. LoopCount * WEEK \in Int
    BY <1>3, Multiples
  <2> QED
    BY <1>1, <1>2, <1>3, <1>4, <2>1 DEF Earlier
<1>6. \A i \in 1 .. LoopCount - 1 : LoopTime(i) = r + i * WEEK /\ LoopTime(i) < now /\ i * WEEK \in Int
                                    /\ i * WEEK >= WEEK
  <2> TAKE i \in 1 .. LoopCount - 1
  <2>1. i * WEEK \in Int /\ 0 * WEEK + WEEK <= i * WEEK /\ r + i * WEEK < now
    BY <1>3, Multiples
  <2> QED
    BY <1>1, <1>2, <1>3, <1>4, <2>1 DEF Earlier
<1>7. \A i \in 0 .. LoopCount : LoopTime(i) \in Nat /\ LoopTime(i) <= now /\ s <= LoopTime(i)
  <2> TAKE i \in 0 .. LoopCount
  <2>1. CASE i = 0
    BY <1>1, <1>4, <2>1
  <2>2. CASE i = LoopCount
    BY <1>1, <1>5, <2>2
  <2>3. CASE i # 0 /\ i # LoopCount
    BY <1>1, <1>2, <1>3, <1>6, <2>3
  <2> QED
    BY <2>1, <2>2, <2>3
<1>8. ASSUME NEW i \in 1 .. LoopCount
      PROVE  /\ LoopTime(i - 1) <= LoopTime(i) /\ NoWeekBetween(LoopTime(i - 1), LoopTime(i))
             /\ LoopTime(i) < now => s < LoopTime(i)
  <2> DEFINE b == LoopTime(i - 1)
             pr == i * WEEK
             pp == (i - 1) * WEEK
  <2>1. pr \in Int /\ pp \in Int /\ pr = pp + WEEK /\ pp >= 0
    <3>1. (i - 1) * WEEK + WEEK = i * WEEK /\ 0 * WEEK <= (i - 1) * WEEK
      BY <1>1, Multiples
    <3> QED
      BY <1>1, <3>1, Multiples
  <2>2. LoopTime(i) = Earlier(now, r + pr) /\ b \in Nat /\ b <= now
    BY <1>3, <1>4, <1>7
  <2>3. b < r + pr /\ (b >= r + pp)
    <3>1. CASE i = 1
      BY <1>1, <1>2, <1>4, <2>1, <3>1
    <3>2. CASE i # 1
      <4>1. b = r + pp
        BY <1>3, <1>6, <3>2
      <4> QED
        BY <1>1, <1>2, <2>1, <4>1
    <3> QED
      BY <3>1, <3>2
  <2>4. (r + pr) % WEEK = 0 /\ (r + pp) % WEEK = 0 /\ r + pp \in Nat /\ r + pr \in Nat
    <3>1. r + pp \in Nat /\ r + pr \in Nat
      BY <1>2, <2>1, <1>1
    <3>2. i \in Nat /\ i - 1 \in Nat
      BY <1>3
    <3>3. (r + pp) % WEEK = 0
      BY <1>2, <3>2, WeeksLater
    <3>4. (r + pr) % WEEK = 0
      BY <1>2, <3>2, WeeksLater
    <3> QED
      BY <3>1, <3>3, <3>4
  <2> HIDE DEF b, pr, pp
  <2>5. ASSUME NEW w \in Weeks, b < w
        PROVE  w >= r + pr
    <3>1. w \in Nat /\ w % WEEK = 0
      BY WeekFacts
    <3>2. r + pp < w
      BY <1>2, <2>1, <2>2, <2>3, <2>5, <3>1
    <3>3. r + pp + WEEK <= w
      BY <2>4, <3>1, <3>2, WeeksApart
    <3> QED
      BY <1>1, <1>2, <2>1, <3>1, <3>3
  <2>6. LoopTime(i) \in Nat /\ LoopTime(i) <= r + pr /\ LoopTime(i) <= now /\ b <= LoopTime(i)
    BY <1>1, <1>2, <2>1, <2>2, <2>3 DEF Earlier
  <2>7. \A w \in Weeks : ~ (b < w /\ w < LoopTime(i))
    BY <1>2, <2>1, <2>5, <2>6, WeekFacts
  <2>8. LoopTime(i) < now => s < LoopTime(i)
    <3>1. pr >= WEEK
      BY <1>1, <2>1
    <3> QED
      BY <1>1, <1>2, <2>1, <2>2, <3>1 DEF Earlier
  <2> QED
    BY <2>6, <2>7, <2>8 DEF NoWeekBetween, b
<1> QED
  BY <1>3, <1>5, <1>6, <1>7, <1>8 DEF r, s

(* A point moved on is a point.                                            *)
LEMMA AdvanceType ==
  ASSUME slopeChanges \in [Weeks -> Int], NEW p \in Point, NEW t \in Nat
  PROVE  Advance(p, t) \in Point
<1>1. p.bias \in Nat /\ p.slope \in Nat /\ p.ts \in Nat
  BY DEF Point
<1>2. p.bias - p.slope * (t - p.ts) \in Int
  BY <1>1
<1>3. BalanceAtPoint(p, t) \in Nat
  BY <1>2 DEF BalanceAtPoint, AtLeastZero
<1>4. p.slope + (IF t \in Weeks /\ t > p.ts THEN slopeChanges[t] ELSE 0) \in Int
  BY <1>1
<1>5. AtLeastZero(p.slope + IF t \in Weeks /\ t > p.ts THEN slopeChanges[t] ELSE 0) \in Nat
  BY <1>4 DEF AtLeastZero
<1> QED
  BY <1>3, <1>5 DEF Advance, Point

(* The loop makes each point from the one before.                          *)
LEMMA LoopPoints ==
  ASSUME Clock, LastPoint \in Point, LastPoint.ts <= now, FillsInTime, slopeChanges \in [Weeks -> Int]
  PROVE  \E p : /\ NewPoints = [i \in 1 .. LoopCount |-> p[i]] /\ p[0] = LastPoint
                /\ \A i \in 1 .. LoopCount : p[i] = Advance(p[i - 1], LoopTime(i))
<1> DEFINE L == LoopCount
           g == [n \in 1 .. L |-> [m \in Point |-> Advance(m, LoopTime(n))]]
           Body(f) == f = [i \in 0 .. L |-> IF i = 0 THEN LastPoint
                                            ELSE Advance(f[i - 1], Earlier(now, RoundDown(LastPoint.ts) + i * WEEK))]
           after == CHOOSE f : Body(f)
<1>1. LastPoint.ts \in Nat
  BY DEF Point
<1>2. L \in Nat /\ L >= 1 /\ \A i \in 0 .. L : LoopTime(i) \in Nat
  BY <1>1, LoopTimes
<1>3. NewPoints = [i \in 1 .. L |-> after[i]]
  BY DEF NewPoints, LastPoint, LoopCount, LoopWeeks, FirstWeek
<1> HIDE DEF L
<1>4. \A n \in 1 .. L : LoopTime(n) = Earlier(now, RoundDown(LastPoint.ts) + n * WEEK)
  BY <1>2 DEF LoopTime, FirstWeek
<1>5. \A n \in 1 .. L : g[n] \in [Point -> Point]
  BY <1>2, AdvanceType
<1> HIDE DEF g
<1>6. PICK f \in [0 .. L -> Point] : Iterates(f, g, LastPoint, L)
  BY <1>2, <1>5, LoopExists
<1>7. ASSUME NEW n \in 0 .. L, n # 0
      PROVE  g[n][f[n - 1]] = Advance(f[n - 1], Earlier(now, RoundDown(LastPoint.ts) + n * WEEK))
  <2>1. n \in 1 .. L /\ n - 1 \in 0 .. L
    BY <1>2, <1>7
  <2>2. f[n - 1] \in Point
    BY <1>6, <2>1
  <2> QED
    BY <1>4, <2>1, <2>2 DEF g
<1>8. Body(f)
  BY <1>6, <1>7 DEF Iterates
<1> HIDE DEF Body
<1>9. Body(after)
  BY <1>8
<1> HIDE DEF after
<1>10. after[0] = LastPoint /\ \A n \in 1 .. L : after[n] = Advance(after[n - 1], LoopTime(n))
  BY <1>2, <1>4, <1>9 DEF Body
<1> QED
  BY <1>3, <1>10 DEF L

(* All of them are what the locks come to, at their times.                 *)
LEMMA NewPointsFit ==
  ASSUME Clock, LastPoint.ts <= now, FillsInTime, slopeChanges \in [Weeks -> Int],
         NEW l \in Locks, Fits(LastPoint, l), ChangesFit(slopeChanges, l, LastPoint.ts)
  PROVE  /\ NewPoints \in Seq(Point) /\ Len(NewPoints) = LoopCount /\ LoopCount \in Nat /\ LoopCount >= 1
         /\ \A i \in 1 .. LoopCount : Fits(NewPoints[i], l) /\ NewPoints[i].ts = LoopTime(i)
<1> DEFINE L == LoopCount
           s == LastPoint.ts
<1>1. LastPoint \in Point /\ s \in Nat
  BY DEF Fits, Point
<1>2. PICK p : /\ NewPoints = [i \in 1 .. LoopCount |-> p[i]] /\ p[0] = LastPoint
               /\ \A i \in 1 .. LoopCount : p[i] = Advance(p[i - 1], LoopTime(i))
  BY <1>1, LoopPoints
<1>3. /\ L \in Nat /\ L >= 1 /\ LoopTime(0) = s
      /\ \A i \in 0 .. L : LoopTime(i) \in Nat /\ s <= LoopTime(i)
      /\ \A i \in 1 .. L : LoopTime(i - 1) <= LoopTime(i) /\ NoWeekBetween(LoopTime(i - 1), LoopTime(i))
  BY <1>1, LoopTimes DEF LoopTime
<1> DEFINE T == {i \in 0 .. L : Fits(p[i], l) /\ p[i].ts = LoopTime(i)}
<1>4. 0 \in T
  BY <1>2, <1>3
<1>5. ASSUME NEW n \in 0 .. L, n + 1 \in 0 .. L, n \in T
      PROVE  n + 1 \in T
  <2> DEFINE q == p[n]
             t == LoopTime(n + 1)
  <2>1. n + 1 \in 1 .. L /\ (n + 1) - 1 = n
    BY <1>3, <1>5
  <2>2. Fits(q, l) /\ q.ts = LoopTime(n) /\ q.ts \in Nat /\ s <= q.ts
    BY <1>3, <1>5
  <2>3. t \in Nat /\ q.ts <= t /\ NoWeekBetween(q.ts, t)
    BY <1>3, <2>1, <2>2
  <2>4. ChangesFit(slopeChanges, l, q.ts)
    <3>1. \A w \in Weeks : w > q.ts => w > s
      BY <1>1, <2>2, WeekFacts
    <3> QED
      BY <3>1 DEF ChangesFit
  <2>5. p[n + 1] = Advance(q, t)
    BY <1>2, <2>1
  <2> HIDE DEF q, t
  <2>6. Fits(Advance(q, t), l) /\ Advance(q, t).ts = t
    BY <2>2, <2>3, <2>4, AdvanceFits
  <2> QED
    BY <1>5, <2>5, <2>6 DEF t
<1> HIDE DEF T, L
<1>6. 0 .. L \subseteq T
  BY <1>3, <1>4, <1>5, UpTo
<1>7. \A i \in 1 .. L : Fits(p[i], l) /\ p[i].ts = LoopTime(i) /\ p[i] \in Point
  <2> TAKE i \in 1 .. L
  <2>1. i \in 0 .. L
    BY <1>3
  <2> QED
    BY <1>6, <2>1 DEF T, Fits
<1>8. NewPoints \in Seq(Point) /\ Len(NewPoints) = L /\ \A i \in 1 .. L : NewPoints[i] = p[i]
  BY <1>2, <1>3, <1>7 DEF L
<1> QED
  BY <1>3, <1>7, <1>8 DEF L

---------------------------------------------------------------------------
(* Histories.                                                              *)

InOrder(h) == h \in Seq(Point) /\ \A i \in 1 .. Len(h) : h[i].ts <= h[Len(h)].ts

\* What supply_at makes of a point and the changes of slope c
SupplyOf(p, c, t) == AtLeastZero(p.bias - p.slope * (t - p.ts) - EndedSum(c, p.ts, t))

(* The epochs that began by t.                                             *)
LEMMA EpochFacts ==
  ASSUME NEW h \in Seq(Point), NEW t \in Nat
  PROVE  /\ EpochAt(h, t) \in 0 .. Len(h)
         /\ \A n \in 0 .. Len(h) : (\A i \in 1 .. Len(h) : h[i].ts <= t <=> i <= n) => EpochAt(h, t) = n
<1> DEFINE S == {e \in DOMAIN h : h[e].ts <= t}
<1>1. Len(h) \in Nat /\ DOMAIN h = 1 .. Len(h)
  BY LenProperties
<1>2. IsFiniteSet(1 .. Len(h)) /\ Cardinality(1 .. Len(h)) = Len(h)
  BY <1>1, FS_Interval
<1>3. IsFiniteSet(S) /\ Cardinality(S) <= Len(h) /\ Cardinality(S) \in Nat
  <2>1. S \subseteq 1 .. Len(h)
    BY <1>1
  <2> QED
    BY <1>2, <2>1, FS_Subset, FS_CardinalityType
<1>4. ASSUME NEW n \in 0 .. Len(h), \A i \in 1 .. Len(h) : h[i].ts <= t <=> i <= n
      PROVE  Cardinality(S) = n
  <2>1. S = 1 .. n
    BY <1>1, <1>4
  <2>2. Cardinality(1 .. n) = n
    BY <1>1, FS_Interval
  <2> QED
    BY <2>1, <2>2
<1>5. EpochAt(h, t) = Cardinality(S)
  BY DEF EpochAt
<1> QED
  BY <1>1, <1>3, <1>4, <1>5

(* The supply by a history is that by the point of the epoch.              *)
LEMMA SupplyIs ==
  ASSUME NEW h, NEW t
  PROVE  TotalSupplyIn(h, t) = IF EpochAt(h, t) = 0 THEN 0 ELSE SupplyOf(h[EpochAt(h, t)], slopeChanges, t)
  BY DEF TotalSupplyIn, SupplyOf, EndedSum

\* A user's last point is what is left of the lock
UserFits(p, lock) ==
    /\ p \in Point
    /\ p.bias = LeftOf(lock, p.ts)
    /\ p.slope = FallsAt(lock, p.ts)

(* The history ends with what the locks come to, the changes of slope are  *)
(* those of the locks that end later.                                      *)
Recorded ==
    /\ locked \in Locks
    /\ slopeChanges \in [Weeks -> Int]
    /\ InOrder(pointHistory)
    /\ DeployTime <= LastPoint.ts /\ LastPoint.ts <= now
    /\ Fits(LastPoint, locked)
    /\ ChangesFit(slopeChanges, locked, LastPoint.ts)

(* A user's history ends with what is left of the user's lock.             *)
UserRecorded(u) ==
    /\ InOrder(userHistory[u])
    /\ locked[u].amount = 0 => locked[u] = NoLock
    /\ IF userHistory[u] = <<>> THEN locked[u] = NoLock
       ELSE /\ pointHistory # <<>>
            /\ UserFits(userHistory[u][Len(userHistory[u])], locked[u])
            /\ userHistory[u][Len(userHistory[u])].ts <= LastPoint.ts

UsersRecorded ==
    /\ userHistory = [u \in Users |-> userHistory[u]]
    /\ \A u \in Users : UserRecorded(u)

Balances(t) == [u \in Users |-> BalanceOf(u, t)]
Agrees(t) == TotalSupply(t) = SumOf(Balances(t), Users)

(* In the weeks that have begun the supply was the sum of the balances.    *)
PastAgrees == \A t \in Weeks : t < now => Agrees(t)

Escrow == Clock /\ Recorded /\ UsersRecorded /\ PastAgrees

(* Where the history ends.                                                 *)
LEMMA LastPointFacts ==
  ASSUME Clock, Recorded
  PROVE  /\ LastPoint \in Point /\ LastPoint.ts \in Nat /\ Len(pointHistory) \in Nat
         /\ pointHistory # <<>> => /\ Len(pointHistory) >= 1 /\ LastPoint = pointHistory[Len(pointHistory)]
                                   /\ \A i \in 1 .. Len(pointHistory) : pointHistory[i] \in Point
         /\ pointHistory = <<>> => LastPoint.ts = now /\ Len(pointHistory) = 0
<1>1. pointHistory \in Seq(Point)
  BY DEF Recorded, InOrder
<1>2. Len(pointHistory) \in Nat /\ DOMAIN pointHistory = 1 .. Len(pointHistory)
      /\ \A i \in 1 .. Len(pointHistory) : pointHistory[i] \in Point
  BY <1>1, LenProperties, ElementOfSeq
<1>3. pointHistory # <<>> => Len(pointHistory) >= 1
  BY <1>1, <1>2, EmptySeq
<1>4. LastPoint \in Point /\ LastPoint.ts \in Nat
  BY DEF Recorded, Fits, Point
<1> QED
  BY <1>2, <1>3, <1>4 DEF LastPoint

(* From the last point on, the supply is what the locks come to.           *)
LEMMA SupplyNow ==
  ASSUME Clock, Recorded, NEW t \in Nat, LastPoint.ts <= t, pointHistory # <<>>
  PROVE  TotalSupply(t) = Left(locked, t)
<1>1. /\ LastPoint \in Point /\ LastPoint.ts \in Nat /\ Len(pointHistory) \in Nat /\ Len(pointHistory) >= 1
      /\ LastPoint = pointHistory[Len(pointHistory)] /\ pointHistory \in Seq(Point)
      /\ \A i \in 1 .. Len(pointHistory) : pointHistory[i] \in Point
  BY LastPointFacts DEF Recorded, InOrder
<1>2. \A i \in 1 .. Len(pointHistory) : pointHistory[i].ts \in Nat /\ pointHistory[i].ts <= LastPoint.ts
  BY <1>1 DEF Point, Recorded, InOrder
<1>3. EpochAt(pointHistory, t) = Len(pointHistory)
  <2>1. \A i \in 1 .. Len(pointHistory) : pointHistory[i].ts <= t <=> i <= Len(pointHistory)
    BY <1>1, <1>2
  <2>2. Len(pointHistory) \in 0 .. Len(pointHistory)
    BY <1>1
  <2> QED
    BY <1>1, <2>1, <2>2, EpochFacts
<1>4. TotalSupply(t) = SupplyOf(LastPoint, slopeChanges, t)
  BY <1>1, <1>3, SupplyIs DEF TotalSupply
<1>5. SupplyOf(LastPoint, slopeChanges, t) = Left(locked, t)
  BY SupplyAfter DEF SupplyOf, Recorded
<1> QED
  BY <1>4, <1>5

(* And a user's balance is what is left of the lock.                       *)
LEMMA BalanceNow ==
  ASSUME Clock, Recorded, NEW u \in Users, UserRecorded(u), NEW t \in Nat, LastPoint.ts <= t
  PROVE  BalanceOf(u, t) = LeftOf(locked[u], t)
<1> DEFINE h == userHistory[u]
           p == h[Len(h)]
           end == locked[u].end
           m == SlopeOf(locked[u])
<1>1. m \in Nat /\ end \in Nat /\ locked[u] \in [amount : Nat, end : Weeks]
  BY LockFacts DEF Locks, Recorded
<1>2. CASE h = <<>>
  <2>1. locked[u] = NoLock
    BY <1>2 DEF UserRecorded
  <2>2. end = 0
    BY <2>1 DEF NoLock, Lock
  <2>3. LeftOf(locked[u], t) = 0
    BY <2>2 DEF LeftOf
  <2>4. EpochAt(h, t) = 0
    <3>1. Len(h) = 0 /\ h \in Seq(Point)
      BY <1>2 DEF UserRecorded, InOrder
    <3> QED
      BY <3>1, EpochFacts
  <2> QED
    BY <2>3, <2>4 DEF BalanceOf
<1>3. CASE h # <<>>
  <2>1. h \in Seq(Point) /\ UserFits(p, locked[u]) /\ p.ts <= LastPoint.ts /\ \A i \in 1 .. Len(h) : h[i].ts <= p.ts
    BY <1>3 DEF UserRecorded, InOrder
  <2>2. Len(h) \in Nat /\ Len(h) >= 1 /\ \A i \in 1 .. Len(h) : h[i].ts \in Nat
    <3> HIDE DEF h
    <3>1. Len(h) \in Nat /\ DOMAIN h = 1 .. Len(h) /\ \A i \in 1 .. Len(h) : h[i] \in Point
      BY <2>1, LenProperties, ElementOfSeq
    <3>2. Len(h) # 0
      BY <1>3, <2>1, EmptySeq
    <3> QED
      BY <3>1, <3>2 DEF Point
  <2>3. p.bias \in Nat /\ p.slope \in Nat /\ p.ts \in Nat /\ p.ts <= t
    BY <2>1, LastPointFacts DEF UserFits, Point
  <2>4. EpochAt(h, t) = Len(h)
    <3> HIDE DEF h
    <3>1. \A i \in 1 .. Len(h) : h[i].ts <= t <=> i <= Len(h)
      BY <2>1, <2>2, <2>3
    <3>2. Len(h) \in 0 .. Len(h)
      BY <2>2
    <3> QED
      BY <2>1, <3>1, <3>2, EpochFacts
  <2>5. BalanceOf(u, t) = AtLeastZero(p.bias - p.slope * (t - p.ts))
    BY <2>2, <2>4 DEF BalanceOf, BalanceAtPoint
  <2>6. /\ p.bias = (IF end > p.ts THEN m * (end - p.ts) ELSE 0)
        /\ p.slope = (IF end > p.ts THEN m ELSE 0)
        /\ LeftOf(locked[u], t) = (IF end > t THEN m * (end - t) ELSE 0)
    BY <2>1 DEF UserFits, LeftOf, FallsAt
  <2> HIDE DEF h, p, end, m
  <2>7. CASE ~ (end > p.ts)
    BY <1>1, <2>3, <2>5, <2>6, <2>7 DEF AtLeastZero
  <2>8. CASE end > p.ts
    <3>1. p.bias - p.slope * (t - p.ts) = m * (end - t)
      BY <1>1, <2>3, <2>6, <2>8
    <3>2. CASE end > t
      <4>1. m * (end - t) \in Nat
        BY <1>1, <2>3, <3>2
      <4> QED
        BY <2>5, <2>6, <3>1, <3>2, <4>1 DEF AtLeastZero
    <3>3. CASE ~ (end > t)
      <4>1. t - end \in Nat /\ m * (end - t) = 0 - m * (t - end)
        BY <1>1, <2>3, <3>3
      <4>2. m * (t - end) \in Nat
        BY <1>1, <4>1
      <4> DEFINE x == m * (end - t)
      <4>3. x \in Int /\ x <= 0
        BY <4>1, <4>2
      <4> HIDE DEF x
      <4>4. AtLeastZero(x) = 0
        BY <4>3 DEF AtLeastZero
      <4> QED
        BY <2>5, <2>6, <3>1, <3>3, <4>4 DEF x
    <3> QED
      BY <3>2, <3>3
  <2> QED
    BY <2>7, <2>8
<1> QED
  BY <1>2, <1>3

\* The queries, of any history
SupplyFrom(h, c, t) == IF EpochAt(h, t) = 0 THEN 0 ELSE SupplyOf(h[EpochAt(h, t)], c, t)
BalanceFrom(h, t) == IF EpochAt(h, t) = 0 THEN 0 ELSE BalanceAtPoint(h[EpochAt(h, t)], t)

(* They are those of the histories there are.                              *)
LEMMA QueriesAre ==
  ASSUME NEW t, NEW u
  PROVE  /\ TotalSupply(t) = SupplyFrom(pointHistory, slopeChanges, t)
         /\ BalanceOf(u, t) = BalanceFrom(userHistory[u], t)
  BY SupplyIs DEF TotalSupply, SupplyFrom, BalanceOf, BalanceFrom

(* And of those there will be.                                             *)
LEMMA NextQueriesAre ==
  ASSUME NEW t, NEW u
  PROVE  /\ TotalSupply(t)' = SupplyFrom(pointHistory', slopeChanges', t)
         /\ BalanceOf(u, t)' = BalanceFrom(userHistory'[u], t)
<1>1. /\ TotalSupply(t) = SupplyFrom(pointHistory, slopeChanges, t)
      /\ BalanceOf(u, t) = BalanceFrom(userHistory[u], t)
  BY QueriesAre
<1>2. (TotalSupply(t) = SupplyFrom(pointHistory, slopeChanges, t)
      /\ BalanceOf(u, t) = BalanceFrom(userHistory[u], t))'
  BY <1>1, PTL
<1>3. /\ TotalSupply(t)' = SupplyFrom(pointHistory, slopeChanges, t)'
      /\ BalanceOf(u, t)' = BalanceFrom(userHistory[u], t)'
  BY <1>2
<1>4. SupplyFrom(pointHistory, slopeChanges, t)' = SupplyFrom(pointHistory', slopeChanges', t)
  OBVIOUS
<1>5. BalanceFrom(userHistory[u], t)' = BalanceFrom(userHistory'[u], t)
  OBVIOUS
<1> QED
  BY <1>3, <1>4, <1>5

\* Two histories are the same up to t: the n points of them by then
Same(h, k, n, t) ==
    /\ h \in Seq(Point) /\ k \in Seq(Point)
    /\ n \in 0 .. Len(h) /\ n \in 0 .. Len(k)
    /\ \A i \in 1 .. n : h[i] = k[i]
    /\ \A i \in 1 .. Len(h) : i > n => h[i].ts > t
    /\ \A i \in 1 .. Len(k) : i > n => k[i].ts > t

(* Such histories answer every query alike.                                *)
LEMMA SameAnswers ==
  ASSUME NEW h, NEW k, NEW n, NEW t \in Nat, Same(h, k, n, t), NEW c
  PROVE  BalanceFrom(h, t) = BalanceFrom(k, t) /\ SupplyFrom(h, c, t) = SupplyFrom(k, c, t)
<1> DEFINE S == {e \in 1 .. n : h[e].ts <= t}
<1>1. /\ Len(h) \in Nat /\ DOMAIN h = 1 .. Len(h) /\ Len(k) \in Nat /\ DOMAIN k = 1 .. Len(k)
      /\ n \in Nat /\ n <= Len(h) /\ n <= Len(k)
  BY LenProperties DEF Same
<1>2. /\ \A i \in 1 .. Len(h) : h[i].ts \in Nat
      /\ \A i \in 1 .. Len(k) : k[i].ts \in Nat
  <2>1. /\ \A i \in 1 .. Len(h) : h[i] \in Point
        /\ \A i \in 1 .. Len(k) : k[i] \in Point
    BY ElementOfSeq DEF Same
  <2> QED
    BY <2>1 DEF Point
<1>3. {e \in DOMAIN h : h[e].ts <= t} = S
  <2>1. \A e \in 1 .. Len(h) : h[e].ts <= t => e <= n
    BY <1>1, <1>2 DEF Same
  <2> QED
    BY <1>1, <2>1
<1>4. {e \in DOMAIN k : k[e].ts <= t} = S
  <2>1. \A e \in 1 .. Len(k) : k[e].ts <= t => e <= n
    BY <1>1, <1>2 DEF Same
  <2>2. \A e \in 1 .. n : h[e] = k[e]
    BY DEF Same
  <2> QED
    BY <1>1, <2>1, <2>2
<1>5. Cardinality(S) \in 0 .. n
  <2>1. IsFiniteSet(1 .. n) /\ Cardinality(1 .. n) = n
    BY <1>1, FS_Interval
  <2>2. S \subseteq 1 .. n
    OBVIOUS
  <2>3. IsFiniteSet(S) /\ Cardinality(S) <= n /\ Cardinality(S) \in Nat
    <3> HIDE DEF S
    <3> QED
      BY <2>1, <2>2, FS_Subset, FS_CardinalityType
  <2> HIDE DEF S
  <2> QED
    BY <1>1, <2>3
<1>6. EpochAt(h, t) = Cardinality(S) /\ EpochAt(k, t) = Cardinality(S)
  BY <1>3, <1>4 DEF EpochAt
<1> HIDE DEF S
<1> DEFINE e == Cardinality(S)
<1>7. e # 0 => h[e] = k[e]
  <2>1. e # 0 => e \in 1 .. n
    BY <1>1, <1>5
  <2> QED
    BY <2>1 DEF Same
<1> QED
  BY <1>6, <1>7 DEF BalanceFrom, SupplyFrom

(* Changes of slope after t make no difference to the supply at t.         *)
LEMMA SlopesBefore ==
  ASSUME NEW h, NEW c, NEW d, NEW t \in Nat, \A w \in Weeks : w < t => c[w] = d[w]
  PROVE  SupplyFrom(h, c, t) = SupplyFrom(h, d, t)
<1>1. ASSUME NEW s
      PROVE  EndedSum(c, s, t) = EndedSum(d, s, t)
  <2> DEFINE W == EndedWeeks(s, t)
             f == [w \in W |-> c[w] * (t - w)]
             g == [w \in W |-> d[w] * (t - w)]
  <2>1. EndedSum(c, s, t) = SumOf(f, W) /\ EndedSum(d, s, t) = SumOf(g, W)
    BY EndedSumOf
  <2>2. \A w \in W : c[w] = d[w]
    BY DEF EndedWeeks
  <2>3. f = g
    BY <2>2
  <2> QED
    BY <2>1, <2>3
<1> QED
  BY <1>1 DEF SupplyFrom, SupplyOf

---------------------------------------------------------------------------
(* A history that has been filled.                                         *)

(* It is the history and the points of the loop, the last for now.         *)
LEMMA FilledFacts ==
  ASSUME Clock, Recorded, FillsInTime
  PROVE  /\ FilledHistory \in Seq(Point) /\ LoopCount \in Nat /\ LoopCount >= 1 /\ Len(pointHistory) \in Nat
         /\ Len(FilledHistory) = Len(pointHistory) + LoopCount
         /\ \A i \in 1 .. Len(pointHistory) : FilledHistory[i] = pointHistory[i]
         /\ \A i \in 1 .. LoopCount : /\ FilledHistory[Len(pointHistory) + i].ts = LoopTime(i)
                                      /\ Fits(FilledHistory[Len(pointHistory) + i], locked)
<1> DEFINE h == pointHistory
           k == NewPoints
<1>1. /\ k \in Seq(Point) /\ Len(k) = LoopCount /\ LoopCount \in Nat /\ LoopCount >= 1
      /\ \A i \in 1 .. LoopCount : Fits(k[i], locked) /\ k[i].ts = LoopTime(i)
  BY NewPointsFit DEF Recorded
<1>2. h \in Seq(Point)
  BY DEF Recorded, InOrder
<1>3. FilledHistory = h \o k
  BY DEF FilledHistory
<1> HIDE DEF h, k
<1>4. /\ h \o k \in Seq(Point) /\ Len(h \o k) = Len(h) + Len(k) /\ Len(h) \in Nat
      /\ \A i \in 1 .. Len(h) + Len(k) : (h \o k)[i] = IF i <= Len(h) THEN h[i] ELSE k[i - Len(h)]
  BY <1>1, <1>2, ConcatProperties, LenProperties
<1>5. \A i \in 1 .. Len(h) : (h \o k)[i] = h[i]
  BY <1>1, <1>4
<1>6. \A i \in 1 .. LoopCount : (h \o k)[Len(h) + i] = k[i]
  <2> TAKE i \in 1 .. LoopCount
  <2>1. Len(h) + i \in 1 .. Len(h) + Len(k) /\ ~ (Len(h) + i <= Len(h)) /\ (Len(h) + i) - Len(h) = i
    BY <1>1, <1>4
  <2> QED
    BY <1>4, <2>1
<1> QED
  BY <1>1, <1>3, <1>4, <1>5, <1>6 DEF h

(* It ends now with what the locks come to.                                *)
LEMMA FilledInOrder ==
  ASSUME Clock, Recorded, FillsInTime
  PROVE  /\ FilledHistory \in Seq(Point) /\ Len(FilledHistory) \in Nat /\ Len(FilledHistory) >= 1
         /\ FilledHistory[Len(FilledHistory)].ts = now
         /\ Fits(FilledHistory[Len(FilledHistory)], locked)
         /\ \A i \in 1 .. Len(FilledHistory) : FilledHistory[i].ts <= now
<1> DEFINE h == pointHistory
           k == FilledHistory
           L == LoopCount
<1>1. /\ k \in Seq(Point) /\ L \in Nat /\ L >= 1 /\ Len(h) \in Nat
      /\ Len(k) = Len(h) + L
      /\ \A i \in 1 .. Len(h) : k[i] = h[i]
      /\ \A i \in 1 .. L : k[Len(h) + i].ts = LoopTime(i) /\ Fits(k[Len(h) + i], locked)
  BY FilledFacts
<1>2. /\ \A i \in 1 .. Len(h) : h[i].ts \in Nat /\ h[i].ts <= LastPoint.ts
      /\ LastPoint.ts \in Nat /\ LastPoint.ts <= now /\ now \in Nat
  <2>1. /\ LastPoint.ts \in Nat /\ LastPoint.ts <= now /\ now \in Nat
    BY LastPointFacts DEF Recorded, Clock
  <2>2. h = <<>> => Len(h) = 0
    OBVIOUS
  <2>3. h # <<>> => \A i \in 1 .. Len(h) : h[i] \in Point /\ h[i].ts <= LastPoint.ts
    BY LastPointFacts DEF Recorded, InOrder
  <2> QED
    BY <2>1, <2>2, <2>3 DEF Point
<1>3. LoopTime(L) = now /\ \A i \in 0 .. L : LoopTime(i) \in Nat /\ LoopTime(i) <= now
  BY <1>2, LoopTimes
<1> HIDE DEF h, k, L
<1>4. k[Len(k)].ts = now /\ Fits(k[Len(k)], locked)
  <2>1. L \in 1 .. L
    BY <1>1
  <2> QED
    BY <1>1, <1>3, <2>1
<1>5. ASSUME NEW i \in 1 .. Len(k)
      PROVE  k[i].ts <= now
  <2>1. CASE i <= Len(h)
    <3>1. i \in 1 .. Len(h)
      BY <1>1, <2>1
    <3> QED
      BY <1>1, <1>2, <3>1
  <2>2. CASE ~ (i <= Len(h))
    <3>1. i - Len(h) \in 1 .. L /\ i = Len(h) + (i - Len(h)) /\ i - Len(h) \in 0 .. L
      BY <1>1, <2>2
    <3>2. k[Len(h) + (i - Len(h))].ts = LoopTime(i - Len(h))
      BY <1>1, <3>1
    <3> QED
      BY <1>3, <3>1, <3>2
  <2> QED
    BY <2>1, <2>2
<1>6. Len(k) \in Nat /\ Len(k) >= 1
  BY <1>1
<1> QED
  BY <1>1, <1>4, <1>5, <1>6 DEF k

(* What has been a week's supply remains it.                               *)
LEMMA FilledSupply ==
  ASSUME Clock, Recorded, FillsInTime, NEW t \in Weeks, t < now
  PROVE  SupplyFrom(FilledHistory, slopeChanges, t) = TotalSupply(t)
<1> DEFINE h == pointHistory
           k == FilledHistory
           L == LoopCount
           s == LastPoint.ts
           r == FirstWeek
<1>1. /\ k \in Seq(Point) /\ L \in Nat /\ L >= 1 /\ Len(h) \in Nat
      /\ Len(k) = Len(h) + L
      /\ \A i \in 1 .. Len(h) : k[i] = h[i]
      /\ \A i \in 1 .. L : k[Len(h) + i].ts = LoopTime(i) /\ Fits(k[Len(h) + i], locked)
  BY FilledFacts
<1>2. /\ \A i \in 1 .. Len(h) : h[i].ts \in Nat /\ h[i].ts <= s
      /\ s \in Nat /\ s <= now /\ now \in Nat /\ t \in Nat
  <2>1. /\ LastPoint.ts \in Nat /\ LastPoint.ts <= now /\ now \in Nat
    BY LastPointFacts DEF Recorded, Clock
  <2>2. h = <<>> => Len(h) = 0
    OBVIOUS
  <2>3. h # <<>> => \A i \in 1 .. Len(h) : h[i] \in Point /\ h[i].ts <= LastPoint.ts
    BY LastPointFacts DEF Recorded, InOrder
  <2> QED
    BY <2>1, <2>2, <2>3, WeekFacts DEF Point
<1>3. /\ LoopTime(L) = now
      /\ \A i \in 0 .. L : LoopTime(i) \in Nat /\ LoopTime(i) <= now
      /\ \A i \in 1 .. L - 1 : LoopTime(i) = r + i * WEEK /\ LoopTime(i) < now
      /\ \A i \in 1 .. L : LoopTime(i) < now => s < LoopTime(i)
  BY <1>2, LoopTimes
<1>4. h \in Seq(Point) /\ TotalSupply(t) = SupplyFrom(h, slopeChanges, t)
  BY QueriesAre DEF Recorded, InOrder
<1>5. ASSUME NEW i \in 1 .. Len(k), i > Len(h)
      PROVE  i - Len(h) \in 1 .. L /\ k[i].ts = LoopTime(i - Len(h))
  <2>1. i - Len(h) \in 1 .. L /\ i = Len(h) + (i - Len(h))
    BY <1>1, <1>5
  <2>2. k[Len(h) + (i - Len(h))].ts = LoopTime(i - Len(h))
    BY <1>1, <2>1
  <2> QED
    BY <2>1, <2>2
<1>6. CASE t <= s
  <2>1. ASSUME NEW i \in 1 .. Len(k), i > Len(h)
        PROVE  k[i].ts > t
    <3> DEFINE x == LoopTime(i - Len(h))
    <3>1. k[i].ts = x /\ x \in Nat /\ x <= now /\ (x < now => s < x)
      BY <1>1, <1>3, <1>5, <2>1
    <3> HIDE DEF x
    <3> QED
      BY <1>2, <1>6, <3>1
  <2>2. \A i \in 1 .. Len(h) : ~ (i > Len(h))
    BY <1>1
  <2>3. Same(h, k, Len(h), t)
    <3> HIDE DEF h, k, L, s, r
    <3>1. Len(h) \in 0 .. Len(h) /\ Len(h) \in 0 .. Len(k)
      BY <1>1
    <3> QED
      BY <1>1, <1>4, <2>1, <2>2, <3>1 DEF Same
  <2>4. SupplyFrom(h, slopeChanges, t) = SupplyFrom(k, slopeChanges, t)
    <3> HIDE DEF h, k, L, s, r
    <3> QED
      BY <1>2, <2>3, SameAnswers
  <2> QED
    BY <1>4, <2>4
<1>7. CASE t > s
  <2>1. h # <<>>
    BY <1>2, <1>7, LastPointFacts
  <2>2. TotalSupply(t) = Left(locked, t)
    BY <1>2, <1>7, <2>1, SupplyNow
  <2>3. r \in Nat /\ r <= s /\ s < r + WEEK /\ r % WEEK = 0 /\ t % WEEK = 0 /\ WEEK \in Nat /\ WEEK > 0
    <3>1. r = RoundDown(s)
      BY DEF FirstWeek
    <3>2. t % WEEK = 0 /\ WEEK \in Nat /\ WEEK > 0
      BY WeekFacts, TimeAssumption
    <3> HIDE DEF r, s
    <3>3. r \in Nat /\ r <= s /\ s < r + WEEK /\ r % WEEK = 0
      BY <1>2, <3>1, RoundDownFacts
    <3> QED
      BY <3>2, <3>3
  <2>4. PICK m \in Int : t - r = m * WEEK
    BY <1>2, <2>3, WeeksApart
  <2> HIDE DEF s, r
  <2>5. m >= 1
    <3>1. m <= 0 => m * WEEK <= 0 * WEEK
      BY Multiples
    <3>2. m * WEEK > 0
      BY <1>2, <1>7, <2>3, <2>4
    <3> QED
      BY <2>3, <3>1, <3>2
  <2>6. m < L
    <3>1. r + L * WEEK >= now /\ L * WEEK \in Int
      BY <1>1, <1>2, LoopRange, Multiples DEF r, s
    <3>2. L <= m => L * WEEK <= m * WEEK
      BY <1>1, Multiples
    <3>3. m * WEEK \in Int
      BY Multiples
    <3> DEFINE a == L * WEEK
               b == m * WEEK
    <3>4. r + a >= now /\ a \in Int /\ b \in Int /\ (L <= m => a <= b) /\ t - r = b
      BY <2>4, <3>1, <3>2, <3>3
    <3> HIDE DEF a, b
    <3> QED
      BY <1>1, <1>2, <2>3, <3>4
  <2>7. m \in 1 .. L - 1 /\ m \in 1 .. L /\ LoopTime(m) = t
    <3>1. m \in 1 .. L - 1 /\ m \in 1 .. L
      BY <1>1, <2>5, <2>6
    <3>2. LoopTime(m) = r + m * WEEK
      BY <1>3, <3>1
    <3> QED
      BY <1>2, <2>3, <2>4, <3>1, <3>2
  <2>8. ASSUME NEW j \in 1 .. L
        PROVE  LoopTime(j) <= t <=> j <= m
    <3>1. CASE j = L
      BY <1>1, <1>2, <1>3, <2>6, <3>1
    <3>2. CASE j # L
      <4>1. j \in 1 .. L - 1 /\ j \in Int
        BY <1>1, <3>2
      <4>2. LoopTime(j) = r + j * WEEK /\ j * WEEK \in Int /\ m * WEEK \in Int
        BY <1>3, <4>1, Multiples
      <4>3. j <= m => j * WEEK <= m * WEEK
        BY <4>1, Multiples
      <4>4. m < j => m * WEEK + WEEK <= j * WEEK
        BY <4>1, Multiples
      <4> QED
        BY <1>2, <2>3, <2>4, <4>1, <4>2, <4>3, <4>4
    <3> QED
      BY <3>1, <3>2
  <2> DEFINE n == Len(h) + m
             p == k[n]
  <2>9. \A i \in 1 .. Len(k) : k[i].ts <= t <=> i <= n
    <3> TAKE i \in 1 .. Len(k)
    <3>1. CASE i <= Len(h)
      <4>1. i \in 1 .. Len(h)
        BY <1>1, <3>1
      <4>2. k[i].ts \in Nat /\ k[i].ts <= s
        BY <1>1, <1>2, <4>1
      <4> QED
        BY <1>1, <1>2, <1>7, <2>5, <3>1, <4>2
    <3>2. CASE i > Len(h)
      <4>1. i - Len(h) \in 1 .. L /\ k[i].ts = LoopTime(i - Len(h))
        BY <1>5, <3>2
      <4>2. LoopTime(i - Len(h)) <= t <=> i - Len(h) <= m
        BY <2>8, <4>1
      <4> QED
        BY <1>1, <4>1, <4>2
    <3> QED
      BY <1>1, <3>1, <3>2
  <2>10. n \in 0 .. Len(k) /\ n # 0
    BY <1>1, <2>5, <2>7
  <2>11. EpochAt(k, t) = n
    <3> HIDE DEF h, k, L, n
    <3> QED
      BY <1>1, <1>2, <2>9, <2>10, EpochFacts
  <2>12. p.ts = t /\ Fits(p, locked)
    BY <1>1, <2>7
  <2>13. SupplyFrom(k, slopeChanges, t) = SupplyOf(p, slopeChanges, t)
    BY <2>10, <2>11 DEF SupplyFrom
  <2>14. ChangesFit(slopeChanges, locked, p.ts)
    <3> DEFINE q == p.ts
    <3>1. q = t
      BY <2>12
    <3> HIDE DEF p, q
    <3>2. \A w \in Weeks : w > q => w > s
      BY <1>2, <1>7, <3>1, WeekFacts
    <3> QED
      BY <3>2 DEF ChangesFit, Recorded, s, q
  <2>15. SupplyOf(p, slopeChanges, t) = Left(locked, t)
    <3>1. p.ts <= t /\ t \in Nat /\ locked \in Locks
      BY <1>2, <2>12 DEF Recorded
    <3> HIDE DEF p
    <3> QED
      BY <2>12, <2>14, <3>1, SupplyAfter DEF SupplyOf
  <2> QED
    BY <2>2, <2>13, <2>15
<1> QED
  BY <1>2, <1>6, <1>7

---------------------------------------------------------------------------
(* A lock that changes.                                                    *)

LockType == [amount : Nat, end : Weeks]

(* The sums change by what one of their terms does.                        *)
LEMMA LeftChanges ==
  ASSUME NEW l \in Locks, NEW u \in Users, NEW new \in LockType, NEW t \in Nat
  PROVE  /\ [l EXCEPT ![u] = new] \in Locks
         /\ Left([l EXCEPT ![u] = new], t) = Left(l, t) + LeftOf(new, t) - LeftOf(l[u], t)
         /\ Falls([l EXCEPT ![u] = new], t) = Falls(l, t) + FallsAt(new, t) - FallsAt(l[u], t)
         /\ Ends([l EXCEPT ![u] = new], t) = Ends(l, t) + EndsAt(new, t) - EndsAt(l[u], t)
<1> DEFINE m == [l EXCEPT ![u] = new]
<1>1. IsFiniteSet(Users) /\ m \in Locks /\ m[u] = new /\ \A e \in Users : e # u => m[e] = l[e]
  BY TimeAssumption DEF Locks, LockType
<1>2. /\ \A e \in Users : LeftOf(l[e], t) \in Nat /\ FallsAt(l[e], t) \in Nat /\ EndsAt(l[e], t) \in Nat
      /\ LeftOf(new, t) \in Nat /\ FallsAt(new, t) \in Nat /\ EndsAt(new, t) \in Nat
  BY LockFacts DEF Locks, LockType
<1> HIDE DEF m
<1>3. Left(m, t) = Left(l, t) + LeftOf(new, t) - LeftOf(l[u], t)
  <2> DEFINE f == [e \in Users |-> LeftOf(l[e], t)]
             k == [e \in Users |-> LeftOf(m[e], t)]
             v == LeftOf(new, t) - LeftOf(l[u], t)
  <2>1. v \in Int /\ \A e \in Users : f[e] \in Int
    BY <1>2
  <2>2. \A e \in Users : k[e] = f[e] + (IF e = u THEN v ELSE 0)
    BY <1>1, <1>2
  <2>3. Left(m, t) = SumOf(k, Users) /\ Left(l, t) = SumOf(f, Users)
    BY DEF Left
  <2> HIDE DEF f, k, v
  <2>4. SumOf(k, Users) = SumOf(f, Users) + v
    BY <1>1, <2>1, <2>2, SumOfChange
  <2>5. SumOf(f, Users) \in Int
    BY <1>1, <2>1, SumOfInt
  <2> QED
    BY <1>2, <2>3, <2>4, <2>5 DEF v
<1>4. Falls(m, t) = Falls(l, t) + FallsAt(new, t) - FallsAt(l[u], t)
  <2> DEFINE f == [e \in Users |-> FallsAt(l[e], t)]
             k == [e \in Users |-> FallsAt(m[e], t)]
             v == FallsAt(new, t) - FallsAt(l[u], t)
  <2>1. v \in Int /\ \A e \in Users : f[e] \in Int
    BY <1>2
  <2>2. \A e \in Users : k[e] = f[e] + (IF e = u THEN v ELSE 0)
    BY <1>1, <1>2
  <2>3. Falls(m, t) = SumOf(k, Users) /\ Falls(l, t) = SumOf(f, Users)
    BY DEF Falls
  <2> HIDE DEF f, k, v
  <2>4. SumOf(k, Users) = SumOf(f, Users) + v
    BY <1>1, <2>1, <2>2, SumOfChange
  <2>5. SumOf(f, Users) \in Int
    BY <1>1, <2>1, SumOfInt
  <2> QED
    BY <1>2, <2>3, <2>4, <2>5 DEF v
<1>5. Ends(m, t) = Ends(l, t) + EndsAt(new, t) - EndsAt(l[u], t)
  <2> DEFINE f == [e \in Users |-> EndsAt(l[e], t)]
             k == [e \in Users |-> EndsAt(m[e], t)]
             v == EndsAt(new, t) - EndsAt(l[u], t)
  <2>1. v \in Int /\ \A e \in Users : f[e] \in Int
    BY <1>2
  <2>2. \A e \in Users : k[e] = f[e] + (IF e = u THEN v ELSE 0)
    BY <1>1, <1>2
  <2>3. Ends(m, t) = SumOf(k, Users) /\ Ends(l, t) = SumOf(f, Users)
    BY DEF Ends
  <2> HIDE DEF f, k, v
  <2>4. SumOf(k, Users) = SumOf(f, Users) + v
    BY <1>1, <2>1, <2>2, SumOfChange
  <2>5. SumOf(f, Users) \in Int
    BY <1>1, <2>1, SumOfInt
  <2> QED
    BY <1>2, <2>3, <2>4, <2>5 DEF v
<1> QED
  BY <1>1, <1>3, <1>4, <1>5 DEF m

(* The point of a lock is what is left of it now.                          *)
LEMMA PointOfFits ==
  ASSUME Clock, NEW lock \in LockType
  PROVE  UserFits(PointOf(lock), lock) /\ PointOf(lock).ts = now
<1>1. now \in Nat
  BY DEF Clock
<1>2. LeftOf(lock, now) \in Nat /\ FallsAt(lock, now) \in Nat
  BY <1>1, LockFacts DEF LockType
<1>3. PointOf(lock) = [bias |-> LeftOf(lock, now), slope |-> FallsAt(lock, now), ts |-> now]
  BY DEF PointOf, LeftOf, FallsAt, SlopeOf
<1> QED
  BY <1>1, <1>2, <1>3 DEF UserFits, Point

(* The last point of the history, of all locks, follows the lock.          *)
LEMMA ChangedPointFits ==
  ASSUME Clock, NEW l \in Locks, NEW u \in Users, NEW new \in LockType, NEW p, Fits(p, l), p.ts = now
  PROVE  Fits([bias  |-> AtLeastZero(p.bias + PointOf(new).bias - PointOf(l[u]).bias),
               slope |-> AtLeastZero(p.slope + PointOf(new).slope - PointOf(l[u]).slope),
               ts    |-> p.ts], [l EXCEPT ![u] = new])
<1> DEFINE m == [l EXCEPT ![u] = new]
           old == l[u]
<1>1. now \in Nat
  BY DEF Clock
<1>2. old \in LockType
  BY DEF Locks, LockType
<1>3. /\ PointOf(new).bias = LeftOf(new, now) /\ PointOf(new).slope = FallsAt(new, now)
      /\ PointOf(old).bias = LeftOf(old, now) /\ PointOf(old).slope = FallsAt(old, now)
  BY <1>2, PointOfFits DEF UserFits
<1>4. p.bias = Left(l, now) /\ p.slope = Falls(l, now)
  BY DEF Fits
<1>5. /\ m \in Locks
      /\ Left(m, now) = Left(l, now) + LeftOf(new, now) - LeftOf(old, now)
      /\ Falls(m, now) = Falls(l, now) + FallsAt(new, now) - FallsAt(old, now)
  BY <1>1, LeftChanges
<1>6. Left(m, now) \in Nat /\ Falls(m, now) \in Nat
  BY <1>1, <1>5, LeftFacts
<1> HIDE DEF m, old
<1>7. /\ AtLeastZero(p.bias + PointOf(new).bias - PointOf(old).bias) = Left(m, now)
      /\ AtLeastZero(p.slope + PointOf(new).slope - PointOf(old).slope) = Falls(m, now)
  BY <1>3, <1>4, <1>5, <1>6 DEF AtLeastZero
<1> QED
  BY <1>1, <1>6, <1>7 DEF Fits, Point, m, old

(* And the changes of slope do.                                            *)
LEMMA ChangedSlopesFit ==
  ASSUME Clock, slopeChanges \in [Weeks -> Int], NEW l \in Locks, NEW u \in Users, NEW new \in LockType,
         ChangesFit(slopeChanges, l, now)
  PROVE  /\ ChangedSlopes(l[u], new) \in [Weeks -> Int]
         /\ ChangesFit(ChangedSlopes(l[u], new), [l EXCEPT ![u] = new], now)
         /\ \A w \in Weeks : w < now => ChangedSlopes(l[u], new)[w] = slopeChanges[w]
<1> DEFINE m == [l EXCEPT ![u] = new]
           old == l[u]
           c == ChangedSlopes(old, new)
<1>1. now \in Nat /\ old \in LockType
  BY DEF Clock, Locks, LockType
<1>2. PointOf(new).slope = FallsAt(new, now) /\ PointOf(old).slope = FallsAt(old, now)
  BY <1>1, PointOfFits DEF UserFits
<1>3. FallsAt(new, now) \in Nat /\ FallsAt(old, now) \in Nat /\ new.end \in Nat /\ old.end \in Nat
  BY <1>1, LockFacts DEF LockType
<1>4. \A w \in Weeks : c[w] = slopeChanges[w]
                          + (IF w = old.end /\ old.end > now THEN FallsAt(old, now) ELSE 0)
                          - (IF w = new.end /\ new.end > now THEN FallsAt(new, now) ELSE 0)
  BY <1>2 DEF ChangedSlopes
<1>5. c = [w \in Weeks |-> c[w]]
  BY DEF ChangedSlopes
<1> HIDE DEF c, m, old
<1>6. \A w \in Weeks : slopeChanges[w] \in Int /\ w \in Nat
  BY WeekFacts
<1>7. \A w \in Weeks : c[w] \in Int
  BY <1>3, <1>4, <1>6
<1>8. \A w \in Weeks : w < now => c[w] = slopeChanges[w]
  BY <1>1, <1>3, <1>4, <1>6
<1>9. ASSUME NEW w \in Weeks, w > now
      PROVE  c[w] = 0 - Ends(m, w)
  <2>1. w \in Nat /\ slopeChanges[w] = 0 - Ends(l, w) /\ Ends(l, w) \in Nat
    BY <1>6, <1>9, LeftFacts DEF ChangesFit
  <2>2. Ends(m, w) = Ends(l, w) + EndsAt(new, w) - EndsAt(old, w)
    BY <2>1, LeftChanges DEF m, old
  <2>3. /\ EndsAt(new, w) = (IF w = new.end /\ new.end > now THEN FallsAt(new, now) ELSE 0)
        /\ EndsAt(old, w) = (IF w = old.end /\ old.end > now THEN FallsAt(old, now) ELSE 0)
    BY <1>1, <1>3, <1>9, <2>1 DEF EndsAt, FallsAt
  <2>4. EndsAt(new, w) \in Nat /\ EndsAt(old, w) \in Nat
    BY <1>3, <2>3
  <2>5. c[w] = slopeChanges[w] + EndsAt(old, w) - EndsAt(new, w)
    BY <1>4, <2>3
  <2> QED
    BY <2>1, <2>2, <2>4, <2>5
<1>10. ChangesFit(c, m, now)
  BY <1>9 DEF ChangesFit
<1>11. c \in [Weeks -> Int]
  BY <1>5, <1>7
<1> QED
  BY <1>8, <1>10, <1>11 DEF c, m, old

---------------------------------------------------------------------------
(* The steps of VotingEscrow.                                              *)

\* A history that ends now, with what the locks come to
EndsNow(h, l, c) ==
    /\ InOrder(h) /\ Len(h) >= 1
    /\ h[Len(h)].ts = now
    /\ l \in Locks /\ Fits(h[Len(h)], l)
    /\ c \in [Weeks -> Int] /\ ChangesFit(c, l, now)

(* The next history ends now.                                              *)
LEMMA ThenRecorded ==
  ASSUME Clock, UNCHANGED now, EndsNow(pointHistory', locked', slopeChanges')
  PROVE  Recorded' /\ Clock' /\ LastPoint'.ts = now /\ pointHistory' # <<>>
<1> DEFINE h == pointHistory'
<1>1. h # <<>>
  <2>1. h = <<>> => Len(h) = 0
    OBVIOUS
  <2> QED
    BY <2>1 DEF EndsNow
<1>2. LastPoint' = h[Len(h)]
  BY <1>1 DEF LastPoint
<1>3. DeployTime <= now /\ now <= now
  BY TimeAssumption DEF Clock
<1>4. Recorded'
  <2>1. locked' \in Locks /\ slopeChanges' \in [Weeks -> Int] /\ InOrder(pointHistory')
    BY DEF EndsNow
  <2>2. LastPoint'.ts = now
    BY <1>2 DEF EndsNow
  <2>3. Fits(LastPoint', locked') /\ ChangesFit(slopeChanges', locked', LastPoint'.ts)
    BY <1>2, <2>2 DEF EndsNow
  <2> QED
    BY <1>3, <2>1, <2>2, <2>3 DEF Recorded
<1> QED
  BY <1>1, <1>2, <1>4 DEF EndsNow, Clock

\* The weeks that have begun keep their supply and balances
PastStays ==
    \A t \in Weeks : t < now => /\ TotalSupply(t)' = TotalSupply(t)
                                /\ \A u \in Users : BalanceOf(u, t)' = BalanceOf(u, t)

\* In the order of time; and what comes of a history
Sorted(h) == \A i, j \in 1 .. Len(h) : i <= j => h[i].ts <= h[j].ts
Grown(h, k) ==
    \/ k = h
    \/ /\ Len(h) <= Len(k) /\ \A i \in 1 .. Len(h) : k[i] = h[i]
       /\ Sorted(h) => Sorted(k)

HistoriesGrow == \A u \in Users : Grown(userHistory[u], userHistory'[u])

(* And then still agree.                                                   *)
LEMMA ThenPastAgrees ==
  ASSUME PastAgrees, UNCHANGED now, PastStays
  PROVE  PastAgrees'
<1> SUFFICES ASSUME NEW t \in Weeks, t < now
             PROVE  Agrees(t)'
  BY DEF PastAgrees
<1>1. Agrees(t) /\ TotalSupply(t)' = TotalSupply(t) /\ \A u \in Users : BalanceOf(u, t)' = BalanceOf(u, t)
  BY DEF PastAgrees, PastStays
<1>2. Balances(t)' = Balances(t)
  BY <1>1 DEF Balances
<1> QED
  BY <1>1, <1>2 DEF Agrees

(* Filling the history keeps the invariant.                                *)
LEMMA FillKeeps ==
  ASSUME Escrow, FillsInTime, pointHistory' = FilledHistory, UNCHANGED <<now, locked, userHistory, slopeChanges>>
  PROVE  Escrow' /\ PastStays /\ HistoriesGrow
<1>1. Clock /\ Recorded /\ UsersRecorded /\ PastAgrees
  BY DEF Escrow
<1>2. /\ FilledHistory \in Seq(Point) /\ Len(FilledHistory) \in Nat /\ Len(FilledHistory) >= 1
      /\ FilledHistory[Len(FilledHistory)].ts = now
      /\ Fits(FilledHistory[Len(FilledHistory)], locked)
      /\ \A i \in 1 .. Len(FilledHistory) : FilledHistory[i].ts <= now
  BY <1>1, FilledInOrder
<1>3. LastPoint.ts \in Nat /\ now \in Nat /\ LastPoint.ts <= now
  BY <1>1, LastPointFacts DEF Recorded, Clock
<1>4. EndsNow(pointHistory', locked', slopeChanges')
  <2>1. ChangesFit(slopeChanges, locked, now)
    <3>1. \A w \in Weeks : w > now => w > LastPoint.ts
      BY <1>3, WeekFacts
    <3> QED
      BY <1>1, <3>1 DEF ChangesFit, Recorded
  <2>2. InOrder(FilledHistory)
    BY <1>2 DEF InOrder
  <2> QED
    BY <1>1, <1>2, <2>1, <2>2 DEF EndsNow, Recorded
<1>5. Recorded' /\ Clock' /\ LastPoint'.ts = now /\ pointHistory' # <<>>
  BY <1>1, <1>4, ThenRecorded
<1>6. PastStays
  <2> SUFFICES ASSUME NEW t \in Weeks, t < now
               PROVE  TotalSupply(t)' = TotalSupply(t) /\ \A u \in Users : BalanceOf(u, t)' = BalanceOf(u, t)
    BY DEF PastStays
  <2>1. TotalSupply(t)' = TotalSupply(t)
    BY <1>1, FilledSupply, NextQueriesAre
  <2>2. \A u \in Users : BalanceOf(u, t)' = BalanceOf(u, t)
    BY QueriesAre, NextQueriesAre
  <2> QED
    BY <2>1, <2>2
<1>7. UsersRecorded'
  <2>1. userHistory' = [u \in Users |-> userHistory'[u]]
    BY <1>1 DEF UsersRecorded
  <2>2. ASSUME NEW u \in Users
        PROVE  UserRecorded(u)'
    <3> DEFINE h == userHistory[u]
               p == h[Len(h)]
    <3>1. UserRecorded(u)
      BY <1>1 DEF UsersRecorded
    <3>2. h # <<>> => p.ts <= LastPoint'.ts
      <4>1. h # <<>> => p.ts <= LastPoint.ts /\ p \in Point
        BY <3>1 DEF UserRecorded, UserFits
      <4> QED
        BY <1>3, <1>5, <4>1 DEF Point
    <3> QED
      BY <1>5, <3>1, <3>2 DEF UserRecorded
  <2> QED
    BY <2>1, <2>2 DEF UsersRecorded
<1>8. PastAgrees'
  BY <1>1, <1>6, ThenPastAgrees
<1>9. HistoriesGrow
  BY DEF HistoriesGrow, Grown
<1> QED
  BY <1>5, <1>6, <1>7, <1>8, <1>9 DEF Escrow

(* A history that differs in its last point, of now, alone.                *)
LEMMA LastPointChanges ==
  ASSUME NEW h \in Seq(Point), Len(h) >= 1, NEW p \in Point, h[Len(h)].ts = p.ts, NEW n \in Nat, p.ts = n,
         \A i \in 1 .. Len(h) : h[i].ts <= n
  PROVE  /\ InOrder([h EXCEPT ![Len(h)] = p]) /\ Len([h EXCEPT ![Len(h)] = p]) = Len(h)
         /\ [h EXCEPT ![Len(h)] = p][Len(h)] = p
         /\ \A t \in Nat : t < n => Same([h EXCEPT ![Len(h)] = p], h, Len(h) - 1, t)
<1> DEFINE m == Len(h)
           k == [h EXCEPT ![m] = p]
<1>1. Len(h) \in Nat /\ DOMAIN h = 1 .. Len(h) /\ m \in 1 .. Len(h) /\ m = Len(h)
  BY LenProperties
<1>2. k \in Seq(Point) /\ Len(k) = Len(h) /\ k[Len(h)] = p /\ \A i \in 1 .. Len(h) : i # Len(h) => k[i] = h[i]
  <2> HIDE DEF m
  <2>1. /\ k \in Seq(Point) /\ Len(k) = Len(h)
        /\ \A i \in 1 .. Len(h) : k[i] = IF i = m THEN p ELSE h[i]
    BY <1>1, ExceptSeq
  <2> QED
    BY <1>1, <2>1
<1> HIDE DEF k
<1>3. \A i \in 1 .. Len(h) : k[i].ts <= n
  BY <1>2
<1>4. InOrder(k)
  BY <1>2, <1>3 DEF InOrder
<1>5. ASSUME NEW t \in Nat, t < n
      PROVE  Same(k, h, Len(h) - 1, t)
  <2>1. Len(h) - 1 \in 0 .. Len(h)
    BY <1>1
  <2>2. \A q \in Nat : /\ \A i \in 1 .. q - 1 : i \in 1 .. q /\ i # q
                      /\ \A i \in 1 .. q : i > q - 1 => i = q
    OBVIOUS
  <2>3. \A i \in 1 .. Len(h) - 1 : k[i] = h[i]
    <3>1. \A i \in 1 .. Len(h) - 1 : i \in 1 .. Len(h) /\ i # Len(h)
      BY <1>1, <2>2
    <3> QED
      BY <1>2, <3>1
  <2>4. \A i \in 1 .. Len(h) : i > Len(h) - 1 => i = Len(h)
    BY <1>1, <2>2
  <2>5. p.ts > t
    BY <1>5
  <2> QED
    BY <1>2, <2>1, <2>3, <2>4, <2>5 DEF Same
<1> QED
  BY <1>2, <1>4, <1>5 DEF k

(* A history that has a point of now appended.                             *)
LEMMA PointAppended ==
  ASSUME NEW h, InOrder(h), NEW p \in Point, NEW n \in Nat, p.ts = n, h # <<>> => h[Len(h)].ts <= n
  PROVE  /\ InOrder(Append(h, p)) /\ Append(h, p) # <<>> /\ Append(h, p)[Len(Append(h, p))] = p
         /\ \A t \in Nat : t < n => Same(h, Append(h, p), Len(h), t)
         /\ Grown(h, Append(h, p))
<1> DEFINE k == Append(h, p)
<1>1. h \in Seq(Point) /\ Len(h) \in Nat /\ \A i \in 1 .. Len(h) : h[i] \in Point /\ h[i].ts <= h[Len(h)].ts
  BY LenProperties, ElementOfSeq DEF InOrder
<1>2. /\ k \in Seq(Point) /\ Len(k) = Len(h) + 1 /\ k[Len(h) + 1] = p
      /\ \A i \in 1 .. Len(h) : k[i] = h[i]
  BY <1>1, AppendProperties
<1> HIDE DEF k
<1>3. \A i \in 1 .. Len(h) : h[i].ts \in Nat /\ h[i].ts <= n
  <2>1. h = <<>> => Len(h) = 0
    OBVIOUS
  <2>2. ASSUME NEW i \in 1 .. Len(h)
        PROVE  h[i].ts \in Nat /\ h[i].ts <= n
    <3>1. h # <<>> /\ Len(h) \in 1 .. Len(h)
      BY <1>1, <2>1
    <3>2. h[i].ts \in Nat /\ h[Len(h)].ts \in Nat
      BY <1>1, <3>1 DEF Point
    <3> QED
      BY <1>1, <3>1, <3>2
  <2> QED
    BY <2>2
<1>4. \A i \in 1 .. Len(k) : i \in 1 .. Len(h) \/ i = Len(h) + 1
  BY <1>1, <1>2
<1>5. InOrder(k)
  <2>1. \A i \in 1 .. Len(k) : k[i].ts <= n
    BY <1>2, <1>3, <1>4
  <2> QED
    BY <1>2, <2>1 DEF InOrder
<1>6. k # <<>>
  <2>1. k = <<>> => Len(k) = 0
    OBVIOUS
  <2> QED
    BY <1>1, <1>2, <2>1
<1>7. ASSUME NEW t \in Nat, t < n
      PROVE  Same(h, k, Len(h), t)
  <2>1. Len(h) \in 0 .. Len(h) /\ Len(h) \in 0 .. Len(k)
    BY <1>1, <1>2
  <2>2. \A i \in 1 .. Len(k) : i > Len(h) => k[i].ts > t
    BY <1>1, <1>2, <1>4, <1>7
  <2>3. \A i \in 1 .. Len(h) : ~ (i > Len(h))
    BY <1>1
  <2> QED
    BY <1>1, <1>2, <2>1, <2>2, <2>3 DEF Same
<1>8. Grown(h, k)
  <2>1. ASSUME Sorted(h)
        PROVE  Sorted(k)
    <3> SUFFICES ASSUME NEW i \in 1 .. Len(k), NEW j \in 1 .. Len(k), i <= j
                 PROVE  k[i].ts <= k[j].ts
      BY DEF Sorted
    <3>1. CASE j = Len(h) + 1
      <4>1. k[j].ts = n
        BY <1>2, <3>1
      <4>2. k[i].ts <= n
        BY <1>2, <1>3, <1>4
      <4> QED
        BY <4>1, <4>2
    <3>2. CASE j # Len(h) + 1
      <4>1. i \in 1 .. Len(h) /\ j \in 1 .. Len(h)
        BY <1>1, <1>2, <1>4, <3>2
      <4> QED
        BY <1>2, <2>1, <4>1 DEF Sorted
    <3> QED
      BY <3>1, <3>2
  <2>2. Len(h) <= Len(k)
    BY <1>1, <1>2
  <2> QED
    BY <1>2, <2>1, <2>2 DEF Grown
<1> QED
  BY <1>2, <1>5, <1>6, <1>7, <1>8 DEF k

(* _checkpoint of a user's lock keeps the invariant.                       *)
LEMMA LockKeeps ==
  ASSUME Escrow, FillsInTime, NEW u \in Users, NEW new \in LockType, new.amount = 0 => new = NoLock,
         locked' = [locked EXCEPT ![u] = new], CheckpointLock(u, locked[u], new), UNCHANGED now
  PROVE  Escrow' /\ PastStays /\ HistoriesGrow
<1> DEFINE old == locked[u]
           h == FilledHistory
           last == h[Len(h)]
           p == [bias  |-> AtLeastZero(last.bias + PointOf(new).bias - PointOf(old).bias),
                 slope |-> AtLeastZero(last.slope + PointOf(new).slope - PointOf(old).slope),
                 ts    |-> last.ts]
           k == [h EXCEPT ![Len(h)] = p]
           c == ChangedSlopes(old, new)
           m == [locked EXCEPT ![u] = new]
<1>1. Clock /\ Recorded /\ UsersRecorded /\ PastAgrees
  BY DEF Escrow
<1>2. pointHistory' = k /\ slopeChanges' = c /\ userHistory' = [userHistory EXCEPT ![u] = Append(@, PointOf(new))]
      /\ locked' = m
  BY DEF CheckpointLock
<1>3. /\ h \in Seq(Point) /\ Len(h) \in Nat /\ Len(h) >= 1 /\ last.ts = now
      /\ Fits(last, locked) /\ \A i \in 1 .. Len(h) : h[i].ts <= now
  BY <1>1, FilledInOrder
<1>4. LastPoint.ts \in Nat /\ now \in Nat /\ LastPoint.ts <= now /\ locked \in Locks /\ slopeChanges \in [Weeks -> Int]
  BY <1>1, LastPointFacts DEF Recorded, Clock
<1>5. ChangesFit(slopeChanges, locked, now)
  <2>1. \A w \in Weeks : w > now => w > LastPoint.ts
    BY <1>4, WeekFacts
  <2> QED
    BY <1>1, <2>1 DEF ChangesFit, Recorded
<1>6. m \in Locks
  BY <1>4, LeftChanges
<1>7. Fits(p, m) /\ p.ts = now /\ p \in Point
  <2>1. Fits(p, m)
    <3> HIDE DEF last, h
    <3> QED
      BY <1>1, <1>3, <1>4, ChangedPointFits
  <2>2. p.ts = now
    BY <1>3
  <2> HIDE DEF p
  <2> QED
    BY <2>1, <2>2 DEF Fits
<1>8. c \in [Weeks -> Int] /\ ChangesFit(c, m, now) /\ \A w \in Weeks : w < now => c[w] = slopeChanges[w]
  BY <1>1, <1>4, <1>5, ChangedSlopesFit
<1> HIDE DEF c, m, old, p, h
<1>9. /\ InOrder(k) /\ Len(k) = Len(h) /\ k[Len(h)] = p
      /\ \A t \in Nat : t < now => Same(k, h, Len(h) - 1, t)
  BY <1>3, <1>4, <1>7, LastPointChanges
<1>10. EndsNow(pointHistory', locked', slopeChanges')
  <2> HIDE DEF k
  <2> QED
    BY <1>2, <1>3, <1>6, <1>7, <1>8, <1>9 DEF EndsNow
<1>11. Recorded' /\ Clock' /\ LastPoint'.ts = now /\ pointHistory' # <<>>
  BY <1>1, <1>10, ThenRecorded
<1>12. UserFits(PointOf(new), new) /\ PointOf(new).ts = now /\ PointOf(new) \in Point
  BY <1>1, PointOfFits DEF UserFits
<1>13. userHistory'[u] = Append(userHistory[u], PointOf(new)) /\ \A v \in Users : v # u => userHistory'[v] = userHistory[v]
  BY <1>1, <1>2 DEF UsersRecorded
<1>14. /\ InOrder(userHistory'[u]) /\ userHistory'[u] # <<>>
       /\ userHistory'[u][Len(userHistory'[u])] = PointOf(new)
       /\ \A t \in Nat : t < now => Same(userHistory[u], userHistory'[u], Len(userHistory[u]), t)
       /\ Grown(userHistory[u], userHistory'[u])
  <2> DEFINE g == userHistory[u]
             q == g[Len(g)]
  <2>1. InOrder(g)
    BY <1>1 DEF UsersRecorded, UserRecorded
  <2>2. g # <<>> => q.ts <= now
    <3>1. g # <<>> => q.ts <= LastPoint.ts /\ q \in Point
      BY <1>1 DEF UsersRecorded, UserRecorded, UserFits
    <3> QED
      BY <1>4, <3>1 DEF Point
  <2> HIDE DEF g
  <2>3. /\ InOrder(Append(g, PointOf(new))) /\ Append(g, PointOf(new)) # <<>>
        /\ Append(g, PointOf(new))[Len(Append(g, PointOf(new)))] = PointOf(new)
        /\ \A t \in Nat : t < now => Same(g, Append(g, PointOf(new)), Len(g), t)
        /\ Grown(g, Append(g, PointOf(new)))
    BY <1>4, <1>12, <2>1, <2>2, PointAppended
  <2> QED
    BY <1>13, <2>3 DEF g
<1>15. UsersRecorded'
  <2>1. userHistory' = [v \in Users |-> userHistory'[v]]
    BY <1>1, <1>2 DEF UsersRecorded
  <2>2. UserRecorded(u)'
    <3>1. locked'[u] = new
      BY <1>2, <1>4 DEF m, Locks
    <3>2. now <= now
      BY <1>4
    <3> QED
      BY <1>11, <1>12, <1>14, <3>1, <3>2 DEF UserRecorded
  <2>3. ASSUME NEW v \in Users, v # u
        PROVE  UserRecorded(v)'
    <3> DEFINE g == userHistory[v]
               q == g[Len(g)]
    <3>1. UserRecorded(v) /\ userHistory'[v] = g /\ locked'[v] = locked[v]
      BY <1>1, <1>2, <1>4, <1>13, <2>3 DEF UsersRecorded, m, Locks
    <3>2. g # <<>> => q.ts <= LastPoint'.ts
      <4>1. g # <<>> => q.ts <= LastPoint.ts /\ q \in Point
        BY <3>1 DEF UserRecorded, UserFits
      <4> QED
        BY <1>4, <1>11, <4>1 DEF Point
    <3> QED
      BY <1>11, <3>1, <3>2 DEF UserRecorded
  <2>4. \A v \in Users : UserRecorded(v)'
    BY <2>2, <2>3
  <2> QED
    BY <2>1, <2>4 DEF UsersRecorded
<1>16. PastStays
  <2> SUFFICES ASSUME NEW t \in Weeks, t < now
               PROVE  TotalSupply(t)' = TotalSupply(t) /\ \A v \in Users : BalanceOf(v, t)' = BalanceOf(v, t)
    BY DEF PastStays
  <2>1. t \in Nat
    BY WeekFacts
  <2>2. SupplyFrom(k, c, t) = SupplyFrom(h, c, t)
    <3>1. Same(k, h, Len(h) - 1, t)
      BY <1>9, <2>1
    <3> HIDE DEF k
    <3> QED
      BY <2>1, <3>1, SameAnswers
  <2>3. SupplyFrom(h, c, t) = SupplyFrom(h, slopeChanges, t)
    <3>1. \A w \in Weeks : w < t => w < now
      BY <1>4, <2>1, WeekFacts
    <3>2. \A w \in Weeks : w < t => c[w] = slopeChanges[w]
      BY <1>8, <3>1
    <3> QED
      BY <2>1, <3>2, SlopesBefore
  <2>4. SupplyFrom(h, slopeChanges, t) = TotalSupply(t)
    BY <1>1, FilledSupply DEF h
  <2>5. TotalSupply(t)' = TotalSupply(t)
    BY <1>2, <2>2, <2>3, <2>4, NextQueriesAre
  <2>6. ASSUME NEW v \in Users
        PROVE  BalanceOf(v, t)' = BalanceOf(v, t)
    <3>1. BalanceOf(v, t)' = BalanceFrom(userHistory'[v], t) /\ BalanceOf(v, t) = BalanceFrom(userHistory[v], t)
      BY QueriesAre, NextQueriesAre
    <3>2. CASE v = u
      <4> DEFINE g == userHistory[u]
                 f == userHistory'[u]
      <4>1. Same(g, f, Len(g), t)
        BY <1>14, <2>1
      <4> HIDE DEF g, f
      <4>2. BalanceFrom(g, t) = BalanceFrom(f, t)
        BY <2>1, <4>1, SameAnswers
      <4> QED
        BY <3>1, <3>2, <4>2 DEF g, f
    <3>3. CASE v # u
      BY <1>13, <3>1, <3>3
    <3> QED
      BY <3>2, <3>3
  <2> QED
    BY <2>5, <2>6
<1>17. PastAgrees'
  BY <1>1, <1>16, ThenPastAgrees
<1>18. HistoriesGrow
  BY <1>13, <1>14 DEF HistoriesGrow, Grown
<1> QED
  BY <1>11, <1>15, <1>16, <1>17, <1>18 DEF Escrow

(* Deposit is such a checkpoint.                                           *)
LEMMA DepositKeeps ==
  ASSUME Escrow, FillsInTime, NEW u \in Users, NEW value \in Nat, NEW unlockTime \in Weeks, Deposit(u, value, unlockTime),
         value > 0 \/ locked[u].amount > 0
  PROVE  Escrow' /\ PastStays /\ HistoriesGrow
<1> DEFINE old == locked[u]
           new == Lock(old.amount + value, IF unlockTime # 0 THEN unlockTime ELSE old.end)
<1>1. old.amount \in Nat /\ old.end \in Weeks
  BY LockFacts DEF Escrow, Recorded, Locks
<1>2. /\ locked' = [locked EXCEPT ![u] = new] /\ CheckpointLock(u, old, new) /\ UNCHANGED now
  BY DEF Deposit
<1>3. new \in LockType /\ new.amount # 0
  BY <1>1 DEF LockType, Lock
<1> HIDE DEF new
<1> QED
  BY <1>2, <1>3, LockKeeps

(* The weeks of unlocking are weeks of the run.                            *)
LEMMA UnlockWeeks ==
  ASSUME Clock, NEW t \in UnlockTimes, RoundDown(t) <= now + MAXTIME
  PROVE  RoundDown(t) \in Weeks
<1>1. t \in Nat /\ now \in Nat /\ now <= MaxTime /\ MAXTIME \in Nat /\ MaxTime \in Nat
  BY TimeAssumption DEF Clock
<1>2. RoundDown(t) \in Nat /\ RoundDown(t) % WEEK = 0
  BY <1>1, RoundDownFacts
<1>3. RoundDown(t) <= MaxTime + MAXTIME
  BY <1>1, <1>2
<1> QED
  BY <1>2, <1>3, WeekFacts

(* Locks that were never made are worth nothing.                           *)
LEMMA NoLocksLeft ==
  ASSUME NEW l, \A u \in Users : l[u] = NoLock, NEW t \in Nat
  PROVE  Left(l, t) = 0 /\ Falls(l, t) = 0 /\ (t > 0 => Ends(l, t) = 0)
<1> DEFINE a == [u \in Users |-> LeftOf(l[u], t)]
           b == [u \in Users |-> FallsAt(l[u], t)]
           d == [u \in Users |-> EndsAt(l[u], t)]
<1>1. IsFiniteSet(Users) /\ NoLock.end = 0
  BY TimeAssumption DEF NoLock, Lock
<1>2. \A u \in Users : a[u] = 0 /\ b[u] = 0 /\ (t > 0 => d[u] = 0)
  BY <1>1 DEF LeftOf, FallsAt, EndsAt
<1>3. Left(l, t) = SumOf(a, Users) /\ Falls(l, t) = SumOf(b, Users) /\ Ends(l, t) = SumOf(d, Users)
  BY DEF Left, Falls, Ends
<1> HIDE DEF a, b, d
<1>4. SumOf(a, Users) = 0 /\ SumOf(b, Users) = 0
  BY <1>1, <1>2, SumOfZeros
<1>5. t > 0 => SumOf(d, Users) = 0
  BY <1>1, <1>2, SumOfZeros
<1> QED
  BY <1>3, <1>4, <1>5

(* From the last point on supply and balances agree.                       *)
LEMMA AgreeNow ==
  ASSUME Escrow, NEW t \in Nat, LastPoint.ts <= t
  PROVE  Agrees(t)
<1>1. Clock /\ Recorded /\ UsersRecorded
  BY DEF Escrow
<1>2. \A u \in Users : BalanceOf(u, t) = LeftOf(locked[u], t)
  BY <1>1, BalanceNow DEF UsersRecorded
<1>3. SumOf(Balances(t), Users) = Left(locked, t)
  BY <1>2 DEF Balances, Left
<1>4. CASE pointHistory # <<>>
  BY <1>1, <1>3, <1>4, SupplyNow DEF Agrees
<1>5. CASE pointHistory = <<>>
  <2>1. \A u \in Users : locked[u] = NoLock
    BY <1>1, <1>5 DEF UsersRecorded, UserRecorded
  <2>2. Left(locked, t) = 0
    BY <2>1, NoLocksLeft
  <2>3. TotalSupply(t) = 0
    <3>1. pointHistory \in Seq(Point) /\ Len(pointHistory) = 0
      BY <1>1, <1>5 DEF Recorded, InOrder
    <3>2. EpochAt(pointHistory, t) \in 0 .. Len(pointHistory)
      BY <3>1, EpochFacts
    <3>3. EpochAt(pointHistory, t) = 0
      BY <3>1, <3>2
    <3> QED
      BY <3>3, SupplyIs DEF TotalSupply
  <2> QED
    BY <1>3, <2>2, <2>3 DEF Agrees
<1> QED
  BY <1>4, <1>5

(* When time passes a week that began becomes a past one.                  *)
LEMMA TickKeeps ==
  ASSUME Escrow, EscrowTick
  PROVE  Escrow' /\ PastStays /\ HistoriesGrow
<1>1. Clock /\ Recorded /\ UsersRecorded /\ PastAgrees
  BY DEF Escrow
<1>2. now \in Nat /\ now' = now + 1 /\ now < MaxTime /\ MaxTime \in Nat /\ DeployTime \in Nat /\ DeployTime <= now
  BY <1>1, TimeAssumption DEF EscrowTick, Clock
<1>3. Clock'
  BY <1>2 DEF Clock
<1>4. UNCHANGED <<locked, pointHistory, userHistory, slopeChanges>>
  BY DEF EscrowTick
<1>5. ASSUME NEW t
      PROVE  TotalSupply(t)' = TotalSupply(t) /\ \A u \in Users : BalanceOf(u, t)' = BalanceOf(u, t)
  BY <1>4, QueriesAre, NextQueriesAre
<1>6. PastStays
  BY <1>5 DEF PastStays
<1>7. ASSUME pointHistory # <<>>
      PROVE  Recorded' /\ UsersRecorded'
  <2>1. LastPoint' = LastPoint /\ LastPoint.ts \in Nat
    BY <1>1, <1>4, <1>7, LastPointFacts DEF LastPoint
  <2>2. Recorded'
    <3>1. LastPoint.ts <= now'
      BY <1>1, <1>2, <2>1 DEF Recorded
    <3> QED
      BY <1>1, <1>4, <2>1, <3>1 DEF Recorded
  <2>3. UsersRecorded'
    BY <1>1, <1>4, <2>1 DEF UsersRecorded, UserRecorded
  <2> QED
    BY <2>2, <2>3
<1>8. ASSUME pointHistory = <<>>
      PROVE  Recorded' /\ UsersRecorded'
  <2>1. \A u \in Users : locked[u] = NoLock
    BY <1>1, <1>8 DEF UsersRecorded, UserRecorded
  <2>2. LastPoint' = [bias |-> 0, slope |-> 0, ts |-> now'] /\ LastPoint = [bias |-> 0, slope |-> 0, ts |-> now]
    BY <1>4, <1>8 DEF LastPoint
  <2>3. now' \in Nat /\ DeployTime <= now'
    BY <1>2
  <2>4. Left(locked, now') = 0 /\ Falls(locked, now') = 0
    <3> DEFINE n == now + 1
    <3>1. n \in Nat
      BY <1>2
    <3> HIDE DEF n
    <3>2. Left(locked, n) = 0 /\ Falls(locked, n) = 0
      BY <2>1, <3>1, NoLocksLeft
    <3> QED
      BY <1>2, <3>2 DEF n
  <2>5. Fits(LastPoint', locked')
    BY <1>4, <2>2, <2>3, <2>4 DEF Fits, Point
  <2>6. ChangesFit(slopeChanges', locked', LastPoint'.ts)
    <3>1. \A w \in Weeks : w > now' => w > LastPoint.ts
      BY <1>2, <2>2, WeekFacts
    <3> QED
      BY <1>1, <1>4, <2>2, <3>1 DEF ChangesFit, Recorded
  <2>7. Recorded'
    BY <1>1, <1>4, <2>2, <2>3, <2>5, <2>6 DEF Recorded
  <2>8. UsersRecorded'
    <3>1. ASSUME NEW u \in Users
          PROVE  UserRecorded(u)'
      <4>1. UserRecorded(u) /\ userHistory[u] = <<>>
        BY <1>1, <1>8 DEF UsersRecorded, UserRecorded
      <4> QED
        BY <1>4, <4>1 DEF UserRecorded
    <3> QED
      BY <1>1, <1>4, <3>1 DEF UsersRecorded
  <2> QED
    BY <2>7, <2>8
<1>9. PastAgrees'
  <2> SUFFICES ASSUME NEW t \in Weeks, t < now'
               PROVE  Agrees(t)'
    BY DEF PastAgrees
  <2>1. t \in Nat /\ (t < now \/ t = now)
    BY <1>2, WeekFacts
  <2>2. Agrees(t)
    <3>1. t = now => LastPoint.ts <= t
      BY <1>1 DEF Recorded
    <3> QED
      BY <1>1, <2>1, <3>1, AgreeNow DEF PastAgrees
  <2>3. Balances(t)' = Balances(t) /\ TotalSupply(t)' = TotalSupply(t)
    BY <1>5 DEF Balances
  <2> QED
    BY <2>2, <2>3 DEF Agrees
<1>10. HistoriesGrow
  BY <1>4 DEF HistoriesGrow, Grown
<1> QED
  BY <1>3, <1>6, <1>7, <1>8, <1>9, <1>10 DEF Escrow

(* Steps that leave VotingEscrow alone.                                    *)
LEMMA StillKeeps ==
  ASSUME Escrow, UNCHANGED escrowVars
  PROVE  Escrow' /\ PastStays /\ HistoriesGrow
<1>1. UNCHANGED now /\ UNCHANGED locked /\ UNCHANGED pointHistory /\ UNCHANGED userHistory /\ UNCHANGED slopeChanges
  BY DEF escrowVars
<1>2. Clock' /\ Recorded' /\ UsersRecorded'
  BY <1>1 DEF Escrow, Clock, Recorded, LastPoint, UsersRecorded, UserRecorded
<1>3. PastStays
  BY <1>1, QueriesAre, NextQueriesAre DEF PastStays
<1>4. PastAgrees'
  BY <1>1, <1>3, ThenPastAgrees DEF Escrow
<1>5. HistoriesGrow
  BY <1>1 DEF HistoriesGrow, Grown
<1> QED
  BY <1>2, <1>3, <1>4, <1>5 DEF Escrow

(* Every step of VotingEscrow keeps its invariant and the past.            *)
LEMMA EscrowStep ==
  ASSUME Escrow, FillsInTime, EscrowNext
  PROVE  Escrow' /\ PastStays /\ HistoriesGrow
<1>1. LockAmounts \subseteq Nat /\ UnlockTimes \subseteq Nat /\ 0 \in Weeks
  <2>1. 0 \in Nat /\ 0 % WEEK = 0 /\ 0 <= MaxTime + MAXTIME
    BY TimeAssumption
  <2> QED
    BY <2>1, TimeAssumption, WeekFacts
<1>2. ASSUME NEW u \in Users, NEW value \in LockAmounts, NEW t \in UnlockTimes, CreateLock(u, value, t)
      PROVE  Escrow' /\ PastStays /\ HistoriesGrow
  <2>1. value \in Nat /\ value > 0 /\ Deposit(u, value, RoundDown(t))
    BY <1>1, <1>2 DEF CreateLock
  <2>2. RoundDown(t) \in Weeks
    BY <1>2, UnlockWeeks DEF CreateLock, Escrow
  <2> QED
    BY <2>1, <2>2, DepositKeeps
<1>3. ASSUME NEW u \in Users, NEW value \in LockAmounts, DepositFor(u, value)
      PROVE  Escrow' /\ PastStays /\ HistoriesGrow
  <2>1. value \in Nat /\ value > 0 /\ Deposit(u, value, 0)
    BY <1>1, <1>3 DEF DepositFor
  <2> QED
    BY <1>1, <2>1, DepositKeeps
<1>4. ASSUME NEW u \in Users, NEW t \in UnlockTimes, IncreaseUnlockTime(u, t)
      PROVE  Escrow' /\ PastStays /\ HistoriesGrow
  <2>1. locked[u].amount > 0 /\ Deposit(u, 0, RoundDown(t))
    BY <1>4 DEF IncreaseUnlockTime
  <2>2. RoundDown(t) \in Weeks
    BY <1>4, UnlockWeeks DEF IncreaseUnlockTime, Escrow
  <2> QED
    BY <2>1, <2>2, DepositKeeps
<1>5. ASSUME NEW u \in Users, Withdraw(u)
      PROVE  Escrow' /\ PastStays /\ HistoriesGrow
  <2>1. NoLock \in LockType
    BY <1>1 DEF NoLock, Lock, LockType
  <2>2. locked' = [locked EXCEPT ![u] = NoLock] /\ CheckpointLock(u, locked[u], NoLock) /\ UNCHANGED now
    BY <1>5 DEF Withdraw
  <2> QED
    BY <2>1, <2>2, LockKeeps
<1>6. ASSUME Checkpoint
      PROVE  Escrow' /\ PastStays /\ HistoriesGrow
  BY <1>6, FillKeeps DEF Checkpoint
<1>7. ASSUME EscrowTick
      PROVE  Escrow' /\ PastStays /\ HistoriesGrow
  BY <1>7, TickKeeps
<1> QED
  BY <1>2, <1>3, <1>4, <1>5, <1>6, <1>7 DEF EscrowNext

(* Nothing is locked or recorded at first.                                 *)
LEMMA EscrowStarts ==
  ASSUME EscrowInit
  PROVE  Escrow
<1>1. DeployTime \in Nat /\ DeployTime > 0 /\ MaxTime \in Nat /\ DeployTime <= MaxTime /\ now = DeployTime
  BY TimeAssumption DEF EscrowInit
<1>2. Clock
  BY <1>1 DEF Clock
<1>3. \A u \in Users : locked[u] = NoLock /\ userHistory[u] = <<>>
  BY DEF EscrowInit
<1>4. locked \in Locks
  <2>1. 0 \in Nat /\ 0 % WEEK = 0 /\ 0 <= MaxTime + MAXTIME
    BY TimeAssumption
  <2>2. 0 \in Weeks
    BY <2>1, WeekFacts
  <2> QED
    BY <2>2 DEF EscrowInit, Locks, NoLock, Lock
<1>5. slopeChanges \in [Weeks -> Int] /\ \A w \in Weeks : slopeChanges[w] = 0
  BY DEF EscrowInit
<1>6. LastPoint = [bias |-> 0, slope |-> 0, ts |-> now] /\ pointHistory = <<>>
  BY DEF EscrowInit, LastPoint
<1>7. InOrder(<<>>)
  <2>1. <<>> \in Seq(Point) /\ Len(<<>>) = 0
    BY EmptySeq
  <2> QED
    BY <2>1 DEF InOrder
<1>8. Recorded
  <2>1. now \in Nat /\ Left(locked, now) = 0 /\ Falls(locked, now) = 0
    BY <1>1, <1>3, NoLocksLeft
  <2>2. Fits(LastPoint, locked)
    BY <1>6, <2>1 DEF Fits, Point
  <2>3. ASSUME NEW w \in Weeks, w > LastPoint.ts
        PROVE  slopeChanges[w] = 0 - Ends(locked, w)
    <3>1. w \in Nat /\ w > 0
      BY <1>1, <1>6, <2>3, WeekFacts
    <3>2. Ends(locked, w) = 0
      BY <1>3, <3>1, NoLocksLeft
    <3> QED
      BY <1>5, <3>2
  <2>4. ChangesFit(slopeChanges, locked, LastPoint.ts)
    BY <2>3 DEF ChangesFit
  <2>5. DeployTime <= LastPoint.ts /\ LastPoint.ts <= now
    BY <1>1, <1>6
  <2> QED
    BY <1>4, <1>5, <1>6, <1>7, <2>2, <2>4, <2>5 DEF Recorded
<1>9. UsersRecorded
  <2>1. \A u \in Users : UserRecorded(u)
    BY <1>3, <1>7 DEF UserRecorded
  <2> QED
    BY <2>1 DEF UsersRecorded, EscrowInit
<1>10. PastAgrees
  <2> SUFFICES ASSUME NEW t \in Weeks, t < now
               PROVE  Agrees(t)
    BY DEF PastAgrees
  <2> DEFINE b == Balances(t)
             h == pointHistory
  <2>1. t \in Nat /\ <<>> \in Seq(Point) /\ Len(<<>>) = 0
    BY WeekFacts, EmptySeq
  <2>2. EpochAt(<<>>, t) = 0
    <3>1. EpochAt(<<>>, t) \in 0 .. Len(<<>>)
      BY <2>1, EpochFacts
    <3> QED
      BY <2>1, <3>1
  <2>3. \A u \in Users : b[u] = 0
    BY <1>3, <2>2 DEF Balances, BalanceOf
  <2>4. TotalSupply(t) = 0
    BY <1>6, <2>2, SupplyIs DEF TotalSupply
  <2> HIDE DEF b
  <2>5. SumOf(b, Users) = 0
    BY <2>3, TimeAssumption, SumOfZeros
  <2> QED
    BY <2>4, <2>5 DEF Agrees, b
<1> QED
  BY <1>2, <1>8, <1>9, <1>10 DEF Escrow

---------------------------------------------------------------------------
(* The results for VotingEscrow.                                           *)

(* The sum of the balances adds up a function.                             *)
LEMMA BalancesSum ==
  ASSUME NEW t
  PROVE  MapThenSumSet(LAMBDA u : BalanceOf(u, t), Users) = SumOf(Balances(t), Users)
<1> DEFINE f == Balances(t)
           E(h) == h = [r \in SUBSET Users |-> IF r = {} THEN 0
                          ELSE BalanceOf(Picked(r), t) + h[r \ {Picked(r)}]]
<1>1. MapThenSumSet(LAMBDA u : BalanceOf(u, t), Users) = (CHOOSE h : E(h))[Users]
  BY DEF MapThenSumSet, MapThenFoldSet, Picked
<1>2. \A r \in SUBSET Users : r # {} => f[Picked(r)] = BalanceOf(Picked(r), t)
  BY PickedIsElement DEF Balances
<1> HIDE DEF f
<1>3. \A h : E(h) <=> IsSum(h, f, Users)
  BY <1>2 DEF IsSum
<1> HIDE DEF E
<1>4. PICK k : IsSum(k, f, Users) /\ SumOf(f, Users) = k[Users]
  BY TimeAssumption, SumIs
<1>5. (CHOOSE h : E(h))[Users] = k[Users]
  <2> DEFINE x == CHOOSE h : E(h)
  <2>1. IsSum(x, f, Users)
    BY <1>3, <1>4
  <2> HIDE DEF x
  <2>2. x[Users] = k[Users]
    BY <1>4, <2>1, TimeAssumption, SumUnique
  <2> QED
    BY <2>2 DEF x
<1> QED
  BY <1>1, <1>4, <1>5 DEF f

(* The invariant implies the property.                                     *)
LEMMA EscrowAgrees ==
  ASSUME Escrow
  PROVE  SupplyIsSumOfBalances
<1> SUFFICES ASSUME NEW t \in Weeks \cup {now}
             PROVE  TotalSupply(t) = MapThenSumSet(LAMBDA u : BalanceOf(u, t), Users)
  BY DEF SupplyIsSumOfBalances
<1>1. t \in Nat /\ now \in Nat /\ LastPoint.ts \in Nat /\ LastPoint.ts <= now
  BY WeekFacts, LastPointFacts DEF Escrow, Clock, Recorded
<1>2. Agrees(t)
  <2>1. CASE t < now
    <3>1. t \in Weeks
      BY <1>1, <2>1
    <3> QED
      BY <2>1, <3>1 DEF Escrow, PastAgrees
  <2>2. CASE ~ (t < now)
    <3>1. LastPoint.ts <= t
      BY <1>1, <2>2
    <3> QED
      BY <1>1, <3>1, AgreeNow
  <2> QED
    BY <2>1, <2>2
<1> QED
  BY <1>2, BalancesSum DEF Agrees

\* The whole run is within the weeks of one loop
RunsInTime == RoundUp(MaxTime) <= RoundDown(DeployTime) + CheckpointWeeks * WEEK

(* In a run as long as the loop it never falls behind.                     *)
LEMMA AlwaysFills ==
  ASSUME RunsInTime, Clock, Recorded
  PROVE  FillsInTime
<1> DEFINE s == LastPoint.ts
           e == RoundUp(now)
           r == RoundDown(s)
           d == RoundDown(DeployTime)
<1>1. /\ now \in Nat /\ s \in Nat /\ DeployTime \in Nat /\ DeployTime <= s /\ s <= now /\ now <= MaxTime
      /\ MaxTime \in Nat /\ WEEK \in Nat /\ WEEK > 0 /\ CheckpointWeeks \in Nat
  BY LastPointFacts, TimeAssumption DEF Clock, Recorded
<1> HIDE DEF s
<1>2. /\ r \in Nat /\ r <= s /\ s < r + WEEK /\ r % WEEK = 0
      /\ d \in Nat /\ d <= DeployTime /\ DeployTime < d + WEEK /\ d % WEEK = 0
      /\ e \in Nat /\ now <= e /\ e < now + WEEK /\ e % WEEK = 0
      /\ RoundUp(MaxTime) \in Nat /\ MaxTime <= RoundUp(MaxTime) /\ RoundUp(MaxTime) % WEEK = 0
  BY <1>1, RoundDownFacts, RoundUpFacts
<1> DEFINE x == RoundUp(MaxTime)
           c == CheckpointWeeks * WEEK
<1>3. x <= d + c
  BY DEF RunsInTime
<1>4. c \in Int
  BY <1>1, Multiples
<1> HIDE DEF e, r, d, x
<1>5. d <= r
  <2>1. r < d => r + WEEK <= d
    BY <1>2, WeeksApart
  <2> QED
    BY <1>1, <1>2, <2>1
<1>6. e <= x
  <2>1. x < e => x + WEEK <= e
    BY <1>2, WeeksApart DEF x
  <2> QED
    BY <1>1, <1>2, <2>1 DEF x
<1>7. e - r <= c
  <2> HIDE DEF c
  <2> QED
    BY <1>2, <1>3, <1>4, <1>5, <1>6 DEF x
<1>8. PICK n \in Int : e - r = n * WEEK
  BY <1>2, WeeksApart
<1>9. n <= CheckpointWeeks
  <2>1. CheckpointWeeks < n => CheckpointWeeks * WEEK + WEEK <= n * WEEK
    BY <1>1, <1>8, Multiples
  <2> DEFINE y == n * WEEK
  <2>2. e - r = y /\ (CheckpointWeeks < n => c + WEEK <= y)
    BY <1>8, <2>1
  <2> HIDE DEF y, c
  <2> QED
    BY <1>1, <1>2, <1>4, <1>7, <1>8, <2>2
<1>10. (e - r) \div WEEK = n
  <2>1. (n * WEEK) \div WEEK = n
    BY <1>1, <1>8
  <2> QED
    BY <1>8, <2>1
<1> QED
  BY <1>9, <1>10 DEF FillsInTime, LoopWeeks, FirstWeek, e, r, s

(* VotingEscrow alone: in a run in which _checkpoint is called at least    *)
(* once in the number of weeks of its loop (255, almost five years), the   *)
(* total supply of veBAL is the sum of the balances, now, in any past and  *)
(* in any future week (_checkpoint, supply_at).                            *)
THEOREM EscrowAgreesIfFilledInTime ==
  EscrowSpec /\ []FillsInTime => []SupplyIsSumOfBalances
<1>1. EscrowInit => Escrow
  BY EscrowStarts
<1>2. Escrow /\ FillsInTime /\ [EscrowNext]_escrowVars => Escrow'
  BY EscrowStep, StillKeeps
<1>3. Escrow => SupplyIsSumOfBalances
  BY EscrowAgrees
<1> QED
  BY <1>1, <1>2, <1>3, PTL DEF EscrowSpec

---------------------------------------------------------------------------
(* VotingEscrow as a part of the whole.                                    *)

(* checkpoint and claimToken fill the history, or leave it.                *)
LEMMA StoreKeeps ==
  ASSUME Escrow, FillsInTime, StoreSupply(CheckpointTotalSupply), UNCHANGED now, UNCHANGED lockVars
  PROVE  Escrow' /\ PastStays /\ HistoriesGrow
<1>1. UNCHANGED locked /\ UNCHANGED userHistory /\ UNCHANGED slopeChanges
  BY DEF lockVars
<1>2. pointHistory' = pointHistory \/ pointHistory' = FilledHistory
  BY DEF StoreSupply, CheckpointTotalSupply, SameSupply, CopiedSupply
<1>3. CASE pointHistory' = pointHistory
  BY <1>1, <1>3, StillKeeps DEF escrowVars
<1>4. CASE pointHistory' = FilledHistory
  BY <1>1, <1>4, FillKeeps
<1> QED
  BY <1>2, <1>3, <1>4

(* So does every step of the whole.                                        *)
LEMMA EscrowStays ==
  ASSUME Escrow, FillsInTime, [FeeNext]_feeVars
  PROVE  Escrow' /\ PastStays /\ HistoriesGrow
<1>1. ASSUME UNCHANGED escrowVars
      PROVE  Escrow' /\ PastStays /\ HistoriesGrow
  BY <1>1, StillKeeps
<1>2. ASSUME EscrowNext
      PROVE  Escrow' /\ PastStays /\ HistoriesGrow
  BY <1>2, EscrowStep
<1>3. ASSUME NEW amount \in FeeAmounts, DepositToken(amount) \/ Transfer(amount)
      PROVE  Escrow' /\ PastStays /\ HistoriesGrow
  <2>1. UNCHANGED escrowVars
    BY <1>3 DEF DepositToken, Transfer
  <2> QED
    BY <1>1, <2>1
<1>4. ASSUME CheckpointToken
      PROVE  Escrow' /\ PastStays /\ HistoriesGrow
  <2>1. UNCHANGED escrowVars
    BY <1>4 DEF CheckpointToken
  <2> QED
    BY <1>1, <2>1
<1>5. ASSUME CheckpointSupply
      PROVE  Escrow' /\ PastStays /\ HistoriesGrow
  BY <1>5, StoreKeeps DEF CheckpointSupply
<1>6. ASSUME NEW u \in Users, CheckpointUser(u)
      PROVE  Escrow' /\ PastStays /\ HistoriesGrow
  <2>1. UNCHANGED escrowVars
    BY <1>6 DEF CheckpointUser
  <2> QED
    BY <1>1, <2>1
<1>7. ASSUME NEW u \in Users, ClaimToken(u)
      PROVE  Escrow' /\ PastStays /\ HistoriesGrow
  BY <1>7, StoreKeeps DEF ClaimToken
<1>8. ASSUME UNCHANGED feeVars
      PROVE  Escrow' /\ PastStays /\ HistoriesGrow
  BY <1>1, <1>8 DEF feeVars
<1> QED
  BY <1>2, <1>3, <1>4, <1>5, <1>6, <1>7, <1>8 DEF FeeNext

(* In a run in which _checkpoint is called at least once in the number of  *)
(* weeks of its loop (255, almost five years), the total supply of veBAL   *)
(* is the sum of the balances, now, in any past and any future week        *)
(* (_checkpoint, supply_at).                                               *)
THEOREM SupplyAgreesIfFilledInTime ==
  FeeSpec /\ []FillsInTime => []SupplyIsSumOfBalances
<1>1. EscrowInit => Escrow
  BY EscrowStarts
<1>2. Escrow /\ FillsInTime /\ [FeeNext]_feeVars => Escrow'
  BY EscrowStays
<1>3. Escrow => SupplyIsSumOfBalances
  BY EscrowAgrees
<1> QED
  BY <1>1, <1>2, <1>3, PTL DEF FeeSpec

(* So it needs no call at all in the first 255 weeks.                      *)
THEOREM AlwaysFillsInTime ==
  ASSUME RunsInTime
  PROVE  FeeSpec => []FillsInTime
<1>1. EscrowInit => Escrow
  BY EscrowStarts
<1>2. Escrow => FillsInTime
  BY AlwaysFills DEF Escrow
<1>3. Escrow /\ [FeeNext]_feeVars => Escrow'
  BY <1>2, EscrowStays
<1> QED
  BY <1>1, <1>2, <1>3, PTL DEF FeeSpec

---------------------------------------------------------------------------
(* Users' balances, copied week by week.                                   *)

UserStates == [startTime : Nat, timeCursor : Nat, lastEpochCheckpointed : Nat]
WalkStates == [week : Nat, epoch : Nat \ {0}, current : Point, balances : [Weeks -> Nat], done : BOOLEAN]

\* The balances of user u are copied from StartTime to the week of the cursor
Copied(u, b, cursor) ==
    /\ b \in [Weeks -> Nat]
    /\ cursor \in Nat /\ cursor % WEEK = 0
    /\ \A w \in Weeks : w < cursor => w < now
    /\ \A w \in Weeks : b[w] = IF StartTime <= w /\ w < cursor THEN BalanceOf(u, w) ELSE 0

\* Point e of the user is the last by t
PointAt(u, e, t) == e \in 1 .. Len(userHistory[u]) /\ userHistory[u][e].ts <= t

(* A walk has copied the balances until its week; its point is the one     *)
(* before its epoch, but at first.                                         *)
WalkIsGood(u, s) ==
    /\ s \in WalkStates
    /\ Copied(u, s.balances, s.week)
    /\ StartTime <= s.week
    /\ s.epoch <= Len(userHistory[u]) + 1

Walking(u, s) == PointAt(u, s.epoch - 1, s.week) /\ s.current = userHistory[u][s.epoch - 1]
Starting(u, s) == PointAt(u, s.epoch, s.week) /\ ~ s.done

(* A user's points are points.                                             *)
LEMMA UserPoints ==
  ASSUME Escrow, NEW u \in Users
  PROVE  /\ userHistory[u] \in Seq(Point) /\ Len(userHistory[u]) \in Nat
         /\ \A e \in 1 .. Len(userHistory[u]) : /\ userHistory[u][e] \in Point
                                                /\ userHistory[u][e].ts \in Nat /\ userHistory[u][e].ts <= now
<1> DEFINE h == userHistory[u]
<1>1. h \in Seq(Point) /\ \A i \in 1 .. Len(h) : h[i].ts <= h[Len(h)].ts
  BY DEF Escrow, UsersRecorded, UserRecorded, InOrder
<1>2. LastPoint.ts \in Nat /\ LastPoint.ts <= now /\ now \in Nat
  BY LastPointFacts DEF Escrow, Recorded, Clock
<1>3. h # <<>> => h[Len(h)].ts <= LastPoint.ts
  BY DEF Escrow, UsersRecorded, UserRecorded
<1> HIDE DEF h
<1>4. Len(h) \in Nat /\ \A i \in 1 .. Len(h) : h[i] \in Point
  BY <1>1, LenProperties, ElementOfSeq
<1>5. ASSUME NEW e \in 1 .. Len(h)
      PROVE  h[e] \in Point /\ h[e].ts \in Nat /\ h[e].ts <= now
  <2>1. h[e] \in Point /\ h[Len(h)] \in Point
    <3>1. Len(h) \in 1 .. Len(h)
      BY <1>4
    <3> QED
      BY <1>4, <3>1
  <2>2. h # <<>>
    <3>1. h = <<>> => Len(h) = 0
      OBVIOUS
    <3> QED
      BY <1>4, <3>1
  <2>3. h[e].ts <= h[Len(h)].ts /\ h[Len(h)].ts <= LastPoint.ts
    BY <1>1, <1>3, <2>2
  <2>4. h[e].ts \in Nat /\ h[Len(h)].ts \in Nat
    BY <2>1 DEF Point
  <2> QED
    BY <1>2, <2>1, <2>3, <2>4
<1> QED
  BY <1>1, <1>4, <1>5 DEF h

(* What a point is worth is a natural number, falling.                     *)
LEMMA BalanceAtPointFacts ==
  ASSUME NEW p \in Point, NEW t \in Nat, NEW s \in Nat
  PROVE  /\ BalanceAtPoint(p, t) \in Nat
         /\ s <= t /\ BalanceAtPoint(p, s) = 0 => BalanceAtPoint(p, t) = 0
<1>1. p.bias \in Nat /\ p.slope \in Nat /\ p.ts \in Nat
  BY DEF Point
<1> DEFINE x == p.slope * (t - p.ts)
           y == p.slope * (s - p.ts)
<1>2. x \in Int /\ y \in Int
  BY <1>1
<1>3. s <= t => y <= x
  <2> SUFFICES ASSUME s <= t
               PROVE  y <= x
    OBVIOUS
  <2>1. t - s \in Nat
    OBVIOUS
  <2>2. p.slope * (t - s) \in Nat /\ x = y + p.slope * (t - s)
    BY <1>1, <2>1
  <2> HIDE DEF x, y
  <2> QED
    BY <1>2, <2>2
<1>4. BalanceAtPoint(p, t) = AtLeastZero(p.bias - x) /\ BalanceAtPoint(p, s) = AtLeastZero(p.bias - y)
  BY DEF BalanceAtPoint
<1> HIDE DEF x, y
<1> QED
  BY <1>1, <1>2, <1>3, <1>4 DEF AtLeastZero

(* Between a point and the next one a balance is that of the point.        *)
LEMMA BalanceBetween ==
  ASSUME Escrow, NEW u \in Users, Sorted(userHistory[u]), NEW t \in Nat, NEW e, PointAt(u, e, t),
         e + 1 <= Len(userHistory[u]) => userHistory[u][e + 1].ts > t
  PROVE  BalanceOf(u, t) = BalanceAtPoint(userHistory[u][e], t)
<1> DEFINE h == userHistory[u]
<1>1. /\ h \in Seq(Point) /\ Len(h) \in Nat
      /\ \A i \in 1 .. Len(h) : h[i].ts \in Nat
  BY UserPoints
<1>2. e \in 1 .. Len(h) /\ h[e].ts <= t /\ (e + 1 <= Len(h) => h[e + 1].ts > t)
      /\ \A i, j \in 1 .. Len(h) : i <= j => h[i].ts <= h[j].ts
  BY DEF PointAt, Sorted
<1>3. BalanceOf(u, t) = IF EpochAt(h, t) = 0 THEN 0 ELSE BalanceAtPoint(h[EpochAt(h, t)], t)
  BY DEF BalanceOf
<1> HIDE DEF h
<1>4. \A i \in 1 .. Len(h) : h[i].ts <= t <=> i <= e
  <2> TAKE i \in 1 .. Len(h)
  <2>1. CASE i <= e
    <3>1. h[i].ts <= h[e].ts
      BY <1>2, <2>1
    <3> QED
      BY <1>1, <1>2, <2>1, <3>1
  <2>2. CASE ~ (i <= e)
    <3>1. e + 1 \in 1 .. Len(h) /\ e + 1 <= i
      BY <1>1, <1>2, <2>2
    <3>2. h[e + 1].ts <= h[i].ts /\ h[e + 1].ts > t
      BY <1>2, <3>1
    <3> QED
      BY <1>1, <2>2, <3>1, <3>2
  <2> QED
    BY <2>1, <2>2
<1>5. e \in 0 .. Len(h) /\ e # 0
  BY <1>1, <1>2
<1>6. EpochAt(h, t) = e
  BY <1>1, <1>4, <1>5, EpochFacts
<1> QED
  BY <1>3, <1>5, <1>6 DEF h

(* Before the first point it is zero.                                      *)
LEMMA BalanceBefore ==
  ASSUME Escrow, NEW u \in Users, NEW t \in Nat, \A e \in 1 .. Len(userHistory[u]) : userHistory[u][e].ts > t
  PROVE  BalanceOf(u, t) = 0
<1> DEFINE h == userHistory[u]
<1>1. h \in Seq(Point) /\ Len(h) \in Nat /\ \A i \in 1 .. Len(h) : h[i].ts \in Nat /\ h[i].ts > t
  BY UserPoints
<1>2. BalanceOf(u, t) = IF EpochAt(h, t) = 0 THEN 0 ELSE BalanceAtPoint(h[EpochAt(h, t)], t)
  BY DEF BalanceOf
<1> HIDE DEF h
<1>3. \A i \in 1 .. Len(h) : h[i].ts <= t <=> i <= 0
  BY <1>1
<1>4. 0 \in 0 .. Len(h)
  BY <1>1
<1>5. EpochAt(h, t) = 0
  BY <1>1, <1>3, <1>4, EpochFacts
<1> QED
  BY <1>2, <1>5

(* One iteration keeps the types.                                          *)
LEMMA WalkStepType ==
  ASSUME Escrow, NEW u \in Users, NEW s \in WalkStates
  PROVE  WalkStep(u, s) \in WalkStates
<1> DEFINE h == userHistory[u]
           next == IF s.epoch > Len(h) THEN NoPoint ELSE h[s.epoch]
           balance == BalanceAtPoint(s.current, s.week)
<1>1. /\ s.week \in Nat /\ s.epoch \in Nat /\ s.epoch # 0 /\ s.current \in Point
      /\ s.balances \in [Weeks -> Nat] /\ s.done \in BOOLEAN
  BY DEF WalkStates
<1>2. Len(h) \in Nat /\ \A e \in 1 .. Len(h) : h[e] \in Point
  BY UserPoints
<1>3. next \in Point
  <2>1. NoPoint \in Point
    BY DEF NoPoint, Point
  <2>2. ~ (s.epoch > Len(h)) => s.epoch \in 1 .. Len(h)
    BY <1>1, <1>2
  <2> QED
    BY <1>2, <2>1, <2>2
<1>4. balance \in Nat
  BY <1>1, BalanceAtPointFacts
<1>5. now \in Nat /\ RoundUp(now) \in Nat
  <2>1. now \in Nat
    BY DEF Escrow, Clock
  <2> QED
    BY <2>1, RoundUpFacts
<1>6. WEEK \in Nat
  BY TimeAssumption
<1>7. WalkStep(u, s) =
        IF s.week >= next.ts /\ s.epoch <= Len(h) THEN [s EXCEPT !.epoch = @ + 1, !.current = next]
        ELSE IF s.week >= now THEN [s EXCEPT !.done = TRUE]
        ELSE IF balance = 0 /\ s.epoch > Len(h) THEN [s EXCEPT !.week = RoundUp(now), !.done = TRUE]
        ELSE [s EXCEPT !.balances[s.week] = balance, !.week = @ + WEEK]
  BY DEF WalkStep
<1> HIDE DEF h, next, balance
<1>8. /\ [s EXCEPT !.epoch = @ + 1, !.current = next] \in WalkStates
      /\ [s EXCEPT !.done = TRUE] \in WalkStates
      /\ [s EXCEPT !.week = RoundUp(now), !.done = TRUE] \in WalkStates
  <2> DEFINE end == RoundUp(now)
  <2>1. s.epoch + 1 \in Nat \ {0} /\ end \in Nat
    BY <1>1, <1>5
  <2> HIDE DEF end
  <2>2. [s EXCEPT !.epoch = @ + 1, !.current = next] \in WalkStates
    BY <1>1, <1>3, <2>1 DEF WalkStates
  <2>3. [s EXCEPT !.done = TRUE] \in WalkStates
    BY <1>1 DEF WalkStates
  <2>4. [s EXCEPT !.week = end, !.done = TRUE] \in WalkStates
    BY <1>1, <2>1 DEF WalkStates
  <2> QED
    BY <2>2, <2>3, <2>4 DEF end
<1>9. [s EXCEPT !.balances[s.week] = balance, !.week = @ + WEEK] \in WalkStates
  <2>1. [s.balances EXCEPT ![s.week] = balance] \in [Weeks -> Nat]
    BY <1>1, <1>4
  <2> DEFINE b == [s.balances EXCEPT ![s.week] = balance]
             v == s.week + WEEK
  <2>2. [s EXCEPT !.balances[s.week] = balance, !.week = @ + WEEK] = [s EXCEPT !.balances = b, !.week = v]
    BY <1>1 DEF WalkStates
  <2>3. v \in Nat /\ b \in [Weeks -> Nat]
    BY <1>1, <1>6, <2>1
  <2> HIDE DEF b, v
  <2>4. [s EXCEPT !.balances = b, !.week = v] \in WalkStates
    BY <2>3 DEF WalkStates
  <2> QED
    BY <2>2, <2>4
<1> QED
  BY <1>7, <1>8, <1>9

(* What is copied a week further.                                          *)
LEMMA CopiedFurther ==
  ASSUME Escrow, NEW u, NEW b, NEW w, Copied(u, b, w), w < now, StartTime <= w, BalanceOf(u, w) \in Nat
  PROVE  Copied(u, [b EXCEPT ![w] = BalanceOf(u, w)], w + WEEK)
<1> DEFINE x == BalanceOf(u, w)
           k == [b EXCEPT ![w] = x]
<1>1. WEEK \in Nat /\ WEEK > 0 /\ now \in Nat /\ now <= MaxTime /\ MaxTime \in Nat /\ MAXTIME \in Nat /\ StartTime \in Nat
  BY TimeAssumption, FeeAssumption DEF Escrow, Clock
<1>2. b \in [Weeks -> Nat] /\ w \in Nat /\ w % WEEK = 0
  BY DEF Copied
<1>3. w \in Weeks
  BY <1>1, <1>2, WeekFacts
<1>4. (w + WEEK) % WEEK = 0 /\ w + WEEK \in Nat
  BY <1>1, <1>2, WeeksApart
<1>5. \A v \in Weeks : v < w + WEEK => v = w \/ v < w
  <2> SUFFICES ASSUME NEW v \in Weeks, v < w + WEEK, w < v
               PROVE  FALSE
    BY <1>2, WeekFacts
  <2>1. v \in Nat /\ v % WEEK = 0
    BY WeekFacts
  <2>2. w + WEEK <= v
    BY <1>2, <2>1, WeeksApart
  <2> QED
    BY <1>1, <1>2, <2>1, <2>2
<1>6. k \in [Weeks -> Nat] /\ k[w] = x /\ \A v \in Weeks : v # w => k[v] = b[v]
  BY <1>2, <1>3
<1> HIDE DEF k
<1>7. \A v \in Weeks : v < w + WEEK => v < now
  BY <1>5 DEF Copied
<1>8. ASSUME NEW v \in Weeks
      PROVE  k[v] = IF StartTime <= v /\ v < w + WEEK THEN BalanceOf(u, v) ELSE 0
  <2>1. b[v] = IF StartTime <= v /\ v < w THEN BalanceOf(u, v) ELSE 0
    BY DEF Copied
  <2>2. v \in Nat
    BY WeekFacts
  <2>3. CASE v = w
    BY <1>1, <1>2, <1>6, <2>3
  <2>4. CASE v # w
    <3>1. v < w + WEEK <=> v < w
      BY <1>1, <1>2, <1>5, <2>2, <2>4
    <3> QED
      BY <1>6, <2>1, <2>4, <3>1
  <2> QED
    BY <2>3, <2>4
<1> QED
  BY <1>4, <1>6, <1>7, <1>8 DEF Copied, k

(* What is copied until now when the balance has fallen to zero.           *)
LEMMA CopiedToNow ==
  ASSUME Escrow, NEW u, NEW b, NEW w, Copied(u, b, w), w < now,
         \A v \in Weeks : w <= v => BalanceOf(u, v) = 0
  PROVE  Copied(u, b, RoundUp(now))
<1>1. now \in Nat /\ StartTime \in Nat
  BY FeeAssumption DEF Escrow, Clock
<1>2. /\ RoundUp(now) \in Nat /\ now <= RoundUp(now) /\ RoundUp(now) < now + WEEK /\ RoundUp(now) % WEEK = 0
  BY <1>1, RoundUpFacts
<1>3. w \in Nat /\ b \in [Weeks -> Nat]
  BY DEF Copied
<1>4. \A v \in Weeks : v < RoundUp(now) => v < now
  <2> SUFFICES ASSUME NEW v \in Weeks, v < RoundUp(now), now <= v
               PROVE  FALSE
    BY <1>1, WeekFacts
  <2>1. v \in Nat /\ v % WEEK = 0 /\ WEEK \in Nat
    BY WeekFacts, TimeAssumption
  <2>2. v + WEEK <= RoundUp(now)
    BY <1>2, <2>1, WeeksApart
  <2> QED
    BY <1>1, <1>2, <2>1, <2>2
<1>5. ASSUME NEW v \in Weeks
      PROVE  b[v] = IF StartTime <= v /\ v < RoundUp(now) THEN BalanceOf(u, v) ELSE 0
  <2>1. b[v] = IF StartTime <= v /\ v < w THEN BalanceOf(u, v) ELSE 0
    BY DEF Copied
  <2>2. v \in Nat
    BY WeekFacts
  <2>3. CASE v < w
    BY <1>1, <1>2, <1>3, <2>1, <2>2, <2>3
  <2>4. CASE ~ (v < w)
    BY <1>3, <2>1, <2>2, <2>4
  <2> QED
    BY <2>3, <2>4
<1> QED
  BY <1>2, <1>3, <1>4, <1>5 DEF Copied

(* An iteration copies the balance of its week, or goes on to the next     *)
(* point.                                                                  *)
LEMMA WalkStepGood ==
  ASSUME Escrow, NEW u \in Users, Sorted(userHistory[u]), NEW s, WalkIsGood(u, s), ~ s.done,
         Starting(u, s) \/ Walking(u, s)
  PROVE  WalkIsGood(u, WalkStep(u, s)) /\ Walking(u, WalkStep(u, s))
<1> DEFINE h == userHistory[u]
           e == s.epoch
           w == s.week
           next == IF e > Len(h) THEN NoPoint ELSE h[e]
           balance == BalanceAtPoint(s.current, w)
           r == WalkStep(u, s)
<1>1. /\ s \in WalkStates /\ w \in Nat /\ e \in Nat /\ e # 0 /\ s.current \in Point
      /\ s.balances \in [Weeks -> Nat] /\ e <= Len(h) + 1 /\ StartTime <= w /\ Copied(u, s.balances, w)
  BY DEF WalkIsGood, WalkStates
<1>2. Len(h) \in Nat /\ h \in Seq(Point) /\ \A i \in 1 .. Len(h) : h[i] \in Point /\ h[i].ts \in Nat /\ h[i].ts <= now
  BY UserPoints
<1>3. now \in Nat /\ WEEK \in Nat /\ WEEK > 0 /\ StartTime \in Nat
  BY TimeAssumption, FeeAssumption DEF Escrow, Clock
<1>4. r = IF w >= next.ts /\ e <= Len(h) THEN [s EXCEPT !.epoch = @ + 1, !.current = next]
          ELSE IF w >= now THEN [s EXCEPT !.done = TRUE]
          ELSE IF balance = 0 /\ e > Len(h) THEN [s EXCEPT !.week = RoundUp(now), !.done = TRUE]
          ELSE [s EXCEPT !.balances[w] = balance, !.week = @ + WEEK]
  BY DEF WalkStep
<1>5. r \in WalkStates
  BY <1>1, WalkStepType
<1>6. CASE w >= next.ts /\ e <= Len(h)
  <2>1. next = h[e] /\ e \in 1 .. Len(h)
    BY <1>1, <1>2, <1>6
  <2>2. r = [s EXCEPT !.epoch = @ + 1, !.current = next]
    BY <1>4, <1>6
  <2> HIDE DEF r, next
  <2>3. r.epoch = e + 1 /\ r.current = next /\ r.week = w /\ r.balances = s.balances
    BY <1>1, <2>2 DEF WalkStates
  <2>4. (e + 1) - 1 = e /\ e + 1 <= Len(h) + 1 /\ h[e].ts <= w
    BY <1>1, <1>2, <1>6, <2>1
  <2>5. WalkIsGood(u, r)
    BY <1>1, <1>5, <2>3, <2>4 DEF WalkIsGood
  <2>6. Walking(u, r)
    BY <2>1, <2>3, <2>4 DEF Walking, PointAt
  <2> QED
    BY <2>5, <2>6 DEF r
<1>7. CASE ~ (w >= next.ts /\ e <= Len(h))
  <2>1. Walking(u, s)
    <3>1. ASSUME Starting(u, s)
          PROVE  FALSE
      <4>1. e \in 1 .. Len(h) /\ h[e].ts <= w
        BY <3>1 DEF Starting, PointAt
      <4>2. next = h[e]
        BY <1>2, <4>1
      <4> QED
        BY <1>1, <1>2, <1>7, <4>1, <4>2
    <3> QED
      BY <3>1
  <2>2. e - 1 \in 1 .. Len(h) /\ h[e - 1].ts <= w /\ s.current = h[e - 1] /\ PointAt(u, e - 1, w)
    BY <2>1 DEF Walking, PointAt
  <2>3. e <= Len(h) => h[e].ts > w
    <3> SUFFICES ASSUME e <= Len(h)
                 PROVE  h[e].ts > w
      OBVIOUS
    <3>1. next = h[e] /\ e \in 1 .. Len(h)
      BY <1>1, <1>2
    <3> QED
      BY <1>1, <1>2, <1>7, <3>1
  <2>4. CASE w >= now
    <3>1. r = [s EXCEPT !.done = TRUE]
      BY <1>4, <1>7, <2>4
    <3> HIDE DEF r
    <3>2. r.epoch = e /\ r.current = s.current /\ r.week = w /\ r.balances = s.balances
      BY <1>1, <3>1 DEF WalkStates
    <3>3. WalkIsGood(u, r) /\ Walking(u, r)
      BY <1>1, <1>5, <2>1, <3>2 DEF WalkIsGood, Walking
    <3> QED
      BY <3>3 DEF r
  <2>5. CASE ~ (w >= now) /\ balance = 0 /\ e > Len(h)
    <3>1. r = [s EXCEPT !.week = RoundUp(now), !.done = TRUE]
      BY <1>4, <1>7, <2>5
    <3>2. /\ RoundUp(now) \in Nat /\ now <= RoundUp(now)
      BY <1>3, RoundUpFacts
    <3> HIDE DEF r
    <3>3. r.epoch = e /\ r.current = s.current /\ r.week = RoundUp(now) /\ r.balances = s.balances
      BY <1>1, <3>1 DEF WalkStates
    <3>4. ASSUME NEW v \in Weeks, w <= v
          PROVE  BalanceOf(u, v) = 0
      <4>1. v \in Nat
        BY WeekFacts
      <4>2. PointAt(u, e - 1, v)
        BY <1>1, <1>2, <2>2, <3>4, <4>1 DEF PointAt
      <4>3. ~ ((e - 1) + 1 <= Len(h))
        BY <1>1, <1>2, <2>5
      <4>4. BalanceOf(u, v) = BalanceAtPoint(h[e - 1], v)
        BY <4>1, <4>2, <4>3, BalanceBetween
      <4>5. BalanceAtPoint(s.current, v) = 0
        BY <1>1, <2>5, <3>4, <4>1, BalanceAtPointFacts
      <4> QED
        BY <2>2, <4>4, <4>5
    <3>5. Copied(u, s.balances, RoundUp(now))
      <4>1. w < now
        BY <1>1, <1>3, <2>5
      <4> QED
        BY <1>1, <3>4, <4>1, CopiedToNow
    <3>6. StartTime <= RoundUp(now) /\ h[e - 1].ts <= RoundUp(now)
      <4> DEFINE x == h[e - 1].ts
      <4>1. x \in Nat /\ x <= w
        <5>1. e - 1 \in 1 .. Len(h)
          BY <2>2
        <5>2. x \in Nat
          BY <1>2, <5>1
        <5> QED
          BY <2>2, <5>2
      <4>2. StartTime <= w /\ StartTime \in Nat /\ w \in Nat /\ now \in Nat
        BY <1>1, <1>3
      <4>3. ~ (w >= now)
        BY <2>5
      <4> HIDE DEF h, x, w
      <4> QED
        BY <3>2, <4>1, <4>2, <4>3 DEF x
    <3>7. WalkIsGood(u, r)
      BY <1>1, <1>5, <3>3, <3>5, <3>6 DEF WalkIsGood
    <3>8. Walking(u, r)
      BY <2>2, <3>3, <3>6 DEF Walking, PointAt
    <3> QED
      BY <3>7, <3>8 DEF r
  <2>6. CASE ~ (w >= now) /\ ~ (balance = 0 /\ e > Len(h))
    <3>1. r = [s EXCEPT !.balances[w] = balance, !.week = @ + WEEK]
      BY <1>4, <1>7, <2>6
    <3> HIDE DEF r
    <3>2. r.epoch = e /\ r.current = s.current /\ r.week = w + WEEK /\ r.balances = [s.balances EXCEPT ![w] = balance]
      BY <1>1, <3>1 DEF WalkStates
    <3>3. balance = BalanceOf(u, w) /\ BalanceOf(u, w) \in Nat
      <4>1. (e - 1) + 1 = e
        BY <1>1
      <4>2. BalanceOf(u, w) = BalanceAtPoint(h[e - 1], w)
        BY <1>1, <2>2, <2>3, <4>1, BalanceBetween
      <4>3. balance \in Nat
        BY <1>1, BalanceAtPointFacts
      <4> QED
        BY <2>2, <4>2, <4>3
    <3>4. Copied(u, [s.balances EXCEPT ![w] = balance], w + WEEK)
      <4>1. w < now
        BY <1>1, <1>3, <2>6
      <4> HIDE DEF balance
      <4> QED
        BY <1>1, <3>3, <4>1, CopiedFurther
    <3>5. StartTime <= w + WEEK /\ h[e - 1].ts <= w + WEEK
      BY <1>1, <1>2, <1>3, <2>2
    <3>6. WalkIsGood(u, r)
      BY <1>1, <1>5, <3>2, <3>4, <3>5 DEF WalkIsGood
    <3>7. Walking(u, r)
      BY <2>2, <3>2, <3>5 DEF Walking, PointAt
    <3> QED
      BY <3>6, <3>7 DEF r
  <2> QED
    BY <2>4, <2>5, <2>6
<1> QED
  BY <1>6, <1>7

(* Time does not run backwards in it.                                      *)
LEMMA WalkStepLater ==
  ASSUME Escrow, NEW u \in Users, NEW s, WalkIsGood(u, s)
  PROVE  s.week <= WalkStep(u, s).week
<1> DEFINE h == userHistory[u]
           next == IF s.epoch > Len(h) THEN NoPoint ELSE h[s.epoch]
           balance == BalanceAtPoint(s.current, s.week)
           r == WalkStep(u, s)
<1>1. s \in WalkStates /\ s.week \in Nat
  BY DEF WalkIsGood, WalkStates
<1>2. now \in Nat /\ WEEK \in Nat
  BY TimeAssumption DEF Escrow, Clock
<1>3. RoundUp(now) \in Nat /\ now <= RoundUp(now)
  BY <1>2, RoundUpFacts
<1>4. r = IF s.week >= next.ts /\ s.epoch <= Len(h) THEN [s EXCEPT !.epoch = @ + 1, !.current = next]
          ELSE IF s.week >= now THEN [s EXCEPT !.done = TRUE]
          ELSE IF balance = 0 /\ s.epoch > Len(h) THEN [s EXCEPT !.week = RoundUp(now), !.done = TRUE]
          ELSE [s EXCEPT !.balances[s.week] = balance, !.week = @ + WEEK]
  BY DEF WalkStep
<1> HIDE DEF next, balance, r, h
<1>5. r.week = s.week \/ (~ (s.week >= now) /\ r.week = RoundUp(now)) \/ r.week = s.week + WEEK
  BY <1>1, <1>4 DEF WalkStates
<1>6. s.week <= r.week
  BY <1>1, <1>2, <1>3, <1>5
<1> QED
  BY <1>6 DEF r

(* The walk of an account.                                                 *)
LEMMA WalkIsGoodAtEnd ==
  ASSUME Escrow, NEW u \in Users, Sorted(userHistory[u]), NEW start, WalkIsGood(u, start), Starting(u, start)
  PROVE  WalkIsGood(u, Walk(u, start)) /\ Walking(u, Walk(u, start)) /\ start.week <= Walk(u, start).week
<1> DEFINE L == UserSteps
           g == [n \in 1 .. L |-> [s \in WalkStates |-> IF s.done THEN s ELSE WalkStep(u, s)]]
           Body(f) == f = [i \in 0 .. L |-> IF i = 0 THEN start
                                            ELSE LET s == f[i - 1] IN IF s.done THEN s ELSE WalkStep(u, s)]
           after == CHOOSE f : Body(f)
<1>1. L \in Nat /\ L >= 1
  BY FeeAssumption
<1>2. Walk(u, start) = after[L]
  BY DEF Walk
<1>3. start \in WalkStates
  BY DEF WalkIsGood
<1> HIDE DEF L
<1>4. \A n \in 1 .. L : g[n] \in [WalkStates -> WalkStates]
  BY WalkStepType
<1> HIDE DEF g
<1>5. PICK f \in [0 .. L -> WalkStates] : Iterates(f, g, start, L)
  BY <1>1, <1>3, <1>4, LoopExists
<1>6. ASSUME NEW n \in 0 .. L, n # 0
      PROVE  g[n][f[n - 1]] = LET s == f[n - 1] IN IF s.done THEN s ELSE WalkStep(u, s)
  <2>1. n \in 1 .. L /\ n - 1 \in 0 .. L
    BY <1>1, <1>6
  <2>2. f[n - 1] \in WalkStates
    BY <1>5, <2>1
  <2> QED
    BY <2>1, <2>2 DEF g
<1>7. Body(f)
  BY <1>5, <1>6 DEF Iterates
<1> HIDE DEF Body
<1>8. Body(after)
  BY <1>7
<1> HIDE DEF after
<1>9. after[0] = start /\ \A n \in 1 .. L : after[n] = IF after[n - 1].done THEN after[n - 1] ELSE WalkStep(u, after[n - 1])
  BY <1>1, <1>8 DEF Body
<1> DEFINE Good(i) == /\ WalkIsGood(u, after[i]) /\ start.week <= after[i].week
                      /\ IF i = 0 THEN Starting(u, after[i]) ELSE Walking(u, after[i])
           T == {i \in 0 .. L : Good(i)}
<1>10. 0 \in T
  <2>1. start.week <= start.week
    BY <1>3 DEF WalkStates
  <2> QED
    BY <1>1, <1>9, <2>1
<1>11. ASSUME NEW n \in 0 .. L, n + 1 \in 0 .. L, n \in T
       PROVE  n + 1 \in T
  <2> DEFINE s == after[n]
             r == after[n + 1]
  <2>1. n + 1 \in 1 .. L /\ (n + 1) - 1 = n /\ n + 1 # 0
    BY <1>1, <1>11
  <2>2. Good(n)
    BY <1>11
  <2>3. r = IF s.done THEN s ELSE WalkStep(u, s)
    BY <1>9, <2>1
  <2>4. CASE s.done
    <3>1. n # 0
      BY <2>2, <2>4 DEF Starting
    <3> QED
      BY <1>11, <2>1, <2>2, <2>3, <2>4, <3>1
  <2>5. CASE ~ s.done
    <3>1. WalkIsGood(u, s) /\ (Starting(u, s) \/ Walking(u, s)) /\ start.week <= s.week
      BY <2>2
    <3>2. r = WalkStep(u, s)
      BY <2>3, <2>5
    <3> HIDE DEF s, r
    <3>3. WalkIsGood(u, r) /\ Walking(u, r)
      BY <2>5, <3>1, <3>2, WalkStepGood
    <3>4. start.week <= r.week
      <4>1. s.week <= r.week
        BY <2>5, <3>1, <3>2, WalkStepLater
      <4> QED
        BY <1>3, <3>1, <3>3, <4>1 DEF WalkIsGood, WalkStates
    <3>5. WalkIsGood(u, after[n + 1]) /\ Walking(u, after[n + 1]) /\ start.week <= after[n + 1].week
      BY <3>3, <3>4 DEF r
    <3> QED
      BY <1>11, <2>1, <3>5
  <2> QED
    BY <2>4, <2>5
<1> HIDE DEF T
<1>12. 0 .. L \subseteq T
  BY <1>1, <1>10, <1>11, UpTo
<1>13. Good(L)
  <2>1. L \in 0 .. L
    BY <1>1
  <2> QED
    BY <1>12, <2>1 DEF T
<1> QED
  BY <1>1, <1>2, <1>13

(* A search finds the last epoch that began by t.                          *)
LEMMA SearchFacts ==
  ASSUME Escrow, NEW u \in Users, Sorted(userHistory[u]), NEW t \in Nat, NEW min \in 0 .. Len(userHistory[u]),
         min = 0 \/ userHistory[u][min].ts <= t
  PROVE  /\ UserEpochAt(u, t, min, Len(userHistory[u])) \in min .. Len(userHistory[u])
         /\ \A i \in 1 .. Len(userHistory[u]) :
              userHistory[u][i].ts <= t <=> i <= UserEpochAt(u, t, min, Len(userHistory[u]))
<1> DEFINE h == userHistory[u]
           L == Len(h)
           Last(n, k) == \A i \in 1 .. k : h[i].ts <= t <=> i <= n
           T == {k \in 0 .. L : \E n \in 0 .. k : Last(n, k)}
<1>1. L \in Nat /\ \A i \in 1 .. L : h[i].ts \in Nat
  BY UserPoints
<1>2. \A i, j \in 1 .. L : i <= j => h[i].ts <= h[j].ts
  BY DEF Sorted
<1>3. 0 \in T
  BY <1>1
<1>4. ASSUME NEW k \in 0 .. L, k + 1 \in 0 .. L, k \in T
      PROVE  k + 1 \in T
  <2>1. PICK n \in 0 .. k : Last(n, k)
    BY <1>4
  <2>2. k \in Nat /\ n \in Nat /\ k + 1 \in 1 .. L
    BY <1>1, <1>4
  <2>3. CASE h[k + 1].ts <= t
    <3>1. ASSUME NEW i \in 1 .. k + 1
          PROVE  h[i].ts <= t
      <4>1. i \in 1 .. L /\ i <= k + 1
        BY <1>1, <2>2
      <4>2. h[i].ts <= h[k + 1].ts
        BY <1>2, <2>2, <4>1
      <4> QED
        BY <1>1, <2>2, <2>3, <4>1, <4>2
    <3>2. Last(k + 1, k + 1)
      BY <2>2, <3>1
    <3> QED
      BY <1>4, <2>2, <3>2
  <2>4. CASE ~ (h[k + 1].ts <= t)
    <3>1. \A i \in 1 .. k + 1 : i \in 1 .. k \/ i = k + 1
      BY <2>2
    <3>2. ~ (k + 1 <= n)
      BY <2>2
    <3>3. Last(n, k + 1)
      BY <2>1, <2>4, <3>1, <3>2
    <3>4. n \in 0 .. k + 1
      BY <2>2
    <3> QED
      BY <1>4, <3>3, <3>4
  <2> QED
    BY <2>3, <2>4
<1>5. 0 .. L \subseteq T
  <2> HIDE DEF T
  <2> QED
    BY <1>1, <1>3, <1>4, UpTo
<1>6. PICK n \in 0 .. L : Last(n, L)
  <2>1. L \in 0 .. L
    BY <1>1
  <2> QED
    BY <1>5, <2>1
<1>7. min <= n
  <2>1. CASE min = 0
    BY <1>1, <2>1
  <2>2. CASE min # 0
    <3>1. min \in 1 .. L /\ h[min].ts <= t
      BY <1>1, <2>2
    <3> QED
      BY <1>6, <3>1
  <2> QED
    BY <2>1, <2>2
<1>8. {e \in min + 1 .. L : h[e].ts <= t} = min + 1 .. n
  <2>1. \A e \in min + 1 .. L : e \in 1 .. L
    BY <1>1
  <2>2. \A e \in min + 1 .. L : h[e].ts <= t <=> e <= n
    BY <1>6, <2>1
  <2> HIDE DEF h, L
  <2> QED
    BY <1>1, <1>6, <1>7, <2>2
<1>9. Cardinality(min + 1 .. n) = n - min
  <2>1. min + 1 \in Int /\ n \in Int
    BY <1>1
  <2>2. Cardinality(min + 1 .. n) = IF min + 1 > n THEN 0 ELSE n - (min + 1) + 1
    BY <2>1, FS_Interval
  <2> QED
    BY <1>1, <1>7, <2>1, <2>2
<1>10. UserEpochAt(u, t, min, L) = n
  <2>1. UserEpochAt(u, t, min, L) = min + Cardinality({e \in min + 1 .. L : h[e].ts <= t})
    BY DEF UserEpochAt
  <2>2. min \in Int /\ n \in Int
    BY <1>1
  <2> DEFINE S == {e \in min + 1 .. L : h[e].ts <= t}
             c == Cardinality(S)
  <2>3. S = min + 1 .. n
    BY <1>8
  <2> HIDE DEF S
  <2>4. c = n - min
    BY <1>9, <2>3
  <2>5. UserEpochAt(u, t, min, L) = min + c
    BY <2>1 DEF S
  <2> HIDE DEF c
  <2> QED
    BY <2>2, <2>4, <2>5
<1> QED
  BY <1>1, <1>6, <1>7, <1>10

(* What the contract knows of user u.                                      *)
UserGood(u, s, b) ==
    /\ s \in UserStates
    /\ Copied(u, b, s.timeCursor)
    /\ IF s.timeCursor = 0 THEN s.startTime = 0
       ELSE /\ StartTime <= s.startTime /\ s.startTime <= s.timeCursor /\ s.startTime % WEEK = 0
            /\ PointAt(u, s.lastEpochCheckpointed, s.timeCursor)
            /\ \A w \in Weeks : StartTime <= w /\ w < s.startTime => BalanceOf(u, w) = 0

(* The week after a time, or the one that begins then.                     *)
LEMMA BeforeRoundUp ==
  ASSUME NEW t \in Nat, NEW w \in Nat, w % WEEK = 0
  PROVE  /\ w < RoundUp(t) => w < t
         /\ t <= w => RoundUp(t) <= w
<1>1. RoundUp(t) \in Nat /\ t <= RoundUp(t) /\ RoundUp(t) < t + WEEK /\ RoundUp(t) % WEEK = 0
  BY RoundUpFacts
<1>2. w < RoundUp(t) => w + WEEK <= RoundUp(t)
  BY <1>1, WeeksApart
<1>3. WEEK \in Nat
  BY TimeAssumption
<1> QED
  BY <1>1, <1>2, <1>3

\* Where the walk of a checkpoint of user u starts
StartOf(u) ==
    [week     |-> IF userState[u].timeCursor = 0 THEN Later(StartTime, RoundUp(userHistory[u][FirstEpoch(u)].ts))
                  ELSE userState[u].timeCursor,
     epoch    |-> FirstEpoch(u), current |-> NoPoint,
     balances |-> userBalanceAt[u], done |-> FALSE]

(* The first checkpoint of a user starts with the first week of the        *)
(* distribution in which the user may have a balance.                      *)
LEMMA FirstStart ==
  ASSUME Escrow, NEW u \in Users, Sorted(userHistory[u]), UserGood(u, userState[u], userBalanceAt[u]),
         MayCheckpointUser(u), userHistory[u] # <<>>, userState[u].timeCursor = 0
  PROVE  /\ WalkIsGood(u, StartOf(u)) /\ Starting(u, StartOf(u))
         /\ StartTime <= StartOf(u).week
         /\ \A w \in Weeks : StartTime <= w /\ w < StartOf(u).week => BalanceOf(u, w) = 0
<1> DEFINE h == userHistory[u]
           n == UserEpochAt(u, StartTime, 0, Len(h))
           e == FirstEpoch(u)
           ts == h[e].ts
           week == Later(StartTime, RoundUp(ts))
           b == userBalanceAt[u]
<1>1. /\ h \in Seq(Point) /\ Len(h) \in Nat
      /\ \A i \in 1 .. Len(h) : h[i] \in Point /\ h[i].ts \in Nat /\ h[i].ts <= now
  BY UserPoints
<1>2. Len(h) >= 1
  <2> HIDE DEF h
  <2>1. Len(h) # 0
    BY <1>1, EmptySeq DEF h
  <2> QED
    BY <1>1, <2>1
<1>3. now \in Nat /\ StartTime \in Nat /\ StartTime % WEEK = 0 /\ now > StartTime
  BY FeeAssumption DEF Escrow, Clock, MayCheckpointUser
<1>4. n \in 0 .. Len(h) /\ \A i \in 1 .. Len(h) : h[i].ts <= StartTime <=> i <= n
  <2>1. 0 \in 0 .. Len(h)
    BY <1>1
  <2> QED
    BY <1>3, <2>1, SearchFacts
<1>5. e = Later(1, n)
  BY DEF FirstEpoch
<1>6. e \in 1 .. Len(h) /\ e \in Nat \ {0} /\ e <= Len(h) + 1
  <2> HIDE DEF n, e, h
  <2> QED
    BY <1>1, <1>2, <1>4, <1>5 DEF Later
<1>7. ts \in Nat /\ ts <= now
  BY <1>1, <1>6
<1>8. RoundUp(ts) \in Nat /\ ts <= RoundUp(ts) /\ RoundUp(ts) % WEEK = 0
  BY <1>7, RoundUpFacts
<1> HIDE DEF ts, n, e
<1>9. week \in Nat /\ week % WEEK = 0 /\ StartTime <= week /\ ts <= week
  BY <1>3, <1>7, <1>8 DEF Later
<1>10. ASSUME NEW w \in Weeks, w < week
       PROVE  w < now
  <2>1. w \in Nat /\ w % WEEK = 0
    BY WeekFacts
  <2>2. w < StartTime \/ w < RoundUp(ts)
    BY <1>10 DEF Later
  <2>3. w < RoundUp(ts) => w < ts
    BY <1>7, <2>1, BeforeRoundUp
  <2> QED
    BY <1>3, <1>7, <2>1, <2>2, <2>3
<1>11. ASSUME NEW w \in Weeks, StartTime <= w, w < week
       PROVE  BalanceOf(u, w) = 0
  <2>1. w \in Nat /\ w % WEEK = 0
    BY WeekFacts
  <2>2. w < RoundUp(ts) /\ StartTime < RoundUp(ts)
    BY <1>3, <1>8, <1>11, <2>1 DEF Later
  <2>3. w < ts /\ StartTime < ts
    BY <1>3, <1>7, <2>1, <2>2, BeforeRoundUp
  <2>4. n = 0
    <3>1. ~ (ts <= StartTime)
      BY <1>3, <1>7, <2>3
    <3>2. ~ (e <= n)
      BY <1>4, <1>6, <3>1 DEF ts
    <3> QED
      BY <1>1, <1>4, <1>5, <3>2 DEF Later
  <2>5. e = 1
    BY <1>5, <2>4 DEF Later
  <2>6. ASSUME NEW i \in 1 .. Len(h)
        PROVE  h[i].ts > w
    <3>1. 1 \in 1 .. Len(h) /\ 1 <= i
      BY <1>1, <1>2
    <3>2. h[1].ts <= h[i].ts
      BY <3>1 DEF Sorted
    <3>3. ts = h[1].ts /\ h[i].ts \in Nat /\ h[1].ts \in Nat
      BY <1>1, <2>5, <3>1 DEF ts
    <3> QED
      BY <2>1, <2>3, <3>2, <3>3
  <2> QED
    BY <2>1, <2>6, BalanceBefore
<1>12. Copied(u, b, 0)
  BY DEF UserGood
<1>13. \A w \in Weeks : b[w] = 0 /\ w \in Nat
  BY <1>12, WeekFacts DEF Copied
<1>14. Copied(u, b, week)
  <2>1. \A w \in Weeks : b[w] = IF StartTime <= w /\ w < week THEN BalanceOf(u, w) ELSE 0
    BY <1>11, <1>13
  <2>2. b \in [Weeks -> Nat]
    BY <1>12 DEF Copied
  <2> HIDE DEF b, week
  <2> QED
    BY <1>9, <1>10, <2>1, <2>2 DEF Copied
<1>15. StartOf(u) = [week |-> week, epoch |-> e, current |-> NoPoint, balances |-> b, done |-> FALSE]
  BY DEF StartOf, e, ts
<1>16. NoPoint \in Point /\ b \in [Weeks -> Nat]
  BY <1>12 DEF NoPoint, Point, Copied
<1> HIDE DEF week, b
<1>17. WalkIsGood(u, StartOf(u))
  <2>1. StartOf(u) \in WalkStates
    BY <1>6, <1>9, <1>15, <1>16 DEF WalkStates
  <2> QED
    BY <1>6, <1>9, <1>14, <1>15, <2>1 DEF WalkIsGood
<1>18. Starting(u, StartOf(u))
  BY <1>6, <1>9, <1>15 DEF Starting, PointAt, ts
<1> QED
  BY <1>9, <1>11, <1>15, <1>17, <1>18

(* The next ones start where the last one has ended.                       *)
LEMMA NextStart ==
  ASSUME Escrow, NEW u \in Users, Sorted(userHistory[u]), UserGood(u, userState[u], userBalanceAt[u]),
         userState[u].timeCursor # 0
  PROVE  WalkIsGood(u, StartOf(u)) /\ Starting(u, StartOf(u)) /\ StartOf(u).week = userState[u].timeCursor
<1> DEFINE h == userHistory[u]
           last == userState[u].lastEpochCheckpointed
           week == userState[u].timeCursor
           n == UserEpochAt(u, week, last, Len(h))
           e == FirstEpoch(u)
           b == userBalanceAt[u]
<1>1. Len(h) \in Nat
  BY UserPoints
<1>2. /\ last \in 1 .. Len(h) /\ h[last].ts <= week /\ week \in Nat /\ Copied(u, b, week)
      /\ StartTime <= userState[u].startTime /\ userState[u].startTime <= week /\ userState[u].startTime \in Nat
  BY DEF UserGood, UserStates, PointAt
<1>3. n \in last .. Len(h) /\ \A i \in 1 .. Len(h) : h[i].ts <= week <=> i <= n
  <2>1. last \in 0 .. Len(h)
    BY <1>2
  <2> QED
    BY <1>2, <2>1, SearchFacts
<1>4. e = Later(1, n) \/ e = Later(1, last)
  BY DEF FirstEpoch
<1> HIDE DEF n, last
<1>5. e \in 1 .. Len(h) /\ h[e].ts <= week
  <2>1. CASE e = Later(1, n)
    <3>1. e = n /\ n \in 1 .. Len(h)
      BY <1>1, <1>2, <1>3, <2>1 DEF Later
    <3> QED
      BY <1>3, <3>1
  <2>2. CASE e = Later(1, last)
    <3>1. e = last
      BY <1>1, <1>2, <2>2 DEF Later
    <3> QED
      BY <1>2, <3>1
  <2> QED
    BY <1>4, <2>1, <2>2
<1>6. e \in Nat \ {0} /\ e <= Len(h) + 1
  BY <1>1, <1>5
<1>7. StartOf(u) = [week |-> week, epoch |-> e, current |-> NoPoint, balances |-> b, done |-> FALSE]
  BY DEF StartOf
<1>8. NoPoint \in Point /\ b \in [Weeks -> Nat]
  BY <1>2 DEF NoPoint, Point, Copied
<1>9. StartTime <= week
  BY <1>2, FeeAssumption
<1> HIDE DEF week, b, e
<1>10. WalkIsGood(u, StartOf(u))
  <2>1. StartOf(u) \in WalkStates
    BY <1>2, <1>6, <1>7, <1>8 DEF WalkStates
  <2> QED
    BY <1>2, <1>6, <1>7, <1>9, <2>1 DEF WalkIsGood
<1>11. Starting(u, StartOf(u))
  BY <1>5, <1>7 DEF Starting, PointAt
<1> QED
  BY <1>7, <1>10, <1>11 DEF week

(* What a checkpoint of user u finds is good.                              *)
LEMMA CheckpointedUser ==
  ASSUME Escrow, NEW u \in Users, Sorted(userHistory[u]), UserGood(u, userState[u], userBalanceAt[u]),
         MayCheckpointUser(u)
  PROVE  UserGood(u, CheckpointUserBalance(u).state, CheckpointUserBalance(u).balances)
<1> DEFINE s == userState[u]
           end == Walk(u, StartOf(u))
           c == CheckpointUserBalance(u)
           first == s.timeCursor = 0
<1>1. CASE userHistory[u] = <<>> \/ (~ first /\ s.timeCursor >= now)
  <2>1. c = [state |-> s, balances |-> userBalanceAt[u]]
    BY <1>1 DEF CheckpointUserBalance
  <2> QED
    BY <2>1
<1>2. CASE ~ (userHistory[u] = <<>> \/ (~ first /\ s.timeCursor >= now))
  <2> DEFINE startTime == IF first THEN StartOf(u).week ELSE s.startTime
             k == [startTime |-> startTime, timeCursor |-> end.week, lastEpochCheckpointed |-> end.epoch - 1]
  <2>1. c = [state |-> k, balances |-> end.balances]
    BY <1>2 DEF CheckpointUserBalance, StartOf
  <2>2. WalkIsGood(u, StartOf(u)) /\ Starting(u, StartOf(u))
    BY <1>2, FirstStart, NextStart
  <2>3. WalkIsGood(u, end) /\ Walking(u, end) /\ StartOf(u).week <= end.week
    <3> DEFINE start == StartOf(u)
    <3>1. WalkIsGood(u, start) /\ Starting(u, start)
      BY <2>2
    <3> HIDE DEF start
    <3>2. WalkIsGood(u, Walk(u, start)) /\ Walking(u, Walk(u, start)) /\ start.week <= Walk(u, start).week
      BY <3>1, WalkIsGoodAtEnd
    <3> QED
      BY <3>2 DEF start
  <2>4. StartOf(u).week \in Nat /\ StartOf(u).week % WEEK = 0 /\ StartTime <= StartOf(u).week
    BY <2>2 DEF WalkIsGood, WalkStates, Copied
  <2>5. /\ startTime \in Nat /\ startTime % WEEK = 0 /\ StartTime <= startTime /\ startTime <= StartOf(u).week
        /\ \A w \in Weeks : StartTime <= w /\ w < startTime => BalanceOf(u, w) = 0
    <3>1. CASE first
      <4>1. \A w \in Weeks : StartTime <= w /\ w < StartOf(u).week => BalanceOf(u, w) = 0
        BY <1>2, <3>1, FirstStart
      <4>2. startTime = StartOf(u).week
        BY <3>1
      <4> QED
        BY <2>4, <4>1, <4>2
    <3>2. CASE ~ first
      <4>1. StartOf(u).week = s.timeCursor /\ startTime = s.startTime
        BY <3>2, NextStart
      <4> QED
        BY <3>2, <4>1 DEF UserGood, UserStates
    <3> QED
      BY <3>1, <3>2
  <2> HIDE DEF startTime, end
  <2>6. /\ end.week \in Nat /\ end.epoch \in Nat \ {0} /\ Copied(u, end.balances, end.week)
        /\ PointAt(u, end.epoch - 1, end.week)
    BY <2>3 DEF WalkIsGood, Walking, WalkStates
  <2>7. k \in UserStates
    <3>1. end.epoch - 1 \in Nat
      BY <2>6
    <3> QED
      BY <2>5, <2>6, <3>1 DEF UserStates
  <2>8. end.week # 0 /\ startTime <= end.week
    <3>1. StartTime \in Nat /\ StartTime > 0
      BY FeeAssumption, TimeAssumption
    <3> QED
      BY <2>3, <2>4, <2>5, <2>6, <3>1
  <2>9. UserGood(u, k, end.balances)
    BY <2>5, <2>6, <2>7, <2>8 DEF UserGood
  <2> QED
    BY <2>1, <2>9
<1> QED
  BY <1>1, <1>2

---------------------------------------------------------------------------
(* The supply, copied week by week.                                        *)

SupplyGood(cursor, cache) ==
    /\ cursor \in Nat /\ cursor % WEEK = 0 /\ StartTime <= cursor
    /\ \A w \in Weeks : StartTime <= w /\ w < cursor => w < now /\ cache[w] = TotalSupply(w)

(* A checkpoint copies the supply of weeks that have begun.                *)
LEMMA CheckpointedSupply ==
  ASSUME Escrow, FillsInTime, SupplyGood(timeCursor, veSupplyCache)
  PROVE  SupplyGood(CheckpointTotalSupply.cursor, CheckpointTotalSupply.cache)
<1>1. CASE CheckpointTotalSupply = SameSupply
  BY <1>1 DEF SameSupply
<1>2. CASE CheckpointTotalSupply = CopiedSupply /\ timeCursor <= RoundDown(now) /\ RoundDown(now) # now
  <2> DEFINE r == RoundDown(now)
             x == timeCursor + SupplyWeeks * WEEK
             end == Earlier(x, r + WEEK)
             cache == [w \in Weeks |-> IF timeCursor <= w /\ w < end THEN TotalSupplyIn(FilledHistory, w)
                                       ELSE veSupplyCache[w]]
  <2>1. CopiedSupply.cursor = end /\ CopiedSupply.cache = cache
    BY DEF CopiedSupply
  <2>2. now \in Nat /\ WEEK \in Nat /\ WEEK > 0 /\ SupplyWeeks \in Nat /\ SupplyWeeks >= 1 /\ StartTime \in Nat
    BY TimeAssumption, FeeAssumption DEF Escrow, Clock
  <2>3. timeCursor \in Nat /\ timeCursor % WEEK = 0 /\ StartTime <= timeCursor
        /\ \A w \in Weeks : StartTime <= w /\ w < timeCursor => w < now /\ veSupplyCache[w] = TotalSupply(w)
    BY DEF SupplyGood
  <2>4. r \in Nat /\ r <= now /\ r % WEEK = 0
    BY <2>2, RoundDownFacts
  <2>5. timeCursor <= r /\ r < now
    <3>1. timeCursor <= r /\ r # now
      BY <1>2
    <3> HIDE DEF r
    <3> QED
      BY <2>2, <2>4, <3>1
  <2>6. x \in Nat /\ x % WEEK = 0 /\ timeCursor <= x
    <3>1. SupplyWeeks * WEEK \in Nat
      BY <2>2
    <3>2. (timeCursor + SupplyWeeks * WEEK) % WEEK = 0
      BY <2>2, <2>3, WeeksLater
    <3> DEFINE y == SupplyWeeks * WEEK
    <3>3. y \in Nat /\ x = timeCursor + y
      BY <3>1
    <3> HIDE DEF y, x
    <3>4. x \in Nat /\ timeCursor <= x
      BY <2>3, <3>3
    <3> QED
      BY <3>2, <3>4 DEF x
  <2>7. (r + WEEK) % WEEK = 0 /\ r + WEEK \in Nat
    <3> HIDE DEF r
    <3> QED
      BY <2>2, <2>4, WeeksApart
  <2> HIDE DEF x, r
  <2>8. end \in Nat /\ end % WEEK = 0 /\ StartTime <= end /\ end <= r + WEEK
    BY <2>2, <2>3, <2>4, <2>5, <2>6, <2>7 DEF Earlier
  <2>9. ASSUME NEW w \in Weeks, w < end
        PROVE  w < now
    <3>1. w \in Nat /\ w % WEEK = 0
      BY WeekFacts
    <3>2. r < w => r + WEEK <= w
      BY <2>4, <3>1, WeeksApart
    <3> HIDE DEF end
    <3> QED
      BY <2>2, <2>4, <2>5, <2>8, <2>9, <3>1, <3>2
  <2>10. ASSUME NEW w \in Weeks, StartTime <= w, w < end
         PROVE  cache[w] = TotalSupply(w)
    <3>1. w < now /\ w \in Nat
      BY <2>9, <2>10, WeekFacts
    <3>2. CASE timeCursor <= w
      <4>1. cache[w] = TotalSupplyIn(FilledHistory, w)
        BY <2>10, <3>2
      <4>2. TotalSupplyIn(FilledHistory, w) = SupplyFrom(FilledHistory, slopeChanges, w)
        BY SupplyIs DEF SupplyFrom
      <4>3. SupplyFrom(FilledHistory, slopeChanges, w) = TotalSupply(w)
        BY <3>1, FilledSupply DEF Escrow
      <4> QED
        BY <4>1, <4>2, <4>3
    <3>3. CASE ~ (timeCursor <= w)
      <4>1. cache[w] = veSupplyCache[w]
        BY <3>3
      <4>2. w < timeCursor
        BY <2>3, <3>1, <3>3
      <4> QED
        BY <2>3, <2>10, <4>1, <4>2
    <3> QED
      BY <3>2, <3>3
  <2> HIDE DEF end, cache
  <2>11. SupplyGood(end, cache)
    BY <2>8, <2>9, <2>10 DEF SupplyGood
  <2> QED
    BY <1>2, <2>1, <2>11
<1>3. RoundDown(now) \in Nat /\ timeCursor \in Nat
  BY RoundDownFacts DEF Escrow, Clock, SupplyGood
<1> QED
  BY <1>1, <1>2, <1>3 DEF CheckpointTotalSupply

---------------------------------------------------------------------------
(* Shares.                                                                 *)

(* A sum of smaller terms is smaller.                                      *)
LEMMA SumMonotone ==
  ASSUME NEW S, IsFiniteSet(S), NEW f, NEW k, \A e \in S : f[e] \in Int /\ k[e] \in Int /\ f[e] <= k[e]
  PROVE  SumOf(f, S) \in Int /\ SumOf(k, S) \in Int /\ SumOf(f, S) <= SumOf(k, S)
<1> DEFINE d == [e \in S |-> k[e] - f[e]]
<1>1. \A e \in S : f[e] \in Int /\ d[e] \in Int /\ d[e] \in Nat /\ k[e] = f[e] + d[e]
  OBVIOUS
<1> HIDE DEF d
<1>2. SumOf(k, S) = SumOf(f, S) + SumOf(d, S)
  BY <1>1, SumLinear
<1>3. SumOf(d, S) \in Nat
  BY <1>1, SumOfNat
<1>4. SumOf(f, S) \in Int
  BY SumOfInt
<1> QED
  BY <1>2, <1>3, <1>4

\* The shares p of a by the parts d of a whole
Shares(p, S, a, d, whole) ==
    \A e \in S : d[e] \in Nat /\ p[e] = (a * d[e]) \div whole

(* The shares, rounded down, of parts that do not exceed the whole do not  *)
(* exceed what is shared.                                                  *)
LEMMA SharesFit ==
  ASSUME NEW S, IsFiniteSet(S), NEW a \in Nat, NEW whole \in Nat, whole > 0, NEW d, NEW p,
         Shares(p, S, a, d, whole), SumOf(d, S) <= whole
  PROVE  (\A e \in S : p[e] \in Nat) /\ SumOf(p, S) \in Nat /\ SumOf(p, S) <= a
<1> DEFINE k == [e \in S |-> d[e] * a]
           q == [e \in S |-> p[e] * whole]
<1>1. ASSUME NEW e \in S
      PROVE  /\ d[e] \in Nat /\ p[e] \in Nat /\ k[e] = d[e] * a /\ q[e] = p[e] * whole
             /\ k[e] \in Int /\ q[e] \in Int /\ q[e] <= k[e]
  <2> DEFINE x == a * d[e]
             y == p[e]
  <2>1. d[e] \in Nat /\ y = x \div whole
    BY DEF Shares
  <2>2. x \in Nat /\ k[e] = x
    BY <2>1
  <2>3. q[e] = y * whole
    OBVIOUS
  <2> HIDE DEF x, y, k, q
  <2>4. y \in Nat /\ y * whole <= x
    BY <2>1, <2>2
  <2>5. y * whole \in Int
    BY <2>4
  <2> QED
    BY <2>1, <2>2, <2>3, <2>4, <2>5 DEF y, k
<1> HIDE DEF k, q
<1>2. SumOf(k, S) = SumOf(d, S) * a
  BY <1>1, SumOfMultiples
<1>3. SumOf(q, S) = SumOf(p, S) * whole
  BY <1>1, SumOfMultiples
<1>4. SumOf(q, S) <= SumOf(k, S)
  BY <1>1, SumMonotone
<1>5. SumOf(d, S) \in Nat /\ SumOf(p, S) \in Nat
  BY <1>1, SumOfNat
<1> DEFINE m == SumOf(p, S)
           n == SumOf(d, S)
<1>6. m * whole <= n * a /\ m \in Nat /\ n \in Nat /\ n <= whole
  BY <1>2, <1>3, <1>4, <1>5
<1> HIDE DEF m, n
<1>7. n * a <= whole * a
  <2>1. (whole - n) \in Nat
    BY <1>6
  <2>2. (whole - n) * a \in Nat /\ whole * a = n * a + (whole - n) * a
    BY <1>6, <2>1
  <2>3. n * a \in Nat
    BY <1>6
  <2> QED
    BY <2>2, <2>3
<1>8. m <= a
  <2> SUFFICES ASSUME a < m
               PROVE  FALSE
    BY <1>6
  <2>1. m - a - 1 \in Nat
    BY <1>6
  <2>2. (m - a - 1) * whole \in Nat /\ m * whole = a * whole + whole + (m - a - 1) * whole
    BY <1>6, <2>1
  <2>3. a * whole = whole * a /\ a * whole \in Nat /\ n * a \in Nat /\ m * whole \in Nat
    BY <1>6
  <2> QED
    BY <1>6, <1>7, <2>2, <2>3
<1> QED
  BY <1>1, <1>5, <1>8 DEF m

---------------------------------------------------------------------------
(* The tokens of a week.                                                   *)

\* The time that week w has in common with that from last to now
Overlap(last, w) ==
    IF RoundDown(last) <= w /\ w <= now /\ w < RoundDown(last) + TokenWeeks * WEEK
    THEN Earlier(now, w + WEEK) - Later(last, w) ELSE 0

(* It is part of that time.                                                *)
LEMMA OverlapFacts ==
  ASSUME NEW last \in Nat, last <= now, now \in Nat, NEW w \in Nat, w % WEEK = 0
  PROVE  Overlap(last, w) \in Nat /\ Overlap(last, w) <= now - last
<1> DEFINE r == RoundDown(last)
<1>1. r \in Nat /\ r <= last /\ last < r + WEEK
  BY RoundDownFacts
<1>2. WEEK \in Nat /\ WEEK > 0
  BY TimeAssumption
<1>3. Overlap(last, w) = IF r <= w /\ w <= now /\ w < r + TokenWeeks * WEEK
                         THEN Earlier(now, w + WEEK) - Later(last, w) ELSE 0
  BY DEF Overlap
<1>4. CASE r <= w /\ w <= now
  <2> DEFINE d == Earlier(now, w + WEEK) - Later(last, w)
  <2>1. d \in Nat /\ d <= now - last
    <3> HIDE DEF r
    <3> QED
      BY <1>1, <1>2, <1>4 DEF Earlier, Later
  <2>2. Overlap(last, w) = d \/ Overlap(last, w) = 0
    BY <1>3
  <2> HIDE DEF d
  <2> QED
    BY <2>1, <2>2
<1>5. CASE ~ (r <= w /\ w <= now)
  BY <1>3, <1>5
<1> QED
  BY <1>4, <1>5

(* All weeks together have no more than the time there is in common with   *)
(* it.                                                                     *)
LEMMA OverlapsFit ==
  ASSUME NEW last \in Nat, last <= now, now \in Nat
  PROVE  SumOf([w \in Weeks |-> Overlap(last, w)], Weeks) <= now - last
<1> DEFINE d == [w \in Weeks |-> Overlap(last, w)]
           r == RoundDown(last)
           N == MaxTime + MAXTIME + 1
           until(n) == [w \in Weeks |-> IF w < r + n * WEEK THEN d[w] ELSE 0]
           B(n) == Later(last, Earlier(now, r + n * WEEK)) - last
           T == {n \in 0 .. N : SumOf(until(n), Weeks) <= B(n)}
<1>1. r \in Nat /\ r <= last /\ last < r + WEEK /\ r % WEEK = 0
  BY RoundDownFacts
<1>2. WEEK \in Nat /\ WEEK > 0 /\ N \in Nat /\ IsFiniteSet(Weeks)
  BY TimeAssumption, WeekFacts
<1>3. \A w \in Weeks : /\ w \in Nat /\ w % WEEK = 0 /\ d[w] \in Nat /\ d[w] = Overlap(last, w)
                       /\ w < r => d[w] = 0
  <2> TAKE w \in Weeks
  <2>1. w \in Nat /\ w % WEEK = 0
    BY WeekFacts
  <2>2. Overlap(last, w) \in Nat
    BY <2>1, OverlapFacts
  <2>3. w < r => Overlap(last, w) = 0
    <3>1. w < RoundDown(last) => ~ (RoundDown(last) <= w)
      BY <1>1, <2>1
    <3> QED
      BY <3>1 DEF Overlap
  <2> QED
    BY <2>1, <2>2, <2>3
<1> HIDE DEF d, r, N
<1>4. 0 \in T
  <2> DEFINE f == until(0)
  <2>1. \A w \in Weeks : f[w] = 0
    BY <1>1, <1>2, <1>3
  <2> HIDE DEF f
  <2>2. SumOf(f, Weeks) = 0
    BY <1>2, <2>1, SumOfZeros
  <2>3. B(0) = 0
    <3>1. r + 0 * WEEK = r
      BY <1>1, <1>2
    <3> QED
      BY <1>1, <3>1 DEF Later, Earlier
  <2>4. SumOf(until(0), Weeks) <= B(0)
    BY <2>2, <2>3 DEF f
  <2> QED
    BY <1>2, <2>4
<1>5. ASSUME NEW n \in 0 .. N, n + 1 \in 0 .. N, n \in T
      PROVE  n + 1 \in T
  <2> DEFINE v == r + n * WEEK
             f == until(n)
             k == until(n + 1)
             b == B(n)
             c == B(n + 1)
             x == IF v \in Weeks THEN d[v] ELSE 0
  <2>1. SumOf(f, Weeks) <= b
    BY <1>5
  <2>2. n \in Nat /\ n * WEEK \in Nat /\ (n + 1) * WEEK = n * WEEK + WEEK /\ (n > 0 => n * WEEK >= WEEK)
    <3>1. n \in Nat
      BY <1>2
    <3>2. n * WEEK \in Nat /\ (n + 1) * WEEK = n * WEEK + WEEK
      BY <1>2, <3>1
    <3>3. n > 0 => 0 * WEEK + WEEK <= n * WEEK
      BY <3>1, Multiples
    <3> QED
      BY <1>2, <3>1, <3>2, <3>3
  <2>3. v \in Nat /\ v % WEEK = 0 /\ r + (n + 1) * WEEK = v + WEEK /\ v >= r /\ (n > 0 => v >= r + WEEK) /\ (n = 0 => v = r)
    <3>1. (r + n * WEEK) % WEEK = 0
      BY <1>1, <2>2, WeeksLater
    <3>2. n = 0 => n * WEEK = 0
      BY <1>2
    <3> DEFINE y == n * WEEK
    <3>3. v = r + y /\ y \in Nat /\ r + (n + 1) * WEEK = r + (y + WEEK) /\ (n > 0 => y >= WEEK) /\ (n = 0 => y = 0)
      BY <2>2, <3>2
    <3> HIDE DEF y, v
    <3>4. v \in Nat /\ r + (n + 1) * WEEK = v + WEEK /\ v >= r /\ (n > 0 => v >= r + WEEK) /\ (n = 0 => v = r)
      BY <1>1, <1>2, <3>3
    <3> QED
      BY <3>1, <3>4 DEF v
  <2>4. /\ \A w \in Weeks : /\ f[w] = IF w < v THEN d[w] ELSE 0
                            /\ k[w] = IF w < v + WEEK THEN d[w] ELSE 0
        /\ b = Later(last, Earlier(now, v)) - last /\ c = Later(last, Earlier(now, v + WEEK)) - last
    BY <2>3
  <2> HIDE DEF v, f, k, b, c
  <2>5. \A w \in Weeks : w < v + WEEK => w <= v
    <3> TAKE w \in Weeks
    <3>1. w \in Nat /\ w % WEEK = 0
      BY <1>3
    <3>2. v < w => v + WEEK <= w
      BY <2>3, <3>1, WeeksApart
    <3> QED
      BY <1>2, <2>3, <3>1, <3>2
  <2>6. SumOf(k, Weeks) = SumOf(f, Weeks) + x /\ SumOf(f, Weeks) \in Int
    <3>1. \A w \in Weeks : f[w] \in Int
      BY <1>3, <2>4
    <3>2. SumOf(f, Weeks) \in Int
      BY <1>2, <3>1, SumOfInt
    <3>3. CASE v \in Weeks
      <4>1. x \in Int /\ x = d[v]
        BY <1>3, <3>3
      <4>2. \A w \in Weeks : k[w] = f[w] + (IF w = v THEN x ELSE 0)
        <5> TAKE w \in Weeks
        <5>1. w \in Nat /\ d[w] \in Nat
          BY <1>3
        <5>2. CASE w = v
          BY <1>2, <2>3, <2>4, <4>1, <5>1, <5>2
        <5>3. CASE w # v
          <6>1. w < v + WEEK <=> w < v
            BY <1>2, <2>3, <2>5, <5>1, <5>3
          <6> QED
            BY <2>4, <5>1, <5>3, <6>1
        <5> QED
          BY <5>2, <5>3
      <4> HIDE DEF x
      <4>3. SumOf(k, Weeks) = SumOf(f, Weeks) + x
        BY <1>2, <3>1, <3>3, <4>1, <4>2, SumOfChange
      <4> QED
        BY <3>2, <4>3
    <3>4. CASE v \notin Weeks
      <4>1. \A w \in Weeks : k[w] = f[w]
        <5> TAKE w \in Weeks
        <5>1. w < v + WEEK <=> w < v
          BY <1>2, <1>3, <2>3, <2>5, <3>4
        <5> QED
          BY <2>4, <5>1
      <4>2. SumOf(k, Weeks) = SumOf(f, Weeks)
        BY <1>2, <4>1, SumEqual
      <4> QED
        BY <3>2, <3>4, <4>2
    <3> QED
      BY <3>3, <3>4
  <2>7. b + x <= c /\ b \in Int /\ c \in Int /\ x \in Int
    <3> DEFINE o == Earlier(now, v + WEEK) - Later(last, v)
    <3>1. x = 0 \/ (x = o /\ v <= now)
      <4>1. v \in Weeks => d[v] = Overlap(last, v)
        BY <1>3
      <4>2. Overlap(last, v) = 0 \/ (Overlap(last, v) = o /\ v <= now)
        BY DEF Overlap
      <4> QED
        BY <4>1, <4>2
    <3>2. b \in Int /\ c \in Int /\ b <= c
      BY <1>2, <2>3, <2>4 DEF Earlier, Later
    <3>3. v <= now => b + o <= c /\ o \in Int
      BY <1>1, <1>2, <2>2, <2>3, <2>4 DEF Earlier, Later
    <3> HIDE DEF x, o
    <3> QED
      BY <3>1, <3>2, <3>3
  <2> HIDE DEF x
  <2>8. SumOf(k, Weeks) <= c
    BY <2>1, <2>6, <2>7
  <2> QED
    BY <1>5, <2>8 DEF k, c
<1>6. N \in T
  <2> HIDE DEF T
  <2>1. 0 .. N \subseteq T
    BY <1>2, <1>4, <1>5, UpTo
  <2>2. N \in 0 .. N
    BY <1>2
  <2> QED
    BY <2>1, <2>2
<1>7. SumOf(until(N), Weeks) <= now - last
  <2>1. SumOf(until(N), Weeks) <= B(N)
    BY <1>6
  <2>2. SumOf(until(N), Weeks) \in Int
    <3> DEFINE f == until(N)
    <3>1. \A w \in Weeks : f[w] \in Int
      BY <1>3
    <3> HIDE DEF f
    <3>2. SumOf(f, Weeks) \in Int
      BY <1>2, <3>1, SumOfInt
    <3> QED
      BY <3>2 DEF f
  <2>3. N * WEEK \in Int
    BY <1>2
  <2> DEFINE y == N * WEEK
             z == Later(last, Earlier(now, r + y)) - last
  <2>4. z \in Int /\ z <= now - last
    <3> HIDE DEF y
    <3> QED
      BY <1>1, <2>3 DEF Later, Earlier, y
  <2>5. SumOf(until(N), Weeks) <= z
    BY <2>1
  <2> DEFINE t == SumOf(until(N), Weeks)
  <2>6. t \in Int /\ t <= z
    BY <2>2, <2>5
  <2> HIDE DEF t, z
  <2>7. t <= now - last
    BY <2>4, <2>6
  <2> QED
    BY <2>7 DEF t
<1>8. SumOf(until(N), Weeks) = SumOf(d, Weeks)
  <2> DEFINE f == until(N)
  <2>1. \A w \in Weeks : w < r + N * WEEK
    <3> TAKE w \in Weeks
    <3>1. w \in Nat /\ w < N
      <4>1. MaxTime + MAXTIME \in Nat
        BY TimeAssumption
      <4> QED
        BY <4>1, WeekFacts DEF N
    <3>2. N <= N * WEEK /\ N * WEEK \in Nat
      <4>1. WEEK - 1 \in Nat
        BY <1>2
      <4>2. N * (WEEK - 1) \in Nat /\ N * WEEK = N + N * (WEEK - 1)
        BY <1>2, <4>1
      <4> QED
        BY <1>2, <4>2
    <3> DEFINE y == N * WEEK
    <3>3. N <= y /\ y \in Nat
      BY <3>2
    <3> HIDE DEF y
    <3>4. w < r + y
      BY <1>1, <1>2, <3>1, <3>3
    <3> QED
      BY <3>4 DEF y
  <2>2. \A w \in Weeks : f[w] = d[w]
    BY <2>1
  <2> HIDE DEF f
  <2>3. SumOf(f, Weeks) = SumOf(d, Weeks)
    BY <1>2, <2>2, SumEqual
  <2> QED
    BY <2>3 DEF f
<1> QED
  BY <1>7, <1>8 DEF d

(* What the weeks get of an amount: no more than there is, and nothing     *)
(* that is over; all of it when there is only this week.                   *)
LEMMA PortionFacts ==
  ASSUME Clock, NEW amount \in Nat, NEW last \in Nat, last <= now
  PROVE  /\ \A w \in Weeks : /\ Portion(amount, last, w) \in Nat
                             /\ w < RoundDown(last) => Portion(amount, last, w) = 0
         /\ SumOf([w \in Weeks |-> Portion(amount, last, w)], Weeks) <= amount
         /\ RoundDown(now) \in Weeks
         /\ RoundDown(now) = RoundDown(last) => Portion(amount, last, RoundDown(now)) = amount
<1> DEFINE p == [w \in Weeks |-> Portion(amount, last, w)]
           d == [w \in Weeks |-> Overlap(last, w)]
           r == RoundDown(last)
           now1 == RoundDown(now)
           whole == now - last
           in(w) == r <= w /\ w <= now /\ w < r + TokenWeeks * WEEK
           m == TokenWeeks * WEEK
<1>1. now \in Nat /\ WEEK \in Nat /\ WEEK > 0 /\ now <= MaxTime /\ MaxTime \in Nat /\ MAXTIME \in Nat /\ TokenWeeks \in Nat
      /\ TokenWeeks >= 1 /\ IsFiniteSet(Weeks) /\ whole \in Nat
  BY TimeAssumption, FeeAssumption, WeekFacts DEF Clock
<1>2. /\ r \in Nat /\ r <= last /\ last < r + WEEK /\ r % WEEK = 0
      /\ now1 \in Nat /\ now1 <= now /\ now < now1 + WEEK /\ now1 % WEEK = 0
  BY <1>1, RoundDownFacts
<1>3. now1 \in Weeks
  <2> HIDE DEF now1
  <2> QED
    BY <1>1, <1>2, WeekFacts
<1>4. m \in Nat /\ WEEK <= m
  <2>1. TokenWeeks - 1 \in Nat
    BY <1>1
  <2>2. (TokenWeeks - 1) * WEEK \in Nat /\ m = (TokenWeeks - 1) * WEEK + WEEK
    BY <1>1, <2>1
  <2> QED
    BY <1>1, <2>2
<1>5. \A w \in Weeks : /\ w \in Nat /\ w % WEEK = 0 /\ Overlap(last, w) \in Nat /\ d[w] = Overlap(last, w)
                       /\ p[w] = Portion(amount, last, w)
  <2> TAKE w \in Weeks
  <2>1. w \in Nat /\ w % WEEK = 0
    BY WeekFacts
  <2>2. Overlap(last, w) \in Nat
    BY <1>1, <2>1, OverlapFacts
  <2> QED
    BY <2>1, <2>2
<1>6. \A w \in Weeks : Portion(amount, last, w) = IF ~ in(w) THEN 0
                                                  ELSE IF last = now THEN amount
                                                  ELSE (amount * Overlap(last, w)) \div whole
  BY DEF Portion, Overlap
<1>7. \A w \in Weeks : ~ in(w) => Overlap(last, w) = 0
  BY DEF Overlap
<1>8. /\ \A w \in Weeks : Portion(amount, last, w) \in Nat
      /\ SumOf(p, Weeks) <= amount
  <2>1. CASE last = now
    <3>1. r = now1
      BY <2>1
    <3>2. \A w \in Weeks : in(w) => w = now1
      <4> SUFFICES ASSUME NEW w \in Weeks, in(w)
                   PROVE  w = now1
        OBVIOUS
      <4>1. w \in Nat /\ w % WEEK = 0 /\ now1 <= w /\ w <= now
        BY <1>5, <3>1
      <4>2. now1 < w => now1 + WEEK <= w
        BY <1>2, <4>1, WeeksApart
      <4> HIDE DEF now1
      <4> QED
        BY <1>1, <1>2, <4>1, <4>2
    <3>3. \A w \in Weeks : p[w] \in Nat /\ p[w] <= amount /\ (w # now1 => p[w] = 0)
      BY <1>5, <1>6, <2>1, <3>2
    <3> HIDE DEF p, now1
    <3>4. SumOf(p, Weeks) = p[now1]
      BY <1>1, <1>3, <3>3, SumOfOne
    <3> QED
      BY <1>3, <1>5, <3>3, <3>4
  <2>2. CASE last # now
    <3>1. whole > 0
      BY <1>1, <2>2
    <3>2. \A w \in Weeks : p[w] = (amount * d[w]) \div whole
      <4> TAKE w \in Weeks
      <4>1. CASE in(w)
        BY <1>5, <1>6, <2>2, <4>1
      <4>2. CASE ~ in(w)
        <5>1. Portion(amount, last, w) = 0 /\ Overlap(last, w) = 0
          BY <1>6, <1>7, <4>2
        <5>2. p[w] = 0 /\ d[w] = 0
          BY <1>5, <5>1
        <5> HIDE DEF p, d, whole
        <5>3. amount * d[w] = 0
          BY <5>2
        <5>4. 0 \div whole = 0
          BY <1>1, <3>1
        <5> QED
          BY <5>2, <5>3, <5>4
      <4> QED
        BY <4>1, <4>2
    <3>3. SumOf(d, Weeks) <= whole
      BY <1>1, OverlapsFit
    <3> HIDE DEF p, d, whole
    <3>4. Shares(p, Weeks, amount, d, whole)
      BY <1>5, <3>2 DEF Shares
    <3>5. (\A w \in Weeks : p[w] \in Nat) /\ SumOf(p, Weeks) <= amount
      BY <1>1, <3>1, <3>3, <3>4, SharesFit
    <3> QED
      BY <1>5, <3>5
  <2> QED
    BY <2>1, <2>2
<1>9. \A w \in Weeks : w < r => Portion(amount, last, w) = 0
  <2> SUFFICES ASSUME NEW w \in Weeks, w < r
               PROVE  ~ in(w)
    BY <1>6
  <2> HIDE DEF r
  <2> QED
    BY <1>2, <1>5
<1>10. ASSUME now1 = r
       PROVE  Portion(amount, last, now1) = amount
  <2>1. in(now1)
    <3> HIDE DEF m, now1, r
    <3>1. r <= now1 /\ now1 <= now /\ now1 < r + m
      BY <1>1, <1>2, <1>4, <1>10
    <3> QED
      BY <3>1 DEF m
  <2>2. CASE last = now
    BY <1>3, <1>6, <2>1, <2>2
  <2>3. CASE last # now
    <3>1. Overlap(last, now1) = Earlier(now, now1 + WEEK) - Later(last, now1)
      BY <2>1 DEF Overlap
    <3>2. Earlier(now, now1 + WEEK) = now /\ Later(last, now1) = last
      <4> HIDE DEF now1, r
      <4> QED
        BY <1>1, <1>2, <1>10 DEF Earlier, Later
    <3>3. Portion(amount, last, now1) = (amount * whole) \div whole
      BY <1>3, <1>6, <2>1, <2>3, <3>1, <3>2
    <3>4. whole > 0
      BY <1>1, <2>3
    <3> HIDE DEF whole
    <3>5. (amount * whole) \div whole = amount
      <4> DEFINE x == amount * whole
      <4>1. x \in Nat
        BY <1>1
      <4> DEFINE q == x \div whole
      <4>2. q \in Int /\ whole * q <= x /\ x < whole * q + whole
        <5> HIDE DEF x
        <5> QED
          BY <1>1, <3>4, <4>1
      <4>3. x = amount * whole
        OBVIOUS
      <4> HIDE DEF q, x
      <4>4. ~ (q < amount)
        <5> SUFFICES ASSUME q < amount
                     PROVE  FALSE
          OBVIOUS
        <5>1. amount - q - 1 \in Nat
          BY <4>2
        <5>2. (amount - q - 1) * whole \in Nat /\ amount * whole = whole * q + whole + (amount - q - 1) * whole
          BY <1>1, <4>2, <5>1
        <5>3. whole * q \in Int
          BY <1>1, <4>2
        <5> QED
          BY <1>1, <4>1, <4>2, <4>3, <5>2, <5>3
      <4>5. ~ (amount < q)
        <5> SUFFICES ASSUME amount < q
                     PROVE  FALSE
          OBVIOUS
        <5>1. q - amount - 1 \in Nat
          BY <4>2
        <5>2. (q - amount - 1) * whole \in Nat /\ whole * q = amount * whole + whole + (q - amount - 1) * whole
          BY <1>1, <4>2, <5>1
        <5> QED
          BY <1>1, <3>4, <4>1, <4>2, <4>3, <5>2
      <4> QED
        BY <4>2, <4>4, <4>5 DEF q, x
    <3> QED
      BY <3>3, <3>5
  <2> QED
    BY <2>2, <2>3
<1> QED
  BY <1>3, <1>8, <1>9, <1>10

TokenStates == [startTime : Nat, timeCursor : Nat, cachedBalance : Int, perWeek : [Weeks -> Nat]]

\* What the contract, with h tokens, knows of them
TokenGood(k, h) ==
    /\ k \in TokenStates /\ h \in Nat
    /\ k.cachedBalance <= h /\ k.timeCursor <= now
    /\ IF k.timeCursor = 0 THEN k.startTime = 0
       ELSE StartTime <= k.startTime /\ k.startTime <= k.timeCursor /\ k.startTime % WEEK = 0
    /\ \A w \in Weeks : k.timeCursor = 0 \/ w < k.startTime => k.perWeek[w] = 0

\* n comes later than k: no week that is over has got more, and all weeks
\* no more than what has come
TokenLater(k, n) ==
    /\ n.timeCursor # 0 /\ k.timeCursor <= n.timeCursor
    /\ \A w \in Weeks : w < RoundDown(k.timeCursor) => n.perWeek[w] = k.perWeek[w]
    /\ \A w \in Weeks : k.perWeek[w] <= n.perWeek[w]
    /\ SumOf(n.perWeek, Weeks) - SumOf(k.perWeek, Weeks) <= n.cachedBalance - k.cachedBalance

(* A checkpoint of the token spreads what has come over the weeks that are *)
(* not over.                                                               *)
LEMMA TokenCheckpointed ==
  ASSUME Clock, NEW k, NEW h, TokenGood(k, h), NEW balance \in Nat, h <= balance, NEW force \in BOOLEAN,
         k.timeCursor # 0 \/ now > StartTime
  PROVE  /\ TokenGood(TokenCheckpoint(k, balance, force), balance)
         /\ TokenLater(k, TokenCheckpoint(k, balance, force))
<1> DEFINE n == TokenCheckpoint(k, balance, force)
           first == k.timeCursor = 0
           last == IF first THEN now ELSE k.timeCursor
           amount == balance - k.cachedBalance
           p == [w \in Weeks |-> Portion(amount, last, w)]
           per == [w \in Weeks |-> k.perWeek[w] + Portion(amount, last, w)]
           start == IF first THEN RoundDown(now) ELSE k.startTime
<1>1. /\ now \in Nat /\ StartTime \in Nat /\ StartTime % WEEK = 0 /\ IsFiniteSet(Weeks)
      /\ StartTime > 0 /\ WEEK \in Nat
  <2>1. DeployTime \in Nat /\ StartTime \in Nat /\ DeployTime < StartTime /\ StartTime % WEEK = 0 /\ WEEK \in Nat
    BY TimeAssumption, FeeAssumption
  <2> QED
    BY <2>1, WeekFacts DEF Clock
<1>2. /\ k \in TokenStates /\ k.startTime \in Nat /\ k.timeCursor \in Nat /\ k.cachedBalance \in Int
      /\ k.perWeek \in [Weeks -> Nat] /\ k.cachedBalance <= h /\ h \in Nat /\ k.timeCursor <= now
  BY DEF TokenGood, TokenStates
<1>3. /\ ~ first => StartTime <= k.startTime /\ k.startTime <= k.timeCursor /\ k.startTime % WEEK = 0
      /\ \A w \in Weeks : first \/ w < k.startTime => k.perWeek[w] = 0
  BY DEF TokenGood
<1>4. amount \in Nat /\ last \in Nat /\ last <= now /\ last # 0
  BY <1>1, <1>2
<1>5. CASE ~first /\ ~force /\ Skips(last)
  <2>1. n = k
    BY <1>5 DEF TokenCheckpoint
  <2>2. TokenGood(k, balance)
    BY <1>2 DEF TokenGood
  <2>3. \A w \in Weeks : k.perWeek[w] \in Int
    BY <1>2
  <2> DEFINE f == k.perWeek
  <2>4. SumOf(f, Weeks) \in Int
    <3>1. \A w \in Weeks : f[w] \in Int
      BY <2>3
    <3> HIDE DEF f
    <3> QED
      BY <1>1, <3>1, SumOfInt
  <2>5. \A w \in Weeks : k.perWeek[w] <= k.perWeek[w]
    BY <2>3
  <2>6. TokenLater(k, k)
    BY <1>2, <1>5, <2>4, <2>5 DEF TokenLater
  <2> QED
    BY <2>1, <2>2, <2>6
<1>6. CASE ~ (~first /\ ~force /\ Skips(last))
  <2>1. n = [startTime |-> start, timeCursor |-> now, cachedBalance |-> balance, perWeek |-> per]
    BY <1>6 DEF TokenCheckpoint
  <2>2. /\ \A w \in Weeks : /\ Portion(amount, last, w) \in Nat
                            /\ w < RoundDown(last) => Portion(amount, last, w) = 0
        /\ SumOf([w \in Weeks |-> Portion(amount, last, w)], Weeks) <= amount
    <3> HIDE DEF amount, last
    <3> QED
      BY <1>4, PortionFacts
  <2>3. /\ \A w \in Weeks : /\ p[w] \in Nat /\ per[w] = k.perWeek[w] + p[w] /\ k.perWeek[w] \in Nat
                            /\ w < RoundDown(last) => p[w] = 0
        /\ SumOf(p, Weeks) <= amount
        /\ per \in [Weeks -> Nat]
    BY <1>2, <2>2
  <2>4. RoundDown(now) \in Nat /\ RoundDown(now) <= now /\ now < RoundDown(now) + WEEK /\ RoundDown(now) % WEEK = 0
    BY <1>1, RoundDownFacts
  <2>5. start \in Nat /\ StartTime <= start /\ start <= now /\ start % WEEK = 0
    <3> DEFINE r == RoundDown(now)
    <3>1. CASE first
      <4>1. now > StartTime /\ start = r
        BY <1>2, <3>1
      <4>2. r < StartTime => r + WEEK <= StartTime
        BY <1>1, <2>4, WeeksApart
      <4>3. r \in Nat /\ r <= now /\ now < r + WEEK /\ r % WEEK = 0
        BY <2>4
      <4> HIDE DEF r
      <4> QED
        BY <1>1, <4>1, <4>2, <4>3
    <3>2. CASE ~ first
      BY <1>1, <1>2, <1>3, <3>2
    <3> QED
      BY <3>1, <3>2
  <2>6. \A w \in Weeks : w < start => per[w] = 0
    <3> SUFFICES ASSUME NEW w \in Weeks, w < start
                 PROVE  per[w] = 0
      OBVIOUS
    <3>1. k.perWeek[w] = 0
      BY <1>3
    <3>2. start <= RoundDown(last)
      <4>1. CASE first
        BY <2>4, <4>1
      <4>2. CASE ~ first
        <5> DEFINE r == RoundDown(k.timeCursor)
        <5>1. r \in Nat /\ k.timeCursor < r + WEEK /\ r % WEEK = 0
          BY <1>2, RoundDownFacts
        <5>2. r < k.startTime => r + WEEK <= k.startTime
          BY <1>2, <1>3, <4>2, <5>1, WeeksApart
        <5>3. k.startTime <= k.timeCursor
          BY <1>3, <4>2
        <5> HIDE DEF r
        <5>4. k.startTime <= r
          BY <1>1, <1>2, <5>1, <5>2, <5>3
        <5> QED
          BY <4>2, <5>4 DEF r
      <4> QED
        BY <4>1, <4>2
    <3>3. w \in Nat /\ RoundDown(last) \in Nat
      BY <1>4, WeekFacts, RoundDownFacts
    <3>4. w < RoundDown(last)
      <4> HIDE DEF start, last
      <4> QED
        BY <2>5, <3>2, <3>3
    <3>5. p[w] = 0
      BY <2>3, <3>4
    <3> HIDE DEF p, per, start
    <3> QED
      BY <2>3, <3>1, <3>5
  <2>7. \A w \in Weeks : w < RoundDown(k.timeCursor) => p[w] = 0
    <3>1. CASE first
      <4> SUFFICES ASSUME NEW w \in Weeks
                   PROVE  ~ (w < RoundDown(k.timeCursor))
        OBVIOUS
      <4>1. RoundDown(k.timeCursor) <= k.timeCursor /\ RoundDown(k.timeCursor) \in Nat /\ w \in Nat
        BY <1>2, WeekFacts, RoundDownFacts
      <4> QED
        BY <3>1, <4>1
    <3>2. CASE ~ first
      BY <2>3, <3>2
    <3> QED
      BY <3>1, <3>2
  <2> DEFINE f == k.perWeek
  <2>8. /\ \A w \in Weeks : f[w] \in Int /\ p[w] \in Int /\ per[w] = f[w] + p[w] /\ f[w] \in Nat /\ p[w] \in Nat
        /\ SumOf(p, Weeks) <= amount
        /\ \A w \in Weeks : w < RoundDown(k.timeCursor) => p[w] = 0
    BY <2>3, <2>7
  <2> HIDE DEF f, p, per
  <2>9. SumOf(per, Weeks) = SumOf(f, Weeks) + SumOf(p, Weeks) /\ SumOf(f, Weeks) \in Int /\ SumOf(p, Weeks) \in Int
    BY <1>1, <2>8, SumLinear, SumOfInt
  <2> HIDE DEF n, start, amount
  <2>10. /\ n.startTime = start /\ n.timeCursor = now /\ n.cachedBalance = balance /\ n.perWeek = per
    BY <2>1
  <2>11. n \in TokenStates
    BY <1>1, <2>1, <2>3, <2>5 DEF TokenStates
  <2>12. now # 0
    BY <1>1, <1>4
  <2>13. TokenGood(n, balance)
    BY <1>1, <2>5, <2>6, <2>10, <2>11, <2>12 DEF TokenGood
  <2>14. \A w \in Weeks : w < RoundDown(k.timeCursor) => n.perWeek[w] = k.perWeek[w]
    <3> SUFFICES ASSUME NEW w \in Weeks, w < RoundDown(k.timeCursor)
                 PROVE  n.perWeek[w] = k.perWeek[w]
      OBVIOUS
    <3>1. per[w] = f[w] + 0 /\ f[w] \in Int
      BY <2>8
    <3> QED
      BY <2>10, <3>1 DEF f
  <2>15. \A w \in Weeks : k.perWeek[w] <= n.perWeek[w]
    <3> SUFFICES ASSUME NEW w \in Weeks
                 PROVE  k.perWeek[w] <= n.perWeek[w]
      OBVIOUS
    <3>1. f[w] <= per[w]
      BY <2>8
    <3> QED
      BY <2>10, <3>1 DEF f
  <2>16. SumOf(n.perWeek, Weeks) - SumOf(k.perWeek, Weeks) <= n.cachedBalance - k.cachedBalance
    <3>1. SumOf(n.perWeek, Weeks) = SumOf(per, Weeks) /\ SumOf(k.perWeek, Weeks) = SumOf(f, Weeks)
      BY <2>10 DEF f
    <3>2. n.cachedBalance - k.cachedBalance = amount
      BY <2>10 DEF amount
    <3> DEFINE x == SumOf(n.perWeek, Weeks)
               y == SumOf(k.perWeek, Weeks)
               a == SumOf(f, Weeks)
               b == SumOf(p, Weeks)
               c == SumOf(per, Weeks)
    <3>3. x = c /\ y = a /\ c = a + b /\ a \in Int /\ b \in Int /\ b <= amount
      BY <2>8, <2>9, <3>1
    <3> HIDE DEF x, y, a, b, c
    <3>4. x - y <= amount
      BY <3>3
    <3> QED
      BY <3>2, <3>4 DEF x, y
  <2>17. TokenLater(k, n)
    BY <1>2, <2>10, <2>12, <2>14, <2>15, <2>16 DEF TokenLater
  <2> QED
    BY <2>13, <2>17 DEF n
<1> QED
  BY <1>5, <1>6

---------------------------------------------------------------------------
(* What users are due, by a table b of the balances of the weeks.          *)

TableType == [Users -> [Weeks -> Nat]]
BalanceTable == [u \in Users |-> [w \in Weeks |-> BalanceOf(u, w)]]

SupplyIn(b, w) == SumOf(Column(b, Users, w), Users)
DueOf(b, p, u, w) == IF SupplyIn(b, w) = 0 THEN 0 ELSE (p[w] * b[u][w]) \div SupplyIn(b, w)
DuesBefore(b, p, u, c) == [w \in Weeks |-> IF w < c THEN DueOf(b, p, u, w) ELSE 0]

(* The table of the balances there are.                                    *)
LEMMA TableFacts ==
  ASSUME Escrow
  PROVE  /\ BalanceTable \in TableType
         /\ \A u \in Users, w \in Weeks : BalanceTable[u][w] = BalanceOf(u, w) /\ BalanceOf(u, w) \in Nat
         /\ \A w \in Weeks : w < now => TotalSupply(w) = SupplyIn(BalanceTable, w)
<1>1. ASSUME NEW u \in Users, NEW w \in Weeks
      PROVE  BalanceOf(u, w) \in Nat
  <2> DEFINE h == userHistory[u]
             e == EpochAt(h, w)
  <2>1. w \in Nat
    BY WeekFacts
  <2>2. h \in Seq(Point) /\ Len(h) \in Nat /\ \A i \in 1 .. Len(h) : h[i] \in Point
    BY UserPoints
  <2>3. BalanceOf(u, w) = IF e = 0 THEN 0 ELSE BalanceAtPoint(h[e], w)
    BY DEF BalanceOf
  <2>4. e \in 0 .. Len(h)
    <3> HIDE DEF h
    <3> QED
      BY <2>1, <2>2, EpochFacts
  <2>5. CASE e = 0
    BY <2>3, <2>5
  <2>6. CASE e # 0
    <3> HIDE DEF h, e
    <3>1. e \in 1 .. Len(h)
      BY <2>2, <2>4, <2>6
    <3>2. BalanceAtPoint(h[e], w) \in Nat
      BY <2>1, <2>2, <3>1, BalanceAtPointFacts
    <3> QED
      BY <2>3, <2>6, <3>2
  <2> QED
    BY <2>5, <2>6
<1>2. \A u \in Users, w \in Weeks : BalanceTable[u][w] = BalanceOf(u, w)
  BY DEF BalanceTable
<1>3. BalanceTable \in TableType
  BY <1>1 DEF BalanceTable, TableType
<1>4. ASSUME NEW w \in Weeks, w < now
      PROVE  TotalSupply(w) = SupplyIn(BalanceTable, w)
  <2>1. TotalSupply(w) = SumOf(Balances(w), Users)
    BY <1>4 DEF Escrow, PastAgrees, Agrees
  <2>2. Column(BalanceTable, Users, w) = Balances(w)
    BY <1>2 DEF Column, Balances
  <2> QED
    BY <2>1, <2>2 DEF SupplyIn
<1> QED
  BY <1>1, <1>2, <1>3, <1>4

(* What is due is a natural number, and nothing without tokens or without  *)
(* a balance.                                                              *)
LEMMA DueFacts ==
  ASSUME NEW b \in TableType, NEW p \in [Weeks -> Nat], NEW u \in Users, NEW w \in Weeks
  PROVE  /\ DueOf(b, p, u, w) \in Nat /\ SupplyIn(b, w) \in Nat
         /\ p[w] = 0 \/ b[u][w] = 0 => DueOf(b, p, u, w) = 0
<1> DEFINE f == Column(b, Users, w)
           s == SupplyIn(b, w)
           x == p[w] * b[u][w]
<1>1. \A v \in Users : f[v] \in Nat
  BY DEF TableType, Column
<1>2. s = SumOf(f, Users) /\ IsFiniteSet(Users)
  BY TimeAssumption DEF SupplyIn
<1>3. p[w] \in Nat /\ b[u][w] \in Nat
  BY DEF TableType
<1>4. x \in Nat /\ (p[w] = 0 \/ b[u][w] = 0 => x = 0)
  BY <1>3
<1>5. DueOf(b, p, u, w) = IF s = 0 THEN 0 ELSE x \div s
  BY DEF DueOf
<1> HIDE DEF f, s, x
<1>6. s \in Nat
  BY <1>1, <1>2, SumOfNat
<1>7. s # 0 => x \div s \in Nat /\ 0 \div s = 0
  BY <1>4, <1>6
<1> QED
  BY <1>4, <1>5, <1>6, <1>7 DEF s

(* All users together are due no more than the tokens of the week.         *)
LEMMA DuesFit ==
  ASSUME NEW b \in TableType, NEW p \in [Weeks -> Nat], NEW w \in Weeks
  PROVE  SumOf([u \in Users |-> DueOf(b, p, u, w)], Users) <= p[w]
<1> DEFINE d == Column(b, Users, w)
           q == [u \in Users |-> DueOf(b, p, u, w)]
           s == SupplyIn(b, w)
           a == p[w]
<1>1. \A u \in Users : d[u] \in Nat /\ d[u] = b[u][w]
  BY DEF TableType, Column
<1>2. s = SumOf(d, Users) /\ IsFiniteSet(Users) /\ a \in Nat
  BY TimeAssumption DEF SupplyIn
<1>3. \A u \in Users : q[u] = IF s = 0 THEN 0 ELSE (a * d[u]) \div s
  BY <1>1 DEF DueOf
<1> HIDE DEF d, s, q, a
<1>4. s \in Nat
  BY <1>1, <1>2, SumOfNat
<1>5. CASE s = 0
  <2>1. SumOf(q, Users) = 0
    BY <1>2, <1>3, <1>5, SumOfZeros
  <2> QED
    BY <1>2, <2>1 DEF q, a
<1>6. CASE s # 0
  <2>1. Shares(q, Users, a, d, s)
    BY <1>1, <1>3, <1>6 DEF Shares
  <2>2. s > 0 /\ SumOf(d, Users) <= s
    BY <1>2, <1>4, <1>6
  <2>3. SumOf(q, Users) <= a
    BY <1>2, <1>4, <2>1, <2>2, SharesFit
  <2> QED
    BY <2>3 DEF q, a
<1> QED
  BY <1>5, <1>6

(* At t, user u has received r, the dues of all weeks before c; those      *)
(* weeks have begun, and their tokens or the user's part are final.        *)
ClaimGood(t, b, u, k, c, r) ==
    /\ c \in Nat /\ (c # 0 => StartTime <= c)
    /\ r = SumOf(DuesBefore(b, k.perWeek, u, c), Weeks)
    /\ \A w \in Weeks : w < c => w < t /\ (w < RoundDown(k.timeCursor) \/ b[u][w] = 0)

\* Two tables are the same before t
SameBefore(b, d, t) == \A u \in Users, w \in Weeks : w < t => d[u][w] = b[u][w]

(* It stays so with time and when more tokens come.                        *)
LEMMA ClaimLater ==
  ASSUME NEW t \in Nat, NEW s \in Nat, t <= s, NEW b \in TableType, NEW d \in TableType, SameBefore(b, d, t),
         NEW u \in Users, NEW k \in TokenStates, NEW n \in TokenStates, k.timeCursor <= n.timeCursor,
         \A w \in Weeks : w < RoundDown(k.timeCursor) => n.perWeek[w] = k.perWeek[w],
         NEW c, NEW r, ClaimGood(t, b, u, k, c, r)
  PROVE  ClaimGood(s, d, u, n, c, r)
<1> DEFINE p == k.perWeek
           q == n.perWeek
           x == DuesBefore(b, p, u, c)
           y == DuesBefore(d, q, u, c)
           from == RoundDown(k.timeCursor)
           to == RoundDown(n.timeCursor)
<1>1. p \in [Weeks -> Nat] /\ q \in [Weeks -> Nat] /\ k.timeCursor \in Nat /\ n.timeCursor \in Nat
  BY DEF TokenStates
<1>2. /\ c \in Nat /\ (c # 0 => StartTime <= c) /\ r = SumOf(x, Weeks)
      /\ \A w \in Weeks : w < c => w < t /\ (w < from \/ b[u][w] = 0)
  BY DEF ClaimGood
<1>3. from <= to /\ from \in Nat /\ to \in Nat
  <2> DEFINE m == k.timeCursor
             j == n.timeCursor
  <2>1. from \in Nat /\ from <= m /\ from % WEEK = 0 /\ to \in Nat /\ j < to + WEEK /\ to % WEEK = 0
    BY <1>1, RoundDownFacts
  <2>2. to < from => to + WEEK <= from
    BY <2>1, WeeksApart
  <2>3. WEEK \in Nat /\ m <= j /\ m \in Nat /\ j \in Nat
    BY <1>1, TimeAssumption
  <2> HIDE DEF from, to, m, j
  <2> QED
    BY <2>1, <2>2, <2>3
<1>4. \A w \in Weeks : w \in Nat
  BY WeekFacts
<1>5. ASSUME NEW w \in Weeks, w < c
      PROVE  w < s /\ (w < to \/ d[u][w] = 0)
  <2>1. w < t /\ (w < from \/ b[u][w] = 0)
    BY <1>2, <1>5
  <2>2. d[u][w] = b[u][w]
    BY <2>1 DEF SameBefore
  <2> HIDE DEF from, to
  <2>3. w < s /\ (w < from => w < to)
    BY <1>3, <1>4, <2>1
  <2> QED
    BY <2>1, <2>2, <2>3
<1>6. ASSUME NEW w \in Weeks
      PROVE  x[w] = y[w]
  <2>1. CASE ~ (w < c)
    BY <2>1 DEF DuesBefore
  <2>2. CASE w < c
    <3>1. x[w] = DueOf(b, p, u, w) /\ y[w] = DueOf(d, q, u, w)
      BY <2>2 DEF DuesBefore
    <3>2. w < t /\ (w < from \/ b[u][w] = 0)
      BY <1>2, <2>2
    <3>3. \A v \in Users : d[v][w] = b[v][w]
      BY <3>2 DEF SameBefore
    <3>4. Column(d, Users, w) = Column(b, Users, w)
      BY <3>3 DEF Column
    <3>5. SupplyIn(d, w) = SupplyIn(b, w)
      BY <3>4 DEF SupplyIn
    <3>6. CASE b[u][w] = 0
      <4> HIDE DEF p, q
      <4>1. DueOf(b, p, u, w) = 0 /\ DueOf(d, q, u, w) = 0
        BY <1>1, <3>3, <3>6, DueFacts
      <4> QED
        BY <3>1, <4>1 DEF p, q
    <3>7. CASE w < from
      <4>1. q[w] = p[w]
        BY <3>7
      <4>2. DueOf(d, q, u, w) = DueOf(b, p, u, w)
        BY <3>3, <3>5, <4>1 DEF DueOf
      <4> QED
        BY <3>1, <4>2
    <3> QED
      BY <3>2, <3>6, <3>7
  <2> QED
    BY <2>1, <2>2
<1>7. SumOf(y, Weeks) = SumOf(x, Weeks)
  <2> HIDE DEF x, y
  <2> QED
    BY <1>6, WeekFacts, SumEqual
<1> QED
  BY <1>2, <1>5, <1>7 DEF ClaimGood

---------------------------------------------------------------------------
(* A claim.                                                                *)

ClaimAmount(p, b, s, weeks) == MapThenSumSet(LAMBDA w : (p[w] * b[w]) \div s[w], weeks)

(* The amount of a claim adds up a function.                               *)
LEMMA AmountSum ==
  ASSUME NEW p, NEW b, NEW s, NEW S, IsFiniteSet(S)
  PROVE  ClaimAmount(p, b, s, S) = SumOf([w \in S |-> (p[w] * b[w]) \div s[w]], S)
<1> DEFINE f == [w \in S |-> (p[w] * b[w]) \div s[w]]
           E(h) == h = [r \in SUBSET S |-> IF r = {} THEN 0
                          ELSE ((p[Picked(r)] * b[Picked(r)]) \div s[Picked(r)]) + h[r \ {Picked(r)}]]
<1>1. ClaimAmount(p, b, s, S) = (CHOOSE h : E(h))[S]
  BY DEF ClaimAmount, MapThenSumSet, MapThenFoldSet, Picked
<1>2. \A r \in SUBSET S : r # {} => f[Picked(r)] = (p[Picked(r)] * b[Picked(r)]) \div s[Picked(r)]
  BY PickedIsElement
<1> HIDE DEF f
<1>3. \A h : E(h) <=> IsSum(h, f, S)
  BY <1>2 DEF IsSum
<1> HIDE DEF E
<1>4. PICK k : IsSum(k, f, S) /\ SumOf(f, S) = k[S]
  BY SumIs
<1>5. (CHOOSE h : E(h))[S] = k[S]
  <2> DEFINE x == CHOOSE h : E(h)
  <2>1. IsSum(x, f, S)
    BY <1>3, <1>4
  <2> HIDE DEF x
  <2>2. x[S] = k[S]
    BY <1>4, <2>1, SumUnique
  <2> QED
    BY <2>2 DEF x
<1> QED
  BY <1>1, <1>4, <1>5 DEF f

\* Where the weeks of a claim begin and end
EndOf(u, supply, user, k) ==
    Later(ClaimStart(u, user, k),
          Earlier(FirstUnclaimableWeek(supply, user, k), ClaimStart(u, user, k) + ClaimWeeks * WEEK))
WeeksOf(u, supply, user, k) ==
    {w \in ClaimStart(u, user, k) .. EndOf(u, supply, user, k) - 1 : w % WEEK = 0}

\* The state of user u once paid amount until the week end
PaidOut(u, k, amount, end) ==
    /\ amount <= held
    /\ token' = [k EXCEPT !.cachedBalance = @ - amount]
    /\ userTokenTimeCursor' = [userTokenTimeCursor EXCEPT ![u] = end]
    /\ held' = held - amount
    /\ received' = [received EXCEPT ![u] = @ + amount]

(* It begins with the first week that was not claimed: what was before     *)
(* it, in a first claim, is not due.  It ends before the copies do.        *)
LEMMA ClaimRange ==
  ASSUME Escrow, NEW u \in Users, NEW supply, SupplyGood(supply.cursor, supply.cache),
         NEW user, UserGood(u, user.state, user.balances), NEW k, NEW h, TokenGood(k, h), k.timeCursor # 0,
         ClaimGood(now, BalanceTable, u, k, userTokenTimeCursor[u], received[u])
  PROVE  /\ ClaimStart(u, user, k) \in Nat /\ StartTime <= ClaimStart(u, user, k)
         /\ EndOf(u, supply, user, k) \in Nat /\ ClaimStart(u, user, k) <= EndOf(u, supply, user, k)
         /\ userTokenTimeCursor[u] <= ClaimStart(u, user, k)
         /\ \A w \in WeeksOf(u, supply, user, k) :
              /\ w \in Weeks /\ w < now /\ w < RoundDown(k.timeCursor)
              /\ user.balances[w] = BalanceTable[u][w] /\ supply.cache[w] = SupplyIn(BalanceTable, w)
         /\ \A w \in Weeks : /\ userTokenTimeCursor[u] <= w
                             /\ w < ClaimStart(u, user, k)
                             => k.perWeek[w] = 0 \/ BalanceTable[u][w] = 0
         /\ \A w \in Weeks : w < ClaimStart(u, user, k) =>
              w < now /\ (w < RoundDown(k.timeCursor) \/ BalanceTable[u][w] = 0)
<1> DEFINE c == userTokenTimeCursor[u]
           start == ClaimStart(u, user, k)
           end == EndOf(u, supply, user, k)
           m == Earlier(supply.cursor, user.state.timeCursor)
           to == RoundDown(k.timeCursor)
           us == user.state.startTime
           uc == user.state.timeCursor
           ks == k.startTime
           kc == k.timeCursor
           sc == supply.cursor
           b == BalanceTable
           x == ClaimWeeks * WEEK
<1>1. /\ now \in Nat /\ StartTime \in Nat /\ StartTime > 0 /\ WEEK \in Nat /\ ClaimWeeks \in Nat
      /\ now <= MaxTime /\ MaxTime \in Nat /\ MAXTIME \in Nat /\ StartTime % WEEK = 0
  <2>1. DeployTime \in Nat /\ StartTime \in Nat /\ DeployTime < StartTime
    BY TimeAssumption, FeeAssumption
  <2> QED
    BY <2>1, TimeAssumption, FeeAssumption DEF Escrow, Clock
<1>2. /\ \A u1 \in Users, w \in Weeks : b[u1][w] = BalanceOf(u1, w) /\ BalanceOf(u1, w) \in Nat
      /\ \A w \in Weeks : w < now => TotalSupply(w) = SupplyIn(b, w)
  BY TableFacts
<1>3. /\ us \in Nat /\ uc \in Nat
      /\ \A w \in Weeks : w < uc => w < now
      /\ \A w \in Weeks : StartTime <= w /\ w < uc => user.balances[w] = BalanceOf(u, w)
      /\ uc = 0 => us = 0
      /\ uc # 0 => /\ us <= uc /\ us % WEEK = 0 /\ StartTime <= us
                   /\ \A w \in Weeks : StartTime <= w /\ w < us => BalanceOf(u, w) = 0
  BY DEF UserGood, UserStates, Copied
<1>4. /\ sc \in Nat
      /\ \A w \in Weeks : StartTime <= w /\ w < sc => w < now /\ supply.cache[w] = TotalSupply(w)
  BY DEF SupplyGood
<1>5. /\ ks \in Nat /\ kc \in Nat /\ kc <= now /\ StartTime <= ks /\ ks <= kc /\ ks % WEEK = 0
      /\ \A w \in Weeks : w < ks => k.perWeek[w] = 0
  BY DEF TokenGood, TokenStates
<1>6. /\ c \in Nat /\ (c # 0 => StartTime <= c)
      /\ \A w \in Weeks : w < c => w < now /\ (w < to \/ b[u][w] = 0)
  BY DEF ClaimGood
<1>7. to \in Nat /\ to <= kc /\ kc < to + WEEK /\ to % WEEK = 0
  BY <1>5, RoundDownFacts
<1>8. ks <= to
  <2>1. to < ks => to + WEEK <= ks
    BY <1>5, <1>7, WeeksApart
  <2> HIDE DEF to, ks, kc
  <2> QED
    BY <1>1, <1>5, <1>7, <2>1
<1>9. start = IF c > 0 THEN c ELSE Later(us, ks)
  BY DEF ClaimStart
<1>10. x \in Nat
  BY <1>1
<1>11. m \in Nat /\ (m = sc \/ m = uc) /\ m <= sc /\ m <= uc
  <2>1. m = Earlier(sc, uc)
    OBVIOUS
  <2> HIDE DEF sc, uc, m
  <2> QED
    BY <1>3, <1>4, <2>1 DEF Earlier
<1>12. RoundUp(m) \in Nat
  BY <1>11, RoundUpFacts
<1>13. end = Later(start, Earlier(Earlier(RoundUp(m), to), start + x))
  BY DEF EndOf, FirstUnclaimableWeek
<1> HIDE DEF c, start, end, m, to, us, uc, ks, kc, sc, b, x
<1>14. start \in Nat /\ StartTime <= start /\ c <= start
  BY <1>1, <1>3, <1>5, <1>6, <1>9 DEF Later
<1>15. /\ end \in Nat /\ start <= end
       /\ \A w \in Nat : start <= w /\ w < end => w < RoundUp(m) /\ w < to
  BY <1>7, <1>10, <1>12, <1>13, <1>14 DEF Later, Earlier
<1>16. ASSUME NEW w \in WeeksOf(u, supply, user, k)
       PROVE  /\ w \in Weeks /\ w < now /\ w < to
              /\ user.balances[w] = b[u][w] /\ supply.cache[w] = SupplyIn(b, w)
  <2>1. w \in start .. end - 1 /\ w % WEEK = 0
    BY DEF WeeksOf, start, end
  <2>2. w \in Nat /\ start <= w /\ w < end
    BY <1>14, <1>15, <2>1
  <2>3. w < RoundUp(m) /\ w < to
    BY <1>15, <2>2
  <2>4. w < m
    BY <1>11, <2>1, <2>2, <2>3, BeforeRoundUp
  <2>5. w < sc /\ w < uc /\ StartTime <= w
    BY <1>1, <1>3, <1>4, <1>11, <1>14, <2>2, <2>4
  <2>6. w <= MaxTime + MAXTIME
    BY <1>1, <1>5, <1>7, <2>2, <2>3
  <2>7. w \in Weeks
    BY <2>1, <2>2, <2>6, WeekFacts
  <2> QED
    BY <1>2, <1>3, <1>4, <2>3, <2>5, <2>7
<1>17. ASSUME NEW w \in Weeks, c <= w, w < start
       PROVE  k.perWeek[w] = 0 \/ b[u][w] = 0
  <2>1. w \in Nat
    BY WeekFacts
  <2>2. c = 0 /\ start = Later(us, ks)
    BY <1>6, <1>9, <1>17, <2>1
  <2>3. CASE w < ks
    BY <1>5, <2>3
  <2>4. CASE ~ (w < ks)
    <3>1. w < us /\ StartTime <= w
      BY <1>1, <1>3, <1>5, <1>17, <2>1, <2>2, <2>4 DEF Later
    <3>2. uc # 0
      BY <1>3, <2>1, <3>1
    <3> QED
      BY <1>2, <1>3, <3>1, <3>2
  <2> QED
    BY <2>3, <2>4
<1>18. ASSUME NEW w \in Weeks, w < start
       PROVE  w < now /\ (w < to \/ b[u][w] = 0)
  <2>1. w \in Nat
    BY WeekFacts
  <2>2. CASE w < c
    BY <1>6, <2>2
  <2>3. CASE ~ (w < c)
    <3>1. c = 0 /\ start = Later(us, ks)
      BY <1>6, <1>9, <1>18, <2>1, <2>3
    <3>2. CASE w < ks
      BY <1>1, <1>5, <1>7, <1>8, <2>1, <3>2
    <3>3. CASE ~ (w < ks)
      <4>1. w < us /\ StartTime <= w
        BY <1>1, <1>3, <1>5, <1>18, <2>1, <3>1, <3>3 DEF Later
      <4>2. uc # 0
        BY <1>3, <2>1, <4>1
      <4>3. w < uc
        BY <1>3, <2>1, <4>1, <4>2
      <4> QED
        BY <1>2, <1>3, <4>1, <4>2, <4>3
    <3> QED
      BY <3>2, <3>3
  <2> QED
    BY <2>2, <2>3
<1>19. c = userTokenTimeCursor[u] /\ start = ClaimStart(u, user, k) /\ end = EndOf(u, supply, user, k)
       /\ to = RoundDown(k.timeCursor) /\ b = BalanceTable
  BY DEF c, start, end, to, b
<1> QED
  BY <1>14, <1>15, <1>16, <1>17, <1>18, <1>19

(* A claim pays the dues of its weeks.                                     *)
LEMMA ClaimPays ==
  ASSUME Escrow, NEW u \in Users, NEW supply, SupplyGood(supply.cursor, supply.cache),
         NEW user, UserGood(u, user.state, user.balances), NEW k, NEW h, TokenGood(k, h), k.timeCursor # 0,
         ClaimGood(now, BalanceTable, u, k, userTokenTimeCursor[u], received[u]),
         Claim(u, supply, user, k)
  PROVE  \E amount \in Nat, end \in Nat :
           PaidOut(u, k, amount, end) /\ ClaimGood(now, BalanceTable, u, k, end, received[u] + amount)
<1> DEFINE b == BalanceTable
           p == k.perWeek
           c == userTokenTimeCursor[u]
           start == ClaimStart(u, user, k)
           end == EndOf(u, supply, user, k)
           W == WeeksOf(u, supply, user, k)
           amount == ClaimAmount(p, user.balances, supply.cache, W)
           f == [w \in Weeks |-> DueOf(b, p, u, w)]
           g == [w \in Weeks |-> IF w \in W THEN DueOf(b, p, u, w) ELSE 0]
           a == [w \in W |-> (p[w] * user.balances[w]) \div supply.cache[w]]
           before == DuesBefore(b, p, u, c)
           after == DuesBefore(b, p, u, end)
           to == RoundDown(k.timeCursor)
<1>1. /\ start \in Nat /\ StartTime <= start /\ end \in Nat /\ start <= end /\ c <= start
      /\ \A w \in W : /\ w \in Weeks /\ w < now /\ w < to
                      /\ user.balances[w] = b[u][w] /\ supply.cache[w] = SupplyIn(b, w)
      /\ \A w \in Weeks : c <= w /\ w < start => p[w] = 0 \/ b[u][w] = 0
      /\ \A w \in Weeks : w < start => w < now /\ (w < to \/ b[u][w] = 0)
  BY ClaimRange
<1>2. (\A w \in W : supply.cache[w] > 0) /\ PaidOut(u, k, amount, end)
  BY DEF Claim, PaidOut, EndOf, WeeksOf, ClaimAmount
<1>3. b \in TableType /\ p \in [Weeks -> Nat] /\ IsFiniteSet(Weeks) /\ StartTime \in Nat
  BY TableFacts, WeekFacts, FeeAssumption DEF TokenGood, TokenStates
<1>4. c \in Nat /\ received[u] = SumOf(before, Weeks)
  BY DEF ClaimGood
<1>5. \A w \in Weeks : w \in W <=> start <= w /\ w < end
  <2>1. \A w \in Weeks : w \in Nat /\ w % WEEK = 0
    BY WeekFacts
  <2>2. W = {w \in start .. end - 1 : w % WEEK = 0}
    BY DEF WeeksOf
  <2> HIDE DEF W, start, end
  <2> QED
    BY <1>1, <2>1, <2>2
<1>6. W \subseteq Weeks /\ IsFiniteSet(W)
  <2>1. W \subseteq Weeks
    BY <1>1
  <2> HIDE DEF W
  <2> QED
    BY <1>3, <2>1, FS_Subset
<1>7. \A w \in Weeks : /\ DueOf(b, p, u, w) \in Nat
                       /\ p[w] = 0 \/ b[u][w] = 0 => DueOf(b, p, u, w) = 0
  <2> HIDE DEF b, p
  <2> QED
    BY <1>3, DueFacts
<1>8. amount = SumOf(a, W)
  <2> HIDE DEF W, p
  <2> QED
    BY <1>6, AmountSum
<1>9. \A w \in W : a[w] = DueOf(b, p, u, w) /\ a[w] = f[w]
  <2> SUFFICES ASSUME NEW w \in W
               PROVE  a[w] = DueOf(b, p, u, w) /\ a[w] = f[w]
    OBVIOUS
  <2>1. /\ user.balances[w] = b[u][w] /\ supply.cache[w] = SupplyIn(b, w) /\ supply.cache[w] > 0 /\ w \in Weeks
    BY <1>1, <1>2
  <2>2. SupplyIn(b, w) # 0
    BY <2>1
  <2>3. f[w] = DueOf(b, p, u, w)
    BY <2>1
  <2> HIDE DEF W, f
  <2>4. a[w] = (p[w] * b[u][w]) \div SupplyIn(b, w)
    BY <2>1
  <2> HIDE DEF a
  <2> QED
    BY <2>2, <2>3, <2>4 DEF DueOf
<1>10. \A w \in Weeks : /\ f[w] = DueOf(b, p, u, w) /\ g[w] = IF w \in W THEN f[w] ELSE 0
                        /\ before[w] = IF w < c THEN f[w] ELSE 0
                        /\ after[w] = IF w < end THEN f[w] ELSE 0
  BY DEF DuesBefore
<1> HIDE DEF b, p, c, start, end, W, amount, f, g, a, before, after, to
<1>11. amount = SumOf(g, Weeks)
  <2>1. SumOf(a, W) = SumOf(f, W)
    BY <1>6, <1>9, SumEqual
  <2>2. IsPart(Weeks, W, f, g)
    BY <1>7, <1>10 DEF IsPart
  <2>3. SumOf(g, Weeks) = SumOf(f, W)
    BY <1>3, <1>6, <2>2, SumOverPart
  <2> QED
    BY <1>8, <2>1, <2>3
<1>12. \A w \in Weeks : /\ before[w] \in Int /\ g[w] \in Int /\ g[w] \in Nat
                        /\ after[w] = before[w] + g[w]
  <2> SUFFICES ASSUME NEW w \in Weeks
               PROVE  /\ before[w] \in Int /\ g[w] \in Int /\ g[w] \in Nat
                      /\ after[w] = before[w] + g[w]
    OBVIOUS
  <2>1. w \in Nat /\ f[w] \in Nat /\ (c <= w /\ w < start => f[w] = 0)
    BY <1>1, <1>7, <1>10, WeekFacts
  <2>2. w \in W <=> start <= w /\ w < end
    BY <1>5
  <2>3. /\ g[w] = IF w \in W THEN f[w] ELSE 0
        /\ before[w] = IF w < c THEN f[w] ELSE 0
        /\ after[w] = IF w < end THEN f[w] ELSE 0
    BY <1>10
  <2> QED
    BY <1>1, <1>4, <2>1, <2>2, <2>3
<1>13. SumOf(after, Weeks) = SumOf(before, Weeks) + SumOf(g, Weeks)
  BY <1>3, <1>12, SumLinear
<1>14. amount \in Nat
  BY <1>3, <1>11, <1>12, SumOfNat
<1>15. received[u] + amount = SumOf(after, Weeks)
  BY <1>4, <1>11, <1>13
<1>16. \A w \in Weeks : w < end => w < now /\ (w < to \/ b[u][w] = 0)
  <2> SUFFICES ASSUME NEW w \in Weeks, w < end
               PROVE  w < now /\ (w < to \/ b[u][w] = 0)
    OBVIOUS
  <2>1. CASE w < start
    BY <1>1, <2>1
  <2>2. CASE ~ (w < start)
    <3>1. w \in W
      BY <1>1, <1>5, <2>2, WeekFacts
    <3> QED
      BY <1>1, <3>1
  <2> QED
    BY <2>1, <2>2
<1>17. StartTime <= end
  BY <1>1, <1>3
<1>18. ClaimGood(now, b, u, k, end, received[u] + amount)
  BY <1>1, <1>15, <1>16, <1>17 DEF ClaimGood, after, p, to
<1> QED
  BY <1>1, <1>2, <1>14, <1>18 DEF b

---------------------------------------------------------------------------
(* The invariant of the distribution.                                      *)

\* The tokens of all weeks have been paid or are still there
Funded(k, r) == SumOf(k.perWeek, Weeks) <= k.cachedBalance + SumOf(r, Users)

Good(cursor, cache, states, balances, k, h, cursors, r) ==
    /\ SupplyGood(cursor, cache)
    /\ states = [u \in Users |-> states[u]] /\ balances = [u \in Users |-> balances[u]]
    /\ cursors = [u \in Users |-> cursors[u]] /\ r = [u \in Users |-> r[u]]
    /\ \A u \in Users : UserGood(u, states[u], balances[u])
    /\ TokenGood(k, h)
    /\ \A u \in Users : ClaimGood(now, BalanceTable, u, k, cursors[u], r[u])
    /\ Funded(k, r)

Distribution ==
    /\ \A u \in Users : Sorted(userHistory[u])
    /\ Good(timeCursor, veSupplyCache, userState, userBalanceAt, token, held, userTokenTimeCursor, received)

\* What is good after a step, but for VotingEscrow and the time
NextGood ==
    Good(timeCursor', veSupplyCache', userState', userBalanceAt', token', held', userTokenTimeCursor', received')

(* The copies stay good with time and when VotingEscrow moves on.          *)
LEMMA UserStays ==
  ASSUME Escrow, Escrow', PastStays, HistoriesGrow, now <= now', NEW u \in Users,
         UserGood(u, userState'[u], userBalanceAt'[u])
  PROVE  UserGood(u, userState[u], userBalanceAt[u])'
<1> DEFINE s == userState'[u]
           b == userBalanceAt'[u]
           h == userHistory[u]
           g == userHistory'[u]
<1>1. now \in Nat /\ now' \in Nat
  BY DEF Escrow, Clock
<1>2. \A w \in Weeks : w < now => w < now' /\ BalanceOf(u, w)' = BalanceOf(u, w)
  BY <1>1, WeekFacts DEF PastStays
<1>3. /\ s \in UserStates /\ s.timeCursor \in Nat /\ s.startTime \in Nat /\ b \in [Weeks -> Nat] /\ s.timeCursor % WEEK = 0
      /\ \A w \in Weeks : w < s.timeCursor => w < now
      /\ \A w \in Weeks : b[w] = IF StartTime <= w /\ w < s.timeCursor THEN BalanceOf(u, w) ELSE 0
  BY DEF UserGood, Copied, UserStates
<1>4. IF s.timeCursor = 0 THEN s.startTime = 0
      ELSE /\ StartTime <= s.startTime /\ s.startTime <= s.timeCursor /\ s.startTime % WEEK = 0
           /\ s.lastEpochCheckpointed \in 1 .. Len(h) /\ h[s.lastEpochCheckpointed].ts <= s.timeCursor
           /\ \A w \in Weeks : StartTime <= w /\ w < s.startTime => BalanceOf(u, w) = 0
  BY DEF UserGood, PointAt
<1>5. g = h \/ (Len(h) <= Len(g) /\ \A i \in 1 .. Len(h) : g[i] = h[i])
  BY DEF HistoriesGrow, Grown
<1>6. Len(h) \in Nat /\ Len(g) \in Nat
  <2>1. InOrder(h)
    BY DEF Escrow, UsersRecorded, UserRecorded
  <2>2. InOrder(g)
    BY DEF Escrow, UsersRecorded, UserRecorded
  <2> QED
    BY <2>1, <2>2, LenProperties DEF InOrder
<1> HIDE DEF s, b, h, g
<1>7. IF s.timeCursor = 0 THEN s.startTime = 0
      ELSE /\ StartTime <= s.startTime /\ s.startTime <= s.timeCursor /\ s.startTime % WEEK = 0
           /\ s.lastEpochCheckpointed \in 1 .. Len(g) /\ g[s.lastEpochCheckpointed].ts <= s.timeCursor
           /\ \A w \in Weeks : StartTime <= w /\ w < s.startTime => BalanceOf(u, w)' = 0
  <2>1. CASE s.timeCursor = 0
    BY <1>4, <2>1
  <2>2. CASE s.timeCursor # 0
    <3>1. s.lastEpochCheckpointed \in 1 .. Len(h) /\ h[s.lastEpochCheckpointed].ts <= s.timeCursor
          /\ s.startTime <= s.timeCursor
      BY <1>4, <2>2
    <3> DEFINE e == s.lastEpochCheckpointed
    <3>2. e \in 1 .. Len(g) /\ g[e] = h[e]
      <4>1. e \in 1 .. Len(h)
        BY <3>1
      <4> HIDE DEF e
      <4> QED
        BY <1>5, <1>6, <4>1
    <3>3. \A w \in Weeks : w < s.startTime => w < now
      BY <1>3, <3>1, WeekFacts
    <3> QED
      BY <1>2, <1>4, <2>2, <3>1, <3>2, <3>3
  <2> QED
    BY <2>1, <2>2
<1>8. /\ \A w \in Weeks : w < s.timeCursor => w < now'
      /\ \A w \in Weeks : b[w] = IF StartTime <= w /\ w < s.timeCursor THEN BalanceOf(u, w)' ELSE 0
  BY <1>2, <1>3
<1> QED
  BY <1>3, <1>7, <1>8 DEF UserGood, Copied, PointAt, s, b, g

(* So do those of the supply.                                              *)
LEMMA SupplyStays ==
  ASSUME Escrow, Escrow', PastStays, now <= now', SupplyGood(timeCursor', veSupplyCache')
  PROVE  SupplyGood(timeCursor, veSupplyCache)'
<1>1. now \in Nat /\ now' \in Nat
  BY DEF Escrow, Clock
<1>2. \A w \in Weeks : w < now => w < now' /\ TotalSupply(w)' = TotalSupply(w)
  BY <1>1, WeekFacts DEF PastStays
<1> QED
  BY <1>2 DEF SupplyGood

(* There is a table after each step.                                       *)
LEMMA NextTable ==
  Escrow' => BalanceTable' \in TableType
<1>1. Escrow => BalanceTable \in TableType
  BY TableFacts
<1>2. (Escrow => BalanceTable \in TableType)'
  BY <1>1, PTL
<1> QED
  BY <1>2 DEF TableType

(* The table of the balances of the past stays the same.                   *)
LEMMA TableStays ==
  ASSUME Escrow, Escrow', PastStays
  PROVE  BalanceTable' \in TableType /\ SameBefore(BalanceTable, BalanceTable', now)
<1>1. BalanceTable' \in TableType
  BY NextTable
<1>2. ASSUME NEW u \in Users, NEW w \in Weeks, w < now
      PROVE  BalanceTable'[u][w] = BalanceTable[u][w]
  BY <1>2 DEF PastStays, BalanceTable
<1> QED
  BY <1>1, <1>2 DEF SameBefore

(* What a user has been paid is a natural number.                          *)
LEMMA PaidFacts ==
  ASSUME NEW t, NEW b \in TableType, NEW u \in Users, NEW k \in TokenStates, NEW c, NEW r, ClaimGood(t, b, u, k, c, r)
  PROVE  r \in Nat
<1> DEFINE p == k.perWeek
           f == DuesBefore(b, p, u, c)
<1>1. p \in [Weeks -> Nat] /\ IsFiniteSet(Weeks)
  BY WeekFacts DEF TokenStates
<1>2. \A w \in Weeks : DueOf(b, p, u, w) \in Nat
  <2> HIDE DEF p
  <2> QED
    BY <1>1, DueFacts
<1>3. \A w \in Weeks : f[w] \in Nat
  BY <1>2 DEF DuesBefore
<1>4. r = SumOf(f, Weeks)
  BY DEF ClaimGood
<1> HIDE DEF f
<1> QED
  BY <1>1, <1>3, <1>4, SumOfNat

(* After a step in which VotingEscrow and the time go on, the invariant    *)
(* holds if all else was good.                                             *)
LEMMA StillGood ==
  ASSUME Escrow, Escrow', PastStays, HistoriesGrow, now <= now', \A u \in Users : Sorted(userHistory[u]), NextGood
  PROVE  Distribution'
<1>1. \A u \in Users : Sorted(userHistory[u])'
  BY DEF HistoriesGrow, Grown, Sorted
<1>2. SupplyGood(timeCursor, veSupplyCache)'
  BY SupplyStays DEF NextGood, Good
<1>3. \A u \in Users : UserGood(u, userState[u], userBalanceAt[u])'
  BY UserStays DEF NextGood, Good
<1>4. now \in Nat /\ now' \in Nat
  BY DEF Escrow, Clock
<1>5. TokenGood(token, held)'
  <2>1. TokenGood(token', held')
    BY DEF NextGood, Good
  <2>2. token'.timeCursor <= now /\ token'.timeCursor \in Nat
    BY <2>1 DEF TokenGood, TokenStates
  <2>3. token'.timeCursor <= now'
    BY <1>4, <2>2
  <2> QED
    BY <2>1, <2>3 DEF TokenGood
<1>6. \A u \in Users : ClaimGood(now, BalanceTable, u, token, userTokenTimeCursor[u], received[u])'
  <2> SUFFICES ASSUME NEW u \in Users
               PROVE  ClaimGood(now, BalanceTable, u, token, userTokenTimeCursor[u], received[u])'
    OBVIOUS
  <2> DEFINE k == token'
             c == userTokenTimeCursor'[u]
             r == received'[u]
             b == BalanceTable
             d == BalanceTable'
             s == now'
  <2>1. ClaimGood(now, b, u, k, c, r) /\ k \in TokenStates
    BY DEF NextGood, Good, TokenGood
  <2>2. b \in TableType /\ d \in TableType /\ SameBefore(b, d, now)
    BY TableFacts, TableStays
  <2>3. k.timeCursor <= k.timeCursor
    BY <2>1 DEF TokenStates
  <2>4. s \in Nat /\ now <= s
    BY <1>4
  <2>5. ClaimGood(now', BalanceTable', u, token', userTokenTimeCursor'[u], received'[u])
        <=> ClaimGood(now, BalanceTable, u, token, userTokenTimeCursor[u], received[u])'
    BY DEF ClaimGood, DuesBefore, DueOf, SupplyIn
  <2>6. ClaimGood(s, d, u, k, c, r) <=> ClaimGood(now', BalanceTable', u, token', userTokenTimeCursor'[u], received'[u])
    OBVIOUS
  <2> HIDE DEF k, c, r, b, d, s
  <2>7. ClaimGood(s, d, u, k, c, r)
    BY <1>4, <2>1, <2>2, <2>3, <2>4, ClaimLater
  <2> QED
    BY <2>5, <2>6, <2>7
<1> QED
  BY <1>1, <1>2, <1>3, <1>5, <1>6 DEF Distribution, NextGood, Good, Funded

(* A later state of the token is good with all else.                       *)
LEMMA TokenMoves ==
  ASSUME Escrow, NEW cursor, NEW cache, NEW states, NEW balances, NEW k, NEW h, NEW cursors, NEW r,
         Good(cursor, cache, states, balances, k, h, cursors, r),
         NEW n, NEW j, TokenGood(n, j), TokenLater(k, n)
  PROVE  Good(cursor, cache, states, balances, n, j, cursors, r)
<1>1. /\ k \in TokenStates /\ n \in TokenStates /\ k.timeCursor <= n.timeCursor
      /\ \A w \in Weeks : w < RoundDown(k.timeCursor) => n.perWeek[w] = k.perWeek[w]
  BY DEF Good, TokenGood, TokenLater
<1>2. now \in Nat /\ BalanceTable \in TableType
  BY TableFacts DEF Escrow, Clock
<1>3. ASSUME NEW u \in Users
      PROVE  ClaimGood(now, BalanceTable, u, n, cursors[u], r[u])
  <2>1. ClaimGood(now, BalanceTable, u, k, cursors[u], r[u])
    BY DEF Good
  <2>2. SameBefore(BalanceTable, BalanceTable, now) /\ now <= now
    BY <1>2 DEF SameBefore
  <2> QED
    BY <1>1, <1>2, <2>1, <2>2, ClaimLater
<1>4. Funded(n, r)
  <2> DEFINE x == SumOf(n.perWeek, Weeks)
             y == SumOf(k.perWeek, Weeks)
             z == SumOf(r, Users)
             f == k.perWeek
             g == n.perWeek
  <2>1. y <= k.cachedBalance + z /\ x - y <= n.cachedBalance - k.cachedBalance
    BY DEF Good, Funded, TokenLater
  <2>2. k.cachedBalance \in Int /\ n.cachedBalance \in Int
    BY <1>1 DEF TokenStates
  <2>3. x \in Int /\ y \in Int
    <3>1. \A w \in Weeks : f[w] \in Int /\ g[w] \in Int
      BY <1>1 DEF TokenStates
    <3>2. x = SumOf(g, Weeks) /\ y = SumOf(f, Weeks)
      OBVIOUS
    <3> HIDE DEF f, g, x, y
    <3> QED
      BY <3>1, <3>2, WeekFacts, SumOfInt
  <2>4. z \in Int
    <3>1. \A u \in Users : r[u] \in Int
      <4> SUFFICES ASSUME NEW u \in Users
                   PROVE  r[u] \in Nat
        OBVIOUS
      <4>1. ClaimGood(now, BalanceTable, u, k, cursors[u], r[u])
        BY DEF Good
      <4> QED
        BY <1>1, <1>2, <4>1, PaidFacts
    <3> QED
      BY <3>1, TimeAssumption, SumOfInt
  <2> HIDE DEF x, y, z
  <2>5. x <= n.cachedBalance + z
    BY <2>1, <2>2, <2>3, <2>4
  <2> QED
    BY <2>5 DEF Funded, x, z
<1> QED
  BY <1>3, <1>4 DEF Good

(* So is a checkpoint of the token.                                        *)
LEMMA TokenKeeps ==
  ASSUME Escrow, NEW cursor, NEW cache, NEW states, NEW balances, NEW k, NEW h, NEW cursors, NEW r,
         Good(cursor, cache, states, balances, k, h, cursors, r),
         NEW balance \in Nat, h <= balance, NEW force \in BOOLEAN, k.timeCursor # 0 \/ now > StartTime
  PROVE  /\ Good(cursor, cache, states, balances, TokenCheckpoint(k, balance, force), balance, cursors, r)
         /\ TokenCheckpoint(k, balance, force).timeCursor # 0
<1>1. TokenGood(k, h)
  BY DEF Good
<1>2. /\ TokenGood(TokenCheckpoint(k, balance, force), balance)
      /\ TokenLater(k, TokenCheckpoint(k, balance, force))
  BY <1>1, TokenCheckpointed DEF Escrow
<1> DEFINE n == TokenCheckpoint(k, balance, force)
<1>3. n.timeCursor # 0
  BY <1>2 DEF TokenLater
<1> HIDE DEF n
<1>4. TokenGood(n, balance) /\ TokenLater(k, n)
  BY <1>2 DEF n
<1>5. Good(cursor, cache, states, balances, n, balance, cursors, r)
  BY <1>4, TokenMoves
<1> QED
  BY <1>3, <1>5 DEF n

---------------------------------------------------------------------------
(* The steps of FeeDistributor.                                            *)

(* depositToken checkpoints the token before and after.                    *)
LEMMA DepositGood ==
  ASSUME Escrow, Distribution, NEW amount \in FeeAmounts, DepositToken(amount)
  PROVE  NextGood
<1> DEFINE k == TokenCheckpoint(token, held, FALSE)
           h == held + amount
<1>1. amount \in Nat
  BY FeeAssumption
<1>2. held \in Nat
  BY DEF Distribution, Good, TokenGood
<1>3. h \in Nat /\ held <= h /\ held <= held
  BY <1>1, <1>2
<1>4. token.timeCursor # 0 \/ now > StartTime
  BY DEF DepositToken, MayCheckpointToken
<1>5. Good(timeCursor, veSupplyCache, userState, userBalanceAt, k, held, userTokenTimeCursor, received)
      /\ k.timeCursor # 0
  BY <1>2, <1>3, <1>4, TokenKeeps DEF Distribution
<1>6. token' = TokenCheckpoint(k, h, TRUE) /\ held' = h
  BY DEF DepositToken
<1>7. UNCHANGED supplyVars /\ UNCHANGED userVars /\ UNCHANGED userTokenTimeCursor /\ UNCHANGED received
  BY DEF DepositToken
<1> HIDE DEF k, h
<1>8. Good(timeCursor, veSupplyCache, userState, userBalanceAt, TokenCheckpoint(k, h, TRUE), h, userTokenTimeCursor,
           received)
  BY <1>3, <1>5, TokenKeeps
<1> QED
  BY <1>6, <1>7, <1>8 DEF NextGood, supplyVars, userVars

(* Tokens that were sent wait for a checkpoint.                            *)
LEMMA TransferGood ==
  ASSUME Distribution, NEW amount \in FeeAmounts, Transfer(amount)
  PROVE  NextGood
<1>1. amount \in Nat
  BY FeeAssumption
<1>2. TokenGood(token, held)
  BY DEF Distribution, Good
<1>3. held \in Nat /\ token.cachedBalance \in Int /\ token.cachedBalance <= held
  BY <1>2 DEF TokenGood, TokenStates
<1>4. held' = held + amount
  BY DEF Transfer
<1>5. held' \in Nat /\ token.cachedBalance <= held'
  BY <1>1, <1>3, <1>4
<1>6. TokenGood(token, held')
  BY <1>2, <1>5 DEF TokenGood
<1>7. UNCHANGED supplyVars /\ UNCHANGED userVars /\ UNCHANGED token /\ UNCHANGED userTokenTimeCursor /\ UNCHANGED received
  BY DEF Transfer
<1> QED
  BY <1>6, <1>7 DEF NextGood, Distribution, Good, supplyVars, userVars

(* checkpointToken.                                                        *)
LEMMA CheckpointTokenGood ==
  ASSUME Escrow, Distribution, CheckpointToken
  PROVE  NextGood
<1>1. held \in Nat
  BY DEF Distribution, Good, TokenGood
<1>2. token.timeCursor # 0 \/ now > StartTime
  BY DEF CheckpointToken, MayCheckpointToken
<1>3. held <= held
  BY <1>1
<1>4. Good(timeCursor, veSupplyCache, userState, userBalanceAt, TokenCheckpoint(token, held, TRUE), held,
           userTokenTimeCursor, received)
  BY <1>1, <1>2, <1>3, TokenKeeps DEF Distribution
<1>5. token' = TokenCheckpoint(token, held, TRUE) /\ UNCHANGED supplyVars /\ UNCHANGED userVars
      /\ UNCHANGED userTokenTimeCursor /\ UNCHANGED held /\ UNCHANGED received
  BY DEF CheckpointToken
<1> QED
  BY <1>4, <1>5 DEF NextGood, supplyVars, userVars

(* The copies that a checkpoint stores are good.                           *)
LEMMA StoredGood ==
  ASSUME NEW states, states = [u \in Users |-> states[u]], NEW balances, balances = [u \in Users |-> balances[u]],
         NEW u \in Users, NEW user, UserGood(u, user.state, user.balances),
         \A v \in Users : UserGood(v, states[v], balances[v])
  PROVE  LET a == [states EXCEPT ![u] = user.state]
             b == [balances EXCEPT ![u] = user.balances]
         IN  /\ a = [v \in Users |-> a[v]] /\ b = [v \in Users |-> b[v]]
             /\ \A v \in Users : UserGood(v, a[v], b[v])
<1> DEFINE a == [states EXCEPT ![u] = user.state]
           b == [balances EXCEPT ![u] = user.balances]
<1>1. /\ DOMAIN states = Users /\ DOMAIN balances = Users
  OBVIOUS
<1>2. /\ a = [v \in Users |-> IF v = u THEN user.state ELSE states[v]]
      /\ b = [v \in Users |-> IF v = u THEN user.balances ELSE balances[v]]
  BY <1>1
<1>3. a = [v \in Users |-> a[v]] /\ b = [v \in Users |-> b[v]]
  BY <1>2
<1>4. \A v \in Users : /\ a[v] = IF v = u THEN user.state ELSE states[v]
                       /\ b[v] = IF v = u THEN user.balances ELSE balances[v]
  BY <1>2
<1> HIDE DEF a, b
<1>5. \A v \in Users : UserGood(v, a[v], b[v])
  BY <1>4
<1> QED
  BY <1>3, <1>5 DEF a, b

(* checkpoint.                                                             *)
LEMMA CheckpointSupplyGood ==
  ASSUME Escrow, FillsInTime, Distribution, CheckpointSupply
  PROVE  NextGood
<1>1. SupplyGood(timeCursor', veSupplyCache')
  BY CheckpointedSupply DEF Distribution, Good, CheckpointSupply, StoreSupply
<1>2. UNCHANGED userVars /\ UNCHANGED tokenVars
  BY DEF CheckpointSupply
<1> QED
  BY <1>1, <1>2 DEF NextGood, Distribution, Good, userVars, tokenVars

(* checkpointUser.                                                         *)
LEMMA CheckpointUserGood ==
  ASSUME Escrow, Distribution, NEW u \in Users, CheckpointUser(u)
  PROVE  NextGood
<1> DEFINE user == CheckpointUserBalance(u)
<1>1. UserGood(u, user.state, user.balances)
  BY CheckpointedUser DEF Distribution, Good, CheckpointUser
<1>2. /\ userState' = [userState EXCEPT ![u] = user.state]
      /\ userBalanceAt' = [userBalanceAt EXCEPT ![u] = user.balances]
      /\ UNCHANGED supplyVars /\ UNCHANGED tokenVars
  BY DEF CheckpointUser, StoreUser
<1> HIDE DEF user
<1>3. /\ userState' = [v \in Users |-> userState'[v]] /\ userBalanceAt' = [v \in Users |-> userBalanceAt'[v]]
      /\ \A v \in Users : UserGood(v, userState'[v], userBalanceAt'[v])
  <2>1. /\ userState = [v \in Users |-> userState[v]] /\ userBalanceAt = [v \in Users |-> userBalanceAt[v]]
        /\ \A v \in Users : UserGood(v, userState[v], userBalanceAt[v])
    BY DEF Distribution, Good
  <2> QED
    BY <1>1, <1>2, <2>1, StoredGood
<1> QED
  BY <1>2, <1>3 DEF NextGood, Distribution, Good, supplyVars, tokenVars

(* claimToken makes the three checkpoints and pays.                        *)
LEMMA ClaimTokenGood ==
  ASSUME Escrow, FillsInTime, Distribution, NEW u \in Users, ClaimToken(u)
  PROVE  NextGood
<1> DEFINE user == CheckpointUserBalance(u)
           supply == CheckpointTotalSupply
           k == TokenCheckpoint(token, held, FALSE)
<1>1. UserGood(u, user.state, user.balances) /\ SupplyGood(supply.cursor, supply.cache)
  BY CheckpointedUser, CheckpointedSupply DEF Distribution, Good, ClaimToken
<1>2. /\ userState' = [userState EXCEPT ![u] = user.state]
      /\ userBalanceAt' = [userBalanceAt EXCEPT ![u] = user.balances]
      /\ timeCursor' = supply.cursor /\ veSupplyCache' = supply.cache
      /\ Claim(u, supply, user, k)
  BY DEF ClaimToken, StoreUser, StoreSupply
<1>3. held \in Nat /\ (token.timeCursor # 0 \/ now > StartTime)
  BY DEF Distribution, Good, TokenGood, ClaimToken, MayCheckpointToken
<1>4. /\ Good(timeCursor, veSupplyCache, userState, userBalanceAt, k, held, userTokenTimeCursor, received)
      /\ k.timeCursor # 0
  <2>1. held <= held
    BY <1>3
  <2> QED
    BY <1>3, <2>1, TokenKeeps DEF Distribution
<1> HIDE DEF user, supply, k
<1>5. /\ userState' = [v \in Users |-> userState'[v]] /\ userBalanceAt' = [v \in Users |-> userBalanceAt'[v]]
      /\ \A v \in Users : UserGood(v, userState'[v], userBalanceAt'[v])
  <2>1. /\ userState = [v \in Users |-> userState[v]] /\ userBalanceAt = [v \in Users |-> userBalanceAt[v]]
        /\ \A v \in Users : UserGood(v, userState[v], userBalanceAt[v])
    BY DEF Distribution, Good
  <2> QED
    BY <1>1, <1>2, <2>1, StoredGood
<1>6. PICK amount \in Nat, end \in Nat :
        PaidOut(u, k, amount, end) /\ ClaimGood(now, BalanceTable, u, k, end, received[u] + amount)
  <2>1. TokenGood(k, held) /\ ClaimGood(now, BalanceTable, u, k, userTokenTimeCursor[u], received[u])
    BY <1>4 DEF Good
  <2> QED
    BY <1>1, <1>2, <1>4, <2>1, ClaimPays
<1>7. /\ amount <= held /\ token' = [k EXCEPT !.cachedBalance = @ - amount]
      /\ userTokenTimeCursor' = [userTokenTimeCursor EXCEPT ![u] = end]
      /\ held' = held - amount /\ received' = [received EXCEPT ![u] = @ + amount]
  BY <1>6 DEF PaidOut
<1>8. /\ userTokenTimeCursor = [v \in Users |-> userTokenTimeCursor[v]] /\ received = [v \in Users |-> received[v]]
      /\ \A v \in Users : ClaimGood(now, BalanceTable, v, k, userTokenTimeCursor[v], received[v])
      /\ TokenGood(k, held) /\ Funded(k, received) /\ k \in TokenStates
  BY <1>4 DEF Good, TokenGood
<1>9. /\ userTokenTimeCursor' = [v \in Users |-> IF v = u THEN end ELSE userTokenTimeCursor[v]]
      /\ received' = [v \in Users |-> IF v = u THEN received[u] + amount ELSE received[v]]
  BY <1>7, <1>8
<1>10. /\ userTokenTimeCursor' = [v \in Users |-> userTokenTimeCursor'[v]]
       /\ received' = [v \in Users |-> received'[v]]
       /\ \A v \in Users : /\ userTokenTimeCursor'[v] = IF v = u THEN end ELSE userTokenTimeCursor[v]
                           /\ received'[v] = IF v = u THEN received[u] + amount ELSE received[v]
  BY <1>9
<1>11. /\ token'.perWeek = k.perWeek /\ token'.timeCursor = k.timeCursor /\ token'.startTime = k.startTime
       /\ token'.cachedBalance = k.cachedBalance - amount /\ k.cachedBalance \in Int /\ k.cachedBalance <= held
       /\ token' \in TokenStates
  <2> DEFINE x == k.cachedBalance - amount
  <2>1. k.cachedBalance \in Int /\ k.cachedBalance <= held
    BY <1>8 DEF TokenGood, TokenStates
  <2>2. x \in Int
    BY <2>1
  <2>3. token' = [k EXCEPT !.cachedBalance = x]
    BY <1>7
  <2> HIDE DEF x
  <2>4. /\ token'.perWeek = k.perWeek /\ token'.timeCursor = k.timeCursor /\ token'.startTime = k.startTime
        /\ token'.cachedBalance = x /\ token' \in TokenStates
    BY <1>8, <2>2, <2>3 DEF TokenStates
  <2> QED
    BY <2>1, <2>4 DEF x
<1>12. TokenGood(token', held')
  <2>1. held' \in Nat /\ token'.cachedBalance <= held'
    BY <1>3, <1>7, <1>11
  <2> QED
    BY <1>8, <1>11, <2>1 DEF TokenGood
<1>13. \A v \in Users : ClaimGood(now, BalanceTable, v, token', userTokenTimeCursor'[v], received'[v])
  <2>1. \A v \in Users : ClaimGood(now, BalanceTable, v, k, userTokenTimeCursor'[v], received'[v])
    BY <1>6, <1>8, <1>10
  <2> QED
    BY <1>11, <2>1 DEF ClaimGood
<1>14. Funded(token', received')
  <2> DEFINE x == SumOf(k.perWeek, Weeks)
             y == SumOf(received, Users)
             z == SumOf(received', Users)
             r == received
             q == received'
  <2>1. \A v \in Users : r[v] \in Int
    <3> SUFFICES ASSUME NEW v \in Users
                 PROVE  r[v] \in Nat
      OBVIOUS
    <3>1. BalanceTable \in TableType
      BY TableFacts
    <3> QED
      BY <1>8, <3>1, PaidFacts
  <2>2. \A v \in Users : q[v] = r[v] + (IF v = u THEN amount ELSE 0)
    BY <1>10, <2>1
  <2>3. z = SumOf(q, Users) /\ y = SumOf(r, Users) /\ IsFiniteSet(Users) /\ amount \in Int
    BY TimeAssumption
  <2>4. x <= k.cachedBalance + y
    BY <1>8 DEF Funded
  <2> HIDE DEF x, y, z, r, q
  <2>5. z = y + amount /\ y \in Int
    BY <2>1, <2>2, <2>3, SumOfChange, SumOfInt
  <2>6. k.cachedBalance + y = (k.cachedBalance - amount) + z
    BY <1>11, <2>3, <2>5
  <2> QED
    BY <1>11, <2>4, <2>6 DEF Funded, x, z
<1> QED
  BY <1>1, <1>2, <1>5, <1>10, <1>12, <1>13, <1>14 DEF NextGood, Good

(* A step keeps the invariant.                                             *)
LEMMA DistributionStays ==
  ASSUME Escrow, FillsInTime, Distribution, [FeeNext]_feeVars
  PROVE  Distribution'
<1>1. Escrow' /\ PastStays /\ HistoriesGrow
  BY EscrowStays
<1>2. now \in Nat
  BY DEF Escrow, Clock
<1>3. ASSUME EscrowNext
      PROVE  now <= now'
  <2>1. now' = now \/ now' = now + 1
    BY <1>3 DEF EscrowNext, CreateLock, DepositFor, IncreaseUnlockTime, Withdraw, Deposit, Checkpoint, EscrowTick
  <2> QED
    BY <1>2, <2>1
<1>4. CASE EscrowNext /\ UNCHANGED <<supplyVars, userVars, tokenVars>>
  <2>1. NextGood
    BY <1>4 DEF NextGood, Distribution, supplyVars, userVars, tokenVars
  <2> QED
    BY <1>1, <1>3, <1>4, <2>1, StillGood DEF Distribution
<1>5. ASSUME NextGood, UNCHANGED now
      PROVE  Distribution'
  <2>1. now <= now'
    BY <1>2, <1>5
  <2> QED
    BY <1>1, <1>5, <2>1, StillGood DEF Distribution
<1>6. ASSUME NEW amount \in FeeAmounts, DepositToken(amount) \/ Transfer(amount)
      PROVE  Distribution'
  <2>1. UNCHANGED now
    BY <1>6 DEF DepositToken, Transfer, escrowVars
  <2>2. NextGood
    BY <1>6, DepositGood, TransferGood
  <2> QED
    BY <1>5, <2>1, <2>2
<1>7. CASE CheckpointToken
  BY <1>5, <1>7, CheckpointTokenGood DEF CheckpointToken, escrowVars
<1>8. CASE CheckpointSupply
  BY <1>5, <1>8, CheckpointSupplyGood DEF CheckpointSupply
<1>9. ASSUME NEW u \in Users, CheckpointUser(u)
      PROVE  Distribution'
  BY <1>5, <1>9, CheckpointUserGood DEF CheckpointUser, escrowVars
<1>10. ASSUME NEW u \in Users, ClaimToken(u)
       PROVE  Distribution'
  BY <1>5, <1>10, ClaimTokenGood DEF ClaimToken
<1>11. CASE UNCHANGED feeVars
  <2>1. NextGood /\ UNCHANGED now
    BY <1>11 DEF feeVars, escrowVars, NextGood, Distribution, supplyVars, userVars, tokenVars
  <2> QED
    BY <1>5, <2>1
<1> QED
  BY <1>4, <1>6, <1>7, <1>8, <1>9, <1>10, <1>11 DEF FeeNext

(* Nothing has come, been copied or claimed at first.                      *)
LEMMA DistributionStarts ==
  ASSUME EscrowInit, FeeInit
  PROVE  Distribution
<1> DEFINE zeros == [w \in Weeks |-> 0]
<1>1. /\ StartTime \in Nat /\ StartTime % WEEK = 0 /\ WEEK \in Nat /\ WEEK > 0 /\ IsFiniteSet(Users) /\ IsFiniteSet(Weeks)
      /\ DeployTime \in Nat
  BY TimeAssumption, FeeAssumption, WeekFacts
<1>2. \A w \in Weeks : w \in Nat
  BY WeekFacts
<1>3. zeros \in [Weeks -> Nat] /\ \A w \in Weeks : zeros[w] = 0
  OBVIOUS
<1>4. now \in Nat /\ \A u \in Users : userHistory[u] = <<>>
  BY <1>1 DEF EscrowInit
<1>5. Escrow
  BY EscrowStarts
<1>6. \A u \in Users : Sorted(userHistory[u])
  BY <1>4 DEF Sorted
<1>7. SupplyGood(timeCursor, veSupplyCache)
  <2>1. timeCursor = StartTime
    BY DEF FeeInit
  <2>2. \A w \in Weeks : ~ (StartTime <= w /\ w < StartTime)
    BY <1>1, <1>2
  <2> QED
    BY <1>1, <2>1, <2>2 DEF SupplyGood
<1>8. /\ userState = [u \in Users |-> userState[u]] /\ userBalanceAt = [u \in Users |-> userBalanceAt[u]]
      /\ userTokenTimeCursor = [u \in Users |-> userTokenTimeCursor[u]] /\ received = [u \in Users |-> received[u]]
  BY DEF FeeInit
<1>9. ASSUME NEW u \in Users
      PROVE  UserGood(u, userState[u], userBalanceAt[u])
  <2>1. userState[u] = [startTime |-> 0, timeCursor |-> 0, lastEpochCheckpointed |-> 0] /\ userBalanceAt[u] = zeros
    BY DEF FeeInit
  <2>2. userState[u] \in UserStates /\ userState[u].startTime = 0 /\ userState[u].timeCursor = 0
    BY <2>1 DEF UserStates
  <2>3. 0 % WEEK = 0 /\ \A w \in Weeks : ~ (w < 0)
    BY <1>1, <1>2
  <2> HIDE DEF zeros
  <2>4. Copied(u, zeros, 0)
    BY <1>3, <2>3 DEF Copied
  <2> QED
    BY <2>1, <2>2, <2>4 DEF UserGood
<1>10. /\ token = [startTime |-> 0, timeCursor |-> 0, cachedBalance |-> 0, perWeek |-> zeros] /\ held = 0
       /\ \A u \in Users : userTokenTimeCursor[u] = 0 /\ received[u] = 0
  BY DEF FeeInit
<1>11. /\ token \in TokenStates /\ token.startTime = 0 /\ token.timeCursor = 0 /\ token.cachedBalance = 0
       /\ token.perWeek = zeros
  <2> HIDE DEF zeros
  <2> QED
    BY <1>3, <1>10 DEF TokenStates
<1> HIDE DEF zeros
<1>12. TokenGood(token, held)
  BY <1>3, <1>4, <1>10, <1>11 DEF TokenGood
<1>13. ASSUME NEW u \in Users
       PROVE  ClaimGood(now, BalanceTable, u, token, userTokenTimeCursor[u], received[u])
  <2> DEFINE f == DuesBefore(BalanceTable, zeros, u, 0)
  <2>1. \A w \in Weeks : ~ (w < 0)
    BY <1>2
  <2>2. \A w \in Weeks : f[w] = 0
    BY <2>1 DEF DuesBefore
  <2> HIDE DEF f
  <2>3. SumOf(f, Weeks) = 0
    BY <1>1, <2>2, SumOfZeros
  <2> QED
    BY <1>10, <1>11, <2>1, <2>3 DEF ClaimGood, f
<1>14. Funded(token, received)
  <2>1. SumOf(zeros, Weeks) = 0
    BY <1>1, <1>3, SumOfZeros
  <2>2. SumOf(received, Users) = 0
    BY <1>1, <1>10, SumOfZeros
  <2> QED
    BY <1>11, <2>1, <2>2 DEF Funded
<1> QED
  BY <1>6, <1>7, <1>8, <1>9, <1>12, <1>13, <1>14 DEF Distribution, Good

---------------------------------------------------------------------------
(* The results for FeeDistributor.                                         *)

(* What a user is due is that of the table of balances.                    *)
LEMMA DueIs ==
  ASSUME NEW u \in Users, NEW w \in Weeks
  PROVE  Due(u, w) = DueOf(BalanceTable, token.perWeek, u, w)
<1> DEFINE supply == MapThenSumSet(LAMBDA v : BalanceOf(v, w), Users)
<1>1. supply = SumOf(Balances(w), Users)
  BY BalancesSum
<1>2. \A v \in Users : BalanceTable[v][w] = BalanceOf(v, w)
  BY DEF BalanceTable
<1>3. Column(BalanceTable, Users, w) = Balances(w)
  BY <1>2 DEF Column, Balances
<1>4. supply = SupplyIn(BalanceTable, w)
  BY <1>1, <1>3 DEF SupplyIn
<1>5. Due(u, w) = IF supply = 0 THEN 0 ELSE (token.perWeek[w] * BalanceOf(u, w)) \div supply
  BY DEF Due
<1> HIDE DEF supply
<1> QED
  BY <1>2, <1>4, <1>5 DEF DueOf

DueTerms(u, S) == [w \in S |-> Due(u, w)]

(* What is due of some weeks adds up a function.                           *)
LEMMA DueInSum ==
  ASSUME NEW u, NEW S, IsFiniteSet(S)
  PROVE  DueIn(u, S) = SumOf(DueTerms(u, S), S)
<1> DEFINE f == DueTerms(u, S)
           E(h) == h = [r \in SUBSET S |-> IF r = {} THEN 0 ELSE Due(u, Picked(r)) + h[r \ {Picked(r)}]]
<1>1. DueIn(u, S) = (CHOOSE h : E(h))[S]
  BY DEF DueIn, MapThenSumSet, MapThenFoldSet, Picked
<1>2. \A r \in SUBSET S : r # {} => f[Picked(r)] = Due(u, Picked(r))
  BY PickedIsElement DEF DueTerms
<1> HIDE DEF f
<1>3. \A h : E(h) <=> IsSum(h, f, S)
  BY <1>2 DEF IsSum
<1> HIDE DEF E
<1>4. PICK k : IsSum(k, f, S) /\ SumOf(f, S) = k[S]
  BY SumIs
<1>5. (CHOOSE h : E(h))[S] = k[S]
  <2> DEFINE x == CHOOSE h : E(h)
  <2>1. IsSum(x, f, S)
    BY <1>3, <1>4
  <2> HIDE DEF x
  <2>2. x[S] = k[S]
    BY <1>4, <2>1, SumUnique
  <2> QED
    BY <2>2 DEF x
<1> QED
  BY <1>1, <1>4, <1>5 DEF f

\* The table of what users are due of the weeks of S[u]
DuesOf(S) == [u \in Users |-> [w \in Weeks |-> IF w \in S[u] THEN DueOf(BalanceTable, token.perWeek, u, w) ELSE 0]]

(* What is due of some weeks is a sum over all of them.                    *)
LEMMA DueInIs ==
  ASSUME Escrow, Distribution, NEW S, NEW u \in Users, S[u] \subseteq Weeks
  PROVE  /\ DueIn(u, S[u]) = SumOf(DuesOf(S)[u], Weeks)
         /\ \A w \in Weeks : DuesOf(S)[u][w] \in Nat
<1> DEFINE R == S[u]
           f == [w \in Weeks |-> DueOf(BalanceTable, token.perWeek, u, w)]
           k == DuesOf(S)[u]
           a == DueTerms(u, R)
           p == token.perWeek
<1>1. IsFiniteSet(Weeks) /\ IsFiniteSet(R) /\ R \in SUBSET Weeks
  BY WeekFacts, FS_Subset
<1>2. p \in [Weeks -> Nat] /\ BalanceTable \in TableType
  BY TableFacts DEF Distribution, Good, TokenGood, TokenStates
<1>3. \A w \in Weeks : f[w] \in Nat
  <2> HIDE DEF p
  <2>1. \A w \in Weeks : DueOf(BalanceTable, p, u, w) \in Nat
    BY <1>2, DueFacts
  <2> QED
    BY <2>1 DEF p
<1>4. \A w \in Weeks : k[w] = IF w \in R THEN f[w] ELSE 0
  BY DEF DuesOf
<1>5. \A w \in R : a[w] = f[w]
  BY <1>1, DueIs DEF DueTerms
<1>6. DueIn(u, R) = SumOf(a, R)
  BY <1>1, DueInSum
<1> HIDE DEF R, f, k, a
<1>7. SumOf(a, R) = SumOf(f, R)
  BY <1>1, <1>5, SumEqual
<1>8. IsPart(Weeks, R, f, k)
  BY <1>3, <1>4 DEF IsPart
<1>9. SumOf(k, Weeks) = SumOf(f, R)
  BY <1>1, <1>8, SumOverPart
<1>10. \A w \in Weeks : k[w] \in Nat
  BY <1>3, <1>4
<1> QED
  BY <1>6, <1>7, <1>9, <1>10 DEF R, k

(* The invariant implies the properties.                                   *)
LEMMA DistributionPays ==
  ASSUME Escrow, Distribution
  PROVE  PaidInFull
<1> SUFFICES ASSUME NEW u \in Users
             PROVE  received[u] = DueIn(u, {w \in Weeks : w < userTokenTimeCursor[u]})
  BY DEF PaidInFull
<1> DEFINE S == [v \in Users |-> {w \in Weeks : w < userTokenTimeCursor[v]}]
           f == DuesOf(S)[u]
           g == DuesBefore(BalanceTable, token.perWeek, u, userTokenTimeCursor[u])
<1>1. S[u] = {w \in Weeks : w < userTokenTimeCursor[u]} /\ S[u] \subseteq Weeks
  OBVIOUS
<1>2. received[u] = SumOf(g, Weeks)
  BY DEF Distribution, Good, ClaimGood
<1>3. \A w \in Weeks : f[w] = g[w]
  BY <1>1 DEF DuesOf, DuesBefore
<1>4. DueIn(u, S[u]) = SumOf(f, Weeks)
  <2> HIDE DEF S
  <2> QED
    BY <1>1, DueInIs
<1> HIDE DEF f, g
<1>5. SumOf(f, Weeks) = SumOf(g, Weeks)
  BY <1>3, WeekFacts, SumEqual
<1> QED
  BY <1>1, <1>2, <1>4, <1>5

UnclaimedWeeks == [u \in Users |-> {w \in Weeks : userTokenTimeCursor[u] <= w /\ w <= now}]
Unclaimed == [u \in Users |-> DueIn(u, UnclaimedWeeks[u])]

(* What all users may still claim adds up a function.                      *)
LEMMA UnclaimedSum ==
  MapThenSumSet(LAMBDA u : DueIn(u, {w \in Weeks : userTokenTimeCursor[u] <= w /\ w <= now}), Users)
    = SumOf(Unclaimed, Users)
<1> DEFINE f == Unclaimed
           D(u) == DueIn(u, {w \in Weeks : userTokenTimeCursor[u] <= w /\ w <= now})
           E(h) == h = [r \in SUBSET Users |-> IF r = {} THEN 0 ELSE D(Picked(r)) + h[r \ {Picked(r)}]]
<1>1. MapThenSumSet(LAMBDA u : DueIn(u, {w \in Weeks : userTokenTimeCursor[u] <= w /\ w <= now}), Users)
        = (CHOOSE h : E(h))[Users]
  BY DEF MapThenSumSet, MapThenFoldSet, Picked
<1>2. \A r \in SUBSET Users : r # {} => f[Picked(r)] = D(Picked(r))
  BY PickedIsElement DEF Unclaimed, UnclaimedWeeks
<1> HIDE DEF f, D
<1>3. \A h : E(h) <=> IsSum(h, f, Users)
  BY <1>2 DEF IsSum
<1> HIDE DEF E
<1>4. PICK k : IsSum(k, f, Users) /\ SumOf(f, Users) = k[Users]
  BY TimeAssumption, SumIs
<1>5. (CHOOSE h : E(h))[Users] = k[Users]
  <2> DEFINE x == CHOOSE h : E(h)
  <2>1. IsSum(x, f, Users)
    BY <1>3, <1>4
  <2> HIDE DEF x
  <2>2. x[Users] = k[Users]
    BY <1>4, <2>1, TimeAssumption, SumUnique
  <2> QED
    BY <2>2 DEF x
<1> QED
  BY <1>1, <1>4, <1>5 DEF f

(* What users may still claim and what they have been paid is no more than *)
(* what the weeks have got, which has been paid or is there.               *)
LEMMA DistributionFunds ==
  ASSUME Escrow, Distribution
  PROVE  EveryoneCanBePaid
<1> DEFINE b == BalanceTable
           p == token.perWeek
           S == UnclaimedWeeks
           m == [u \in Users |-> [w \in Weeks |-> DueOf(b, p, u, w)]]
           d == [u \in Users |-> Unclaimed[u] + received[u]]
           columns == Columns(m, Users, Weeks)
           rows == Rows(m, Users, Weeks)
<1>1. /\ p \in [Weeks -> Nat] /\ b \in TableType /\ IsFiniteSet(Weeks) /\ IsFiniteSet(Users)
      /\ token \in TokenStates /\ token.cachedBalance \in Int
  BY TableFacts, WeekFacts, TimeAssumption DEF Distribution, Good, TokenGood, TokenStates
<1>2. \A u \in Users, w \in Weeks : DueOf(b, p, u, w) \in Nat /\ m[u][w] = DueOf(b, p, u, w) /\ m[u][w] \in Nat
  <2>1. \A u \in Users, w \in Weeks : DueOf(b, p, u, w) \in Nat
    <3> HIDE DEF b, p
    <3> QED
      BY <1>1, DueFacts
  <2> QED
    BY <2>1
<1>3. ASSUME NEW u \in Users
      PROVE  Unclaimed[u] \in Nat /\ received[u] \in Nat /\ d[u] <= rows[u] /\ rows[u] \in Int
  <2> DEFINE c == userTokenTimeCursor[u]
             f == DuesOf(S)[u]
             g == DuesBefore(b, p, u, c)
             x == m[u]
             k == [w \in Weeks |-> f[w] + g[w]]
  <2>1. S[u] \subseteq Weeks /\ S[u] = {w \in Weeks : c <= w /\ w <= now}
    BY DEF UnclaimedWeeks
  <2>2. Unclaimed[u] = DueIn(u, S[u])
    BY DEF Unclaimed
  <2>3. Unclaimed[u] = SumOf(f, Weeks)
    <3> HIDE DEF S
    <3> QED
      BY <2>1, <2>2, DueInIs
  <2>4. received[u] = SumOf(g, Weeks) /\ c \in Nat
    BY DEF Distribution, Good, ClaimGood
  <2>5. now \in Nat
    BY DEF Escrow, Clock
  <2>6. \A w \in Weeks : /\ f[w] \in Nat /\ g[w] \in Nat /\ x[w] \in Int /\ f[w] + g[w] <= x[w]
                         /\ f[w] \in Int /\ g[w] \in Int /\ k[w] = f[w] + g[w] /\ k[w] \in Int /\ k[w] <= x[w]
    <3> SUFFICES ASSUME NEW w \in Weeks
                 PROVE  /\ f[w] \in Nat /\ g[w] \in Nat /\ x[w] \in Int /\ f[w] + g[w] <= x[w]
                        /\ k[w] = f[w] + g[w]
      OBVIOUS
    <3>1. /\ f[w] = IF w \in S[u] THEN m[u][w] ELSE 0
          /\ g[w] = IF w < c THEN m[u][w] ELSE 0
          /\ x[w] = m[u][w] /\ k[w] = f[w] + g[w]
      BY <1>2 DEF DuesOf, DuesBefore
    <3>2. ~ (w \in S[u] /\ w < c)
      BY <2>1, <2>4, WeekFacts
    <3>3. m[u][w] \in Nat
      BY <1>2
    <3> HIDE DEF f, g, x, k, m
    <3> QED
      BY <3>1, <3>2, <3>3
  <2>7. rows[u] = SumOf(x, Weeks)
    BY DEF Rows
  <2>8. d[u] = Unclaimed[u] + received[u]
    OBVIOUS
  <2> HIDE DEF f, g, x, k, d, rows
  <2>9. SumOf(k, Weeks) = SumOf(f, Weeks) + SumOf(g, Weeks)
    BY <1>1, <2>6, SumLinear
  <2>10. SumOf(k, Weeks) <= SumOf(x, Weeks) /\ SumOf(x, Weeks) \in Int
    BY <1>1, <2>6, SumMonotone
  <2>11. SumOf(f, Weeks) \in Nat /\ SumOf(g, Weeks) \in Nat
    BY <1>1, <2>6, SumOfNat
  <2> QED
    BY <2>3, <2>4, <2>7, <2>8, <2>9, <2>10, <2>11
<1>4. \A u \in Users : /\ Unclaimed[u] \in Int /\ received[u] \in Int /\ d[u] = Unclaimed[u] + received[u]
                         /\ d[u] \in Int /\ rows[u] \in Int /\ d[u] <= rows[u]
  <2> SUFFICES ASSUME NEW u \in Users
               PROVE  /\ Unclaimed[u] \in Int /\ received[u] \in Int /\ d[u] = Unclaimed[u] + received[u]
                      /\ d[u] \in Int /\ rows[u] \in Int /\ d[u] <= rows[u]
    OBVIOUS
  <2>1. d[u] = Unclaimed[u] + received[u]
    OBVIOUS
  <2>2. Unclaimed[u] \in Nat /\ received[u] \in Nat /\ d[u] <= rows[u] /\ rows[u] \in Int
    BY <1>3
  <2> HIDE DEF d, rows
  <2> QED
    BY <2>1, <2>2
<1> HIDE DEF d, rows
<1>5. SumOf(d, Users) = SumOf(Unclaimed, Users) + SumOf(received, Users)
  BY <1>1, <1>4, SumLinear
<1>6. SumOf(d, Users) <= SumOf(rows, Users) /\ SumOf(d, Users) \in Int /\ SumOf(rows, Users) \in Int
  BY <1>1, <1>4, SumMonotone
<1>7. SumOf(rows, Users) = SumOf(columns, Weeks)
  <2>1. \A u \in Users : \A w \in Weeks : m[u][w] \in Int
    BY <1>2
  <2> HIDE DEF m
  <2> QED
    BY <1>1, <2>1, SumOfRows DEF rows
<1>8. \A w \in Weeks : columns[w] \in Int /\ p[w] \in Int /\ columns[w] <= p[w]
  <2> SUFFICES ASSUME NEW w \in Weeks
               PROVE  columns[w] \in Int /\ p[w] \in Int /\ columns[w] <= p[w]
    OBVIOUS
  <2> DEFINE q == [u \in Users |-> DueOf(b, p, u, w)]
  <2>1. Column(m, Users, w) = q
    BY DEF Column
  <2>2. columns[w] = SumOf(q, Users)
    BY <2>1 DEF Columns
  <2>3. SumOf(q, Users) <= p[w]
    <3> HIDE DEF b, p
    <3> QED
      BY <1>1, DuesFit
  <2>4. \A u \in Users : q[u] \in Int
    BY <1>2
  <2> HIDE DEF q, columns, p
  <2>5. SumOf(q, Users) \in Int
    BY <1>1, <2>4, SumOfInt
  <2>6. p[w] \in Int
    BY <1>1
  <2> QED
    BY <2>2, <2>3, <2>5, <2>6
<1>9. SumOf(columns, Weeks) <= SumOf(p, Weeks) /\ SumOf(p, Weeks) \in Int
  <2> HIDE DEF columns, p
  <2> QED
    BY <1>1, <1>8, SumMonotone
<1>10. SumOf(p, Weeks) <= token.cachedBalance + SumOf(received, Users)
  BY DEF Distribution, Good, Funded
<1>11. SumOf(Unclaimed, Users) \in Int /\ SumOf(received, Users) \in Int
  BY <1>1, <1>4, SumOfInt
<1>12. SumOf(Unclaimed, Users) <= token.cachedBalance
  <2> HIDE DEF columns, p
  <2> QED
    BY <1>1, <1>5, <1>6, <1>7, <1>9, <1>10, <1>11
<1>13. token.cachedBalance <= held
  BY DEF Distribution, Good, TokenGood
<1> QED
  BY <1>12, <1>13, UnclaimedSum DEF EveryoneCanBePaid

(* A deposit is spread over the time since the checkpoint before it: none, *)
(* or part of this week.                                                   *)
LEMMA DepositsCount ==
  ASSUME Escrow, Distribution, NEW amount \in FeeAmounts, DepositToken(amount)
  PROVE  token'.perWeek[RoundDown(now)] >= token.perWeek[RoundDown(now)] + amount
<1> DEFINE k == TokenCheckpoint(token, held, FALSE)
           h == held + amount
           r == RoundDown(now)
           last == k.timeCursor
           more == h - k.cachedBalance
<1>1. amount \in Nat /\ now \in Nat /\ held \in Nat /\ TokenGood(token, held)
  BY FeeAssumption DEF Distribution, Good, TokenGood, Escrow, Clock
<1>2. token.timeCursor # 0 \/ now > StartTime
  BY DEF DepositToken, MayCheckpointToken
<1>3. TokenGood(k, held) /\ TokenLater(token, k)
  <2>1. held <= held
    BY <1>1
  <2> QED
    BY <1>1, <1>2, <2>1, TokenCheckpointed DEF Escrow
<1>4. token' = TokenCheckpoint(k, h, TRUE)
  BY DEF DepositToken
<1>5. last \in Nat /\ last # 0 /\ last <= now /\ k.cachedBalance \in Int /\ k.cachedBalance <= held
      /\ k.perWeek \in [Weeks -> Nat]
  BY <1>3 DEF TokenGood, TokenStates, TokenLater
<1>6. more \in Nat /\ more >= amount
  <2> HIDE DEF k
  <2> QED
    BY <1>1, <1>5
<1>7. RoundDown(last) = r
  <2>1. CASE k = token
    <3>1. token.timeCursor # 0
      BY <1>5, <2>1
    <3>2. Skips(token.timeCursor) \/ last = now
      BY <3>1 DEF TokenCheckpoint
    <3> QED
      BY <2>1, <3>2 DEF Skips
  <2>2. CASE k # token
    <3>1. last = now
      BY <2>2 DEF TokenCheckpoint
    <3> QED
      BY <3>1
  <2> QED
    BY <2>1, <2>2
<1>8. token'.perWeek = [w \in Weeks |-> k.perWeek[w] + Portion(more, last, w)]
  <2> HIDE DEF k
  <2> QED
    BY <1>4, <1>5 DEF TokenCheckpoint
<1> HIDE DEF k, h, last, more
<1>9. r \in Weeks /\ Portion(more, last, r) = more
  BY <1>5, <1>6, <1>7, PortionFacts DEF Escrow
<1> HIDE DEF r
<1>10. token'.perWeek[r] = k.perWeek[r] + more
  BY <1>8, <1>9
<1>11. token.perWeek[r] <= k.perWeek[r] /\ token.perWeek[r] \in Nat /\ k.perWeek[r] \in Nat
  BY <1>1, <1>3, <1>5, <1>9 DEF TokenLater, TokenGood, TokenStates
<1>12. token'.perWeek[r] >= token.perWeek[r] + amount
  BY <1>1, <1>6, <1>10, <1>11
<1> QED
  BY <1>12 DEF r

(* In a run in which _checkpoint of VotingEscrow is called at least once   *)
(* in the number of weeks of its loop, a user has been paid exactly the    *)
(* share of every week before the cursor, as VotingEscrow and the tokens   *)
(* of the week are now (_claimToken).                                      *)
THEOREM PaidInFullIfFilledInTime ==
  FeeSpec /\ []FillsInTime => []PaidInFull
<1>1. EscrowInit /\ FeeInit => Escrow /\ Distribution
  BY EscrowStarts, DistributionStarts
<1>2. Escrow /\ Distribution /\ FillsInTime /\ [FeeNext]_feeVars => Escrow' /\ Distribution'
  BY EscrowStays, DistributionStays
<1>3. Escrow /\ Distribution => PaidInFull
  BY DistributionPays
<1> QED
  BY <1>1, <1>2, <1>3, PTL DEF FeeSpec

(* And the contract has the tokens that everyone may still claim           *)
(* (_claimToken, "this is safe").                                          *)
THEOREM EveryoneCanBePaidIfFilledInTime ==
  FeeSpec /\ []FillsInTime => []EveryoneCanBePaid
<1>1. EscrowInit /\ FeeInit => Escrow /\ Distribution
  BY EscrowStarts, DistributionStarts
<1>2. Escrow /\ Distribution /\ FillsInTime /\ [FeeNext]_feeVars => Escrow' /\ Distribution'
  BY EscrowStays, DistributionStays
<1>3. Escrow /\ Distribution => EveryoneCanBePaid
  BY DistributionFunds
<1> QED
  BY <1>1, <1>2, <1>3, PTL DEF FeeSpec

(* And a deposit is distributed in the week it is made (depositToken).     *)
THEOREM DepositsAreForThisWeekIfFilledInTime ==
  FeeSpec /\ []FillsInTime => DepositsAreForThisWeek
<1>1. EscrowInit /\ FeeInit => Escrow /\ Distribution
  BY EscrowStarts, DistributionStarts
<1>2. Escrow /\ Distribution /\ FillsInTime /\ [FeeNext]_feeVars => Escrow' /\ Distribution'
  BY EscrowStays, DistributionStays
<1>3. Escrow /\ Distribution =>
        [\A amount \in FeeAmounts :
           DepositToken(amount) =>
             token'.perWeek[RoundDown(now)] >= token.perWeek[RoundDown(now)] + amount]_feeVars
  BY DepositsCount
<1> QED
  BY <1>1, <1>2, <1>3, PTL DEF FeeSpec, DepositsAreForThisWeek
=============================================================================
