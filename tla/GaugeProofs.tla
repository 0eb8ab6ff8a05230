---------------------------- MODULE GaugeProofs -----------------------------
(***************************************************************************)
(* Proofs about GaugeController.                                           *)
(*                                                                         *)
(* WellFormed is the invariant of types: locks, votes and curves, of which *)
(* those of gauges and types that do not exist yet are empty. Ready adds   *)
(* that the total is the sum of the types' curves (TotalRight), as long as *)
(* the loops over weeks get to the next week (InTime). Counted compares    *)
(* each curve with a closed form: its points and changes Fit tables of     *)
(* weights and slopes, which are the sums of what is left of the users'    *)
(* votes. SumsAgree says the same of the weeks that have begun, which no   *)
(* call changes. AlwaysInTimeAtFirst shows that InTime holds for the first *)
(* weeks.                                                                  *)
(***************************************************************************)
EXTENDS GaugeController, SumTheorems

---------------------------------------------------------------------------
(* Weeks.                                                                  *)

(* A finite set of numbers has a greatest one.                             *)
LEMMA MaxIsGreatest ==
  ASSUME NEW S \in SUBSET Nat, IsFiniteSet(S), S # {}
  PROVE  Max(S) \in S /\ \A x \in S : x <= Max(S)
<1> DEFINE Greatest(s) == \E m \in s : \A x \in s : x <= m
           Good == {s \in SUBSET S : s = {} \/ Greatest(s)}
<1>1. ASSUME NEW s \in SUBSET S, s # {}, s \ {Picked(s)} \in Good
      PROVE  s \in Good
  <2> DEFINE p == Picked(s)
             r == s \ {p}
  <2>1. p \in s /\ p \in Nat
    BY <1>1, PickedIsElement
  <2>2. \A x \in s : x \in Nat /\ (x \in r \/ x = p)
    OBVIOUS
  <2>3. CASE r = {}
    <3>1. \A x \in s : x <= p
      BY <2>1, <2>2, <2>3
    <3> QED
      BY <2>1, <3>1
  <2>4. CASE r # {}
    <3>1. PICK m \in r : \A x \in r : x <= m
      BY <1>1, <2>4
    <3>2. m \in s /\ m \in Nat
      OBVIOUS
    <3> HIDE DEF p, r
    <3>3. CASE p <= m
      <4>1. \A x \in s : x <= m
        BY <2>2, <3>1, <3>3
      <4> QED
        BY <3>2, <4>1
    <3>4. CASE ~ (p <= m)
      <4>1. \A x \in s : x <= p
        BY <2>1, <2>2, <3>1, <3>2, <3>4
      <4> QED
        BY <2>1, <4>1
    <3> QED
      BY <3>3, <3>4
  <2> QED
    BY <2>3, <2>4
<1>2. Good = SUBSET S
  <2>1. {} \in Good
    OBVIOUS
  <2> HIDE DEF Good
  <2>2. Good \in SUBSET SUBSET S
    BY DEF Good
  <2> QED
    BY <1>1, <2>1, <2>2, SubsetInduction
<1>3. PICK m \in S : \A x \in S : x <= m
  BY <1>2
<1>4. \A x \in S : m >= x
  BY <1>3
<1>5. Max(S) \in S /\ \A x \in S : Max(S) >= x
  BY <1>4 DEF Max
<1> QED
  BY <1>5

(* The last week that a run deals with.                                    *)
LEMMA HorizonBounds ==
  /\ Horizon \in Nat
  /\ MaxTime + WEEK <= Horizon
  /\ \A lock \in Locks : lock.end <= Horizon
<1> DEFINE ends == {lock.end : lock \in Locks}
           S == {MaxTime + WEEK} \cup ends
           end == [lock \in Locks |-> lock.end]
<1>1. end \in Surjection(Locks, ends)
  BY DEF Surjection
<1>2. IsFiniteSet(ends)
  <2> HIDE DEF end, ends
  <2> QED
    BY <1>1, GaugeAssumption, FS_Surjection
<1>3. S \in SUBSET Nat
  BY GaugeAssumption
<1>4. IsFiniteSet(S)
  <2>1. S = ends \cup {MaxTime + WEEK}
    OBVIOUS
  <2> QED
    BY <1>2, <2>1, FS_AddElement
<1>5. Horizon = Max(S)
  BY DEF Horizon
<1>6. MaxTime + WEEK \in S /\ \A lock \in Locks : lock.end \in S
  OBVIOUS
<1> HIDE DEF S
<1> QED
  BY <1>3, <1>4, <1>5, <1>6, MaxIsGreatest

(* The start of a week: a multiple of WEEK.                                *)
LEMMA RoundDownFacts ==
  ASSUME NEW t \in Nat
  PROVE  /\ RoundDown(t) \in Nat /\ RoundDown(t) <= t /\ t < RoundDown(t) + WEEK
         /\ RoundDown(t) % WEEK = 0 /\ (RoundDown(t) + WEEK) % WEEK = 0
<1> DEFINE q == t \div WEEK
<1>1. q \in Nat /\ q * WEEK <= t /\ t < q * WEEK + WEEK
  BY GaugeAssumption
<1>2. RoundDown(t) = q * WEEK
  BY DEF RoundDown
<1> HIDE DEF q
<1>3. (q * WEEK) % WEEK = 0 /\ q * WEEK \in Nat /\ ((q + 1) * WEEK) % WEEK = 0
  BY <1>1, GaugeAssumption
<1>4. (q + 1) * WEEK = q * WEEK + WEEK
  BY <1>1, GaugeAssumption
<1> QED
  BY <1>1, <1>2, <1>3, <1>4

(* Two starts of weeks are a week apart at least.                          *)
LEMMA WeeksApart ==
  ASSUME NEW a \in Nat, NEW b \in Nat, a % WEEK = 0, b % WEEK = 0
  PROVE  /\ a < b => a + WEEK <= b
         /\ (a + WEEK) % WEEK = 0
         /\ a > 0 => a >= WEEK /\ (a - WEEK) % WEEK = 0 /\ a - WEEK \in Nat
<1> DEFINE m == a \div WEEK
           n == b \div WEEK
<1>1. m \in Nat /\ n \in Nat /\ a = m * WEEK /\ b = n * WEEK
  BY GaugeAssumption
<1> HIDE DEF m, n
<1>2. a < b => m < n
  BY <1>1, GaugeAssumption
<1>3. m < n => m * WEEK + WEEK <= n * WEEK
  BY <1>1, GaugeAssumption
<1>4. m * WEEK + WEEK = (m + 1) * WEEK /\ m * WEEK - WEEK = (m - 1) * WEEK
  BY <1>1, GaugeAssumption
<1>5. ((m + 1) * WEEK) % WEEK = 0 /\ ((m - 1) * WEEK) % WEEK = 0
  BY <1>1, GaugeAssumption
<1>6. a > 0 => m >= 1
  BY <1>1, GaugeAssumption
<1>7. m >= 1 => m * WEEK >= WEEK
  BY <1>1, GaugeAssumption
<1> QED
  BY <1>1, <1>2, <1>3, <1>4, <1>5, <1>6, <1>7, GaugeAssumption

(* Steps between the weeks of a run.                                       *)
LEMMA WeekFacts ==
  /\ WEEK \in Nat /\ WEEK > 0
  /\ Weeks \subseteq Nat /\ 0 \in Weeks
  /\ \A w \in Weeks : w > 0 => w - WEEK \in Weeks /\ w >= WEEK
  /\ \A a, b \in Weeks : a < b => a + WEEK <= b /\ a + WEEK \in Weeks
<1>1. WEEK \in Nat /\ WEEK > 0 /\ Horizon \in Nat
  BY GaugeAssumption, HorizonBounds
<1>2. Weeks \subseteq Nat
  BY <1>1 DEF Weeks
<1>3. 0 \in Weeks
  BY <1>1 DEF Weeks
<1>4. ASSUME NEW w \in Weeks, w > 0
      PROVE  w - WEEK \in Weeks /\ w >= WEEK
  <2>1. w \in Nat /\ w % WEEK = 0 /\ w <= Horizon
    BY <1>1 DEF Weeks
  <2>2. w >= WEEK /\ (w - WEEK) % WEEK = 0 /\ w - WEEK \in Nat
    BY <1>4, <2>1, WeeksApart
  <2> QED
    BY <1>1, <2>1, <2>2 DEF Weeks
<1>5. ASSUME NEW a \in Weeks, NEW b \in Weeks, a < b
      PROVE  a + WEEK <= b /\ a + WEEK \in Weeks
  <2>1. a \in Nat /\ a % WEEK = 0 /\ b \in Nat /\ b % WEEK = 0 /\ b <= Horizon
    BY <1>1 DEF Weeks
  <2>2. a + WEEK <= b /\ (a + WEEK) % WEEK = 0
    BY <1>5, <2>1, WeeksApart
  <2> QED
    BY <1>1, <2>1, <2>2 DEF Weeks
<1> QED
  BY <1>1, <1>2, <1>3, <1>4, <1>5

LastWeek == Horizon \div WEEK

(* The weeks of a run by their numbers.                                    *)
LEMMA WeekNumbers ==
  /\ LastWeek \in Nat
  /\ \A n \in 0 .. LastWeek : n * WEEK \in Weeks /\ (n * WEEK) \div WEEK = n
  /\ \A w \in Weeks : \E n \in 0 .. LastWeek : w = n * WEEK
<1>1. Horizon \in Nat /\ WEEK \in Nat /\ WEEK > 0
  BY GaugeAssumption, HorizonBounds
<1>2. LastWeek \in Nat /\ LastWeek * WEEK <= Horizon /\ Horizon < LastWeek * WEEK + WEEK
  BY <1>1, GaugeAssumption DEF LastWeek
<1>3. ASSUME NEW w \in Weeks
      PROVE  \E n \in 0 .. LastWeek : w = n * WEEK
  <2> DEFINE n == w \div WEEK
  <2>1. w \in Nat /\ w % WEEK = 0 /\ w <= Horizon
    BY <1>1 DEF Weeks
  <2>2. n \in Nat /\ w = n * WEEK
    BY <2>1, GaugeAssumption
  <2> HIDE DEF n
  <2>3. n * WEEK < (LastWeek + 1) * WEEK
    <3>1. (LastWeek + 1) * WEEK = LastWeek * WEEK + WEEK
      BY <1>1, <1>2
    <3> QED
      BY <1>1, <1>2, <2>1, <2>2, <3>1
  <2>4. n < LastWeek + 1
    BY <1>1, <1>2, <2>2, <2>3
  <2>5. n \in 0 .. LastWeek
    BY <1>2, <2>2, <2>4
  <2> QED
    BY <2>2, <2>5
<1>4. ASSUME NEW n \in 0 .. LastWeek
      PROVE  n * WEEK \in Weeks /\ (n * WEEK) \div WEEK = n
  <2>1. n * WEEK \in Nat /\ n * WEEK <= LastWeek * WEEK
    BY <1>1, <1>2
  <2>2. (n * WEEK) % WEEK = 0 /\ (n * WEEK) \div WEEK = n
    BY GaugeAssumption
  <2> QED
    BY <1>1, <1>2, <2>1, <2>2 DEF Weeks
<1> QED
  BY <1>2, <1>3, <1>4

(* Induction over the weeks from a first one.                              *)
LEMMA WeekInduction ==
  ASSUME NEW first \in Weeks, NEW T, first \in T,
         \A w \in Weeks : w >= first /\ w \in T /\ w + WEEK \in Weeks => w + WEEK \in T
  PROVE  \A w \in Weeks : w >= first => w \in T
<1> DEFINE L == LastWeek
           N == {n \in 0 .. L : n * WEEK >= first => n * WEEK \in T}
<1>1. L \in Nat /\ WEEK \in Nat /\ WEEK > 0
  BY GaugeAssumption, WeekNumbers
<1>2. \A w \in Weeks : \E n \in 0 .. L : w = n * WEEK
  BY WeekNumbers
<1>3. \A n \in 0 .. L : n * WEEK \in Weeks
  BY WeekNumbers
<1> HIDE DEF L
<1>4. 0 \in N
  <2>1. 0 * WEEK = 0
    BY <1>1
  <2>2. first \in Nat
    BY WeekFacts
  <2> QED
    BY <1>1, <2>1, <2>2
<1>5. ASSUME NEW n \in 0 .. L, n + 1 \in 0 .. L, n \in N
      PROVE  n + 1 \in N
  <2>1. n * WEEK \in Weeks /\ (n + 1) * WEEK \in Weeks /\ (n + 1) * WEEK = n * WEEK + WEEK
    <3>1. n * WEEK \in Weeks /\ (n + 1) * WEEK \in Weeks
      BY <1>3, <1>5
    <3>2. (n + 1) * WEEK = n * WEEK + WEEK
      BY <1>1
    <3> QED
      BY <3>1, <3>2
  <2>2. CASE n * WEEK >= first
    BY <1>5, <2>1, <2>2
  <2>3. CASE (n + 1) * WEEK = first
    BY <1>5, <2>3
  <2>4. CASE n * WEEK < first /\ (n + 1) * WEEK # first
    <3>1. n * WEEK + WEEK <= first /\ first \in Nat /\ n * WEEK \in Nat
      BY <2>1, <2>4, WeekFacts
    <3>2. ~ ((n + 1) * WEEK >= first)
      BY <1>1, <2>1, <2>4, <3>1
    <3> QED
      BY <1>5, <3>2
  <2>5. first \in Nat /\ n * WEEK \in Nat
    BY <2>1, WeekFacts
  <2> QED
    BY <2>2, <2>3, <2>4, <2>5
<1> HIDE DEF N
<1>6. 0 .. L \subseteq N
  BY <1>1, <1>4, <1>5, UpTo
<1> QED
  BY <1>2, <1>6 DEF N

---------------------------------------------------------------------------
(* Curves.                                                                 *)

\* Points and curves as calls compute them: a slope may be negative until
\* the call reverts
AnyPoints == [bias : Nat, slope : Int]
Points == [bias : Nat, slope : Nat]
AnyCurve(c) ==
    /\ c = Curve(c.points, c.changes, c.time)
    /\ c.points \in [Weeks -> AnyPoints]
    /\ c.changes \in [Weeks -> Int]
    /\ c.time \in Weeks
Curves == [points : [Weeks -> Points], changes : [Weeks -> Nat], time : Weeks]

(* A point decays to a point, and from no bias to the empty one.           *)
LEMMA DecayedType ==
  ASSUME NEW p \in AnyPoints, NEW change \in Int
  PROVE  Decayed(p, change) \in AnyPoints
<1> DEFINE fall == p.slope * WEEK
<1>1. p.bias \in Nat /\ p.slope \in Int /\ WEEK \in Nat
  BY GaugeAssumption DEF AnyPoints
<1>2. fall \in Int
  BY <1>1
<1>3. Decayed(p, change) = IF p.bias > fall THEN Point(p.bias - fall, p.slope - change) ELSE Point(0, 0)
  BY DEF Decayed
<1> HIDE DEF fall
<1>4. p.bias > fall => p.bias - fall \in Nat
  BY <1>1, <1>2
<1> QED
  BY <1>1, <1>3, <1>4 DEF Point, AnyPoints

IsProjection(f, c) ==
    f = [w \in Weeks |-> IF w <= c.time THEN c.points[w] ELSE Decayed(f[w - WEEK], c.changes[w])]

(* The weeks after time are computed one from the other.                   *)
LEMMA ProjectedIs ==
  ASSUME NEW c, AnyCurve(c)
  PROVE  /\ Projected(c) \in [Weeks -> AnyPoints]
         /\ \A w \in Weeks : w <= c.time => Projected(c)[w] = c.points[w]
         /\ \A w \in Weeks : w > c.time =>
              /\ w - WEEK \in Weeks
              /\ Projected(c)[w] = Decayed(Projected(c)[w - WEEK], c.changes[w])
<1> DEFINE L == LastWeek
           g == [n \in 1 .. L |-> [p \in AnyPoints |->
                   IF n * WEEK <= c.time THEN c.points[n * WEEK] ELSE Decayed(p, c.changes[n * WEEK])]]
<1>1. /\ L \in Nat /\ WEEK \in Nat /\ WEEK > 0
      /\ c.points \in [Weeks -> AnyPoints] /\ c.changes \in [Weeks -> Int] /\ c.time \in Nat
  BY GaugeAssumption, WeekNumbers, WeekFacts DEF AnyCurve
<1>2. \A w \in Weeks : \E n \in 0 .. L : w = n * WEEK
  BY WeekNumbers
<1>3. \A n \in 0 .. L : n * WEEK \in Weeks
  BY WeekNumbers
<1>7. \A n \in 0 .. L : (n * WEEK) \div WEEK = n
  BY WeekNumbers
<1> HIDE DEF L
<1>4. \A n \in 1 .. L : g[n] \in [AnyPoints -> AnyPoints]
  <2> TAKE n \in 1 .. L
  <2>1. n * WEEK \in Weeks
    BY <1>1, <1>3
  <2>2. c.points[n * WEEK] \in AnyPoints /\ c.changes[n * WEEK] \in Int
    BY <1>1, <2>1
  <2>3. \A p \in AnyPoints : Decayed(p, c.changes[n * WEEK]) \in AnyPoints
    BY <2>2, DecayedType
  <2> QED
    BY <2>2, <2>3
<1>5. c.points[0] \in AnyPoints
  BY <1>1, WeekFacts
<1> DEFINE s == c.points[0]
<1> HIDE DEF s
<1>6. PICK f \in [0 .. L -> AnyPoints] : Iterates(f, g, s, L)
  <2>1. s \in AnyPoints
    BY <1>5 DEF s
  <2> HIDE DEF g
  <2> QED
    BY <1>1, <1>4, <2>1, LoopExists
<1> DEFINE P == [w \in Weeks |-> f[w \div WEEK]]
<1>8. \A n \in 0 .. L : P[n * WEEK] = f[n]
  BY <1>3, <1>7
<1>9. P \in [Weeks -> AnyPoints]
  <2>1. \A w \in Weeks : P[w] \in AnyPoints
    <3> HIDE DEF P
    <3> QED
      BY <1>2, <1>6, <1>8
  <2> QED
    BY <2>1
<1>10. ASSUME NEW w \in Weeks
       PROVE  P[w] = IF w <= c.time THEN c.points[w] ELSE Decayed(P[w - WEEK], c.changes[w])
  <2>1. PICK n \in 0 .. L : w = n * WEEK
    BY <1>2
  <2>2. P[w] = f[n]
    BY <1>8, <2>1
  <2>3. f[n] = IF n = 0 THEN s ELSE g[n][f[n - 1]]
    BY <1>6 DEF Iterates
  <2> HIDE DEF P
  <2>4. CASE n = 0
    <3>1. w = 0
      BY <1>1, <2>1, <2>4
    <3> QED
      BY <1>1, <2>2, <2>3, <2>4, <3>1 DEF s
  <2>5. CASE n # 0
    <3>1. n \in 1 .. L /\ n - 1 \in 0 .. L /\ f[n - 1] \in AnyPoints
      BY <1>1, <1>6, <2>5
    <3>2. g[n][f[n - 1]] = IF w <= c.time THEN c.points[w] ELSE Decayed(f[n - 1], c.changes[w])
      BY <2>1, <3>1
    <3>3. (n - 1) * WEEK = n * WEEK - WEEK
      BY <1>1
    <3>4. P[w - WEEK] = f[n - 1]
      BY <1>8, <2>1, <3>1, <3>3
    <3> QED
      BY <2>2, <2>3, <2>5, <3>2, <3>4
  <2> QED
    BY <2>4, <2>5
<1>11. IsProjection(P, c)
  <2>1. P = [w \in Weeks |-> P[w]]
    BY <1>9
  <2> HIDE DEF P
  <2> QED
    BY <1>10, <2>1 DEF IsProjection
<1>12. Projected(c) = CHOOSE q : IsProjection(q, c)
  BY DEF Projected, IsProjection
<1> DEFINE Q == Projected(c)
<1>13. IsProjection(Q, c)
  BY <1>11, <1>12
<1> HIDE DEF Q, P
<1>14. \A w \in Weeks : /\ w <= c.time => Q[w] = c.points[w]
                        /\ w > c.time => Q[w] = Decayed(Q[w - WEEK], c.changes[w])
  <2>1. \A w \in Weeks : Q[w] = IF w <= c.time THEN c.points[w] ELSE Decayed(Q[w - WEEK], c.changes[w])
    BY <1>13 DEF IsProjection
  <2>2. \A w \in Weeks : w > c.time <=> ~ (w <= c.time)
    BY <1>1, WeekFacts
  <2> QED
    BY <2>1, <2>2
<1>15. \A w \in Weeks : w > c.time => w - WEEK \in Weeks
  BY <1>1, WeekFacts
<1>16. \A w \in Weeks : w >= 0 => w \in {x \in Weeks : Q[x] \in AnyPoints}
  <2> DEFINE T == {x \in Weeks : Q[x] \in AnyPoints}
  <2>1. 0 \in T
    BY <1>1, <1>5, <1>14, WeekFacts
  <2>2. ASSUME NEW w \in Weeks, w >= 0, w \in T, w + WEEK \in Weeks
        PROVE  w + WEEK \in T
    <3>1. (w + WEEK) - WEEK = w /\ w + WEEK \in Nat
      BY <1>1, WeekFacts
    <3>2. Q[w] \in AnyPoints /\ c.points[w + WEEK] \in AnyPoints /\ c.changes[w + WEEK] \in Int
      BY <1>1, <2>2
    <3>3. Decayed(Q[w], c.changes[w + WEEK]) \in AnyPoints
      BY <3>2, DecayedType
    <3>4. Q[w + WEEK] \in AnyPoints
      BY <1>1, <1>14, <2>2, <3>1, <3>2, <3>3
    <3> QED
      BY <2>2, <3>4
  <2> HIDE DEF T
  <2>3. \A w \in Weeks : w >= 0 => w \in T
    BY <2>1, <2>2, WeekFacts, WeekInduction
  <2> QED
    BY <2>3 DEF T
<1>17. Q \in [Weeks -> AnyPoints]
  <2>1. Q = [w \in Weeks |-> Q[w]]
    BY <1>13 DEF IsProjection
  <2> QED
    BY <1>16, <2>1, WeekFacts
<1> QED
  BY <1>14, <1>15, <1>17 DEF Q
---------------------------------------------------------------------------
(* What the code does to a curve.                                          *)

Clock == now \in Nat /\ DeployTime <= now /\ now <= MaxTime
Dated(time) == time \in Weeks /\ (time = 0 \/ DeployTime < time) /\ time <= NextWeek

\* The loop over weeks gets from time to the next week
Reaches(time) == NextWeek <= time + FillWeeks * WEEK

(* The next week is one of the run's.                                      *)
LEMMA NextWeekFacts ==
  ASSUME Clock
  PROVE  /\ NextWeek \in Weeks /\ NextWeek \in Nat /\ now < NextWeek /\ NextWeek - WEEK <= now
         /\ \A w \in Weeks : w <= NextWeek => (w > now <=> w = NextWeek)
         /\ \A w \in Weeks : w < NextWeek <=> w <= now
<1>1. now \in Nat /\ now <= MaxTime /\ WEEK \in Nat /\ WEEK > 0 /\ MaxTime \in Nat /\ Horizon \in Nat
      /\ MaxTime + WEEK <= Horizon
  BY GaugeAssumption, HorizonBounds DEF Clock
<1>2. /\ RoundDown(now) \in Nat /\ RoundDown(now) <= now /\ now < RoundDown(now) + WEEK
      /\ (RoundDown(now) + WEEK) % WEEK = 0
  BY <1>1, RoundDownFacts
<1>3. /\ NextWeek \in Nat /\ NextWeek % WEEK = 0 /\ NextWeek <= Horizon
      /\ now < NextWeek /\ NextWeek - WEEK <= now
  BY <1>1, <1>2 DEF NextWeek
<1>4. NextWeek \in Weeks
  BY <1>3 DEF Weeks
<1>5. ASSUME NEW w \in Weeks
      PROVE  w < NextWeek <=> w <= now
  <2>1. w < NextWeek => w + WEEK <= NextWeek
    BY <1>4, WeekFacts
  <2>2. w \in Nat
    BY WeekFacts
  <2> QED
    BY <1>1, <1>3, <2>1, <2>2
<1>6. \A w \in Weeks : w <= NextWeek => (w > now <=> w = NextWeek)
  BY <1>1, <1>3, <1>5, WeekFacts
<1> QED
  BY <1>3, <1>4, <1>5, <1>6

(* How far the loop gets from a time, and what it stores.                  *)
LEMMA FilledToFacts ==
  ASSUME Clock, NEW time \in Weeks, time <= NextWeek
  PROVE  /\ FilledTo(time) \in Weeks /\ time <= FilledTo(time) /\ FilledTo(time) <= NextWeek
         /\ TimeAfter(time) \in {time, NextWeek}
         /\ Reaches(time) => FilledTo(time) = NextWeek /\ TimeAfter(time) = NextWeek
<1> DEFINE far == time + FillWeeks * WEEK
<1>1. NextWeek \in Weeks /\ NextWeek \in Nat /\ now \in Nat /\ now < NextWeek /\ time \in Nat
      /\ (time > now <=> time = NextWeek) /\ NextWeek - WEEK <= now /\ WEEK \in Nat
  BY NextWeekFacts, WeekFacts DEF Clock
<1>2. far \in Nat /\ far >= time /\ far % WEEK = 0
  <2> DEFINE m == time \div WEEK
  <2>1. time % WEEK = 0
    BY DEF Weeks
  <2>2. m \in Nat /\ time = m * WEEK
    BY <1>1, <2>1, GaugeAssumption
  <2> HIDE DEF m
  <2>3. m * WEEK + FillWeeks * WEEK = (m + FillWeeks) * WEEK
    BY <1>1, <2>2, GaugeAssumption
  <2>4. m + FillWeeks \in Nat /\ FillWeeks * WEEK \in Nat
    BY <2>2, GaugeAssumption
  <2>5. ((m + FillWeeks) * WEEK) % WEEK = 0 /\ (m + FillWeeks) * WEEK \in Nat
    BY <2>4, GaugeAssumption
  <2> QED
    BY <1>1, <2>2, <2>3, <2>4, <2>5
<1>3. FilledTo(time) = IF time > now THEN time ELSE IF NextWeek <= far THEN NextWeek ELSE far
  BY DEF FilledTo
<1>4. Reaches(time) <=> NextWeek <= far
  BY DEF Reaches
<1>5. far < NextWeek => far \in Weeks /\ far <= now
  <2> HIDE DEF far
  <2>1. far < NextWeek => far \in Weeks
    BY <1>1, <1>2, HorizonBounds DEF Weeks
  <2> QED
    BY <2>1, NextWeekFacts
<1>6. TimeAfter(time) = IF FilledTo(time) > now THEN FilledTo(time) ELSE time
  BY DEF TimeAfter
<1> HIDE DEF far
<1>7. CASE time > now
  BY <1>1, <1>3, <1>6, <1>7
<1>8. CASE ~ (time > now) /\ NextWeek <= far
  BY <1>1, <1>3, <1>6, <1>8
<1>9. CASE ~ (time > now) /\ ~ (NextWeek <= far)
  <2>1. far < NextWeek /\ far \in Weeks /\ far <= now /\ FilledTo(time) = far
    BY <1>1, <1>2, <1>3, <1>5, <1>9
  <2> QED
    BY <1>1, <1>2, <1>4, <1>6, <1>9, <2>1
<1> QED
  BY <1>7, <1>8, <1>9

(* A curve of the state; it is empty until something is in it.             *)
Sane(c) == c \in Curves /\ Dated(c.time) /\ (c.time = 0 => c = Flat)

(* The points of a curve are points, and its changes of slope numbers.     *)
LEMMA CurveParts ==
  ASSUME NEW c \in Curves
  PROVE  /\ AnyCurve(c)
         /\ c.points \in [Weeks -> Points] /\ c.changes \in [Weeks -> Nat] /\ c.time \in Weeks
         /\ \A w \in Weeks : /\ c.points[w] = Point(c.points[w].bias, c.points[w].slope)
                             /\ c.points[w].bias \in Nat /\ c.points[w].slope \in Nat
<1>1. /\ c = [points |-> c.points, changes |-> c.changes, time |-> c.time]
      /\ c.points \in [Weeks -> Points] /\ c.changes \in [Weeks -> Nat] /\ c.time \in Weeks
  BY DEF Curves
<1>2. Points \subseteq AnyPoints
  BY DEF Points, AnyPoints
<1>3. c.points \in [Weeks -> AnyPoints] /\ c.changes \in [Weeks -> Int]
  BY <1>1, <1>2
<1>4. \A w \in Weeks : /\ c.points[w] = Point(c.points[w].bias, c.points[w].slope)
                       /\ c.points[w].bias \in Nat /\ c.points[w].slope \in Nat
  BY <1>1 DEF Points, Point
<1> QED
  BY <1>1, <1>3, <1>4 DEF AnyCurve, Curve

(* The parts of a curve put together.                                      *)
LEMMA CurveType ==
  ASSUME NEW p \in [Weeks -> Points], NEW d \in [Weeks -> Nat], NEW time \in Weeks
  PROVE  /\ Curve(p, d, time) \in Curves
         /\ Curve(p, d, time).points = p /\ Curve(p, d, time).changes = d
         /\ Curve(p, d, time).time = time
  BY DEF Curve, Curves

(* The empty curve.                                                        *)
LEMMA FlatFacts ==
  ASSUME Clock
  PROVE  /\ Sane(Flat) /\ Filled(Flat) = Flat /\ Fillable(Flat) /\ Flat.time = 0
         /\ Flat.points = [w \in Weeks |-> Point(0, 0)] /\ Flat.changes = [w \in Weeks |-> 0]
<1>1. /\ Flat.time = 0 /\ Flat.points = [w \in Weeks |-> Point(0, 0)]
      /\ Flat.changes = [w \in Weeks |-> 0]
  BY DEF Flat, Curve
<1>2. Flat \in Curves
  BY WeekFacts DEF Flat, Curve, Curves, Points, Point
<1>3. NextWeek \in Nat /\ 0 <= NextWeek
  BY NextWeekFacts
<1>4. Sane(Flat)
  BY <1>1, <1>2, <1>3, WeekFacts DEF Sane, Dated
<1>5. Filled(Flat) = Flat
  BY <1>1 DEF Filled
<1>6. Fillable(Flat)
  BY <1>1, <1>5, WeekFacts DEF Fillable, FilledWeeks, Point
<1> QED
  BY <1>1, <1>4, <1>5, <1>6

(* A curve that is filled.                                                 *)
LEMMA FilledIs ==
  ASSUME Clock, NEW c, Sane(c), c.time # 0
  PROVE  /\ Filled(c).time = TimeAfter(c.time)
         /\ Filled(c).changes = c.changes
         /\ Filled(c).points = [w \in Weeks |-> IF w > FilledTo(c.time) THEN c.points[w] ELSE Projected(c)[w]]
         /\ Filled(c) = Curve(Filled(c).points, Filled(c).changes, Filled(c).time)
  BY DEF Filled, Curve

(* What the calls return of a curve.                                       *)
LEMMA BiasType ==
  ASSUME Clock, NEW c, Sane(c)
  PROVE  /\ Bias(c) \in Nat
         /\ c.time # 0 => Bias(c) = Projected(c)[FilledTo(c.time)].bias
<1>1. CASE c.time = 0
  BY <1>1 DEF Bias
<1>2. CASE c.time # 0
  <2>1. FilledTo(c.time) \in Weeks /\ FilledTo(c.time) \in Nat
    BY FilledToFacts, WeekFacts DEF Sane, Dated
  <2>2. Projected(c) \in [Weeks -> AnyPoints]
    BY CurveParts, ProjectedIs DEF Sane
  <2>3. Filled(c).points[FilledTo(c.time)] = Projected(c)[FilledTo(c.time)]
    <3>1. Filled(c).points = [w \in Weeks |-> IF w > FilledTo(c.time) THEN c.points[w] ELSE Projected(c)[w]]
      BY <1>2, FilledIs
    <3>2. ~ (FilledTo(c.time) > FilledTo(c.time))
      BY <2>1
    <3> QED
      BY <2>1, <3>1, <3>2
  <2>4. Projected(c)[FilledTo(c.time)].bias \in Nat
    BY <2>1, <2>2 DEF AnyPoints
  <2> QED
    BY <1>2, <2>3, <2>4 DEF Bias
<1> QED
  BY <1>1, <1>2

(* A curve that can be filled stays a curve.                               *)
LEMMA FilledType ==
  ASSUME Clock, NEW c, Sane(c), Fillable(c)
  PROVE  Sane(Filled(c)) /\ (c.time # 0 => Filled(c).time # 0)
<1>1. CASE c.time = 0
  <2>1. Filled(c) = c
    BY <1>1 DEF Filled
  <2> QED
    BY <1>1, <2>1
<1>2. CASE c.time # 0
  <2>1. /\ c.time \in Weeks /\ c.time \in Nat /\ DeployTime < c.time /\ c.time <= NextWeek /\ c \in Curves
    BY <1>2, WeekFacts DEF Sane, Dated
  <2>2. /\ FilledTo(c.time) \in Weeks /\ FilledTo(c.time) \in Nat /\ FilledTo(c.time) <= NextWeek
        /\ TimeAfter(c.time) \in {c.time, NextWeek}
        /\ NextWeek \in Weeks /\ NextWeek \in Nat /\ DeployTime < NextWeek /\ DeployTime \in Nat
    <3>1. /\ FilledTo(c.time) \in Weeks /\ FilledTo(c.time) <= NextWeek
          /\ TimeAfter(c.time) \in {c.time, NextWeek}
      BY <2>1, FilledToFacts
    <3>2. NextWeek \in Weeks /\ NextWeek \in Nat /\ DeployTime < NextWeek /\ DeployTime \in Nat
      BY NextWeekFacts, GaugeAssumption DEF Clock
    <3> QED
      BY <3>1, <3>2, WeekFacts
  <2>3. /\ Projected(c) \in [Weeks -> AnyPoints]
        /\ \A w \in Weeks : w <= c.time => Projected(c)[w] = c.points[w]
    BY <2>1, CurveParts, ProjectedIs
  <2>4. Filled(c).points \in [Weeks -> Points]
    <3>1. ASSUME NEW w \in Weeks
          PROVE  Filled(c).points[w] \in Points
      <4>1. w \in Nat /\ c.points[w] \in Points
        BY <2>1, CurveParts, WeekFacts
      <4>2. Filled(c).points[w] = IF w > FilledTo(c.time) THEN c.points[w] ELSE Projected(c)[w]
        BY <1>2, FilledIs
      <4>3. CASE w > FilledTo(c.time) \/ w <= c.time
        BY <2>3, <4>1, <4>2, <4>3
      <4>4. CASE ~ (w > FilledTo(c.time)) /\ ~ (w <= c.time)
        <5>1. w \in FilledWeeks
          BY <2>1, <2>2, <4>1, <4>4 DEF FilledWeeks
        <5>2. Filled(c).points[w].slope >= 0
          BY <5>1 DEF Fillable
        <5>3. Filled(c).points[w] \in AnyPoints
          BY <2>3, <4>2, <4>4
        <5> QED
          BY <5>2, <5>3 DEF AnyPoints, Points
      <4> QED
        BY <4>3, <4>4
    <3>2. Filled(c).points = [w \in Weeks |-> Filled(c).points[w]]
      BY <1>2, FilledIs
    <3> QED
      BY <3>1, <3>2
  <2>5. /\ Filled(c).changes = c.changes /\ Filled(c).time = TimeAfter(c.time)
        /\ Filled(c) = Curve(Filled(c).points, Filled(c).changes, Filled(c).time)
    BY <1>2, FilledIs
  <2>6. Filled(c) \in Curves
    <3>1. Filled(c).changes \in [Weeks -> Nat] /\ Filled(c).time \in Weeks
      BY <2>1, <2>2, <2>5, CurveParts
    <3> DEFINE p == Filled(c).points
               d == Filled(c).changes
               time == Filled(c).time
    <3>2. Curve(p, d, time) \in Curves
      BY <2>4, <3>1, CurveType
    <3> QED
      BY <2>5, <3>2
  <2>7. Dated(Filled(c).time) /\ Filled(c).time # 0
    <3>1. TimeAfter(c.time) = c.time \/ TimeAfter(c.time) = NextWeek
      BY <2>2
    <3>2. NextWeek <= NextWeek /\ NextWeek # 0
      BY <2>2
    <3> QED
      BY <1>2, <2>1, <2>2, <2>5, <3>1, <3>2 DEF Dated
  <2> QED
    BY <2>6, <2>7 DEF Sane
<1> QED
  BY <1>1, <1>2

(* A new bias from the next week on.                                       *)
LEMMA NewBiasIs ==
  ASSUME Clock, NEW c, Sane(c), NEW b \in Nat
  PROVE  /\ Sane(NewBias(c, b))
         /\ NewBias(c, b).time = NextWeek
         /\ NewBias(c, b).changes = c.changes
         /\ NewBias(c, b).points = [c.points EXCEPT ![NextWeek] = Point(b, c.points[NextWeek].slope)]
<1>1. NextWeek \in Weeks /\ NextWeek \in Nat /\ now < NextWeek /\ DeployTime < NextWeek /\ NextWeek # 0
  BY NextWeekFacts, GaugeAssumption DEF Clock
<1> DEFINE p == [c.points EXCEPT ![NextWeek] = Point(b, c.points[NextWeek].slope)]
<1>2. c.points \in [Weeks -> Points] /\ c.changes \in [Weeks -> Nat] /\ c.points[NextWeek].slope \in Nat
  BY <1>1, CurveParts DEF Sane
<1>3. Point(b, c.points[NextWeek].slope) \in Points
  BY <1>2 DEF Point, Points
<1>4. p \in [Weeks -> Points]
  BY <1>2, <1>3
<1>5. NewBias(c, b) = Curve(p, c.changes, NextWeek)
  BY DEF NewBias
<1> HIDE DEF p
<1>6. /\ NewBias(c, b) \in Curves /\ NewBias(c, b).time = NextWeek
      /\ NewBias(c, b).changes = c.changes /\ NewBias(c, b).points = p
  BY <1>1, <1>2, <1>4, <1>5, CurveType
<1> QED
  BY <1>1, <1>6 DEF Sane, Dated, p

Ballots == [slope : Nat, power : Nat, end : Weeks]

(* What is left of a vote is a number, never less than its slope.          *)
LEMMA BiasAtType ==
  ASSUME NEW v \in Ballots, NEW w \in Weeks
  PROVE  BiasAt(v, w) \in Nat
<1>1. v.slope \in Nat /\ v.end \in Nat /\ w \in Nat
  BY WeekFacts DEF Ballots
<1>2. v.end > w => v.end - w \in Nat /\ v.slope * (v.end - w) \in Nat
  BY <1>1
<1> QED
  BY <1>2 DEF BiasAt

PointAfter(c, old, new) ==
    Point(Later(Bias(c) + VoteBias(new), VoteBias(old)) - VoteBias(old),
          IF old.end > NextWeek
          THEN Later(Filled(c).points[NextWeek].slope + new.slope, old.slope) - old.slope
          ELSE Filled(c).points[NextWeek].slope + new.slope)

(* A vote that replaces another.                                           *)
LEMMA VotedIs ==
  ASSUME Clock, NEW c, Sane(c), c.time # 0, NEW old \in Ballots, NEW new \in Ballots, Votable(c, old)
  PROVE  /\ Sane(Voted(c, old, new))
         /\ Voted(c, old, new).time = TimeAfter(c.time)
         /\ Voted(c, old, new).time # 0
         /\ Voted(c, old, new).changes = Changes(c, old, new)
         /\ Voted(c, old, new).points = [Filled(c).points EXCEPT ![NextWeek] = PointAfter(c, old, new)]
<1>1. NextWeek \in Weeks /\ NextWeek \in Nat /\ now \in Nat
  BY NextWeekFacts DEF Clock
<1>2. Sane(Filled(c)) /\ Filled(c).time # 0
  BY FilledType DEF Votable
<1> DEFINE p == [Filled(c).points EXCEPT ![NextWeek] = PointAfter(c, old, new)]
           d == Changes(c, old, new)
<1>3. /\ old.slope \in Nat /\ old.end \in Weeks /\ old.end \in Nat
      /\ new.slope \in Nat /\ new.end \in Weeks /\ new.end \in Nat
  BY WeekFacts DEF Ballots
<1>4. VoteBias(old) \in Nat /\ VoteBias(new) \in Nat /\ Bias(c) \in Nat
  BY <1>1, BiasAtType, BiasType DEF VoteBias
<1>5. Filled(c).points \in [Weeks -> Points] /\ Filled(c).points[NextWeek].slope \in Nat
  BY <1>1, <1>2, CurveParts DEF Sane
<1>6. PointAfter(c, old, new) \in Points
  <2>1. \A s, t \in Nat : Later(s, t) - t \in Nat
    BY DEF Later
  <2>2. Bias(c) + VoteBias(new) \in Nat /\ Filled(c).points[NextWeek].slope + new.slope \in Nat
    BY <1>3, <1>4, <1>5
  <2> QED
    BY <1>3, <1>4, <2>1, <2>2 DEF PointAfter, Point, Points
<1>7. p \in [Weeks -> Points]
  BY <1>5, <1>6
<1>8. d \in [Weeks -> Nat]
  <2>1. ASSUME NEW w \in Weeks
        PROVE  c.changes[w] - (IF w = old.end /\ old.end > now THEN old.slope ELSE 0)
                 + (IF w = new.end THEN new.slope ELSE 0) \in Nat
    <3>1. c.changes[w] \in Nat
      BY CurveParts DEF Sane
    <3>2. w = old.end /\ old.end > now => c.changes[w] >= old.slope
      BY DEF Votable
    <3> QED
      BY <1>3, <3>1, <3>2
  <2> QED
    BY <2>1 DEF Changes
<1>9. Voted(c, old, new) = Curve(p, d, Filled(c).time)
  BY DEF Voted, PointAfter
<1> HIDE DEF p, d
<1>10. Filled(c).time \in Weeks /\ Dated(Filled(c).time) /\ Filled(c).time = TimeAfter(c.time)
  BY <1>2, FilledIs DEF Sane, Dated
<1>11. /\ Voted(c, old, new) \in Curves /\ Voted(c, old, new).time = Filled(c).time
       /\ Voted(c, old, new).changes = d /\ Voted(c, old, new).points = p
  BY <1>7, <1>8, <1>9, <1>10, CurveType
<1> QED
  BY <1>2, <1>10, <1>11 DEF Sane, p, d

(* What a vote makes of a curve is a curve.                                *)
LEMMA VotedType ==
  ASSUME Clock, NEW c, Sane(c), c.time # 0, NEW old \in Ballots, NEW new \in Ballots, Votable(c, old)
  PROVE  Sane(Voted(c, old, new)) /\ Voted(c, old, new).time # 0
<1> DEFINE v == Voted(c, old, new)
           p == [Filled(c).points EXCEPT ![NextWeek] = PointAfter(c, old, new)]
           d == Changes(c, old, new)
           t == TimeAfter(c.time)
<1>1. Sane(v) /\ v.time = t /\ v.time # 0 /\ v.changes = d /\ v.points = p
  BY VotedIs
<1> QED
  BY <1>1

\* What a call may do to a curve
Moves(c, d) ==
    \/ d = c
    \/ Fillable(c) /\ d = Filled(c)
    \/ \E b \in Nat : Fillable(c) /\ d = NewBias(Filled(c), b)
    \/ \E old, new \in Ballots :
         /\ c.time # 0 /\ Votable(c, old)
         /\ \/ d = Voted(c, old, new)
            \/ Fillable(Voted(c, old, new)) /\ d = Filled(Voted(c, old, new))

(* Whatever a call does to a curve, it stays one.                          *)
LEMMA MovesType ==
  ASSUME Clock, NEW c, Sane(c), NEW d, Moves(c, d)
  PROVE  Sane(d) /\ (c.time # 0 => d.time # 0)
<1>1. CASE d = c
  BY <1>1
<1>2. CASE Fillable(c) /\ d = Filled(c)
  BY <1>2, FilledType
<1>3. ASSUME NEW b \in Nat, Fillable(c), d = NewBias(Filled(c), b)
      PROVE  Sane(d) /\ (c.time # 0 => d.time # 0)
  <2>1. Sane(Filled(c))
    BY <1>3, FilledType
  <2> DEFINE f == Filled(c)
  <2> HIDE DEF f
  <2>2. Sane(NewBias(f, b)) /\ NewBias(f, b).time = NextWeek
    BY <2>1, NewBiasIs DEF f
  <2>3. NextWeek # 0
    BY NextWeekFacts DEF Clock
  <2> QED
    BY <1>3, <2>2, <2>3 DEF f
<1>4. ASSUME NEW x \in Ballots, NEW y \in Ballots, c.time # 0, Votable(c, x)
      PROVE  /\ Sane(Voted(c, x, y)) /\ Voted(c, x, y).time # 0
             /\ Fillable(Voted(c, x, y)) => /\ Sane(Filled(Voted(c, x, y)))
                                            /\ Filled(Voted(c, x, y)).time # 0
  <2> DEFINE v == Voted(c, x, y)
  <2>1. Sane(v) /\ v.time # 0
    BY <1>4, VotedType
  <2> HIDE DEF v
  <2>2. Fillable(v) => Sane(Filled(v)) /\ Filled(v).time # 0
    BY <2>1, FilledType
  <2> QED
    BY <2>1, <2>2 DEF v
<1> QED
  BY <1>1, <1>2, <1>3, <1>4 DEF Moves

---------------------------------------------------------------------------
(* Levels: the weights of types and the total.                             *)

Levels == [points : [Weeks -> Nat], time : Weeks]
SaneLevel(l) == l \in Levels /\ Dated(l.time) /\ (l.time = 0 => l.points = [w \in Weeks |-> 0])
SaneTotal(l) == l \in Levels /\ RoundDown(DeployTime) <= l.time /\ l.time <= NextWeek

(* The parts of a level put together.                                      *)
LEMMA LevelType ==
  ASSUME NEW p \in [Weeks -> Nat], NEW time \in Weeks
  PROVE  /\ Level(p, time) \in Levels /\ Level(p, time).points = p /\ Level(p, time).time = time
  BY DEF Level, Levels

(* A level that is filled.                                                 *)
LEMMA FilledLevelIs ==
  ASSUME Clock, NEW l, SaneLevel(l)
  PROVE  /\ SaneLevel(FilledLevel(l))
         /\ l.time = 0 => FilledLevel(l) = l
         /\ l.time # 0 =>
              /\ FilledLevel(l).time = TimeAfter(l.time)
              /\ FilledLevel(l).points = [w \in Weeks |-> IF l.time < w /\ w <= FilledTo(l.time)
                                                          THEN l.points[l.time] ELSE l.points[w]]
<1>1. CASE l.time = 0
  BY <1>1 DEF FilledLevel
<1>2. CASE l.time # 0
  <2> DEFINE p == [w \in Weeks |-> IF l.time < w /\ w <= FilledTo(l.time) THEN l.points[l.time] ELSE l.points[w]]
             t == TimeAfter(l.time)
  <2>1. l.points \in [Weeks -> Nat] /\ l.time \in Weeks /\ l.time <= NextWeek /\ DeployTime < l.time
    BY <1>2 DEF SaneLevel, Levels, Dated
  <2>2. p \in [Weeks -> Nat]
    BY <2>1
  <2>3. NextWeek \in Weeks /\ NextWeek \in Nat /\ DeployTime < NextWeek /\ NextWeek <= NextWeek
    BY NextWeekFacts, GaugeAssumption DEF Clock
  <2>4. t = l.time \/ t = NextWeek
    BY <2>1, FilledToFacts
  <2>5. FilledLevel(l) = Level(p, t)
    BY <1>2 DEF FilledLevel
  <2> HIDE DEF p, t
  <2>6. t \in Weeks /\ Dated(t) /\ t # 0
    BY <1>2, <2>1, <2>3, <2>4, GaugeAssumption DEF Dated
  <2>7. FilledLevel(l) \in Levels /\ FilledLevel(l).points = p /\ FilledLevel(l).time = t
    BY <2>2, <2>5, <2>6, LevelType
  <2> QED
    BY <1>2, <2>6, <2>7 DEF SaneLevel, p, t
<1> QED
  BY <1>1, <1>2

(* A new level from the next week on.                                      *)
LEMMA NewLevelIs ==
  ASSUME Clock, NEW l \in Levels, NEW n \in Nat
  PROVE  /\ SaneLevel(NewLevel(l, n)) /\ SaneTotal(NewLevel(l, n))
         /\ NewLevel(l, n).time = NextWeek
         /\ NewLevel(l, n).points = [l.points EXCEPT ![NextWeek] = n]
<1>1. /\ NextWeek \in Weeks /\ NextWeek \in Nat /\ DeployTime < NextWeek /\ NextWeek <= NextWeek
      /\ NextWeek # 0
  BY NextWeekFacts, GaugeAssumption DEF Clock
<1>2. RoundDown(DeployTime) <= NextWeek
  BY <1>1, RoundDownFacts, GaugeAssumption
<1>3. [l.points EXCEPT ![NextWeek] = n] \in [Weeks -> Nat]
  BY DEF Levels
<1> DEFINE p == [l.points EXCEPT ![NextWeek] = n]
<1>4. NewLevel(l, n) = Level(p, NextWeek)
  BY DEF NewLevel
<1> HIDE DEF p
<1>5. NewLevel(l, n) \in Levels /\ NewLevel(l, n).points = p /\ NewLevel(l, n).time = NextWeek
  BY <1>1, <1>3, <1>4, LevelType DEF p
<1> QED
  BY <1>1, <1>2, <1>5 DEF SaneLevel, SaneTotal, Dated, p

LevelMoves(l, m) == m = l \/ m = FilledLevel(l) \/ \E n \in Nat : m = NewLevel(FilledLevel(l), n)

(* Whatever a call does to a level, it stays one.                          *)
LEMMA LevelMovesType ==
  ASSUME Clock, NEW l, SaneLevel(l), NEW m, LevelMoves(l, m)
  PROVE  SaneLevel(m) /\ (l.time # 0 => m.time # 0)
<1>1. SaneLevel(FilledLevel(l)) /\ FilledLevel(l) \in Levels
  BY FilledLevelIs DEF SaneLevel
<1>2. l.time # 0 => FilledLevel(l).time # 0
  <2>1. l.time # 0 => FilledLevel(l).time = TimeAfter(l.time)
    BY FilledLevelIs
  <2>2. TimeAfter(l.time) \in {l.time, NextWeek} /\ NextWeek # 0
    BY FilledToFacts, NextWeekFacts DEF SaneLevel, Dated, Clock
  <2> QED
    BY <2>1, <2>2
<1>3. ASSUME NEW n \in Nat
      PROVE  SaneLevel(NewLevel(FilledLevel(l), n)) /\ NewLevel(FilledLevel(l), n).time # 0
  <2> DEFINE f == FilledLevel(l)
  <2>1. f \in Levels
    BY <1>1
  <2> HIDE DEF f
  <2>2. SaneLevel(NewLevel(f, n)) /\ NewLevel(f, n).time = NextWeek
    BY <2>1, NewLevelIs
  <2>3. NextWeek # 0
    BY NextWeekFacts DEF Clock
  <2> QED
    BY <2>2, <2>3 DEF f
<1> QED
  BY <1>1, <1>2, <1>3 DEF LevelMoves

(* The types are finitely many.                                            *)
LEMMA TypesFinite ==
  /\ Types \subseteq Nat /\ IsFiniteSet(Types)
  /\ \A n : AddedTypes(n) \subseteq Types /\ IsFiniteSet(AddedTypes(n))
<1>1. PICK n \in Nat : Types = 0 .. n - 1
  BY GaugeAssumption, FS_CardinalityType
<1>2. IsFiniteSet(0 .. n - 1)
  BY FS_Interval
<1>3. \A m : AddedTypes(m) \subseteq Types
  BY DEF AddedTypes
<1> QED
  BY <1>1, <1>2, <1>3, FS_Subset

Weighted(curves, levels, w) == [k \in Types |-> curves[k].points[w].bias * levels[k].points[w]]

(* The total of a week is a sum over types.                                *)
LEMMA WeightedSum ==
  ASSUME NEW n, NEW curves, NEW levels, NEW w
  PROVE  Total(LAMBDA k : curves[k].points[w].bias * levels[k].points[w], AddedTypes(n)) =
           SumOf(Weighted(curves, levels, w), AddedTypes(n))
<1> DEFINE S == AddedTypes(n)
           f == Weighted(curves, levels, w)
           E(g) == g = [s \in SUBSET S |-> IF s = {} THEN 0
                          ELSE curves[Picked(s)].points[w].bias * levels[Picked(s)].points[w]
                                 + g[s \ {Picked(s)}]]
<1>1. Total(LAMBDA k : curves[k].points[w].bias * levels[k].points[w], S) = (CHOOSE g : E(g))[S]
  BY DEF Total, MapThenSumSet, MapThenFoldSet, Picked
<1>2. S \subseteq Types /\ IsFiniteSet(S)
  BY TypesFinite
<1>3. \A s \in SUBSET S : s # {} =>
        f[Picked(s)] = curves[Picked(s)].points[w].bias * levels[Picked(s)].points[w]
  <2> HIDE DEF S
  <2> QED
    BY <1>2, PickedIsElement DEF Weighted
<1> HIDE DEF S, f
<1>4. \A g : E(g) <=> IsSum(g, f, S)
  BY <1>3 DEF IsSum
<1> HIDE DEF E
<1>5. E(CHOOSE g : E(g))
  BY <1>2, <1>4, SumExists
<1>6. PICK h : IsSum(h, f, S) /\ SumOf(f, S) = h[S]
  BY <1>2, SumIs
<1>7. (CHOOSE g : E(g))[S] = h[S]
  <2> DEFINE c == CHOOSE g : E(g)
  <2>1. IsSum(c, f, S)
    BY <1>4, <1>5
  <2> HIDE DEF c
  <2>2. c[S] = h[S]
    BY <1>2, <1>6, <2>1, SumUnique
  <2> QED
    BY <2>2 DEF c
<1> QED
  BY <1>1, <1>6, <1>7 DEF S, f

(* The total that is filled.                                               *)
LEMMA FilledTotalIs ==
  ASSUME Clock, SaneTotal(total), NEW n, NEW curves, NEW levels,
         \A k \in Types : curves[k] \in Curves /\ levels[k] \in Levels
  PROVE  /\ SaneTotal(FilledTotal(n, curves, levels))
         /\ FilledTotal(n, curves, levels).points =
              [w \in Weeks |-> IF TotalStart < w /\ w <= FilledTo(TotalStart)
                               THEN SumOf(Weighted(curves, levels, w), AddedTypes(n)) ELSE total.points[w]]
         /\ FilledTotal(n, curves, levels).time =
              IF FilledTo(TotalStart) > now THEN FilledTo(TotalStart) ELSE total.time
         /\ TotalStart \in Weeks /\ TotalStart <= NextWeek /\ TotalStart <= now
<1>1. /\ total.time \in Weeks /\ total.points \in [Weeks -> Nat] /\ total.time <= NextWeek
      /\ RoundDown(DeployTime) <= total.time /\ total.time \in Nat
  BY WeekFacts DEF SaneTotal, Levels
<1>2. /\ NextWeek \in Weeks /\ NextWeek \in Nat /\ now \in Nat /\ NextWeek - WEEK <= now /\ now < NextWeek
      /\ (total.time > now <=> total.time = NextWeek) /\ WEEK \in Nat
  BY <1>1, NextWeekFacts, WeekFacts DEF Clock
<1>3. TotalStart \in Weeks /\ TotalStart <= NextWeek /\ TotalStart <= now
  <2>1. CASE total.time > now
    <3>1. total.time = NextWeek /\ NextWeek > 0 /\ TotalStart = NextWeek - WEEK
      BY <1>2, <2>1 DEF TotalStart
    <3>2. NextWeek - WEEK \in Weeks
      BY <1>2, <3>1, WeekFacts
    <3> QED
      BY <1>2, <3>1, <3>2
  <2>2. CASE ~ (total.time > now)
    BY <1>1, <1>2, <2>2 DEF TotalStart
  <2> QED
    BY <2>1, <2>2
<1>4. FilledTo(TotalStart) \in Weeks /\ FilledTo(TotalStart) <= NextWeek
  BY <1>3, FilledToFacts
<1> DEFINE p == [w \in Weeks |-> IF TotalStart < w /\ w <= FilledTo(TotalStart)
                                 THEN SumOf(Weighted(curves, levels, w), AddedTypes(n)) ELSE total.points[w]]
           t == IF FilledTo(TotalStart) > now THEN FilledTo(TotalStart) ELSE total.time
<1>5. FilledTotal(n, curves, levels) = Level(p, t)
  BY WeightedSum DEF FilledTotal
<1>6. p \in [Weeks -> Nat]
  <2>1. ASSUME NEW w \in Weeks
        PROVE  SumOf(Weighted(curves, levels, w), AddedTypes(n)) \in Nat
    <3> DEFINE f == Weighted(curves, levels, w)
    <3>1. ASSUME NEW k \in Types
          PROVE  f[k] \in Nat
      <4>1. curves[k].points[w].bias \in Nat
        BY CurveParts
      <4>2. levels[k].points[w] \in Nat
        BY DEF Levels
      <4>3. f[k] = curves[k].points[w].bias * levels[k].points[w]
        BY DEF Weighted
      <4> HIDE DEF f
      <4> QED
        BY <4>1, <4>2, <4>3
    <3>2. \A k \in AddedTypes(n) : f[k] \in Nat
      BY <3>1, TypesFinite
    <3> HIDE DEF f
    <3>3. SumOf(f, AddedTypes(n)) \in Nat
      BY <3>2, TypesFinite, SumOfNat
    <3> QED
      BY <3>3 DEF f
  <2> QED
    BY <1>1, <2>1
<1>7. t \in Weeks /\ t <= NextWeek /\ RoundDown(DeployTime) <= t
  <2>1. CASE FilledTo(TotalStart) > now
    <3>1. RoundDown(DeployTime) <= DeployTime /\ RoundDown(DeployTime) \in Nat /\ DeployTime \in Nat
      BY RoundDownFacts, GaugeAssumption
    <3>2. DeployTime <= now /\ FilledTo(TotalStart) \in Nat
      BY <1>4, WeekFacts DEF Clock
    <3> QED
      BY <1>2, <1>4, <2>1, <3>1, <3>2
  <2>2. CASE ~ (FilledTo(TotalStart) > now)
    BY <1>1, <2>2
  <2> QED
    BY <2>1, <2>2
<1> HIDE DEF p, t
<1>8. /\ FilledTotal(n, curves, levels) \in Levels
      /\ FilledTotal(n, curves, levels).points = p /\ FilledTotal(n, curves, levels).time = t
  BY <1>5, <1>6, <1>7, LevelType
<1> QED
  BY <1>3, <1>7, <1>8 DEF SaneTotal, p, t

---------------------------------------------------------------------------
(* The state and what a call does to it.                                   *)

Settled ==
    /\ Clock
    /\ locks \in [Users -> Locks \cup {NoLock}]
    /\ typeCount \in 0 .. Cardinality(Types)
    /\ gaugeTypes \in [Gauges -> 0 .. typeCount]
    /\ lastVote \in [Users -> [Gauges -> Nat]]
    /\ base \in [Gauges -> Nat \cup {Overridden}]

CurvesOK ==
    /\ weights = [g \in Gauges |-> weights[g]] /\ \A g \in Gauges : Sane(weights[g])
    /\ sums = [k \in Types |-> sums[k]] /\ \A k \in Types : Sane(sums[k])
    /\ typeWeights = [k \in Types |-> typeWeights[k]] /\ \A k \in Types : SaneLevel(typeWeights[k])
    /\ SaneTotal(total)

\* A gauge without a type has no weight and no votes; the curves of the
\* others, and of their types, have begun
Linked ==
    /\ \A g \in Gauges : gaugeTypes[g] = 0 =>
         weights[g] = Flat /\ base[g] = 0 /\ \A u \in Users : votes[u][g] = NoVote
    /\ \A g \in Gauges : gaugeTypes[g] > 0 => weights[g].time # 0 /\ sums[gaugeTypes[g] - 1].time # 0
    /\ \A k \in Types : k >= typeCount => sums[k] = Flat

VotesOK ==
    /\ votes \in [Users -> [Gauges -> Ballots]]
    /\ votePower \in [Users -> 0 .. FullPower]
    /\ PowerIsDivided

WellFormed == Settled /\ CurvesOK /\ Linked /\ VotesOK

WeightsMove ==
    weights' = [g \in Gauges |-> weights'[g]] /\ \A g \in Gauges : Moves(weights[g], weights'[g])
TypesMove ==
    /\ sums' = [k \in Types |-> sums'[k]] /\ \A k \in Types : Moves(sums[k], sums'[k])
    /\ typeWeights' = [k \in Types |-> typeWeights'[k]]
    /\ \A k \in Types : LevelMoves(typeWeights[k], typeWeights'[k])
    /\ SaneTotal(total')

(* Filled curves and levels of the types.                                  *)
LEMMA FilledTypes ==
  ASSUME Clock, CurvesOK, NEW n \in Int, NEW curves, curves = [k \in Types |-> curves[k]],
         \A k \in Types : Sane(curves[k]), SumsFillable(n, curves)
  PROVE  /\ FilledSums(n, curves) = [k \in Types |-> FilledSums(n, curves)[k]]
         /\ \A k \in Types : /\ k < n => Fillable(curves[k]) /\ FilledSums(n, curves)[k] = Filled(curves[k])
                             /\ ~ (k < n) => FilledSums(n, curves)[k] = curves[k]
                             /\ Sane(FilledSums(n, curves)[k]) /\ FilledSums(n, curves)[k] \in Curves
         /\ FilledLevels(n) = [k \in Types |-> FilledLevels(n)[k]]
         /\ \A k \in Types : /\ FilledLevels(n)[k] \in {typeWeights[k], FilledLevel(typeWeights[k])}
                             /\ SaneLevel(FilledLevels(n)[k]) /\ FilledLevels(n)[k] \in Levels
<1>1. ASSUME NEW k \in Types
      PROVE  /\ k < n => Fillable(curves[k]) /\ FilledSums(n, curves)[k] = Filled(curves[k])
             /\ ~ (k < n) => FilledSums(n, curves)[k] = curves[k]
             /\ Sane(FilledSums(n, curves)[k]) /\ FilledSums(n, curves)[k] \in Curves
  <2>1. /\ k < n => Fillable(curves[k]) /\ FilledSums(n, curves)[k] = Filled(curves[k])
        /\ ~ (k < n) => FilledSums(n, curves)[k] = curves[k]
    BY DEF SumsFillable, AddedTypes, FilledSums
  <2> DEFINE c == curves[k]
  <2>2. Sane(c) /\ (k < n => Fillable(c))
    BY <2>1
  <2> HIDE DEF c
  <2>3. k < n => Sane(Filled(c))
    BY <2>2, FilledType
  <2> QED
    BY <2>1, <2>2, <2>3 DEF c, Sane
<1>2. ASSUME NEW k \in Types
      PROVE  /\ FilledLevels(n)[k] \in {typeWeights[k], FilledLevel(typeWeights[k])}
             /\ SaneLevel(FilledLevels(n)[k]) /\ FilledLevels(n)[k] \in Levels
  <2> DEFINE l == typeWeights[k]
  <2>1. SaneLevel(l)
    BY DEF CurvesOK
  <2>2. FilledLevels(n)[k] \in {l, FilledLevel(l)}
    BY DEF FilledLevels
  <2> HIDE DEF l
  <2>3. SaneLevel(FilledLevel(l))
    BY <2>1, FilledLevelIs
  <2> QED
    BY <2>1, <2>2, <2>3 DEF l, SaneLevel
<1> QED
  BY <1>1, <1>2 DEF FilledSums, FilledLevels

(* _get_total fills the curves of the types.                               *)
LEMMA FillTotalMoves ==
  ASSUME Clock, CurvesOK, NEW n \in Int, FillTotal(n, sums)
  PROVE  TypesMove
<1>1. /\ SumsFillable(n, sums) /\ sums' = FilledSums(n, sums) /\ typeWeights' = FilledLevels(n)
      /\ total' = FilledTotal(n, FilledSums(n, sums), FilledLevels(n))
  BY DEF FillTotal
<1> DEFINE curves == FilledSums(n, sums)
           levels == FilledLevels(n)
<1>2. /\ curves = [k \in Types |-> curves[k]] /\ levels = [k \in Types |-> levels[k]]
      /\ \A k \in Types : curves[k] \in Curves /\ levels[k] \in Levels
      /\ \A k \in Types : levels[k] \in {typeWeights[k], FilledLevel(typeWeights[k])}
      /\ \A k \in Types : k < n => Fillable(sums[k]) /\ curves[k] = Filled(sums[k])
      /\ \A k \in Types : ~ (k < n) => curves[k] = sums[k]
  BY <1>1, FilledTypes DEF CurvesOK
<1>3. sums' = curves /\ typeWeights' = levels /\ total' = FilledTotal(n, curves, levels)
  BY <1>1
<1> HIDE DEF curves, levels
<1>4. SaneTotal(FilledTotal(n, curves, levels))
  BY <1>2, FilledTotalIs DEF CurvesOK
<1>5. \A k \in Types : Moves(sums[k], curves[k])
  BY <1>2 DEF Moves
<1>6. \A k \in Types : LevelMoves(typeWeights[k], levels[k])
  BY <1>2 DEF LevelMoves
<1> QED
  BY <1>2, <1>3, <1>4, <1>5, <1>6 DEF TypesMove

(* ... after a vote has changed one of them, too.                          *)
LEMMA VoteFillsTotal ==
  ASSUME Clock, CurvesOK, NEW n \in Int, NEW j \in Types, j < n, sums[j].time # 0,
         NEW x \in Ballots, NEW y \in Ballots, Votable(sums[j], x),
         FillTotal(n, [sums EXCEPT ![j] = Voted(sums[j], x, y)])
  PROVE  TypesMove
<1> DEFINE s == sums[j]
           v == Voted(s, x, y)
           mid == [sums EXCEPT ![j] = v]
<1>1. Sane(s) /\ s.time # 0 /\ Votable(s, x)
  BY DEF CurvesOK
<1>2. mid = [k \in Types |-> IF k = j THEN v ELSE sums[k]] /\ FillTotal(n, mid)
  BY DEF CurvesOK
<1> HIDE DEF s, mid
<1>3. Sane(v)
  BY <1>1, VotedType
<1> HIDE DEF v
<1>4. mid = [k \in Types |-> mid[k]] /\ \A k \in Types : Sane(mid[k])
  BY <1>2, <1>3 DEF CurvesOK
<1>5. /\ SumsFillable(n, mid) /\ sums' = FilledSums(n, mid) /\ typeWeights' = FilledLevels(n)
      /\ total' = FilledTotal(n, FilledSums(n, mid), FilledLevels(n))
  BY <1>2 DEF FillTotal
<1> DEFINE curves == FilledSums(n, mid)
           levels == FilledLevels(n)
<1>6. /\ curves = [k \in Types |-> curves[k]] /\ levels = [k \in Types |-> levels[k]]
      /\ \A k \in Types : curves[k] \in Curves /\ levels[k] \in Levels
      /\ \A k \in Types : levels[k] \in {typeWeights[k], FilledLevel(typeWeights[k])}
      /\ \A k \in Types : k < n => Fillable(mid[k]) /\ curves[k] = Filled(mid[k])
      /\ \A k \in Types : ~ (k < n) => curves[k] = mid[k]
  BY <1>4, <1>5, FilledTypes
<1>7. sums' = curves /\ typeWeights' = levels /\ total' = FilledTotal(n, curves, levels)
  BY <1>5
<1> HIDE DEF curves, levels
<1>8. SaneTotal(FilledTotal(n, curves, levels))
  BY <1>6, FilledTotalIs DEF CurvesOK
<1>9. ASSUME NEW k \in Types
      PROVE  Moves(sums[k], curves[k])
  <2>1. CASE k = j
    <3>1. Fillable(v) /\ curves[k] = Filled(v)
      BY <1>2, <1>6, <2>1
    <3>2. Moves(s, curves[k])
      BY <1>1, <3>1 DEF Moves, v
    <3> QED
      BY <2>1, <3>2 DEF s
  <2>2. CASE k # j
    BY <1>2, <1>6, <2>2 DEF Moves
  <2> QED
    BY <2>1, <2>2
<1>10. \A k \in Types : LevelMoves(typeWeights[k], levels[k])
  BY <1>6 DEF LevelMoves
<1> QED
  BY <1>6, <1>7, <1>8, <1>9, <1>10 DEF TypesMove

(* The weight of a type is a number.                                       *)
LEMMA TypeWeightType ==
  ASSUME CurvesOK, NEW k \in Types
  PROVE  TypeWeight(k) \in Nat
  BY DEF CurvesOK, SaneLevel, Levels, TypeWeight

(* The next week's total is a number, and can be changed.                  *)
LEMMA NewTotalIs ==
  ASSUME Clock, NEW all, SaneTotal(all), TotalStart \in Weeks, TotalStart <= NextWeek, NEW d \in Int,
         all.points[FilledTo(TotalStart)] + d >= 0
  PROVE  /\ all.points[FilledTo(TotalStart)] \in Nat
         /\ SaneTotal(NewLevel(all, all.points[FilledTo(TotalStart)] + d))
<1>1. FilledTo(TotalStart) \in Weeks
  BY FilledToFacts
<1>2. all.points[FilledTo(TotalStart)] \in Nat /\ all \in Levels
  BY <1>1 DEF SaneTotal, Levels
<1> DEFINE n == all.points[FilledTo(TotalStart)] + d
<1>3. n \in Nat
  BY <1>2
<1> HIDE DEF n
<1>4. SaneTotal(NewLevel(all, n))
  BY <1>2, <1>3, NewLevelIs
<1> QED
  BY <1>2, <1>4 DEF n

(* A new sum for a type.                                                   *)
LEMMA ChangeSumMoves ==
  ASSUME Clock, CurvesOK, typeCount \in Int, NEW j \in Types, j < typeCount, NEW n \in Int, ChangeSum(j, n)
  PROVE  TypesMove
<1> DEFINE curves == FilledSums(typeCount, sums)
           levels == FilledLevels(typeCount)
           all == FilledTotal(typeCount, curves, levels)
           d == (n - Bias(sums[j])) * TypeWeight(j)
<1>1. /\ SumsFillable(typeCount, sums) /\ n >= 0 /\ all.points[FilledTo(TotalStart)] + d >= 0
      /\ typeWeights' = levels /\ sums' = [curves EXCEPT ![j] = NewBias(curves[j], n)]
      /\ total' = NewLevel(all, all.points[FilledTo(TotalStart)] + d)
  BY DEF ChangeSum
<1>2. d \in Int
  <2>1. Bias(sums[j]) \in Int /\ TypeWeight(j) \in Int
    <3> DEFINE s == sums[j]
    <3>1. Sane(s)
      BY DEF CurvesOK
    <3> HIDE DEF s
    <3>2. Bias(s) \in Nat
      BY <3>1, BiasType
    <3> QED
      BY <3>2, TypeWeightType DEF s
  <2> QED
    BY <2>1
<1>3. /\ curves = [k \in Types |-> curves[k]] /\ levels = [k \in Types |-> levels[k]]
      /\ \A k \in Types : curves[k] \in Curves /\ levels[k] \in Levels
      /\ \A k \in Types : levels[k] \in {typeWeights[k], FilledLevel(typeWeights[k])}
      /\ \A k \in Types : k < typeCount => Fillable(sums[k]) /\ curves[k] = Filled(sums[k])
      /\ \A k \in Types : ~ (k < typeCount) => curves[k] = sums[k]
  BY <1>1, FilledTypes DEF CurvesOK
<1> HIDE DEF curves, levels
<1>4. SaneTotal(all) /\ TotalStart \in Weeks /\ TotalStart <= NextWeek
  BY <1>3, FilledTotalIs DEF CurvesOK
<1> HIDE DEF all, d
<1>5. SaneTotal(total')
  BY <1>1, <1>2, <1>4, NewTotalIs
<1>6. sums' = [k \in Types |-> IF k = j THEN NewBias(curves[j], n) ELSE curves[k]]
  BY <1>1, <1>3
<1>7. ASSUME NEW k \in Types
      PROVE  Moves(sums[k], sums'[k])
  <2>1. CASE k = j
    <3>1. n \in Nat /\ Fillable(sums[k]) /\ sums'[k] = NewBias(Filled(sums[k]), n)
      BY <1>1, <1>3, <1>6, <2>1
    <3> QED
      BY <3>1 DEF Moves
  <2>2. CASE k # j
    BY <1>3, <1>6, <2>2 DEF Moves
  <2> QED
    BY <2>1, <2>2
<1>8. \A k \in Types : LevelMoves(typeWeights[k], typeWeights'[k])
  BY <1>1, <1>3 DEF LevelMoves
<1> QED
  BY <1>1, <1>3, <1>5, <1>6, <1>7, <1>8 DEF TypesMove

(* A new weight for a type.                                                *)
LEMMA SetTypeWeightMoves ==
  ASSUME Clock, CurvesOK, \A k \in Types : k >= typeCount => sums[k] = Flat, typeCount \in Int,
         NEW n \in Int, typeCount <= n, NEW j \in Types, NEW weight \in Nat, SetTypeWeight(n, j, weight)
  PROVE  TypesMove
<1> DEFINE curves == FilledSums(n, sums)
           levels == FilledLevels(n)
           filled == [curves EXCEPT ![j] = Filled(sums[j])]
           grown == [levels EXCEPT ![j] = FilledLevel(typeWeights[j])]
           all == FilledTotal(n, filled, grown)
           d == Bias(sums[j]) * (weight - TypeWeight(j))
<1>1. /\ SumsFillable(n, sums) /\ all.points[FilledTo(TotalStart)] + d >= 0
      /\ sums' = filled /\ typeWeights' = [grown EXCEPT ![j] = NewLevel(grown[j], weight)]
      /\ total' = NewLevel(all, all.points[FilledTo(TotalStart)] + d)
  BY DEF SetTypeWeight
<1>2. d \in Int
  <2>1. Bias(sums[j]) \in Int /\ TypeWeight(j) \in Int
    <3> DEFINE s == sums[j]
    <3>1. Sane(s)
      BY DEF CurvesOK
    <3> HIDE DEF s
    <3>2. Bias(s) \in Nat
      BY <3>1, BiasType
    <3> QED
      BY <3>2, TypeWeightType DEF s
  <2> QED
    BY <2>1
<1>3. /\ curves = [k \in Types |-> curves[k]] /\ levels = [k \in Types |-> levels[k]]
      /\ \A k \in Types : curves[k] \in Curves /\ levels[k] \in Levels
      /\ \A k \in Types : levels[k] \in {typeWeights[k], FilledLevel(typeWeights[k])}
      /\ \A k \in Types : k < n => Fillable(sums[k]) /\ curves[k] = Filled(sums[k])
      /\ \A k \in Types : ~ (k < n) => curves[k] = sums[k]
  BY <1>1, FilledTypes DEF CurvesOK
<1>4. Fillable(sums[j]) /\ Filled(sums[j]) = curves[j]
  <2>1. CASE j < n
    BY <1>3, <2>1
  <2>2. CASE ~ (j < n)
    <3>1. sums[j] = Flat
      BY <2>2, TypesFinite
    <3> QED
      BY <1>3, <2>2, <3>1, FlatFacts
  <2> QED
    BY <2>1, <2>2
<1>5. /\ grown = [k \in Types |-> IF k = j THEN FilledLevel(typeWeights[j]) ELSE levels[k]]
      /\ filled = curves
  BY <1>3, <1>4
<1>6. FilledLevel(typeWeights[j]) \in Levels
  <2> DEFINE l == typeWeights[j]
  <2>1. SaneLevel(l)
    BY DEF CurvesOK
  <2> HIDE DEF l
  <2>2. SaneLevel(FilledLevel(l))
    BY <2>1, FilledLevelIs
  <2> QED
    BY <2>2 DEF l, SaneLevel
<1> HIDE DEF curves, levels, filled
<1>7. /\ \A k \in Types : grown[k] \in Levels
      /\ \A k \in Types : grown[k] \in {typeWeights[k], FilledLevel(typeWeights[k])}
      /\ grown[j] = FilledLevel(typeWeights[j]) /\ grown = [k \in Types |-> grown[k]]
  BY <1>3, <1>5, <1>6
<1> HIDE DEF grown
<1>8. SaneTotal(all) /\ TotalStart \in Weeks /\ TotalStart <= NextWeek
  BY <1>3, <1>5, <1>7, FilledTotalIs DEF CurvesOK
<1> HIDE DEF all, d
<1>9. SaneTotal(total')
  BY <1>1, <1>2, <1>8, NewTotalIs
<1>10. ASSUME NEW k \in Types
       PROVE  Moves(sums[k], sums'[k])
  BY <1>1, <1>3, <1>5 DEF Moves
<1>11. typeWeights' = [k \in Types |-> IF k = j THEN NewLevel(FilledLevel(typeWeights[j]), weight) ELSE grown[k]]
  BY <1>1, <1>7
<1>12. ASSUME NEW k \in Types
       PROVE  LevelMoves(typeWeights[k], typeWeights'[k])
  <2>1. CASE k = j
    <3>1. typeWeights'[k] = NewLevel(FilledLevel(typeWeights[k]), weight)
      BY <1>11, <2>1
    <3> QED
      BY <3>1 DEF LevelMoves
  <2>2. CASE k # j
    BY <1>7, <1>11, <2>2 DEF LevelMoves
  <2> QED
    BY <2>1, <2>2
<1> QED
  BY <1>1, <1>3, <1>5, <1>9, <1>10, <1>11, <1>12 DEF TypesMove

(* A curve that begins, without a weight.                                  *)
LEMMA BegunCurve ==
  ASSUME Clock, NEW c, Sane(c)
  PROVE  Moves(c, [c EXCEPT !.time = IF c.time = 0 THEN NextWeek ELSE c.time])
<1>1. CASE c.time = 0
  <2>1. c = Flat
    BY <1>1 DEF Sane
  <2>2. NextWeek \in Weeks
    BY NextWeekFacts
  <2>3. Flat.points[NextWeek].slope = 0 /\ Flat.points[NextWeek] = Point(0, 0)
    BY <2>2, FlatFacts DEF Point
  <2>4. [Flat.points EXCEPT ![NextWeek] = Point(0, 0)] = Flat.points
    BY <2>2, FlatFacts
  <2>5. NewBias(Flat, 0) = Curve(Flat.points, Flat.changes, NextWeek)
    BY <2>3, <2>4 DEF NewBias
  <2>6. [Flat EXCEPT !.time = NextWeek] = Curve(Flat.points, Flat.changes, NextWeek)
    BY DEF Flat, Curve
  <2>7. [c EXCEPT !.time = IF c.time = 0 THEN NextWeek ELSE c.time] = NewBias(Filled(c), 0) /\ Fillable(c)
    BY <1>1, <2>1, <2>5, <2>6, FlatFacts
  <2> QED
    BY <2>7 DEF Moves
<1>2. CASE c.time # 0
  <2>1. c = [points |-> c.points, changes |-> c.changes, time |-> c.time]
    BY DEF Sane, Curves
  <2>2. [c EXCEPT !.time = c.time] = c
    BY <2>1
  <2> QED
    BY <1>2, <2>2 DEF Moves
<1> QED
  BY <1>1, <1>2

(* The gauge's type is one that has been added.                            *)
LEMMA TypeOfGauge ==
  ASSUME WellFormed, NEW g \in Gauges
  PROVE  /\ gaugeTypes[g] \in Nat /\ typeCount \in Nat
         /\ gaugeTypes[g] > 0 => gaugeTypes[g] - 1 \in Types /\ gaugeTypes[g] - 1 < typeCount
<1>1. PICK n \in Nat : Types = 0 .. n - 1
  BY GaugeAssumption, FS_CardinalityType
<1>2. Cardinality(Types) = n
  BY <1>1, FS_Interval
<1>3. typeCount \in 0 .. n /\ gaugeTypes[g] \in 0 .. typeCount
  BY <1>2 DEF WellFormed, Settled
<1> QED
  BY <1>1, <1>3

(* A gauge is added.                                                       *)
LEMMA AddGaugeMoves ==
  ASSUME WellFormed, NEW g \in Gauges, NEW k \in Types, NEW weight \in Weights, AddGauge(g, k, weight)
  PROVE  WeightsMove /\ TypesMove
<1>1. weight \in Nat /\ Clock /\ CurvesOK /\ typeCount \in Int /\ k < typeCount
  BY GaugeAssumption DEF WellFormed, Settled, AddGauge
<1>2. weights[g] = Flat
  BY DEF WellFormed, Linked, AddGauge
<1>3. weights' = [x \in Gauges |-> IF x = g THEN NewBias(Flat, weight) ELSE weights[x]]
  BY <1>1, <1>2 DEF AddGauge, CurvesOK
<1>4. WeightsMove
  <2>1. Moves(Flat, NewBias(Flat, weight))
    BY <1>1, FlatFacts DEF Moves
  <2>2. \A x \in Gauges : Moves(weights[x], weights'[x])
    BY <1>2, <1>3, <2>1 DEF Moves
  <2> QED
    BY <1>3, <2>2 DEF WeightsMove
<1>5. CASE weight > 0
  <2> DEFINE s == sums[k]
  <2>1. Sane(s)
    BY <1>1 DEF CurvesOK
  <2> HIDE DEF s
  <2>2. Bias(s) \in Nat
    BY <1>1, <2>1, BiasType
  <2>3. ChangeSum(k, Bias(sums[k]) + weight) /\ Bias(sums[k]) + weight \in Int
    BY <1>1, <1>5, <2>2 DEF s, AddGauge
  <2>4. TypesMove
    BY <1>1, <2>3, ChangeSumMoves
  <2> QED
    BY <1>4, <2>4
<1>6. CASE ~ (weight > 0)
  <2> DEFINE s == sums[k]
             d == [s EXCEPT !.time = IF s.time = 0 THEN NextWeek ELSE s.time]
  <2>1. sums' = [x \in Types |-> IF x = k THEN d ELSE sums[x]]
    BY <1>1, <1>6 DEF AddGauge, CurvesOK
  <2>2. Sane(s)
    BY <1>1 DEF CurvesOK
  <2>3. UNCHANGED <<typeWeights, total>>
    BY <1>6 DEF AddGauge
  <2> HIDE DEF s
  <2>4. Moves(s, d)
    BY <1>1, <2>2, BegunCurve
  <2> HIDE DEF d
  <2>5. \A x \in Types : Moves(sums[x], sums'[x])
    BY <2>1, <2>4 DEF Moves, s
  <2>6. \A x \in Types : LevelMoves(typeWeights[x], typeWeights'[x])
    BY <2>3 DEF LevelMoves
  <2> QED
    BY <1>1, <1>4, <2>1, <2>3, <2>5, <2>6 DEF TypesMove, CurvesOK
<1> QED
  BY <1>5, <1>6

(* The weight of a gauge is changed.                                       *)
LEMMA ChangeGaugeWeightMoves ==
  ASSUME WellFormed, NEW g \in Gauges, NEW weight \in Weights, ChangeGaugeWeight(g, weight)
  PROVE  WeightsMove /\ TypesMove
<1>1. weight \in Nat /\ Clock /\ CurvesOK /\ typeCount \in Int /\ gaugeTypes[g] > 0
  BY GaugeAssumption DEF WellFormed, Settled, ChangeGaugeWeight
<1> DEFINE k == gaugeTypes[g] - 1
           s == sums[k]
           c == weights[g]
<1>2. k \in Types /\ k < typeCount
  BY <1>1, TypeOfGauge
<1>3. Sane(s) /\ Sane(c)
  BY <1>1, <1>2 DEF CurvesOK
<1>4. /\ ChangeSum(k, Bias(s) + weight - Bias(c)) /\ Fillable(c)
      /\ weights' = [weights EXCEPT ![g] = NewBias(Filled(c), weight)]
  BY DEF ChangeGaugeWeight
<1> HIDE DEF s, c, k
<1>5. Bias(s) \in Nat /\ Bias(c) \in Nat
  BY <1>1, <1>3, BiasType
<1>6. TypesMove
  <2>1. Bias(s) + weight - Bias(c) \in Int
    BY <1>1, <1>5
  <2> QED
    BY <1>1, <1>2, <1>4, <2>1, ChangeSumMoves
<1>7. weights' = [x \in Gauges |-> IF x = g THEN NewBias(Filled(c), weight) ELSE weights[x]]
  BY <1>1, <1>4 DEF CurvesOK
<1>8. Moves(c, NewBias(Filled(c), weight))
  BY <1>1, <1>4 DEF Moves
<1>9. \A x \in Gauges : Moves(weights[x], weights'[x])
  BY <1>7, <1>8 DEF Moves, c
<1> QED
  BY <1>6, <1>7, <1>9 DEF WeightsMove

(* The weights and the types are filled.                                   *)
LEMMA CheckpointsMove ==
  ASSUME WellFormed, Checkpoint \/ \E g \in Gauges : CheckpointGauge(g)
  PROVE  WeightsMove /\ TypesMove
<1>1. Clock /\ CurvesOK /\ typeCount \in Int
  BY DEF WellFormed, Settled
<1>2. FillTotal(typeCount, sums)
  BY DEF Checkpoint, CheckpointGauge
<1>3. TypesMove
  BY <1>1, <1>2, FillTotalMoves
<1>4. CASE Checkpoint
  <2>1. weights' = weights
    BY <1>4 DEF Checkpoint
  <2> QED
    BY <1>1, <1>3, <2>1 DEF WeightsMove, Moves, CurvesOK
<1>5. ASSUME NEW g \in Gauges, CheckpointGauge(g)
      PROVE  WeightsMove
  <2>1. weights' = [x \in Gauges |-> IF x = g THEN Filled(weights[g]) ELSE weights[x]] /\ Fillable(weights[g])
    BY <1>1, <1>5 DEF CheckpointGauge, CurvesOK
  <2>2. \A x \in Gauges : Moves(weights[x], weights'[x])
    BY <2>1 DEF Moves
  <2> QED
    BY <2>1, <2>2 DEF WeightsMove
<1> QED
  BY <1>3, <1>4, <1>5

(* The vote that a user makes now.                                         *)
NewVote(u, power) == VotedSlope((locks[u].slope * power) \div FullPower, power, locks[u].end)

(* It is a vote of the right type.                                         *)
LEMMA NewVoteType ==
  ASSUME WellFormed, NEW u \in Users, NEW power \in Powers
  PROVE  NewVote(u, power) \in Ballots /\ power \in Nat /\ locks[u] \in Locks \cup {NoLock}
<1>1. power \in Nat
  BY GaugeAssumption
<1>2. locks[u] \in Locks \cup {NoLock}
  BY DEF WellFormed, Settled
<1>3. locks[u].slope \in Nat /\ locks[u].end \in Weeks
  <2>1. CASE locks[u] = NoLock
    BY <2>1, WeekFacts DEF NoLock
  <2>2. CASE locks[u] \in Locks
    <3> DEFINE lock == locks[u]
    <3>1. lock \in Locks
      BY <2>2
    <3> HIDE DEF lock
    <3>2. lock.slope \in Nat /\ lock.end \in Nat /\ lock.end % WEEK = 0
      BY <3>1, GaugeAssumption
    <3>3. lock.end <= Horizon /\ Horizon \in Nat
      BY <3>1, HorizonBounds
    <3>4. lock.end \in Weeks
      BY <3>2, <3>3 DEF Weeks
    <3> QED
      BY <3>2, <3>4 DEF lock
  <2> QED
    BY <1>2, <2>1, <2>2
<1>4. (locks[u].slope * power) \div FullPower \in Nat
  <2> DEFINE m == locks[u].slope * power
  <2>1. m \in Nat
    BY <1>1, <1>3
  <2> HIDE DEF m
  <2>2. m \div FullPower \in Nat
    BY <2>1, GaugeAssumption
  <2> QED
    BY <2>2 DEF m
<1> QED
  BY <1>1, <1>2, <1>3, <1>4 DEF NewVote, VotedSlope, Ballots

(* A user votes.                                                           *)
LEMMA VoteMoves ==
  ASSUME WellFormed, NEW u \in Users, NEW g \in Gauges, NEW power \in Powers, Vote(u, g, power)
  PROVE  WeightsMove /\ TypesMove
<1>1. Clock /\ CurvesOK /\ typeCount \in Int /\ gaugeTypes[g] > 0
  BY DEF WellFormed, Settled, Vote
<1> DEFINE k == gaugeTypes[g] - 1
           x == votes[u][g]
           y == NewVote(u, power)
           c == weights[g]
<1>2. k \in Types /\ k < typeCount
  BY <1>1, TypeOfGauge
<1>3. x \in Ballots /\ y \in Ballots
  BY NewVoteType DEF WellFormed, VotesOK
<1>4. /\ Votable(c, x) /\ Votable(sums[k], x)
      /\ weights' = [weights EXCEPT ![g] = Voted(c, x, y)]
      /\ FillTotal(typeCount, [sums EXCEPT ![k] = Voted(sums[k], x, y)])
  BY DEF Vote, NewVote
<1>5. c.time # 0 /\ sums[k].time # 0
  BY <1>1 DEF WellFormed, Linked
<1> HIDE DEF k, x, y
<1>6. TypesMove
  BY <1>1, <1>2, <1>3, <1>4, <1>5, VoteFillsTotal
<1>7. weights' = [h \in Gauges |-> IF h = g THEN Voted(c, x, y) ELSE weights[h]]
  BY <1>1, <1>4 DEF CurvesOK
<1>8. Moves(c, Voted(c, x, y))
  BY <1>3, <1>4, <1>5 DEF Moves
<1>9. \A h \in Gauges : Moves(weights[h], weights'[h])
  BY <1>7, <1>8 DEF Moves
<1> QED
  BY <1>6, <1>7, <1>9 DEF WeightsMove

(* Every call moves the curves in these ways only.                         *)
LEMMA CallsMove ==
  ASSUME WellFormed, GaugeNext
  PROVE  WeightsMove /\ TypesMove
<1>1. Clock /\ CurvesOK /\ typeCount \in Int /\ \A k \in Types : k >= typeCount => sums[k] = Flat
  BY DEF WellFormed, Settled, Linked
<1>2. weights' = weights => WeightsMove
  BY <1>1 DEF CurvesOK, WeightsMove, Moves
<1>3. UNCHANGED <<sums, typeWeights, total>> => TypesMove
  BY <1>1 DEF CurvesOK, TypesMove, Moves, LevelMoves
<1>4. ASSUME NEW k \in Types, NEW weight \in TypeWeights, ChangeTypeWeight(k, weight)
      PROVE  WeightsMove /\ TypesMove
  <2>1. weight \in Nat /\ weights' = weights /\ SetTypeWeight(typeCount, k, weight)
    BY <1>4, GaugeAssumption DEF ChangeTypeWeight
  <2>2. typeCount <= typeCount
    BY <1>1
  <2> QED
    BY <1>1, <1>2, <2>1, <2>2, SetTypeWeightMoves
<1>5. ASSUME NEW weight \in TypeWeights, AddType(weight)
      PROVE  WeightsMove /\ TypesMove
  <2>1. weight \in Nat /\ weights' = weights /\ typeCount \in Types
    BY <1>5, GaugeAssumption DEF AddType
  <2>2. CASE weight = 0
    BY <1>2, <1>3, <1>5, <2>1, <2>2 DEF AddType
  <2>3. CASE weight # 0
    <3>1. SetTypeWeight(typeCount + 1, typeCount, weight) /\ typeCount + 1 \in Int /\ typeCount <= typeCount + 1
      BY <1>1, <1>5, <2>3 DEF AddType
    <3> QED
      BY <1>1, <1>2, <2>1, <3>1, SetTypeWeightMoves
  <2> QED
    BY <2>2, <2>3
<1>6. (\E u \in Users, lock \in Locks : ChangeLock(u, lock)) => UNCHANGED curveVars
  BY DEF ChangeLock
<1>7. (\E u \in Users : Withdraw(u)) \/ GaugeTick => UNCHANGED curveVars
  BY DEF Withdraw, GaugeTick
<1>8. UNCHANGED curveVars => WeightsMove /\ TypesMove
  BY <1>2, <1>3 DEF curveVars
<1> QED
  BY <1>4, <1>5, <1>6, <1>7, <1>8, AddGaugeMoves, ChangeGaugeWeightMoves, CheckpointsMove, VoteMoves
     DEF GaugeNext

---------------------------------------------------------------------------
(* Types and the power of votes.                                           *)

PowersOf(u) == [g \in Gauges |-> votes[u][g].power]

(* The power of a user's votes is a sum over the gauges.                   *)
LEMMA PowerSum ==
  ASSUME NEW u
  PROVE  Total(LAMBDA g : votes[u][g].power, Gauges) = SumOf(PowersOf(u), Gauges)
<1> DEFINE S == Gauges
           f == PowersOf(u)
           E(g) == g = [s \in SUBSET S |-> IF s = {} THEN 0
                          ELSE votes[u][Picked(s)].power + g[s \ {Picked(s)}]]
<1>1. Total(LAMBDA g : votes[u][g].power, S) = (CHOOSE g : E(g))[S]
  BY DEF Total, MapThenSumSet, MapThenFoldSet, Picked
<1>2. IsFiniteSet(S)
  BY GaugeAssumption
<1>3. \A s \in SUBSET S : s # {} => f[Picked(s)] = votes[u][Picked(s)].power
  BY PickedIsElement DEF PowersOf
<1> HIDE DEF S, f
<1>4. \A g : E(g) <=> IsSum(g, f, S)
  BY <1>3 DEF IsSum
<1> HIDE DEF E
<1>5. PICK h : IsSum(h, f, S) /\ SumOf(f, S) = h[S]
  BY <1>2, SumIs
<1>6. (CHOOSE g : E(g))[S] = h[S]
  <2> DEFINE c == CHOOSE g : E(g)
  <2>1. IsSum(c, f, S)
    BY <1>4, <1>5
  <2> HIDE DEF c
  <2>2. c[S] = h[S]
    BY <1>2, <1>5, <2>1, SumUnique
  <2> QED
    BY <2>2 DEF c
<1> QED
  BY <1>1, <1>5, <1>6 DEF S, f

(* What a user's votes use is what is recorded as used.                    *)
LEMMA PowerIs ==
  PowerIsDivided <=> \A u \in Users : votePower[u] = SumOf(PowersOf(u), Gauges)
  BY PowerSum DEF PowerIsDivided

(* Time goes on only, within the run.                                      *)
LEMMA ClockStep ==
  ASSUME WellFormed, [GaugeNext]_gaugeVars
  PROVE  /\ Clock' /\ now \in Nat /\ now' \in Nat /\ now <= now'
         /\ NextWeek \in Nat /\ NextWeek' \in Nat /\ NextWeek <= NextWeek'
         /\ now' = now \/ UNCHANGED <<locks, setVars, curveVars, voteVars, base>>
<1>1. Clock /\ now \in Nat /\ MaxTime \in Nat /\ DeployTime \in Nat
  BY GaugeAssumption DEF WellFormed, Settled, Clock
<1>2. CASE now' = now
  <2>1. Clock' /\ NextWeek' = NextWeek
    BY <1>1, <1>2 DEF Clock, NextWeek, RoundDown
  <2> QED
    BY <1>1, <1>2, <2>1, NextWeekFacts
<1>3. CASE GaugeTick
  <2>1. now' = now + 1 /\ now < MaxTime /\ UNCHANGED <<locks, setVars, curveVars, voteVars, base>>
    BY <1>3 DEF GaugeTick
  <2>2. Clock'
    BY <1>1, <2>1 DEF Clock
  <2>3. now < NextWeek /\ NextWeek - WEEK <= now /\ NextWeek \in Nat /\ NextWeek % WEEK = 0
    BY <1>1, NextWeekFacts DEF Weeks
  <2>4. now' \in Nat /\ RoundDown(now') \in Nat /\ now' < RoundDown(now') + WEEK /\ RoundDown(now') % WEEK = 0
    BY <1>1, <2>1, RoundDownFacts
  <2>5. NextWeek' = RoundDown(now') + WEEK
    BY DEF NextWeek, RoundDown
  <2>6. RoundDown(now') + WEEK \in Nat /\ WEEK \in Nat
    BY <2>4, GaugeAssumption
  <2>7. NextWeek <= RoundDown(now') + WEEK
    <3>1. (RoundDown(now') + WEEK) % WEEK = 0
      BY <2>4, WeeksApart
    <3> DEFINE n == RoundDown(now') + WEEK
               m == NextWeek
    <3>2. n \in Nat /\ m \in Nat /\ n % WEEK = 0 /\ m % WEEK = 0 /\ m - WEEK < n
      BY <1>1, <2>1, <2>3, <2>4, <2>6, <3>1
    <3> HIDE DEF n, m
    <3>3. n < m => n + WEEK <= m
      BY <3>2, WeeksApart
    <3>4. m <= n
      BY <2>6, <3>2, <3>3
    <3> QED
      BY <3>4 DEF n, m
  <2> QED
    BY <1>1, <2>1, <2>2, <2>3, <2>4, <2>5, <2>6, <2>7
<1>4. UNCHANGED gaugeVars \/ now' = now \/ GaugeTick
  <2>1. \A weight : AddType(weight) => now' = now
    BY DEF AddType
  <2>2. \A k, weight : ChangeTypeWeight(k, weight) => now' = now
    BY DEF ChangeTypeWeight
  <2>3. \A g, k, weight : AddGauge(g, k, weight) => now' = now
    BY DEF AddGauge
  <2>4. \A g, weight : ChangeGaugeWeight(g, weight) => now' = now
    BY DEF ChangeGaugeWeight
  <2>5. Checkpoint => now' = now
    BY DEF Checkpoint
  <2>6. \A g : CheckpointGauge(g) => now' = now
    BY DEF CheckpointGauge
  <2>7. \A u, g, power : Vote(u, g, power) => now' = now
    BY DEF Vote
  <2>8. \A u, lock : ChangeLock(u, lock) \/ Withdraw(u) => now' = now
    BY DEF ChangeLock, Withdraw
  <2> QED
    BY <2>1, <2>2, <2>3, <2>4, <2>5, <2>6, <2>7, <2>8 DEF GaugeNext
<1>5. UNCHANGED gaugeVars => now' = now
  BY DEF gaugeVars
<1> QED
  BY <1>2, <1>3, <1>4, <1>5

(* The curves stay curves.                                                 *)
LEMMA CurvesStep ==
  ASSUME WellFormed, [GaugeNext]_gaugeVars
  PROVE  /\ CurvesOK'
         /\ \A g \in Gauges : weights[g].time # 0 => weights'[g].time # 0
         /\ \A k \in Types : sums[k].time # 0 => sums'[k].time # 0
         /\ WeightsMove /\ TypesMove
<1>1. Clock /\ CurvesOK
  BY DEF WellFormed, Settled
<1>2. WeightsMove /\ TypesMove
  <2>1. CASE UNCHANGED gaugeVars
    <3>1. UNCHANGED <<weights, sums, typeWeights, total>>
      BY <2>1 DEF gaugeVars, curveVars
    <3> QED
      BY <1>1, <3>1 DEF WeightsMove, TypesMove, Moves, LevelMoves, CurvesOK
  <2>2. CASE GaugeNext
    BY <2>2, CallsMove
  <2> QED
    BY <2>1, <2>2
<1>3. \A g \in Gauges : Sane(weights'[g]) /\ (weights[g].time # 0 => weights'[g].time # 0)
  <2> TAKE g \in Gauges
  <2> DEFINE c == weights[g]
             d == weights'[g]
  <2>1. Sane(c) /\ Moves(c, d)
    BY <1>1, <1>2 DEF CurvesOK, WeightsMove
  <2> HIDE DEF c, d
  <2>2. Sane(d) /\ (c.time # 0 => d.time # 0)
    BY <1>1, <2>1, MovesType
  <2> QED
    BY <2>2 DEF c, d
<1>4. \A k \in Types : Sane(sums'[k]) /\ (sums[k].time # 0 => sums'[k].time # 0)
  <2> TAKE k \in Types
  <2> DEFINE c == sums[k]
             d == sums'[k]
  <2>1. Sane(c) /\ Moves(c, d)
    BY <1>1, <1>2 DEF CurvesOK, TypesMove
  <2> HIDE DEF c, d
  <2>2. Sane(d) /\ (c.time # 0 => d.time # 0)
    BY <1>1, <2>1, MovesType
  <2> QED
    BY <2>2 DEF c, d
<1>5. \A k \in Types : SaneLevel(typeWeights'[k])
  <2> TAKE k \in Types
  <2> DEFINE c == typeWeights[k]
             d == typeWeights'[k]
  <2>1. SaneLevel(c) /\ LevelMoves(c, d)
    BY <1>1, <1>2 DEF CurvesOK, TypesMove
  <2> HIDE DEF c, d
  <2>2. SaneLevel(d)
    BY <1>1, <2>1, LevelMovesType
  <2> QED
    BY <2>2 DEF d
<1>6. SaneTotal(total')
  BY <1>2 DEF TypesMove
<1>7. /\ \A g \in Gauges : weights'[g] \in Curves /\ (weights'[g].time = 0 => weights'[g] = Flat)
                           /\ Dated(weights'[g].time)
      /\ \A k \in Types : sums'[k] \in Curves /\ (sums'[k].time = 0 => sums'[k] = Flat)
                           /\ Dated(sums'[k].time)
      /\ \A k \in Types : typeWeights'[k] \in Levels /\ Dated(typeWeights'[k].time)
                           /\ (typeWeights'[k].time = 0 => typeWeights'[k].points = [w \in Weeks |-> 0])
      /\ total' \in Levels /\ RoundDown(DeployTime) <= total'.time /\ total'.time <= NextWeek
  BY <1>3, <1>4, <1>5, <1>6 DEF Sane, SaneLevel, SaneTotal
<1>8. ASSUME NEW time, Dated(time)
      PROVE  time \in Weeks /\ (time = 0 \/ DeployTime < time) /\ time <= NextWeek'
  <2>1. time \in Weeks /\ time \in Nat /\ (time = 0 \/ DeployTime < time) /\ time <= NextWeek
    BY <1>8, WeekFacts DEF Dated
  <2>2. NextWeek \in Nat /\ NextWeek' \in Nat /\ NextWeek <= NextWeek'
    BY ClockStep
  <2> QED
    BY <2>1, <2>2
<1>9. total'.time <= NextWeek'
  <2>1. total'.time \in Nat
    BY <1>7, WeekFacts DEF Levels
  <2>2. NextWeek \in Nat /\ NextWeek' \in Nat /\ NextWeek <= NextWeek'
    BY ClockStep
  <2> QED
    BY <1>7, <2>1, <2>2
<1>10. CurvesOK'
  <2>1. \A g \in Gauges : Sane(weights[g])'
    BY <1>7, <1>8 DEF Sane, Dated
  <2>2. \A k \in Types : Sane(sums[k])'
    BY <1>7, <1>8 DEF Sane, Dated
  <2>3. \A k \in Types : SaneLevel(typeWeights[k])'
    BY <1>7, <1>8 DEF SaneLevel, Dated
  <2>4. SaneTotal(total)'
    BY <1>7, <1>9 DEF SaneTotal
  <2> QED
    BY <1>2, <2>1, <2>2, <2>3, <2>4 DEF CurvesOK, WeightsMove, TypesMove
<1> QED
  BY <1>2, <1>3, <1>4, <1>10

(* The settings keep their types.                                          *)
LEMMA SettledStep ==
  ASSUME WellFormed, [GaugeNext]_gaugeVars
  PROVE  Settled'
<1>1. PICK n \in Nat : Types = 0 .. n - 1
  BY GaugeAssumption, FS_CardinalityType
<1>2. Cardinality(Types) = n
  BY <1>1, FS_Interval
<1>3. /\ locks \in [Users -> Locks \cup {NoLock}] /\ typeCount \in 0 .. n /\ Clock
      /\ gaugeTypes \in [Gauges -> 0 .. typeCount] /\ lastVote \in [Users -> [Gauges -> Nat]]
      /\ base \in [Gauges -> Nat \cup {Overridden}] /\ now \in Nat
  BY <1>2 DEF WellFormed, Settled, Clock
<1>4. Clock'
  BY ClockStep
<1> DEFINE Others == /\ locks' \in [Users -> Locks \cup {NoLock}] /\ typeCount' \in 0 .. n
                     /\ gaugeTypes' \in [Gauges -> 0 .. typeCount']
                     /\ lastVote' \in [Users -> [Gauges -> Nat]]
                     /\ base' \in [Gauges -> Nat \cup {Overridden}]
<1>5. ASSUME UNCHANGED <<locks, setVars, lastVote, base>>
      PROVE  Others
  BY <1>3, <1>5 DEF setVars
<1>6. ASSUME NEW weight \in TypeWeights, AddType(weight)
      PROVE  Others
  <2>1. typeCount' = typeCount + 1 /\ typeCount \in Types /\ UNCHANGED <<locks, gaugeTypes, voteVars, base>>
    BY <1>6 DEF AddType
  <2>2. typeCount' \in 0 .. n /\ 0 .. typeCount \subseteq 0 .. typeCount'
    BY <1>1, <1>3, <2>1
  <2>3. gaugeTypes \in [Gauges -> 0 .. typeCount']
    BY <1>3, <2>2
  <2> QED
    BY <1>3, <2>1, <2>2, <2>3 DEF voteVars
<1>7. ASSUME NEW g \in Gauges, NEW k \in Types, NEW weight \in Weights, AddGauge(g, k, weight)
      PROVE  Others
  <2>1. /\ k < typeCount /\ UNCHANGED <<locks, typeCount, voteVars>>
        /\ gaugeTypes' = [gaugeTypes EXCEPT ![g] = k + 1] /\ base' = [base EXCEPT ![g] = weight]
    BY <1>7 DEF AddGauge
  <2>2. k + 1 \in 0 .. typeCount /\ weight \in Nat
    BY <1>1, <1>3, <2>1, GaugeAssumption
  <2>3. gaugeTypes' \in [Gauges -> 0 .. typeCount]
    BY <1>3, <2>1, <2>2
  <2> QED
    BY <1>3, <2>1, <2>2, <2>3 DEF voteVars
<1>8. ASSUME NEW g \in Gauges, NEW weight \in Weights, ChangeGaugeWeight(g, weight)
      PROVE  Others
  <2>1. /\ UNCHANGED <<locks, setVars, voteVars>>
        /\ \E b \in {weight, Overridden} : base' = [base EXCEPT ![g] = b]
    BY <1>8 DEF ChangeGaugeWeight
  <2>2. weight \in Nat
    BY GaugeAssumption
  <2> QED
    BY <1>3, <2>1, <2>2 DEF voteVars, setVars
<1>9. ASSUME NEW u \in Users, NEW g \in Gauges, NEW power \in Powers, Vote(u, g, power)
      PROVE  Others
  BY <1>3, <1>9 DEF Vote, setVars
<1>10. ASSUME NEW u \in Users, NEW lock \in Locks, ChangeLock(u, lock)
       PROVE  Others
  BY <1>3, <1>10 DEF ChangeLock, setVars, voteVars
<1>11. ASSUME NEW u \in Users, Withdraw(u)
       PROVE  Others
  BY <1>3, <1>11 DEF Withdraw, setVars, voteVars
<1>12. GaugeTick \/ UNCHANGED gaugeVars => UNCHANGED <<locks, setVars, lastVote, base>>
  BY DEF GaugeTick, gaugeVars, voteVars
<1>13. ASSUME NEW k \in Types, NEW weight \in TypeWeights, ChangeTypeWeight(k, weight)
       PROVE  UNCHANGED <<locks, setVars, lastVote, base>>
  BY <1>13 DEF ChangeTypeWeight, voteVars
<1>14. Checkpoint \/ (\E g \in Gauges : CheckpointGauge(g)) => UNCHANGED <<locks, setVars, lastVote, base>>
  BY DEF Checkpoint, CheckpointGauge, voteVars
<1> HIDE DEF Others
<1>15. Others
  BY <1>5, <1>6, <1>7, <1>8, <1>9, <1>10, <1>11, <1>12, <1>13, <1>14 DEF GaugeNext
<1> QED
  BY <1>2, <1>4, <1>15 DEF Settled, Others

(* Gauges that have not been added stay empty, the others' curves go on.   *)
LEMMA LinkedStep ==
  ASSUME WellFormed, [GaugeNext]_gaugeVars
  PROVE  Linked'
<1>1. /\ \A g \in Gauges : gaugeTypes[g] = 0 =>
           weights[g] = Flat /\ base[g] = 0 /\ \A u \in Users : votes[u][g] = NoVote
      /\ \A g \in Gauges : gaugeTypes[g] > 0 => weights[g].time # 0 /\ sums[gaugeTypes[g] - 1].time # 0
      /\ \A k \in Types : k >= typeCount => sums[k] = Flat
  BY DEF WellFormed, Linked
<1>2. /\ \A g \in Gauges : weights[g].time # 0 => weights'[g].time # 0
      /\ \A k \in Types : sums[k].time # 0 => sums'[k].time # 0
      /\ Clock /\ CurvesOK /\ TypesMove
  BY CurvesStep DEF WellFormed, Settled
<1>3. /\ \A g \in Gauges : gaugeTypes[g] \in Nat /\ (gaugeTypes[g] > 0 => gaugeTypes[g] - 1 \in Types)
      /\ \A g \in Gauges : gaugeTypes[g] > 0 => gaugeTypes[g] - 1 < typeCount
      /\ typeCount \in Int /\ gaugeTypes \in [Gauges -> 0 .. typeCount]
      /\ base \in [Gauges -> Nat \cup {Overridden}] /\ votes \in [Users -> [Gauges -> Ballots]]
  BY TypeOfGauge DEF WellFormed, Settled, VotesOK
<1>4. CurvesOK'
  BY CurvesStep
\* the second part, when no gauge is added
<1>5. gaugeTypes' = gaugeTypes =>
        \A g \in Gauges : gaugeTypes'[g] > 0 => weights'[g].time # 0 /\ sums'[gaugeTypes'[g] - 1].time # 0
  BY <1>1, <1>2, <1>3
<1>6. gaugeTypes' = gaugeTypes /\ weights' = weights /\ base' = base /\ votes' = votes =>
        \A g \in Gauges : gaugeTypes'[g] = 0 =>
          weights'[g] = Flat /\ base'[g] = 0 /\ \A u \in Users : votes'[u][g] = NoVote
  BY <1>1
<1>7. sums' = sums /\ typeCount' = typeCount => \A k \in Types : k >= typeCount' => sums'[k] = Flat
  BY <1>1
\* what fills the curves of the types leaves the empty ones alone
<1>8. ASSUME NEW n \in Int, NEW curves, sums' = FilledSums(n, curves)
      PROVE  \A k \in Types : ~ (k < n) => sums'[k] = curves[k]
  BY <1>8 DEF FilledSums
<1>9. ASSUME NEW j \in Types, NEW n, j < typeCount, ChangeSum(j, n)
      PROVE  \A k \in Types : k >= typeCount => sums'[k] = Flat
  <2>1. sums' = [FilledSums(typeCount, sums) EXCEPT ![j] = NewBias(FilledSums(typeCount, sums)[j], n)]
    BY <1>9 DEF ChangeSum
  <2>2. \A k \in Types : k >= typeCount => k # j /\ ~ (k < typeCount)
    BY <1>3, <1>9, TypesFinite
  <2>3. \A k \in Types : k >= typeCount => sums'[k] = FilledSums(typeCount, sums)[k]
    BY <2>1, <2>2 DEF FilledSums
  <2> QED
    BY <1>1, <2>2, <2>3 DEF FilledSums
<1>10. ASSUME NEW n \in Int, typeCount <= n, NEW j \in Types, NEW weight, SetTypeWeight(n, j, weight)
       PROVE  \A k \in Types : k >= n => sums'[k] = Flat
  <2>1. sums' = [FilledSums(n, sums) EXCEPT ![j] = Filled(sums[j])]
    BY <1>10 DEF SetTypeWeight
  <2>2. ASSUME NEW k \in Types, k >= n
        PROVE  sums'[k] = Flat
    <3>1. ~ (k < n) /\ sums[k] = Flat
      BY <1>1, <1>3, <1>10, <2>2, TypesFinite
    <3>2. FilledSums(n, sums)[k] = Flat
      BY <3>1 DEF FilledSums
    <3>3. sums'[k] = IF k = j THEN Filled(sums[j]) ELSE FilledSums(n, sums)[k]
      BY <2>1 DEF FilledSums
    <3> QED
      BY <1>2, <3>1, <3>2, <3>3, FlatFacts
  <2> QED
    BY <2>2
<1>11. ASSUME NEW weight \in TypeWeights, AddType(weight)
       PROVE  Linked'
  <2>1. typeCount' = typeCount + 1 /\ typeCount \in Types /\ UNCHANGED <<gaugeTypes, weights, votes, base>>
    BY <1>11 DEF AddType, voteVars
  <2>2. \A k \in Types : k >= typeCount' => sums'[k] = Flat
    <3>1. CASE weight = 0
      <4>1. sums' = sums
        BY <1>11, <3>1 DEF AddType
      <4> QED
        BY <1>1, <1>3, <2>1, <4>1, TypesFinite
    <3>2. CASE weight # 0
      <4>1. SetTypeWeight(typeCount + 1, typeCount, weight)
        BY <1>11, <3>2 DEF AddType
      <4> QED
        BY <1>3, <1>10, <2>1, <4>1
    <3> QED
      BY <3>1, <3>2
  <2> QED
    BY <1>5, <1>6, <2>1, <2>2 DEF Linked
<1>12. ASSUME NEW k \in Types, NEW weight \in TypeWeights, ChangeTypeWeight(k, weight)
       PROVE  Linked'
  <2>1. UNCHANGED <<typeCount, gaugeTypes, weights, votes, base>> /\ SetTypeWeight(typeCount, k, weight)
    BY <1>12 DEF ChangeTypeWeight, voteVars, setVars
  <2>2. typeCount <= typeCount
    BY <1>3
  <2> QED
    BY <1>3, <1>5, <1>6, <1>10, <2>1, <2>2 DEF Linked
<1>13. ASSUME NEW g \in Gauges, NEW k \in Types, NEW weight \in Weights, AddGauge(g, k, weight)
       PROVE  Linked'
  <2>1. /\ k < typeCount /\ gaugeTypes[g] = 0 /\ UNCHANGED <<typeCount, votes>>
        /\ gaugeTypes' = [gaugeTypes EXCEPT ![g] = k + 1] /\ base' = [base EXCEPT ![g] = weight]
        /\ weights' = [weights EXCEPT ![g] = NewBias(weights[g], weight)]
    BY <1>13 DEF AddGauge, voteVars
  <2>2. \A x \in Gauges : x # g => gaugeTypes'[x] = gaugeTypes[x] /\ base'[x] = base[x] /\ weights'[x] = weights[x]
    BY <1>2, <1>3, <2>1 DEF CurvesOK
  <2>3. gaugeTypes'[g] = k + 1 /\ k + 1 > 0 /\ (k + 1) - 1 = k
    BY <1>3, <2>1, TypesFinite
  <2>4. weights'[g].time # 0
    <3>1. weights'[g] = NewBias(weights[g], weight)
      BY <1>2, <2>1 DEF CurvesOK
    <3>2. weights'[g].time = NextWeek /\ NextWeek # 0
      BY <1>2, <3>1, NextWeekFacts DEF NewBias, Curve, Clock
    <3> QED
      BY <3>2
  <2>5. sums'[k].time # 0 /\ \A x \in Types : x >= typeCount => sums'[x] = Flat
    <3>1. CASE weight > 0
      <4>1. ChangeSum(k, Bias(sums[k]) + weight)
        BY <1>13, <3>1 DEF AddGauge
      <4>2. sums'[k].time = NextWeek
        <5> DEFINE f == FilledSums(typeCount, sums)
                   n == Bias(sums[k]) + weight
        <5>1. sums' = [f EXCEPT ![k] = NewBias(f[k], n)] /\ k \in DOMAIN f
          BY <4>1 DEF ChangeSum, FilledSums
        <5> HIDE DEF f, n
        <5>2. sums'[k] = NewBias(f[k], n)
          BY <5>1
        <5> QED
          BY <5>2 DEF NewBias, Curve
      <4>3. NextWeek # 0
        BY <1>2, NextWeekFacts DEF Clock
      <4> QED
        BY <1>9, <2>1, <4>1, <4>2, <4>3
    <3>2. CASE ~ (weight > 0)
      <4>1. sums' = [sums EXCEPT ![k].time = IF sums[k].time = 0 THEN NextWeek ELSE sums[k].time]
        BY <1>13, <3>2 DEF AddGauge
      <4>2. \A x \in Types : x # k => sums'[x] = sums[x]
        BY <1>2, <4>1 DEF CurvesOK
      <4>3. NextWeek # 0
        BY <1>2, NextWeekFacts DEF Clock
      <4>4. sums'[k].time # 0
        <5> DEFINE s == sums[k]
                   t == IF s.time = 0 THEN NextWeek ELSE s.time
        <5>1. sums'[k] = [s EXCEPT !.time = t] /\ s \in Curves /\ t # 0
          BY <1>2, <4>1, <4>3 DEF CurvesOK, Sane
        <5> HIDE DEF s, t
        <5> QED
          BY <5>1 DEF Curves
      <4>5. \A x \in Types : x >= typeCount => x # k
        BY <1>3, <2>1, TypesFinite
      <4> QED
        BY <1>1, <4>2, <4>4, <4>5
    <3> QED
      BY <3>1, <3>2
  <2>6. \A x \in Gauges : gaugeTypes'[x] = 0 =>
          weights'[x] = Flat /\ base'[x] = 0 /\ \A u \in Users : votes'[u][x] = NoVote
    BY <1>1, <2>1, <2>2, <2>3
  <2>7. \A x \in Gauges : gaugeTypes'[x] > 0 => weights'[x].time # 0 /\ sums'[gaugeTypes'[x] - 1].time # 0
    BY <1>1, <1>2, <1>3, <2>2, <2>3, <2>4, <2>5
  <2> QED
    BY <2>1, <2>5, <2>6, <2>7 DEF Linked
<1>14. ASSUME NEW g \in Gauges, NEW weight \in Weights, ChangeGaugeWeight(g, weight)
       PROVE  Linked'
  <2> DEFINE k == gaugeTypes[g] - 1
             n == Bias(sums[k]) + weight - Bias(weights[g])
  <2>1. /\ gaugeTypes[g] > 0 /\ UNCHANGED <<typeCount, gaugeTypes, votes>> /\ ChangeSum(k, n)
        /\ \E b : base' = [base EXCEPT ![g] = b]
        /\ weights' = [weights EXCEPT ![g] = NewBias(Filled(weights[g]), weight)]
    BY <1>14 DEF ChangeGaugeWeight, setVars, voteVars
  <2>2. k \in Types /\ k < typeCount
    BY <1>3, <2>1
  <2> HIDE DEF n, k
  <2>3. \A x \in Types : x >= typeCount => sums'[x] = Flat
    BY <1>9, <2>1, <2>2
  <2>4. \A x \in Gauges : x # g => base'[x] = base[x] /\ weights'[x] = weights[x]
    BY <1>2, <1>3, <2>1 DEF CurvesOK
  <2>5. \A x \in Gauges : gaugeTypes'[x] = 0 => x # g
    BY <2>1
  <2> QED
    BY <1>1, <1>5, <2>1, <2>3, <2>4, <2>5 DEF Linked
<1>15. ASSUME Checkpoint \/ \E g \in Gauges : CheckpointGauge(g)
       PROVE  Linked'
  <2>1. /\ UNCHANGED <<typeCount, gaugeTypes, votes, base>> /\ FillTotal(typeCount, sums)
        /\ \/ weights' = weights
           \/ \E g \in Gauges : weights' = [weights EXCEPT ![g] = Filled(weights[g])]
    BY <1>15 DEF Checkpoint, CheckpointGauge, setVars, voteVars
  <2>2. \A x \in Types : x >= typeCount => sums'[x] = Flat
    <3>1. sums' = FilledSums(typeCount, sums)
      BY <2>1 DEF FillTotal
    <3>2. \A x \in Types : x >= typeCount => ~ (x < typeCount)
      BY <1>3, TypesFinite
    <3> QED
      BY <1>1, <1>3, <1>8, <3>1, <3>2
  <2>3. \A x \in Gauges : weights'[x] = weights[x] \/ weights'[x] = Filled(weights[x])
    BY <1>2, <2>1 DEF CurvesOK
  <2>4. \A x \in Gauges : gaugeTypes'[x] = 0 => weights'[x] = Flat
    BY <1>1, <1>2, <2>1, <2>3, FlatFacts
  <2> QED
    BY <1>1, <1>5, <2>1, <2>2, <2>4 DEF Linked
<1>16. ASSUME NEW u \in Users, NEW g \in Gauges, NEW power \in Powers, Vote(u, g, power)
       PROVE  Linked'
  <2> DEFINE k == gaugeTypes[g] - 1
             v == Voted(sums[k], votes[u][g], NewVote(u, power))
             c == Voted(weights[g], votes[u][g], NewVote(u, power))
  <2>1. /\ gaugeTypes[g] > 0 /\ UNCHANGED <<typeCount, gaugeTypes, base>>
        /\ FillTotal(typeCount, [sums EXCEPT ![k] = v])
        /\ votes' = [votes EXCEPT ![u][g] = NewVote(u, power)]
        /\ weights' = [weights EXCEPT ![g] = c]
    BY <1>16 DEF Vote, NewVote, setVars
  <2>2. k \in Types /\ k < typeCount
    BY <1>3, <2>1
  <2> HIDE DEF v, c, k
  <2>3. \A x \in Types : x >= typeCount => sums'[x] = Flat
    <3> DEFINE mid == [sums EXCEPT ![k] = v]
    <3>1. sums' = FilledSums(typeCount, mid)
      BY <2>1 DEF FillTotal
    <3>2. \A x \in Types : x >= typeCount => ~ (x < typeCount) /\ x # k
      BY <1>3, <2>2, TypesFinite
    <3>3. \A x \in Types : x # k => mid[x] = sums[x]
      BY <1>2 DEF CurvesOK
    <3> HIDE DEF mid
    <3>4. \A x \in Types : ~ (x < typeCount) => sums'[x] = mid[x]
      BY <1>3, <1>8, <3>1
    <3> QED
      BY <1>1, <3>2, <3>3, <3>4
  <2>4. \A x \in Gauges : x # g => weights'[x] = weights[x] /\ \A a \in Users : votes'[a][x] = votes[a][x]
    BY <1>2, <1>3, <2>1 DEF CurvesOK
  <2>5. \A x \in Gauges : gaugeTypes'[x] = 0 => x # g
    BY <2>1
  <2> QED
    BY <1>1, <1>5, <2>1, <2>3, <2>4, <2>5 DEF Linked
<1>17. (\E u \in Users, lock \in Locks : ChangeLock(u, lock)) => UNCHANGED <<setVars, curveVars, votes, base>>
  BY DEF ChangeLock, voteVars
<1>18. (\E u \in Users : Withdraw(u)) \/ GaugeTick \/ UNCHANGED gaugeVars =>
         UNCHANGED <<setVars, curveVars, votes, base>>
  BY DEF Withdraw, GaugeTick, gaugeVars, voteVars
<1>19. UNCHANGED <<setVars, curveVars, votes, base>> => Linked'
  BY <1>5, <1>6, <1>7 DEF setVars, curveVars, Linked
<1> QED
  BY <1>11, <1>12, <1>13, <1>14, <1>15, <1>16, <1>17, <1>18, <1>19 DEF GaugeNext

(* The votes of a user use the power that is recorded.                     *)
LEMMA VotesStep ==
  ASSUME WellFormed, [GaugeNext]_gaugeVars
  PROVE  VotesOK'
<1>1. /\ votes \in [Users -> [Gauges -> Ballots]] /\ votePower \in [Users -> 0 .. FullPower]
      /\ \A u \in Users : votePower[u] = SumOf(PowersOf(u), Gauges)
  BY PowerIs DEF WellFormed, VotesOK
<1>2. PowerIsDivided' <=> \A u \in Users : votePower'[u] = SumOf(PowersOf(u)', Gauges)
  <2>1. (PowerIsDivided <=> \A u \in Users : votePower[u] = SumOf(PowersOf(u), Gauges))'
    BY PowerIs, PTL
  <2> QED
    BY <2>1
<1>3. UNCHANGED <<votes, votePower>> => VotesOK'
  BY <1>1, <1>2 DEF VotesOK, PowersOf
<1>4. ASSUME NEW u \in Users, NEW g \in Gauges, NEW power \in Powers, Vote(u, g, power)
      PROVE  VotesOK'
  <2> DEFINE y == NewVote(u, power)
             n == PowerAfter(u, g, power)
  <2>1. /\ votes' = [votes EXCEPT ![u][g] = y] /\ votePower' = [votePower EXCEPT ![u] = n]
        /\ n <= FullPower
    BY <1>4 DEF Vote, NewVote
  <2>2. y \in Ballots /\ power \in Nat /\ y.power = power
    BY NewVoteType DEF NewVote, VotedSlope
  <2>3. n = votePower[u] + power - votes[u][g].power
    BY DEF PowerAfter
  <2> HIDE DEF y, n
  <2>4. \A x \in Gauges : PowersOf(u)[x] \in Nat /\ PowersOf(u)[x] = votes[u][x].power
    BY <1>1 DEF PowersOf, Ballots
  <2>5. votes[u][g].power \in Nat /\ votes[u][g].power <= votePower[u] /\ votePower[u] \in Nat
    <3> DEFINE f == PowersOf(u)
    <3>1. \A x \in Gauges : f[x] \in Nat
      BY <2>4
    <3> HIDE DEF f
    <3>2. \A x \in Gauges : f[x] <= SumOf(f, Gauges)
      BY <3>1, GaugeAssumption, SumOfNat
    <3> QED
      BY <1>1, <2>4, <3>2 DEF f
  <2>6. n \in 0 .. FullPower
    BY <2>1, <2>2, <2>3, <2>5, GaugeAssumption
  <2>7. /\ votes' \in [Users -> [Gauges -> Ballots]] /\ votePower' \in [Users -> 0 .. FullPower]
        /\ votes'[u] = [votes[u] EXCEPT ![g] = y] /\ votePower'[u] = n
        /\ \A x \in Users : x # u => votes'[x] = votes[x] /\ votePower'[x] = votePower[x]
    BY <1>1, <2>1, <2>2, <2>6
  <2>8. SumOf(PowersOf(u)', Gauges) = SumOf(PowersOf(u), Gauges) + (power - votes[u][g].power)
    <3> DEFINE f == PowersOf(u)
               k == PowersOf(u)'
               d == power - votes[u][g].power
    <3>1. d \in Int
      BY <2>2, <2>5
    <3>2. \A x \in Gauges : f[x] \in Int /\ k[x] = f[x] + (IF x = g THEN d ELSE 0)
      <4> TAKE x \in Gauges
      <4>1. k[x] = votes'[u][x].power
        BY DEF PowersOf
      <4>2. x = g => votes'[u][x] = y
        BY <1>1, <2>7
      <4>3. x # g => votes'[u][x] = votes[u][x]
        BY <1>1, <2>7
      <4> QED
        BY <2>2, <2>4, <2>5, <4>1, <4>2, <4>3
    <3> HIDE DEF f, k, d
    <3>3. SumOf(k, Gauges) = SumOf(f, Gauges) + d
      BY <3>1, <3>2, GaugeAssumption, SumOfChange
    <3> QED
      BY <3>3 DEF f, k, d
  <2>9. \A x \in Users : votePower'[x] = SumOf(PowersOf(x)', Gauges)
    <3> TAKE x \in Users
    <3>1. CASE x = u
      BY <1>1, <2>2, <2>3, <2>5, <2>7, <2>8, <3>1
    <3>2. CASE x # u
      <4>1. PowersOf(x)' = PowersOf(x)
        BY <2>7, <3>2 DEF PowersOf
      <4> QED
        BY <1>1, <2>7, <3>2, <4>1
    <3> QED
      BY <3>1, <3>2
  <2> QED
    BY <1>2, <2>7, <2>9 DEF VotesOK
<1>5. /\ (\E weight \in TypeWeights : AddType(weight)) => UNCHANGED <<votes, votePower>>
      /\ (\E k \in Types, weight \in TypeWeights : ChangeTypeWeight(k, weight)) => UNCHANGED <<votes, votePower>>
      /\ (\E g \in Gauges, k \in Types, weight \in Weights : AddGauge(g, k, weight)) =>
           UNCHANGED <<votes, votePower>>
  BY DEF AddType, ChangeTypeWeight, AddGauge, voteVars
<1>6. /\ (\E g \in Gauges, weight \in Weights : ChangeGaugeWeight(g, weight)) => UNCHANGED <<votes, votePower>>
      /\ Checkpoint \/ (\E g \in Gauges : CheckpointGauge(g)) => UNCHANGED <<votes, votePower>>
      /\ (\E u \in Users, lock \in Locks : ChangeLock(u, lock)) => UNCHANGED <<votes, votePower>>
      /\ (\E u \in Users : Withdraw(u)) \/ GaugeTick \/ UNCHANGED gaugeVars => UNCHANGED <<votes, votePower>>
  BY DEF ChangeGaugeWeight, Checkpoint, CheckpointGauge, ChangeLock, Withdraw, GaugeTick, gaugeVars, voteVars
<1> QED
  BY <1>3, <1>4, <1>5, <1>6 DEF GaugeNext

(* At the start nothing is there.                                          *)
LEMMA WellFormedInit ==
  ASSUME GaugeInit
  PROVE  WellFormed
<1>1. Clock
  BY GaugeAssumption DEF GaugeInit, Clock
<1>2. 0 \in 0 .. Cardinality(Types)
  <2>1. Cardinality(Types) \in Nat
    BY TypesFinite, FS_CardinalityType
  <2> QED
    BY <2>1
<1>3. Settled
  BY <1>1, <1>2 DEF GaugeInit, Settled
<1>4. CurvesOK
  <2>1. Sane(Flat)
    BY <1>1, FlatFacts
  <2> DEFINE empty == Level([w \in Weeks |-> 0], 0)
  <2>2. SaneLevel(empty)
    <3>1. empty \in Levels /\ empty.points = [w \in Weeks |-> 0] /\ empty.time = 0
      BY WeekFacts, LevelType
    <3>2. 0 <= NextWeek
      BY <1>1, NextWeekFacts
    <3> HIDE DEF empty
    <3> QED
      BY <3>1, <3>2, WeekFacts DEF SaneLevel, Dated
  <2> HIDE DEF empty
  <2>3. /\ weights = [g \in Gauges |-> Flat] /\ sums = [k \in Types |-> Flat]
        /\ typeWeights = [k \in Types |-> empty]
        /\ total = Level([w \in Weeks |-> 0], RoundDown(DeployTime)) /\ now = DeployTime
    BY DEF GaugeInit, empty
  <2>4. SaneTotal(total)
    <3>1. /\ RoundDown(DeployTime) \in Nat /\ RoundDown(DeployTime) <= DeployTime
          /\ RoundDown(DeployTime) % WEEK = 0 /\ DeployTime \in Nat
      BY GaugeAssumption, RoundDownFacts
    <3>2. DeployTime <= Horizon /\ NextWeek \in Nat /\ DeployTime < NextWeek /\ Horizon \in Nat
      <4>1. MaxTime + WEEK <= Horizon /\ Horizon \in Nat
        BY HorizonBounds
      <4>2. NextWeek \in Nat /\ DeployTime < NextWeek
        BY <1>1, <2>3, NextWeekFacts
      <4> QED
        BY <4>1, <4>2, GaugeAssumption
    <3> DEFINE t == RoundDown(DeployTime)
               p == [w \in Weeks |-> 0]
    <3>3. t \in Weeks /\ t <= t /\ t <= NextWeek
      BY <3>1, <3>2 DEF Weeks
    <3>4. p \in [Weeks -> Nat]
      OBVIOUS
    <3> HIDE DEF t, p
    <3>5. Level(p, t) \in Levels /\ Level(p, t).time = t
      BY <3>3, <3>4, LevelType
    <3> QED
      BY <2>3, <3>3, <3>5 DEF SaneTotal, t, p
  <2> QED
    BY <2>1, <2>2, <2>3, <2>4 DEF CurvesOK
<1>5. Linked
  BY DEF GaugeInit, Linked
<1>6. VotesOK
  <2>1. votes \in [Users -> [Gauges -> Ballots]] /\ votePower \in [Users -> 0 .. FullPower]
    BY GaugeAssumption, WeekFacts DEF GaugeInit, NoVote, VotedSlope, Ballots
  <2>2. \A u \in Users : SumOf(PowersOf(u), Gauges) = 0
    <3> TAKE u \in Users
    <3> DEFINE f == PowersOf(u)
    <3>1. \A g \in Gauges : f[g] = 0
      BY DEF PowersOf, GaugeInit, NoVote, VotedSlope
    <3> HIDE DEF f
    <3>2. SumOf(f, Gauges) = 0
      BY <3>1, GaugeAssumption, SumOfZeros
    <3> QED
      BY <3>2 DEF f
  <2>3. \A u \in Users : votePower[u] = 0
    BY DEF GaugeInit
  <2> QED
    BY <2>1, <2>2, <2>3, PowerIs DEF VotesOK
<1> QED
  BY <1>3, <1>4, <1>5, <1>6 DEF WellFormed

(* The state is always well formed.                                        *)
LEMMA AlwaysWellFormed == GaugeSpec => []WellFormed
<1>1. GaugeInit => WellFormed
  BY WellFormedInit
<1>2. WellFormed /\ [GaugeNext]_gaugeVars => WellFormed'
  BY SettledStep, CurvesStep, LinkedStep, VotesStep DEF WellFormed
<1> QED
  BY <1>1, <1>2, PTL DEF GaugeSpec

(* Every variable keeps its type: no slope, sum or total of weights ever   *)
(* falls below zero, although calls subtract from them, and no call writes *)
(* outside the weeks of the run.                                           *)
THEOREM GaugesAreWellTyped == GaugeSpec => []GaugeTypeOK
<1>1. WellFormed => GaugeTypeOK
  <2> SUFFICES ASSUME WellFormed
               PROVE  GaugeTypeOK
    OBVIOUS
  <2>1. Settled /\ CurvesOK /\ VotesOK /\ now \in Nat
    BY DEF WellFormed, Settled, Clock
  <2>2. Curves = [points : [Weeks -> [bias : Nat, slope : Nat]], changes : [Weeks -> Nat], time : Weeks]
    BY DEF Curves, Points
  <2>3. weights \in [Gauges -> Curves] /\ sums \in [Types -> Curves]
    BY <2>1 DEF CurvesOK, Sane
  <2>4. typeWeights \in [Types -> Levels] /\ total \in Levels
    BY <2>1 DEF CurvesOK, SaneLevel, SaneTotal
  <2> QED
    BY <2>1, <2>2, <2>3, <2>4 DEF GaugeTypeOK, Settled, VotesOK, Levels, Ballots
<1> QED
  BY <1>1, AlwaysWellFormed, PTL

(* A user's votes use no more than the user's power, and what is recorded  *)
(* as used is what the votes use (vote_user_power).                        *)
THEOREM PowerIsAlwaysDivided == GaugeSpec => []PowerIsDivided
<1>1. WellFormed => PowerIsDivided
  BY DEF WellFormed, VotesOK
<1> QED
  BY <1>1, AlwaysWellFormed, PTL

---------------------------------------------------------------------------
(* Weeks that have begun.                                                  *)

\* The loops over weeks are long enough for what was filled last
InTime ==
    /\ \A g \in Gauges : weights[g].time # 0 => Reaches(weights[g].time)
    /\ \A k \in Types : sums[k].time # 0 => Reaches(sums[k].time)
    /\ \A k \in Types : typeWeights[k].time # 0 => Reaches(typeWeights[k].time)
    /\ Reaches(total.time)

(* The empty curve stays empty.                                            *)
LEMMA FlatProjected == \A w \in Weeks : Projected(Flat)[w] = Point(0, 0)
<1> DEFINE c == Flat
<1>1. /\ c.time = 0 /\ c.points = [w \in Weeks |-> Point(0, 0)] /\ c.changes = [w \in Weeks |-> 0]
      /\ c = Curve(c.points, c.changes, c.time)
  BY DEF Flat, Curve
<1>2. Point(0, 0) \in AnyPoints /\ Decayed(Point(0, 0), 0) = Point(0, 0)
  <2>1. 0 * WEEK = 0
    BY GaugeAssumption
  <2> QED
    BY <2>1 DEF Point, AnyPoints, Decayed
<1>3. AnyCurve(c)
  BY <1>1, <1>2, WeekFacts DEF AnyCurve
<1> HIDE DEF c
<1>4. /\ \A w \in Weeks : w <= c.time => Projected(c)[w] = c.points[w]
      /\ \A w \in Weeks : w > c.time =>
           w - WEEK \in Weeks /\ Projected(c)[w] = Decayed(Projected(c)[w - WEEK], c.changes[w])
  BY <1>3, ProjectedIs
<1> DEFINE T == {w \in Weeks : Projected(c)[w] = Point(0, 0)}
<1>5. 0 \in Weeks /\ 0 \in T
  <2>1. 0 \in Weeks /\ 0 <= c.time
    BY <1>1, WeekFacts
  <2>2. Projected(c)[0] = c.points[0]
    BY <1>4, <2>1
  <2>3. c.points[0] = Point(0, 0)
    BY <1>1, <2>1
  <2> QED
    BY <2>1, <2>2, <2>3
<1>6. ASSUME NEW w \in Weeks, w >= 0, w \in T, w + WEEK \in Weeks
      PROVE  w + WEEK \in T
  <2>1. w + WEEK > c.time /\ (w + WEEK) - WEEK = w
    BY <1>1, WeekFacts
  <2>2. c.changes[w + WEEK] = 0
    BY <1>1, <1>6
  <2> QED
    BY <1>2, <1>4, <1>6, <2>1, <2>2
<1> HIDE DEF T
<1>7. \A w \in Weeks : w >= 0 => w \in T
  BY <1>5, <1>6, WeekInduction
<1> QED
  BY <1>7, WeekFacts DEF T, c

(* A curve that is filled up to the next week.                             *)
LEMMA FilledFully ==
  ASSUME Clock, NEW c, Sane(c), c.time # 0, Reaches(c.time)
  PROVE  /\ Filled(c).time = NextWeek
         /\ Filled(c).changes = c.changes
         /\ \A w \in Weeks : Filled(c).points[w] = IF w > NextWeek THEN c.points[w] ELSE Projected(c)[w]
         /\ Filled(c) = Curve(Filled(c).points, Filled(c).changes, Filled(c).time)
         /\ Bias(c) = Projected(c)[NextWeek].bias
<1>1. FilledTo(c.time) = NextWeek /\ TimeAfter(c.time) = NextWeek
  BY FilledToFacts DEF Sane, Dated
<1>2. Filled(c).time = NextWeek /\ Filled(c).changes = c.changes
  BY <1>1, FilledIs
<1>3. Filled(c).points = [w \in Weeks |-> IF w > NextWeek THEN c.points[w] ELSE Projected(c)[w]]
  BY <1>1, FilledIs
<1>4. Filled(c) = Curve(Filled(c).points, Filled(c).changes, Filled(c).time)
  BY FilledIs
<1>5. Bias(c) = Projected(c)[NextWeek].bias
  BY <1>1, BiasType
<1> QED
  BY <1>2, <1>3, <1>4, <1>5

(* The next week is always reached from itself.                            *)
LEMMA NextWeekReached ==
  ASSUME Clock
  PROVE  Reaches(NextWeek) /\ NextWeek # 0 /\ FilledTo(NextWeek) = NextWeek
<1>1. NextWeek \in Nat /\ now < NextWeek /\ now \in Nat
  BY NextWeekFacts DEF Clock
<1>2. FillWeeks * WEEK \in Nat
  BY GaugeAssumption
<1> QED
  BY <1>1, <1>2 DEF Reaches, FilledTo

Past(c, d) == \A w \in Weeks : w < NextWeek => Projected(d)[w] = Projected(c)[w]

(* Filling changes nothing.                                                *)
LEMMA FilledPast ==
  ASSUME Clock, NEW c, Sane(c), c.time # 0 => Reaches(c.time), Fillable(c)
  PROVE  /\ Past(c, Filled(c))
         /\ \A w \in Weeks : w <= NextWeek => /\ Projected(Filled(c))[w] = Projected(c)[w]
                                              /\ Filled(c).points[w] = Projected(c)[w]
<1> DEFINE f == Filled(c)
<1>1. Sane(f)
  BY FilledType
<1>2. NextWeek \in Nat
  BY NextWeekFacts
<1>3. CASE c.time = 0
  <2>1. f = c /\ c = Flat
    BY <1>3 DEF Filled, Sane
  <2>2. \A w \in Weeks : Flat.points[w] = Projected(Flat)[w]
    BY FlatProjected, FlatFacts
  <2> QED
    BY <2>1, <2>2 DEF Past
<1>4. CASE c.time # 0
  <2>1. f.time = NextWeek /\ \A w \in Weeks : f.points[w] = IF w > NextWeek THEN c.points[w] ELSE Projected(c)[w]
    BY <1>4, FilledFully
  <2> HIDE DEF f
  <2>2. \A w \in Weeks : w <= f.time => Projected(f)[w] = f.points[w]
    BY <1>1, CurveParts, ProjectedIs DEF Sane
  <2>3. \A w \in Weeks : w <= NextWeek => Projected(f)[w] = Projected(c)[w] /\ f.points[w] = Projected(c)[w]
    BY <1>2, <2>1, <2>2, WeekFacts
  <2>4. \A w \in Weeks : w < NextWeek => w <= NextWeek
    BY <1>2, WeekFacts
  <2> QED
    BY <2>3, <2>4 DEF Past, f
<1> QED
  BY <1>3, <1>4

(* A change of the next week's point of a filled curve changes no earlier  *)
(* week.                                                                   *)
LEMMA ChangedPast ==
  ASSUME Clock, NEW c, Sane(c), c.time # 0 => Reaches(c.time), Fillable(c),
         NEW d, Sane(d), d.time = NextWeek,
         \A w \in Weeks : w < NextWeek => d.points[w] = Filled(c).points[w]
  PROVE  Past(c, d)
<1>1. \A w \in Weeks : w <= d.time => Projected(d)[w] = d.points[w]
  BY CurveParts, ProjectedIs DEF Sane
<1>2. \A w \in Weeks : w < NextWeek => w <= NextWeek
  BY NextWeekFacts, WeekFacts
<1>3. \A w \in Weeks : w <= NextWeek => Filled(c).points[w] = Projected(c)[w]
  BY FilledPast
<1> QED
  BY <1>1, <1>2, <1>3 DEF Past

(* No call changes a curve in a week that has begun.                       *)
LEMMA MovesPast ==
  ASSUME Clock, NEW c, Sane(c), c.time # 0 => Reaches(c.time), NEW d, Moves(c, d)
  PROVE  Past(c, d)
<1>0. NextWeek \in Weeks /\ NextWeek \in Nat /\ \A w \in Weeks : w \in Nat
  BY NextWeekFacts, WeekFacts
<1>1. CASE d = c
  BY <1>1 DEF Past
<1>2. CASE Fillable(c) /\ d = Filled(c)
  BY <1>2, FilledPast
<1>3. ASSUME NEW b \in Nat, Fillable(c), d = NewBias(Filled(c), b)
      PROVE  Past(c, d)
  <2> DEFINE f == Filled(c)
  <2>1. Sane(f)
    BY <1>3, FilledType
  <2>2. d = NewBias(f, b)
    BY <1>3
  <2> HIDE DEF f
  <2>3. Sane(d) /\ d.time = NextWeek /\ d.points = [f.points EXCEPT ![NextWeek] = Point(b, f.points[NextWeek].slope)]
    BY <2>1, <2>2, NewBiasIs
  <2>4. f.points \in [Weeks -> Points]
    BY <2>1, CurveParts DEF Sane
  <2>5. \A w \in Weeks : w < NextWeek => d.points[w] = f.points[w]
    BY <1>0, <2>3, <2>4
  <2>6. Sane(d) /\ d.time = NextWeek
    BY <2>3
  <2>7. \A w \in Weeks : w < NextWeek => d.points[w] = Filled(c).points[w]
    BY <2>5 DEF f
  <2> QED
    BY <1>3, <2>6, <2>7, ChangedPast
<1>4. ASSUME NEW x \in Ballots, NEW y \in Ballots, c.time # 0, Votable(c, x)
      PROVE  LET v == Voted(c, x, y)
             IN  Past(c, v) /\ (Fillable(v) => Past(c, Filled(v)))
  <2> DEFINE v == Voted(c, x, y)
             p == [Filled(c).points EXCEPT ![NextWeek] = PointAfter(c, x, y)]
  <2>1. Sane(v) /\ v.time = TimeAfter(c.time) /\ v.points = p
    BY <1>4, VotedIs
  <2>2. TimeAfter(c.time) = NextWeek /\ Fillable(c)
    BY <1>4, FilledToFacts DEF Sane, Dated, Votable
  <2>3. Filled(c).points \in [Weeks -> Points]
    <3>1. Sane(Filled(c))
      BY <2>2, FilledType
    <3> DEFINE f == Filled(c)
    <3> HIDE DEF f
    <3>2. f.points \in [Weeks -> Points]
      BY <3>1, CurveParts DEF Sane, f
    <3> QED
      BY <3>2 DEF f
  <2>4. \A w \in Weeks : w < NextWeek => v.points[w] = Filled(c).points[w]
    BY <1>0, <2>1, <2>3
  <2> HIDE DEF v
  <2>5. Past(c, v)
    BY <2>1, <2>2, <2>4, ChangedPast
  <2>6. Fillable(v) => Past(v, Filled(v))
    <3>1. v.time # 0 => Reaches(v.time)
      BY <2>1, <2>2, NextWeekReached
    <3> QED
      BY <2>1, <3>1, FilledPast
  <2> QED
    BY <2>5, <2>6 DEF Past, v
<1> QED
  BY <1>1, <1>2, <1>3, <1>4 DEF Moves

---------------------------------------------------------------------------
(* The total of a week.                                                    *)

\* The weight of a type in a week; the last one stays
LevelAt(l, w) == IF w <= l.time THEN l.points[w] ELSE l.points[l.time]
PastLevel(l, m) == \A w \in Weeks : w < NextWeek => LevelAt(m, w) = LevelAt(l, w)

(* No call changes the weight of a type in a week that has begun, and      *)
(* filling does not change it at all.                                      *)
LEMMA LevelMovesPast ==
  ASSUME Clock, NEW l, SaneLevel(l), l.time # 0 => Reaches(l.time)
  PROVE  /\ \A w \in Weeks : w <= NextWeek => /\ LevelAt(FilledLevel(l), w) = LevelAt(l, w)
                                              /\ FilledLevel(l).points[w] = LevelAt(l, w)
         /\ LevelAt(l, NextWeek) = l.points[l.time]
         /\ \A m : LevelMoves(l, m) => PastLevel(l, m)
<1>1. /\ l.points \in [Weeks -> Nat] /\ l.time \in Weeks /\ l.time \in Nat /\ l.time <= NextWeek
      /\ NextWeek \in Weeks /\ NextWeek \in Nat
  BY NextWeekFacts, WeekFacts DEF SaneLevel, Levels, Dated
<1> DEFINE f == FilledLevel(l)
<1>2. /\ SaneLevel(f)
      /\ \A w \in Weeks : w <= NextWeek => LevelAt(f, w) = LevelAt(l, w) /\ f.points[w] = LevelAt(l, w)
  <2>1. CASE l.time = 0
    <3>1. f = l /\ l.points = [w \in Weeks |-> 0]
      BY <2>1, FilledLevelIs DEF SaneLevel
    <3>2. \A w \in Weeks : LevelAt(l, w) = 0 /\ l.points[w] = 0
      BY <1>1, <2>1, <3>1 DEF LevelAt
    <3> QED
      BY <3>1, <3>2
  <2>2. CASE l.time # 0
    <3>1. SaneLevel(f) /\ f.time = NextWeek
      BY <1>1, <2>2, FilledLevelIs, FilledToFacts
    <3>2. FilledTo(l.time) = NextWeek
      BY <1>1, <2>2, FilledToFacts
    <3>3. f.points = [w \in Weeks |-> IF l.time < w /\ w <= NextWeek THEN l.points[l.time] ELSE l.points[w]]
      BY <2>2, <3>2, FilledLevelIs
    <3> HIDE DEF f
    <3>4. \A w \in Weeks : w <= NextWeek => LevelAt(f, w) = f.points[w]
      BY <3>1 DEF LevelAt
    <3>5. ASSUME NEW w \in Weeks, w <= NextWeek
          PROVE  f.points[w] = LevelAt(l, w)
      <4>1. w \in Nat
        BY WeekFacts
      <4>2. f.points[w] = IF l.time < w /\ w <= NextWeek THEN l.points[l.time] ELSE l.points[w]
        BY <3>3
      <4>3. l.time < w <=> ~ (w <= l.time)
        BY <1>1, <4>1
      <4> QED
        BY <3>5, <4>2, <4>3 DEF LevelAt
    <3> QED
      BY <3>1, <3>4, <3>5 DEF f
  <2> QED
    BY <2>1, <2>2
<1>3. LevelAt(l, NextWeek) = l.points[l.time]
  BY <1>1 DEF LevelAt
<1>4. \A w \in Weeks : w < NextWeek => w <= NextWeek
  BY <1>1, WeekFacts
<1>5. ASSUME NEW n \in Nat
      PROVE  PastLevel(l, NewLevel(f, n))
  <2>1. f \in Levels
    BY <1>2 DEF SaneLevel
  <2> HIDE DEF f
  <2> DEFINE m == NewLevel(f, n)
  <2>2. m.time = NextWeek /\ m.points = [f.points EXCEPT ![NextWeek] = n]
    BY <2>1, NewLevelIs
  <2>3. f.points \in [Weeks -> Nat]
    BY <2>1 DEF Levels
  <2>4. \A w \in Weeks : w < NextWeek => m.points[w] = f.points[w]
    <3> TAKE w \in Weeks
    <3>1. w \in Nat /\ (w < NextWeek => w # NextWeek)
      BY <1>1, WeekFacts
    <3> QED
      BY <2>2, <2>3, <3>1
  <2> HIDE DEF m
  <2>5. \A w \in Weeks : w < NextWeek => LevelAt(m, w) = m.points[w]
    BY <1>4, <2>2 DEF LevelAt
  <2>6. \A w \in Weeks : w < NextWeek => LevelAt(m, w) = LevelAt(l, w)
    BY <1>2, <1>4, <2>4, <2>5 DEF f
  <2> QED
    BY <2>6 DEF PastLevel, m
<1>6. PastLevel(l, f) /\ PastLevel(l, l)
  BY <1>2, <1>4 DEF PastLevel
<1> QED
  BY <1>2, <1>3, <1>5, <1>6 DEF LevelMoves

Products(curves, levels, w) == [k \in Types |-> Projected(curves[k])[w].bias * LevelAt(levels[k], w)]
TotalAt(curves, levels, w) == SumOf(Products(curves, levels, w), Types)

\* The total of every week up to the last one filled
TotalRight(curves, levels, t) ==
    \A w \in Weeks : DeployTime < w /\ w <= t.time => t.points[w] = TotalAt(curves, levels, w)

(* The terms of the total are numbers.                                     *)
LEMMA ProductsType ==
  ASSUME NEW curves, NEW levels, \A k \in Types : curves[k] \in Curves /\ levels[k] \in Levels, NEW w \in Weeks
  PROVE  /\ \A k \in Types : Projected(curves[k])[w].bias \in Nat /\ LevelAt(levels[k], w) \in Nat
         /\ \A k \in Types : Products(curves, levels, w)[k] \in Nat
         /\ TotalAt(curves, levels, w) \in Nat
<1>1. ASSUME NEW k \in Types
      PROVE  Projected(curves[k])[w].bias \in Nat /\ LevelAt(levels[k], w) \in Nat
  <2> DEFINE c == curves[k]
             l == levels[k]
  <2>1. c \in Curves /\ l \in Levels
    OBVIOUS
  <2> HIDE DEF c, l
  <2>2. Projected(c)[w] \in AnyPoints
    BY <2>1, CurveParts, ProjectedIs
  <2>3. LevelAt(l, w) \in Nat
    BY <2>1 DEF LevelAt, Levels
  <2> QED
    BY <2>2, <2>3 DEF c, l, AnyPoints
<1> DEFINE f == Products(curves, levels, w)
<1>2. ASSUME NEW k \in Types
      PROVE  f[k] \in Nat
  <2> DEFINE a == Projected(curves[k])[w].bias
             b == LevelAt(levels[k], w)
  <2>1. f[k] = a * b
    BY DEF Products
  <2>2. a \in Nat /\ b \in Nat
    BY <1>1
  <2> HIDE DEF a, b, f
  <2> QED
    BY <2>1, <2>2
<1> HIDE DEF f
<1>3. SumOf(f, Types) \in Nat
  BY <1>2, TypesFinite, SumOfNat
<1> QED
  BY <1>1, <1>2, <1>3 DEF f, TotalAt

\* All of a curve or level up to the next week is there
FullCurve(c) == c = Flat \/ c.time = NextWeek
FullLevel(l) == \A w \in Weeks : w <= NextWeek => l.points[w] = LevelAt(l, w)

\* newCurves and newLevels, of n types, have what curves and levels lead to
Matches(n, curves, levels, newCurves, newLevels, w) ==
    /\ \A k \in Types : curves[k] \in Curves /\ levels[k] \in Levels
    /\ \A k \in Types : k < n => /\ newCurves[k].points[w] = Projected(curves[k])[w]
                                 /\ newLevels[k].points[w] = LevelAt(levels[k], w)
    /\ \A k \in Types : ~ (k < n) => Projected(curves[k])[w].bias = 0

(* What the loop of _get_total adds up for a week.                         *)
LEMMA TotalOfWeek ==
  ASSUME NEW n \in Int, NEW curves, NEW levels, NEW newCurves, NEW newLevels, NEW w \in Weeks,
         Matches(n, curves, levels, newCurves, newLevels, w)
  PROVE  SumOf(Weighted(newCurves, newLevels, w), AddedTypes(n)) = TotalAt(curves, levels, w)
<1>0. /\ \A k \in Types : curves[k] \in Curves /\ levels[k] \in Levels
      /\ \A k \in Types : k < n => /\ newCurves[k].points[w] = Projected(curves[k])[w]
                                   /\ newLevels[k].points[w] = LevelAt(levels[k], w)
      /\ \A k \in Types : ~ (k < n) => Projected(curves[k])[w].bias = 0
  BY DEF Matches
<1> DEFINE f == Weighted(newCurves, newLevels, w)
           p == Products(curves, levels, w)
           R == AddedTypes(n)
<1>1. R \in SUBSET Types /\ \A k \in Types : k \in R <=> k < n
  BY DEF AddedTypes
<1>2. ASSUME NEW k \in Types
      PROVE  p[k] \in Int /\ p[k] = IF k \in R THEN f[k] ELSE 0
  <2> DEFINE a == Projected(curves[k])[w].bias
             b == LevelAt(levels[k], w)
             x == newCurves[k].points[w].bias
             y == newLevels[k].points[w]
  <2>1. a \in Nat /\ b \in Nat /\ p[k] \in Nat
    BY <1>0, ProductsType
  <2>2. f[k] = x * y /\ p[k] = a * b
    BY DEF Weighted, Products
  <2>3. (k \in R => x = a /\ y = b) /\ (k \notin R => a = 0)
    BY <1>0, <1>1
  <2> HIDE DEF a, b, x, y, f, p, R
  <2>4. 0 * b = 0
    BY <2>1
  <2> QED
    BY <2>1, <2>2, <2>3, <2>4
<1> DEFINE h == [k \in Types |-> IF k \in R THEN f[k] ELSE 0]
<1>3. \A k \in R : h[k] = f[k]
  BY <1>1
<1>4. \A k \in Types : h[k] \in Int /\ p[k] = IF k \in R THEN h[k] ELSE 0
  <2> TAKE k \in Types
  <2>1. h[k] = p[k]
    BY <1>2
  <2>2. p[k] = IF k \in R THEN h[k] ELSE 0
    BY <1>2, <1>3
  <2> QED
    BY <1>2, <2>1, <2>2
<1> HIDE DEF f, p, R, h
<1>5. SumOf(p, Types) = SumOf(h, R)
  <2>1. R \in SUBSET Types
    BY <1>1
  <2>2. IsPart(Types, R, h, p)
    BY <1>4 DEF IsPart
  <2> QED
    BY <2>1, <2>2, TypesFinite, SumOverPart
<1>6. SumOf(h, R) = SumOf(f, R)
  <2>1. IsFiniteSet(R)
    BY <1>1, TypesFinite, FS_Subset
  <2> QED
    BY <1>3, <2>1, SumEqual
<1> QED
  BY <1>5, <1>6 DEF f, p, R, TotalAt

(* ... and when they are full.                                             *)
LEMMA TotalOfFull ==
  ASSUME Clock, NEW n \in Int, NEW curves, NEW levels,
         \A k \in Types : curves[k] \in Curves /\ levels[k] \in Levels,
         \A k \in Types : k < n => FullCurve(curves[k]) /\ FullLevel(levels[k]),
         \A k \in Types : ~ (k < n) => curves[k] = Flat,
         NEW w \in Weeks, w <= NextWeek
  PROVE  SumOf(Weighted(curves, levels, w), AddedTypes(n)) = TotalAt(curves, levels, w)
<1>1. ASSUME NEW k \in Types, k < n
      PROVE  curves[k].points[w] = Projected(curves[k])[w] /\ levels[k].points[w] = LevelAt(levels[k], w)
  <2> DEFINE c == curves[k]
  <2>1. c \in Curves /\ FullCurve(c) /\ FullLevel(levels[k])
    BY <1>1
  <2> HIDE DEF c
  <2>2. CASE c = Flat
    BY <2>1, <2>2, FlatProjected, FlatFacts DEF c, FullLevel
  <2>3. CASE c.time = NextWeek
    <3>1. \A x \in Weeks : x <= c.time => Projected(c)[x] = c.points[x]
      BY <2>1, CurveParts, ProjectedIs
    <3> QED
      BY <2>1, <2>3, <3>1 DEF c, FullLevel
  <2> QED
    BY <2>1, <2>2, <2>3 DEF FullCurve
<1>2. \A k \in Types : ~ (k < n) => Projected(curves[k])[w].bias = 0
  BY FlatProjected DEF Point
<1>3. Matches(n, curves, levels, curves, levels, w)
  BY <1>1, <1>2 DEF Matches
<1> QED
  BY <1>3, TotalOfWeek

(* The terms of the total for a week in which nothing has changed.         *)
LEMMA SameTotal ==
  ASSUME NEW curves, NEW levels, NEW newCurves, NEW newLevels, NEW w,
         \A k \in Types : /\ Projected(newCurves[k])[w] = Projected(curves[k])[w]
                          /\ LevelAt(newLevels[k], w) = LevelAt(levels[k], w)
  PROVE  TotalAt(newCurves, newLevels, w) = TotalAt(curves, levels, w)
<1>1. Products(newCurves, newLevels, w) = Products(curves, levels, w)
  BY DEF Products
<1> QED
  BY <1>1 DEF TotalAt

(* The loop of _get_total begins early enough, and reaches the next week.  *)
LEMMA TotalStartFacts ==
  ASSUME Clock, SaneTotal(total), Reaches(total.time)
  PROVE  /\ TotalStart \in Weeks /\ TotalStart \in Nat /\ TotalStart <= now
         /\ TotalStart <= total.time /\ TotalStart <= NextWeek
         /\ FilledTo(TotalStart) = NextWeek
<1>2. /\ NextWeek \in Weeks /\ NextWeek \in Nat /\ now \in Nat /\ now < NextWeek /\ NextWeek - WEEK <= now
      /\ WEEK \in Nat /\ WEEK > 0
      /\ total.time \in Weeks /\ total.time \in Nat /\ total.time <= NextWeek
  BY NextWeekFacts, WeekFacts DEF Clock, SaneTotal, Levels
<1>1. CASE total.time > now
  <2>1. total.time = NextWeek /\ TotalStart = NextWeek - WEEK /\ NextWeek > 0
    BY <1>1, <1>2, NextWeekFacts DEF TotalStart
  <2>2. TotalStart \in Weeks
    BY <1>2, <2>1, WeekFacts
  <2>3. FillWeeks * WEEK >= WEEK /\ FillWeeks * WEEK \in Nat
    BY <1>2, GaugeAssumption
  <2>4. TotalStart \in Nat /\ TotalStart <= NextWeek /\ Reaches(TotalStart)
    BY <1>2, <2>1, <2>2, <2>3, WeekFacts DEF Reaches
  <2>5. FilledTo(TotalStart) = NextWeek
    BY <2>2, <2>4, FilledToFacts
  <2> QED
    BY <1>2, <2>1, <2>2, <2>4, <2>5
<1>3. CASE ~ (total.time > now)
  <2>1. TotalStart = total.time
    BY <1>3 DEF TotalStart
  <2>2. FilledTo(TotalStart) = NextWeek
    BY <1>2, <2>1, FilledToFacts
  <2> QED
    BY <1>2, <1>3, <2>1, <2>2
<1> QED
  BY <1>1, <1>3

(* _get_total is right for every week up to the next one.                  *)
LEMMA FilledTotalRight ==
  ASSUME Clock, SaneTotal(total), Reaches(total.time), TotalRight(sums, typeWeights, total),
         NEW n \in Int, NEW curves, NEW levels,
         \A k \in Types : curves[k] \in Curves /\ levels[k] \in Levels,
         \A k \in Types : k < n => FullCurve(curves[k]) /\ FullLevel(levels[k]),
         \A k \in Types : ~ (k < n) => curves[k] = Flat,
         \A k \in Types : Past(sums[k], curves[k]) /\ PastLevel(typeWeights[k], levels[k])
  PROVE  /\ TotalRight(curves, levels, FilledTotal(n, curves, levels))
         /\ FilledTotal(n, curves, levels).time = NextWeek
         /\ FilledTo(TotalStart) = NextWeek
         /\ FilledTotal(n, curves, levels) \in Levels
         /\ \A w \in Weeks : DeployTime < w /\ w <= NextWeek =>
              FilledTotal(n, curves, levels).points[w] = TotalAt(curves, levels, w)
<1> DEFINE t == FilledTotal(n, curves, levels)
<1>1. /\ SaneTotal(t)
      /\ t.points = [w \in Weeks |-> IF TotalStart < w /\ w <= FilledTo(TotalStart)
                                     THEN SumOf(Weighted(curves, levels, w), AddedTypes(n)) ELSE total.points[w]]
      /\ t.time = IF FilledTo(TotalStart) > now THEN FilledTo(TotalStart) ELSE total.time
      /\ TotalStart \in Weeks /\ TotalStart <= NextWeek /\ TotalStart <= now
  BY FilledTotalIs
<1>2. /\ NextWeek \in Weeks /\ NextWeek \in Nat /\ now \in Nat /\ now < NextWeek /\ NextWeek - WEEK <= now
      /\ TotalStart \in Nat /\ WEEK \in Nat /\ WEEK > 0
      /\ total.time \in Weeks /\ total.time \in Nat /\ total.time <= NextWeek
  BY <1>1, NextWeekFacts, WeekFacts DEF Clock, SaneTotal, Levels
<1>3. FilledTo(TotalStart) = NextWeek
  BY TotalStartFacts
<1>4. t.time = NextWeek
  BY <1>1, <1>2, <1>3
<1>5. ASSUME NEW w \in Weeks, DeployTime < w, w <= NextWeek
      PROVE  t.points[w] = TotalAt(curves, levels, w)
  <2>1. w \in Nat
    BY WeekFacts
  <2>2. t.points[w] = IF TotalStart < w /\ w <= NextWeek
                      THEN SumOf(Weighted(curves, levels, w), AddedTypes(n)) ELSE total.points[w]
    BY <1>1, <1>3
  <2>3. CASE TotalStart < w
    BY <1>5, <2>2, <2>3, TotalOfFull
  <2>4. CASE ~ (TotalStart < w)
    <3>1. w <= TotalStart /\ w < NextWeek /\ TotalStart <= total.time
      <4>1. TotalStart <= total.time
        BY <1>2 DEF TotalStart
      <4> QED
        BY <1>1, <1>2, <2>1, <2>4, <4>1
    <3>2. total.points[w] = TotalAt(sums, typeWeights, w)
      BY <1>2, <1>5, <2>1, <3>1 DEF TotalRight
    <3>3. \A k \in Types : /\ Projected(curves[k])[w] = Projected(sums[k])[w]
                           /\ LevelAt(levels[k], w) = LevelAt(typeWeights[k], w)
      BY <3>1 DEF Past, PastLevel
    <3>4. TotalAt(curves, levels, w) = TotalAt(sums, typeWeights, w)
      BY <3>3, SameTotal
    <3> QED
      BY <2>2, <2>4, <3>2, <3>4
  <2> QED
    BY <2>3, <2>4
<1>6. t \in Levels
  BY <1>1 DEF SaneTotal
<1> HIDE DEF t
<1>7. TotalRight(curves, levels, t)
  BY <1>4, <1>5 DEF TotalRight
<1> QED
  BY <1>3, <1>4, <1>5, <1>6, <1>7 DEF t

(* The change of one type's curve or weight in the next week changes the   *)
(* total by as much.                                                       *)
LEMMA TotalChange ==
  ASSUME Clock, NEW curves, NEW levels, NEW newCurves, NEW newLevels, NEW t \in Levels, t.time = NextWeek,
         TotalRight(curves, levels, t),
         \A k \in Types : curves[k] \in Curves /\ levels[k] \in Levels,
         NEW j \in Types, NEW d \in Int, t.points[NextWeek] + d \in Nat,
         \A k \in Types : k # j => newCurves[k] = curves[k] /\ newLevels[k] = levels[k],
         Past(curves[j], newCurves[j]), PastLevel(levels[j], newLevels[j]),
         Projected(newCurves[j])[NextWeek].bias * LevelAt(newLevels[j], NextWeek) =
           Projected(curves[j])[NextWeek].bias * LevelAt(levels[j], NextWeek) + d
  PROVE  TotalRight(newCurves, newLevels, NewLevel(t, t.points[NextWeek] + d))
<1> DEFINE n == t.points[NextWeek] + d
           m == NewLevel(t, n)
<1>1. m.time = NextWeek /\ m.points = [t.points EXCEPT ![NextWeek] = n]
  BY NewLevelIs
<1>2. t.points \in [Weeks -> Nat] /\ NextWeek \in Weeks /\ NextWeek \in Nat
  BY NextWeekFacts DEF Levels
<1> HIDE DEF m, n
<1>3. ASSUME NEW w \in Weeks, DeployTime < w, w < NextWeek
      PROVE  m.points[w] = TotalAt(newCurves, newLevels, w)
  <2>1. w # NextWeek /\ w <= NextWeek
    BY <1>2, <1>3, WeekFacts
  <2>2. m.points[w] = t.points[w] /\ t.points[w] = TotalAt(curves, levels, w)
    BY <1>1, <1>2, <1>3, <2>1 DEF TotalRight
  <2>3. \A k \in Types : /\ Projected(newCurves[k])[w] = Projected(curves[k])[w]
                         /\ LevelAt(newLevels[k], w) = LevelAt(levels[k], w)
    BY <1>3 DEF Past, PastLevel
  <2>4. TotalAt(newCurves, newLevels, w) = TotalAt(curves, levels, w)
    BY <2>3, SameTotal
  <2> QED
    BY <2>2, <2>4
<1>4. DeployTime < NextWeek => m.points[NextWeek] = TotalAt(newCurves, newLevels, NextWeek)
  <2> SUFFICES ASSUME DeployTime < NextWeek
               PROVE  m.points[NextWeek] = TotalAt(newCurves, newLevels, NextWeek)
    OBVIOUS
  <2>1. m.points[NextWeek] = n /\ NextWeek <= NextWeek
    BY <1>1, <1>2
  <2>2. t.points[NextWeek] = TotalAt(curves, levels, NextWeek)
    BY <1>2, <2>1 DEF TotalRight
  <2> DEFINE f == Products(curves, levels, NextWeek)
             g == Products(newCurves, newLevels, NextWeek)
  <2>3. \A k \in Types : f[k] \in Int /\ g[k] = f[k] + (IF k = j THEN d ELSE 0)
    <3> TAKE k \in Types
    <3>1. f[k] \in Nat
      BY <1>2, ProductsType
    <3>2. /\ f[k] = Projected(curves[k])[NextWeek].bias * LevelAt(levels[k], NextWeek)
          /\ g[k] = Projected(newCurves[k])[NextWeek].bias * LevelAt(newLevels[k], NextWeek)
      BY DEF Products
    <3> HIDE DEF f, g
    <3>3. CASE k = j
      <4>1. g[j] = f[j] + d
        BY <3>2, <3>3
      <4> QED
        BY <3>1, <3>3, <4>1
    <3>4. CASE k # j
      <4>1. g[k] = f[k]
        BY <3>2, <3>4
      <4> QED
        BY <3>1, <3>4, <4>1
    <3> QED
      BY <3>3, <3>4
  <2> HIDE DEF f, g
  <2>4. SumOf(g, Types) = SumOf(f, Types) + d
    BY <2>3, TypesFinite, SumOfChange
  <2> QED
    BY <2>1, <2>2, <2>4 DEF f, g, n, TotalAt
<1>5. ASSUME NEW w \in Weeks, DeployTime < w, w <= m.time
      PROVE  m.points[w] = TotalAt(newCurves, newLevels, w)
  <2>1. w \in Nat /\ (w = NextWeek \/ w < NextWeek)
    BY <1>1, <1>2, <1>5, WeekFacts
  <2> QED
    BY <1>3, <1>4, <1>5, <2>1
<1> QED
  BY <1>5 DEF TotalRight, m, n

(* Filled curves and levels are full, and what they were.                  *)
LEMMA FilledAreFull ==
  ASSUME Clock, CurvesOK, InTime, NEW n \in Int, NEW curves, curves = [k \in Types |-> curves[k]],
         \A k \in Types : Sane(curves[k]) /\ (curves[k].time # 0 => Reaches(curves[k].time)),
         \A k \in Types : ~ (k < n) => curves[k] = Flat,
         SumsFillable(n, curves)
  PROVE  /\ \A k \in Types : FullCurve(FilledSums(n, curves)[k])
         /\ \A k \in Types : k < n => FullLevel(FilledLevels(n)[k])
         /\ \A k \in Types : ~ (k < n) => FilledSums(n, curves)[k] = Flat
         /\ \A k \in Types : Past(curves[k], FilledSums(n, curves)[k])
         /\ \A k \in Types : PastLevel(typeWeights[k], FilledLevels(n)[k])
         /\ \A k \in Types : Projected(FilledSums(n, curves)[k])[NextWeek].bias = Bias(curves[k])
         /\ \A k \in Types : LevelAt(FilledLevels(n)[k], NextWeek) = TypeWeight(k)
<1>1. ASSUME NEW k \in Types
      PROVE  LET f == FilledSums(n, curves)[k]
             IN  /\ FullCurve(f) /\ (~ (k < n) => f = Flat) /\ Past(curves[k], f)
                 /\ Projected(f)[NextWeek].bias = Bias(curves[k])
  <2> DEFINE f == FilledSums(n, curves)[k]
             c == curves[k]
  <2>1. /\ k < n => Fillable(c) /\ f = Filled(c)
        /\ ~ (k < n) => f = c /\ c = Flat
        /\ Sane(c) /\ (c.time # 0 => Reaches(c.time))
    BY FilledTypes
  <2> HIDE DEF f, c
  <2>2. NextWeek \in Weeks
    BY NextWeekFacts
  <2>3. CASE c.time = 0
    <3>1. c = Flat /\ f = Flat
      BY <2>1, <2>3, FlatFacts DEF Sane
    <3>2. Bias(c) = 0
      BY <2>3 DEF Bias
    <3>3. Projected(Flat)[NextWeek].bias = 0
      BY <2>2, FlatProjected DEF Point
    <3> QED
      BY <3>1, <3>2, <3>3 DEF FullCurve, Past, f, c
  <2>4. CASE c.time # 0
    <3>1. Fillable(c) /\ f = Filled(c) /\ k < n
      BY <2>1, <2>4, FlatFacts
    <3>2. f.time = NextWeek /\ Bias(c) = Projected(c)[NextWeek].bias
      BY <2>1, <2>4, <3>1, FilledFully
    <3>3. NextWeek <= NextWeek
      BY NextWeekFacts
    <3>4. Past(c, f) /\ Projected(f)[NextWeek] = Projected(c)[NextWeek]
      BY <2>1, <2>2, <3>1, <3>3, FilledPast
    <3> QED
      BY <3>1, <3>2, <3>4 DEF FullCurve, f, c
  <2> QED
    BY <2>3, <2>4
<1>2. ASSUME NEW k \in Types
      PROVE  LET m == FilledLevels(n)[k]
             IN  /\ k < n => FullLevel(m)
                 /\ PastLevel(typeWeights[k], m) /\ LevelAt(m, NextWeek) = TypeWeight(k)
  <2> DEFINE m == FilledLevels(n)[k]
             l == typeWeights[k]
  <2>1. SaneLevel(l) /\ (l.time # 0 => Reaches(l.time)) /\ TypeWeight(k) = l.points[l.time]
    BY DEF CurvesOK, InTime, TypeWeight
  <2>2. m = IF k < n THEN FilledLevel(l) ELSE l
    BY DEF FilledLevels
  <2> HIDE DEF m, l
  <2>3. LevelMoves(l, m)
    BY <2>2 DEF LevelMoves
  <2>4. /\ \A w \in Weeks : w <= NextWeek => /\ LevelAt(FilledLevel(l), w) = LevelAt(l, w)
                                             /\ FilledLevel(l).points[w] = LevelAt(l, w)
        /\ LevelAt(l, NextWeek) = l.points[l.time]
        /\ PastLevel(l, m)
    BY <2>1, <2>3, LevelMovesPast
  <2>5. NextWeek \in Weeks /\ NextWeek <= NextWeek
    BY NextWeekFacts
  <2> QED
    BY <2>1, <2>2, <2>4, <2>5 DEF FullLevel, m, l
<1> QED
  BY <1>1, <1>2

\* What _get_total needs to find
Ready == WellFormed /\ InTime /\ TotalRight(sums, typeWeights, total)

(* The curves of the types change in no week that has begun.               *)
LEMMA TypesPast ==
  ASSUME WellFormed, InTime, TypesMove
  PROVE  /\ \A k \in Types : Past(sums[k], sums'[k])
         /\ \A k \in Types : PastLevel(typeWeights[k], typeWeights'[k])
<1>1. Clock /\ CurvesOK
  BY DEF WellFormed, Settled
<1>2. ASSUME NEW k \in Types
      PROVE  Past(sums[k], sums'[k])
  <2> DEFINE c == sums[k]
             d == sums'[k]
  <2>1. Sane(c) /\ (c.time # 0 => Reaches(c.time)) /\ Moves(c, d)
    BY <1>1 DEF CurvesOK, InTime, TypesMove
  <2> HIDE DEF c, d
  <2>2. Past(c, d)
    BY <1>1, <2>1, MovesPast
  <2> QED
    BY <2>2 DEF c, d
<1>3. ASSUME NEW k \in Types
      PROVE  PastLevel(typeWeights[k], typeWeights'[k])
  <2> DEFINE c == typeWeights[k]
             d == typeWeights'[k]
  <2>1. SaneLevel(c) /\ (c.time # 0 => Reaches(c.time)) /\ LevelMoves(c, d)
    BY <1>1 DEF CurvesOK, InTime, TypesMove
  <2> HIDE DEF c, d
  <2>2. PastLevel(c, d)
    BY <1>1, <2>1, LevelMovesPast
  <2> QED
    BY <2>2 DEF c, d
<1> QED
  BY <1>2, <1>3

(* A call of _get_total leaves the total right.                            *)
LEMMA FillTotalRight ==
  ASSUME Ready, NEW curves, curves = [k \in Types |-> curves[k]],
         \A k \in Types : Sane(curves[k]) /\ (curves[k].time # 0 => Reaches(curves[k].time)),
         \A k \in Types : ~ (k < typeCount) => curves[k] = Flat,
         FillTotal(typeCount, curves), TypesMove
  PROVE  TotalRight(sums', typeWeights', total')
<1>1. /\ Clock /\ CurvesOK /\ typeCount \in Int /\ SaneTotal(total) /\ Reaches(total.time)
      /\ TotalRight(sums, typeWeights, total) /\ WellFormed /\ InTime
  BY DEF Ready, WellFormed, Settled, CurvesOK, InTime
<1> DEFINE f == FilledSums(typeCount, curves)
           l == FilledLevels(typeCount)
<1>2. SumsFillable(typeCount, curves) /\ sums' = f /\ typeWeights' = l /\ total' = FilledTotal(typeCount, f, l)
  BY DEF FillTotal
<1>3. \A k \in Types : f[k] \in Curves /\ l[k] \in Levels
  BY <1>1, <1>2, FilledTypes
<1>4. /\ \A k \in Types : k < typeCount => FullCurve(f[k]) /\ FullLevel(l[k])
      /\ \A k \in Types : ~ (k < typeCount) => f[k] = Flat
  BY <1>1, <1>2, FilledAreFull
<1> HIDE DEF f, l
<1>5. \A k \in Types : Past(sums[k], f[k]) /\ PastLevel(typeWeights[k], l[k])
  BY <1>1, <1>2, TypesPast
<1>6. TotalRight(f, l, FilledTotal(typeCount, f, l))
  BY <1>1, <1>3, <1>4, <1>5, FilledTotalRight
<1> QED
  BY <1>2, <1>6

(* The curves of the types, filled to change one of them.                  *)
LEMMA ReadyFilled ==
  ASSUME Ready, NEW n \in Int, typeCount <= n, SumsFillable(n, sums)
  PROVE  LET f == FilledSums(n, sums)
             l == FilledLevels(n)
         IN  /\ \A k \in Types : Sane(f[k]) /\ f[k] \in Curves /\ SaneLevel(l[k]) /\ l[k] \in Levels
             /\ \A k \in Types : k < n => FullCurve(f[k]) /\ FullLevel(l[k])
             /\ \A k \in Types : ~ (k < n) => f[k] = Flat
             /\ \A k \in Types : Past(sums[k], f[k]) /\ PastLevel(typeWeights[k], l[k])
             /\ \A k \in Types : Projected(f[k])[NextWeek].bias = Bias(sums[k])
             /\ \A k \in Types : LevelAt(l[k], NextWeek) = TypeWeight(k)
<1>1. Clock /\ CurvesOK /\ InTime /\ typeCount \in Int /\ \A k \in Types : k >= typeCount => sums[k] = Flat
  BY DEF Ready, WellFormed, Settled, Linked
<1>2. /\ sums = [k \in Types |-> sums[k]]
      /\ \A k \in Types : Sane(sums[k]) /\ (sums[k].time # 0 => Reaches(sums[k].time))
      /\ \A k \in Types : ~ (k < n) => sums[k] = Flat
  <2>1. \A k \in Types : ~ (k < n) => k >= typeCount
    BY <1>1, TypesFinite
  <2> QED
    BY <1>1, <2>1 DEF CurvesOK, InTime
<1>3. \A k \in Types : /\ Sane(FilledSums(n, sums)[k]) /\ FilledSums(n, sums)[k] \in Curves
                       /\ SaneLevel(FilledLevels(n)[k]) /\ FilledLevels(n)[k] \in Levels
  BY <1>1, <1>2, FilledTypes
<1> DEFINE f == FilledSums(n, sums)
           l == FilledLevels(n)
<1>4. /\ \A k \in Types : FullCurve(f[k])
      /\ \A k \in Types : k < n => FullLevel(l[k])
      /\ \A k \in Types : ~ (k < n) => f[k] = Flat
      /\ \A k \in Types : Past(sums[k], f[k])
      /\ \A k \in Types : PastLevel(typeWeights[k], l[k])
      /\ \A k \in Types : Projected(f[k])[NextWeek].bias = Bias(sums[k])
      /\ \A k \in Types : LevelAt(l[k], NextWeek) = TypeWeight(k)
  BY <1>1, <1>2, FilledAreFull
<1> HIDE DEF f, l
<1> QED
  BY <1>3, <1>4 DEF f, l

(* A new sum for a type changes the total by as much.                      *)
LEMMA ChangeSumRight ==
  ASSUME Ready, NEW j \in Types, j < typeCount, NEW n \in Int, ChangeSum(j, n)
  PROVE  TotalRight(sums', typeWeights', total')
<1>1. /\ Clock /\ CurvesOK /\ typeCount \in Int /\ SaneTotal(total) /\ Reaches(total.time)
      /\ TotalRight(sums, typeWeights, total) /\ WellFormed /\ InTime /\ typeCount <= typeCount
  BY DEF Ready, WellFormed, Settled, CurvesOK, InTime
<1>2. TypesMove
  BY <1>1, ChangeSumMoves
<1> DEFINE f == FilledSums(typeCount, sums)
           l == FilledLevels(typeCount)
           t == FilledTotal(typeCount, f, l)
           b == Bias(sums[j])
           a == TypeWeight(j)
           d == (n - b) * a
<1>3. /\ SumsFillable(typeCount, sums) /\ n >= 0 /\ t.points[FilledTo(TotalStart)] + d >= 0
      /\ typeWeights' = l /\ sums' = [f EXCEPT ![j] = NewBias(f[j], n)]
      /\ total' = NewLevel(t, t.points[FilledTo(TotalStart)] + d)
  BY DEF ChangeSum
<1>4. f = [k \in Types |-> f[k]]
  BY DEF FilledSums
<1>5. /\ \A k \in Types : Sane(f[k]) /\ f[k] \in Curves /\ l[k] \in Levels
      /\ \A k \in Types : k < typeCount => FullCurve(f[k]) /\ FullLevel(l[k])
      /\ \A k \in Types : ~ (k < typeCount) => f[k] = Flat
      /\ \A k \in Types : Past(sums[k], f[k]) /\ PastLevel(typeWeights[k], l[k])
      /\ \A k \in Types : Projected(f[k])[NextWeek].bias = Bias(sums[k])
      /\ \A k \in Types : LevelAt(l[k], NextWeek) = TypeWeight(k)
  BY <1>1, <1>3, ReadyFilled
<1> HIDE DEF f, l
<1>6. /\ TotalRight(f, l, t) /\ t.time = NextWeek /\ FilledTo(TotalStart) = NextWeek /\ t \in Levels
  BY <1>1, <1>5, FilledTotalRight
<1> HIDE DEF t, d
<1>7. b \in Nat /\ a \in Nat
  <2> DEFINE s == sums[j]
  <2>1. Sane(s)
    BY <1>1 DEF CurvesOK
  <2> HIDE DEF s
  <2>2. Bias(s) \in Nat
    BY <1>1, <2>1, BiasType
  <2> QED
    BY <1>1, <2>2, TypeWeightType DEF s
<1>8. n \in Nat /\ NextWeek \in Weeks
  BY <1>1, <1>3, NextWeekFacts
<1> DEFINE c == f[j]
           e == NewBias(c, n)
           g == [f EXCEPT ![j] = e]
<1>9. sums' = g /\ g[j] = e /\ \A k \in Types : k # j => g[k] = f[k]
  BY <1>3, <1>4
<1>10. Sane(c)
  BY <1>5
<1> HIDE DEF c, g
<1>11. Sane(e) /\ e.time = NextWeek /\ e.points = [c.points EXCEPT ![NextWeek] = Point(n, c.points[NextWeek].slope)]
  BY <1>1, <1>8, <1>10, NewBiasIs
<1> HIDE DEF e
<1>12. Projected(e)[NextWeek].bias = n
  <2>1. Projected(e)[NextWeek] = e.points[NextWeek]
    <3>1. NextWeek <= e.time
      BY <1>1, <1>11, NextWeekFacts
    <3> QED
      BY <1>8, <1>11, <3>1, CurveParts, ProjectedIs DEF Sane
  <2>2. c.points \in [Weeks -> Points]
    BY <1>10, CurveParts DEF Sane
  <2> QED
    BY <1>8, <1>11, <2>1, <2>2 DEF Point
<1>13. Past(f[j], g[j]) /\ PastLevel(l[j], l[j])
  <2>1. Past(sums[j], g[j]) /\ Past(sums[j], f[j])
    BY <1>1, <1>2, <1>5, <1>9, TypesPast
  <2> QED
    BY <2>1 DEF Past, PastLevel
<1>14. d \in Int /\ Projected(g[j])[NextWeek].bias * LevelAt(l[j], NextWeek) =
                      Projected(f[j])[NextWeek].bias * LevelAt(l[j], NextWeek) + d
  <2>1. Projected(g[j])[NextWeek].bias = n
    BY <1>9, <1>12
  <2>2. LevelAt(l[j], NextWeek) = a
    BY <1>5
  <2>3. Projected(f[j])[NextWeek].bias = b
    BY <1>5
  <2> HIDE DEF a, b
  <2>4. n * a = b * a + (n - b) * a /\ (n - b) * a \in Int
    BY <1>7, <1>8
  <2> QED
    BY <2>1, <2>2, <2>3, <2>4 DEF d
<1>15. t.points[NextWeek] + d \in Nat
  <2>1. t.points[NextWeek] \in Nat
    BY <1>6, <1>8 DEF Levels
  <2> QED
    BY <1>3, <1>6, <1>14, <2>1
<1>16. TotalRight(g, l, NewLevel(t, t.points[NextWeek] + d))
  <2>1. \A k \in Types : f[k] \in Curves /\ l[k] \in Levels
    BY <1>5
  <2>2. \A k \in Types : k # j => g[k] = f[k] /\ l[k] = l[k]
    BY <1>9
  <2>3. TotalRight(f, l, t) /\ t.time = NextWeek /\ t \in Levels
    BY <1>6
  <2>4. Clock /\ d \in Int
    BY <1>1, <1>14
  <2> HIDE DEF e
  <2> QED
    BY <1>13, <1>14, <1>15, <2>1, <2>2, <2>3, <2>4, TotalChange
<1> QED
  BY <1>3, <1>6, <1>9, <1>16

(* So does a new weight.                                                   *)
LEMMA SetTypeWeightRight ==
  ASSUME Ready, NEW n \in Int, typeCount <= n, NEW j \in Types, NEW weight \in Nat,
         SetTypeWeight(n, j, weight)
  PROVE  TotalRight(sums', typeWeights', total')
<1>1. /\ Clock /\ CurvesOK /\ typeCount \in Int /\ SaneTotal(total) /\ Reaches(total.time)
      /\ TotalRight(sums, typeWeights, total) /\ WellFormed /\ InTime
      /\ \A k \in Types : k >= typeCount => sums[k] = Flat
  BY DEF Ready, WellFormed, Settled, CurvesOK, InTime, Linked
<1>2. TypesMove
  BY <1>1, SetTypeWeightMoves
<1> DEFINE f == FilledSums(n, sums)
           l == FilledLevels(n)
           filled == [f EXCEPT ![j] = Filled(sums[j])]
           grown == [l EXCEPT ![j] = FilledLevel(typeWeights[j])]
           t == FilledTotal(n, filled, grown)
           b == Bias(sums[j])
           a == TypeWeight(j)
           d == b * (weight - a)
<1>3. /\ SumsFillable(n, sums) /\ t.points[FilledTo(TotalStart)] + d >= 0
      /\ sums' = filled /\ typeWeights' = [grown EXCEPT ![j] = NewLevel(grown[j], weight)]
      /\ total' = NewLevel(t, t.points[FilledTo(TotalStart)] + d)
  BY DEF SetTypeWeight
<1>4. f = [k \in Types |-> f[k]] /\ l = [k \in Types |-> l[k]]
  BY DEF FilledSums, FilledLevels
<1>5. /\ \A k \in Types : Sane(f[k]) /\ f[k] \in Curves /\ l[k] \in Levels
      /\ \A k \in Types : k < n => FullCurve(f[k]) /\ FullLevel(l[k])
      /\ \A k \in Types : ~ (k < n) => f[k] = Flat
      /\ \A k \in Types : Past(sums[k], f[k]) /\ PastLevel(typeWeights[k], l[k])
      /\ \A k \in Types : Projected(f[k])[NextWeek].bias = Bias(sums[k])
  BY <1>1, <1>3, ReadyFilled
<1>6. filled = f
  <2>1. j < n => Filled(sums[j]) = f[j]
    BY DEF FilledSums
  <2>2. ~ (j < n) => sums[j] = Flat /\ f[j] = Flat
    BY <1>1, <1>5, TypesFinite
  <2>3. Filled(sums[j]) = f[j]
    BY <1>1, <2>1, <2>2, FlatFacts
  <2> QED
    BY <1>4, <2>3
<1>7. /\ grown[j] = FilledLevel(typeWeights[j]) /\ \A k \in Types : k # j => grown[k] = l[k]
      /\ j < n => grown[j] = l[j]
  BY <1>4 DEF FilledLevels
<1> HIDE DEF f, l, filled, grown
<1>8. /\ grown[j] \in Levels /\ PastLevel(typeWeights[j], grown[j]) /\ LevelAt(grown[j], NextWeek) = a
  <2> DEFINE m == typeWeights[j]
  <2>1. SaneLevel(m) /\ (m.time # 0 => Reaches(m.time)) /\ a = m.points[m.time] /\ grown[j] = FilledLevel(m)
    BY <1>1, <1>7 DEF CurvesOK, InTime, TypeWeight
  <2> HIDE DEF m, a
  <2>2. SaneLevel(FilledLevel(m))
    BY <1>1, <2>1, FilledLevelIs
  <2>3. NextWeek \in Weeks /\ NextWeek <= NextWeek
    BY <1>1, NextWeekFacts
  <2>4. LevelMoves(m, FilledLevel(m))
    BY DEF LevelMoves
  <2>5. /\ LevelAt(FilledLevel(m), NextWeek) = LevelAt(m, NextWeek) /\ LevelAt(m, NextWeek) = m.points[m.time]
        /\ PastLevel(m, FilledLevel(m))
    BY <1>1, <2>1, <2>3, <2>4, LevelMovesPast
  <2> QED
    BY <2>1, <2>2, <2>5 DEF m, SaneLevel
<1>9. /\ \A k \in Types : f[k] \in Curves /\ grown[k] \in Levels
      /\ \A k \in Types : k < n => FullCurve(f[k]) /\ FullLevel(grown[k])
      /\ \A k \in Types : Past(sums[k], f[k]) /\ PastLevel(typeWeights[k], grown[k])
  BY <1>5, <1>7, <1>8
<1>10. TotalRight(f, grown, t) /\ t.time = NextWeek /\ FilledTo(TotalStart) = NextWeek /\ t \in Levels
  BY <1>1, <1>5, <1>6, <1>9, FilledTotalRight
<1> HIDE DEF t, d
<1>11. b \in Nat /\ a \in Nat
  <2> DEFINE s == sums[j]
  <2>1. Sane(s)
    BY <1>1 DEF CurvesOK
  <2> HIDE DEF s
  <2>2. Bias(s) \in Nat
    BY <1>1, <2>1, BiasType
  <2> QED
    BY <1>1, <2>2, TypeWeightType DEF s
<1>12. NextWeek \in Weeks
  BY <1>1, NextWeekFacts
<1> DEFINE c == grown[j]
           e == NewLevel(c, weight)
           g == [grown EXCEPT ![j] = e]
<1>13. typeWeights' = g /\ g[j] = e /\ \A k \in Types : k # j => g[k] = grown[k]
  BY <1>3, <1>4 DEF grown
<1> HIDE DEF c, g
<1>14. LevelAt(e, NextWeek) = weight
  <2>1. c \in Levels
    BY <1>8 DEF c
  <2>2. e.time = NextWeek /\ e.points = [c.points EXCEPT ![NextWeek] = weight]
    BY <1>1, <2>1, NewLevelIs
  <2>3. c.points \in [Weeks -> Nat] /\ NextWeek <= NextWeek
    BY <1>1, <2>1, NextWeekFacts DEF Levels
  <2> HIDE DEF e
  <2> QED
    BY <1>12, <2>2, <2>3 DEF LevelAt
<1> HIDE DEF e
<1>15. PastLevel(grown[j], g[j]) /\ Past(f[j], f[j])
  <2>1. PastLevel(typeWeights[j], g[j]) /\ PastLevel(typeWeights[j], grown[j])
    BY <1>1, <1>2, <1>8, <1>13, TypesPast
  <2> QED
    BY <2>1 DEF Past, PastLevel
<1>16. d \in Int /\ Projected(f[j])[NextWeek].bias * LevelAt(g[j], NextWeek) =
                      Projected(f[j])[NextWeek].bias * LevelAt(grown[j], NextWeek) + d
  <2>1. LevelAt(g[j], NextWeek) = weight /\ LevelAt(grown[j], NextWeek) = a /\ Projected(f[j])[NextWeek].bias = b
    BY <1>5, <1>8, <1>13, <1>14
  <2> HIDE DEF a, b
  <2>2. b * weight = b * a + b * (weight - a) /\ b * (weight - a) \in Int
    BY <1>11
  <2> QED
    BY <2>1, <2>2 DEF d
<1>17. t.points[NextWeek] + d \in Nat
  <2>1. t.points[NextWeek] \in Nat
    BY <1>10, <1>12 DEF Levels
  <2> QED
    BY <1>3, <1>10, <1>16, <2>1
<1>18. TotalRight(f, g, NewLevel(t, t.points[NextWeek] + d))
  <2>1. \A k \in Types : k # j => f[k] = f[k] /\ g[k] = grown[k]
    BY <1>13
  <2>2. \A k \in Types : f[k] \in Curves /\ grown[k] \in Levels
    BY <1>9
  <2> HIDE DEF a, b
  <2> QED
    BY <1>1, <1>10, <1>15, <1>16, <1>17, <2>1, <2>2, TotalChange
<1> QED
  BY <1>3, <1>6, <1>10, <1>13, <1>18

(* The total stays right, whatever is called.                              *)
LEMMA TotalStep ==
  ASSUME Ready, [GaugeNext]_gaugeVars
  PROVE  TotalRight(sums', typeWeights', total')
<1>1. /\ WellFormed /\ InTime /\ Clock /\ CurvesOK /\ typeCount \in Int /\ TotalRight(sums, typeWeights, total)
      /\ TypesMove /\ \A k \in Types : k >= typeCount => sums[k] = Flat
  BY CurvesStep DEF Ready, WellFormed, Settled, Linked
<1>2. \A k \in Types : ~ (k < typeCount) => sums[k] = Flat
  BY <1>1, TypesFinite
<1>3. UNCHANGED <<sums, typeWeights, total>> => TotalRight(sums', typeWeights', total')
  BY <1>1
<1>4. ASSUME NEW weight \in TypeWeights, AddType(weight)
      PROVE  TotalRight(sums', typeWeights', total')
  <2>1. weight \in Nat /\ typeCount \in Types /\ typeCount + 1 \in Int /\ typeCount <= typeCount + 1
    BY <1>1, <1>4, GaugeAssumption DEF AddType
  <2>2. \/ SetTypeWeight(typeCount + 1, typeCount, weight)
        \/ UNCHANGED <<sums, typeWeights, total>>
    BY <1>4 DEF AddType
  <2> QED
    BY <1>3, <2>1, <2>2, SetTypeWeightRight
<1>5. ASSUME NEW k \in Types, NEW weight \in TypeWeights, ChangeTypeWeight(k, weight)
      PROVE  TotalRight(sums', typeWeights', total')
  <2>1. weight \in Nat /\ typeCount <= typeCount /\ SetTypeWeight(typeCount, k, weight)
    BY <1>1, <1>5, GaugeAssumption DEF ChangeTypeWeight
  <2> QED
    BY <1>1, <2>1, SetTypeWeightRight
<1>6. ASSUME NEW g \in Gauges, NEW k \in Types, NEW weight \in Weights, AddGauge(g, k, weight)
      PROVE  TotalRight(sums', typeWeights', total')
  <2>1. weight \in Nat /\ k < typeCount
    BY <1>6, GaugeAssumption DEF AddGauge
  <2> DEFINE s == sums[k]
             t == IF s.time = 0 THEN NextWeek ELSE s.time
             d == [s EXCEPT !.time = t]
  <2>2. Sane(s)
    BY <1>1 DEF CurvesOK
  <2>3. CASE weight > 0
    <3>1. ChangeSum(k, Bias(sums[k]) + weight)
      BY <1>6, <2>3 DEF AddGauge
    <3> HIDE DEF s
    <3>2. Bias(s) \in Nat
      BY <1>1, <2>2, BiasType
    <3>3. Bias(sums[k]) + weight \in Int
      BY <2>1, <3>2 DEF s
    <3> QED
      BY <2>1, <3>1, <3>3, ChangeSumRight
  <2>4. CASE ~ (weight > 0)
    <3>1. sums' = [sums EXCEPT ![k].time = t] /\ typeWeights' = typeWeights /\ total' = total
      BY <1>6, <2>4 DEF AddGauge
    <3>2. sums' = [x \in Types |-> IF x = k THEN d ELSE sums[x]]
      BY <1>1, <3>1 DEF CurvesOK
    <3> HIDE DEF s
    <3>3. \A w \in Weeks : w <= NextWeek => Projected(d)[w] = Projected(s)[w]
      <4>1. CASE s.time # 0
        <5>1. d = s
          BY <2>2, <4>1 DEF Sane, Curves
        <5> QED
          BY <5>1
      <4>2. CASE s.time = 0
        <5>1. s = Flat /\ t = NextWeek
          BY <2>2, <4>2 DEF Sane
        <5>2. NextWeek \in Weeks
          BY <1>1, NextWeekFacts
        <5>3. d = Curve(Flat.points, Flat.changes, NextWeek)
          BY <5>1 DEF Flat, Curve
        <5>4. Flat.points \in [Weeks -> Points] /\ Flat.changes \in [Weeks -> Nat]
          BY <1>1, FlatFacts, CurveParts DEF Sane
        <5> HIDE DEF d
        <5>5. d \in Curves /\ d.points = Flat.points /\ d.time = NextWeek
          BY <5>2, <5>3, <5>4, CurveType
        <5>6. \A w \in Weeks : w <= NextWeek => Projected(d)[w] = Flat.points[w]
          BY <5>5, CurveParts, ProjectedIs
        <5>7. \A w \in Weeks : Projected(Flat)[w] = Flat.points[w]
          BY <1>1, FlatProjected, FlatFacts
        <5> QED
          BY <5>1, <5>6, <5>7
      <4> QED
        BY <4>1, <4>2
    <3> HIDE DEF d
    <3>4. ASSUME NEW w \in Weeks, DeployTime < w, w <= total.time
          PROVE  total.points[w] = TotalAt(sums', typeWeights, w)
      <4>1. w <= NextWeek
        <5>1. total.time \in Nat /\ total.time <= NextWeek /\ NextWeek \in Nat /\ w \in Nat
          BY <1>1, NextWeekFacts, WeekFacts DEF CurvesOK, SaneTotal, Levels
        <5> QED
          BY <3>4, <5>1
      <4>2. \A x \in Types : Projected(sums'[x])[w] = Projected(sums[x])[w]
        BY <3>2, <3>3, <4>1 DEF s
      <4>3. TotalAt(sums', typeWeights, w) = TotalAt(sums, typeWeights, w)
        BY <4>2, SameTotal
      <4> QED
        BY <1>1, <3>4, <4>3 DEF TotalRight
    <3> QED
      BY <3>1, <3>4 DEF TotalRight
  <2> QED
    BY <2>3, <2>4
<1>7. ASSUME NEW g \in Gauges, NEW weight \in Weights, ChangeGaugeWeight(g, weight)
      PROVE  TotalRight(sums', typeWeights', total')
  <2> DEFINE k == gaugeTypes[g] - 1
             s == sums[k]
             c == weights[g]
  <2>1. weight \in Nat /\ gaugeTypes[g] > 0 /\ ChangeSum(k, Bias(s) + weight - Bias(c))
    BY <1>7, GaugeAssumption DEF ChangeGaugeWeight
  <2>2. k \in Types /\ k < typeCount
    BY <1>1, <2>1, TypeOfGauge
  <2>3. Sane(s) /\ Sane(c)
    BY <1>1, <2>2 DEF CurvesOK
  <2> HIDE DEF k, s, c
  <2>4. Bias(s) \in Nat /\ Bias(c) \in Nat
    BY <1>1, <2>3, BiasType
  <2>5. Bias(s) + weight - Bias(c) \in Int
    BY <2>1, <2>4
  <2> QED
    BY <2>1, <2>2, <2>5, ChangeSumRight
<1>8. ASSUME Checkpoint \/ \E g \in Gauges : CheckpointGauge(g)
      PROVE  TotalRight(sums', typeWeights', total')
  <2>1. FillTotal(typeCount, sums)
    BY <1>8 DEF Checkpoint, CheckpointGauge
  <2>2. /\ sums = [k \in Types |-> sums[k]]
        /\ \A k \in Types : Sane(sums[k]) /\ (sums[k].time # 0 => Reaches(sums[k].time))
    BY <1>1 DEF CurvesOK, InTime
  <2> QED
    BY <1>1, <1>2, <2>1, <2>2, FillTotalRight
<1>9. ASSUME NEW u \in Users, NEW g \in Gauges, NEW power \in Powers, Vote(u, g, power)
      PROVE  TotalRight(sums', typeWeights', total')
  <2> DEFINE k == gaugeTypes[g] - 1
             s == sums[k]
             x == votes[u][g]
             y == NewVote(u, power)
             v == Voted(s, x, y)
             mid == [sums EXCEPT ![k] = v]
  <2>1. gaugeTypes[g] > 0 /\ FillTotal(typeCount, mid) /\ Votable(s, x)
    BY <1>9 DEF Vote, NewVote
  <2>2. k \in Types /\ k < typeCount
    BY <1>1, <2>1, TypeOfGauge
  <2>3. x \in Ballots /\ y \in Ballots
    BY <1>1, NewVoteType DEF WellFormed, VotesOK
  <2>4. Sane(s) /\ s.time # 0 /\ Reaches(s.time)
    BY <1>1, <2>1, <2>2 DEF CurvesOK, WellFormed, Linked, InTime
  <2>5. mid = [z \in Types |-> IF z = k THEN v ELSE sums[z]]
    BY <1>1 DEF CurvesOK
  <2> HIDE DEF k, s, x, y
  <2>6. Sane(v) /\ v.time = TimeAfter(s.time)
    BY <1>1, <2>1, <2>3, <2>4, VotedIs
  <2>7. Reaches(v.time)
    <3>1. TimeAfter(s.time) = NextWeek
      BY <1>1, <2>4, FilledToFacts DEF Sane, Dated
    <3> QED
      BY <1>1, <2>6, <3>1, NextWeekReached
  <2> HIDE DEF v, mid
  <2>8. /\ mid = [z \in Types |-> mid[z]]
        /\ \A z \in Types : Sane(mid[z]) /\ (mid[z].time # 0 => Reaches(mid[z].time))
        /\ \A z \in Types : ~ (z < typeCount) => mid[z] = Flat
    BY <1>1, <1>2, <2>2, <2>5, <2>6, <2>7 DEF CurvesOK, InTime
  <2> QED
    BY <1>1, <2>1, <2>8, FillTotalRight
<1>10. UNCHANGED gaugeVars \/ GaugeTick \/ (\E u \in Users : Withdraw(u)) => UNCHANGED <<sums, typeWeights, total>>
  BY DEF gaugeVars, GaugeTick, Withdraw, curveVars
<1>11. (\E u \in Users, lock \in Locks : ChangeLock(u, lock)) => UNCHANGED <<sums, typeWeights, total>>
  BY DEF ChangeLock, curveVars
<1> QED
  BY <1>3, <1>4, <1>5, <1>6, <1>7, <1>8, <1>9, <1>10, <1>11 DEF GaugeNext

(* At the start no week has a total yet.                                   *)
LEMMA TotalInit ==
  ASSUME GaugeInit
  PROVE  TotalRight(sums, typeWeights, total)
<1>1. total.time = RoundDown(DeployTime)
  BY DEF GaugeInit, Level
<1>2. RoundDown(DeployTime) <= DeployTime /\ RoundDown(DeployTime) \in Nat /\ DeployTime \in Nat
  BY RoundDownFacts, GaugeAssumption
<1>3. \A w \in Weeks : ~ (DeployTime < w /\ w <= RoundDown(DeployTime))
  BY <1>2, WeekFacts
<1> QED
  BY <1>1, <1>3 DEF TotalRight

(* The total is always right, when no loop over weeks is too short.        *)
LEMMA AlwaysReady == GaugeSpec /\ []InTime => []Ready
<1>1. GaugeInit /\ InTime => Ready
  BY WellFormedInit, TotalInit DEF Ready
<1>2. Ready /\ [GaugeNext]_gaugeVars => WellFormed' /\ TotalRight(sums, typeWeights, total)'
  <2>1. Ready /\ [GaugeNext]_gaugeVars => WellFormed'
    BY SettledStep, CurvesStep, LinkedStep, VotesStep DEF WellFormed, Ready
  <2>2. Ready /\ [GaugeNext]_gaugeVars => TotalRight(sums', typeWeights', total')
    BY TotalStep
  <2> QED
    BY <2>1, <2>2
<1>3. Ready /\ [GaugeNext]_gaugeVars /\ InTime' => Ready'
  BY <1>2 DEF Ready
<1> QED
  BY <1>1, <1>3, PTL DEF GaugeSpec

(* A week that can be filled.                                              *)
LEMMA FilledWeekFacts ==
  ASSUME Clock, NEW w \in FilledWeeks
  PROVE  w \in Weeks /\ w \in Nat /\ DeployTime < w /\ w <= NextWeek
  BY WeekFacts DEF FilledWeeks

(* Once filled, a curve has in every week what it was to have.             *)
LEMMA FilledPoints ==
  ASSUME Clock, NEW c, Sane(c), c.time # 0 => Reaches(c.time), NEW w \in Weeks, w <= NextWeek
  PROVE  Filled(c).points[w] = Projected(c)[w]
<1>1. CASE c.time = 0
  <2>1. Filled(c) = Flat /\ c = Flat
    BY <1>1, FlatFacts DEF Sane
  <2> QED
    BY <2>1, FlatFacts, FlatProjected
<1>2. CASE c.time # 0
  <2>1. NextWeek \in Nat /\ w \in Nat /\ ~ (w > NextWeek)
    BY NextWeekFacts, WeekFacts
  <2> QED
    BY <1>2, <2>1, FilledFully
<1> QED
  BY <1>1, <1>2

(* The total that anyone gets for a week.                                  *)
LEMMA TotalWeightIs ==
  Ready => \A w \in FilledWeeks : TotalWeight(w) = TotalAt(sums, typeWeights, w)
<1> SUFFICES ASSUME Ready, NEW w \in FilledWeeks
             PROVE  TotalWeight(w) = TotalAt(sums, typeWeights, w)
  OBVIOUS
<1>1. /\ WellFormed /\ InTime /\ Clock /\ CurvesOK /\ typeCount \in Int /\ TotalRight(sums, typeWeights, total)
      /\ \A k \in Types : k >= typeCount => sums[k] = Flat
  BY DEF Ready, WellFormed, Settled, Linked
<1>2. w \in Weeks /\ w \in Nat /\ DeployTime < w /\ w <= NextWeek
  BY <1>1, FilledWeekFacts
<1>3. /\ TotalStart \in Nat /\ TotalStart <= total.time /\ total.time \in Nat
      /\ FilledTo(TotalStart) = NextWeek
  BY <1>1, TotalStartFacts, WeekFacts DEF CurvesOK, SaneTotal, Levels, InTime
<1> DEFINE f == FilledSums(typeCount, sums)
           l == FilledLevels(typeCount)
<1>4. TotalWeight(w) = IF TotalStart < w /\ w <= NextWeek THEN SumOf(Weighted(f, l, w), AddedTypes(typeCount))
                       ELSE total.points[w]
  BY <1>2, <1>3, WeightedSum DEF TotalWeight, FilledTotal, Level
<1>5. CASE ~ (TotalStart < w)
  <2>1. w <= total.time
    BY <1>2, <1>3, <1>5
  <2> QED
    BY <1>1, <1>2, <1>4, <1>5, <2>1 DEF TotalRight
<1>6. CASE TotalStart < w
  <2>1. ASSUME NEW k \in Types, k < typeCount
        PROVE  f[k].points[w] = Projected(sums[k])[w] /\ l[k].points[w] = LevelAt(typeWeights[k], w)
    <3> DEFINE s == sums[k]
               t == typeWeights[k]
    <3>1. Sane(s) /\ (s.time # 0 => Reaches(s.time)) /\ SaneLevel(t) /\ (t.time # 0 => Reaches(t.time))
      BY <1>1 DEF CurvesOK, InTime
    <3>2. f[k] = Filled(s) /\ l[k] = FilledLevel(t)
      BY <2>1 DEF FilledSums, FilledLevels
    <3> HIDE DEF f, l, s, t
    <3>3. Filled(s).points[w] = Projected(s)[w]
      BY <1>1, <1>2, <3>1, FilledPoints
    <3>4. FilledLevel(t).points[w] = LevelAt(t, w)
      BY <1>1, <1>2, <3>1, LevelMovesPast
    <3> QED
      BY <3>2, <3>3, <3>4 DEF s, t
  <2>2. \A k \in Types : ~ (k < typeCount) => Projected(sums[k])[w].bias = 0
    BY <1>1, <1>2, TypesFinite, FlatProjected DEF Point
  <2>3. \A k \in Types : sums[k] \in Curves /\ typeWeights[k] \in Levels
    BY <1>1 DEF CurvesOK, Sane, SaneLevel
  <2> HIDE DEF f, l
  <2>4. Matches(typeCount, sums, typeWeights, f, l, w)
    BY <2>1, <2>2, <2>3 DEF Matches
  <2>5. SumOf(Weighted(f, l, w), AddedTypes(typeCount)) = TotalAt(sums, typeWeights, w)
    BY <1>1, <1>2, <2>4, TotalOfWeek
  <2> QED
    BY <1>2, <1>4, <1>6, <2>5
<1> QED
  BY <1>5, <1>6

TypedAt(g, w) ==
    IF gaugeTypes[g] = 0 THEN 0
    ELSE LevelAt(typeWeights[gaugeTypes[g] - 1], w) * Projected(weights[g])[w].bias

(* The weight of a gauge times that of its type that anyone gets.          *)
LEMMA TypedWeightIs ==
  Ready => \A w \in FilledWeeks : \A g \in Gauges : TypedWeight(g, w) = TypedAt(g, w)
<1> SUFFICES ASSUME Ready, NEW w \in FilledWeeks, NEW g \in Gauges
             PROVE  TypedWeight(g, w) = TypedAt(g, w)
  OBVIOUS
<1>1. WellFormed /\ InTime /\ Clock /\ CurvesOK
  BY DEF Ready, WellFormed, Settled
<1>2. w \in Weeks /\ w <= NextWeek
  BY <1>1, FilledWeekFacts
<1>3. CASE gaugeTypes[g] = 0
  BY <1>3 DEF TypedWeight, TypedAt
<1>4. CASE gaugeTypes[g] # 0
  <2> DEFINE k == gaugeTypes[g] - 1
             t == typeWeights[k]
             c == weights[g]
  <2>1. k \in Types
    BY <1>1, <1>4, TypeOfGauge
  <2>2. /\ Sane(c) /\ (c.time # 0 => Reaches(c.time))
        /\ SaneLevel(t) /\ (t.time # 0 => Reaches(t.time))
    BY <1>1, <2>1 DEF CurvesOK, InTime
  <2>3. TypedWeight(g, w) = FilledLevel(t).points[w] * Filled(c).points[w].bias
    BY <1>4 DEF TypedWeight, GaugeWeight
  <2>4. TypedAt(g, w) = LevelAt(t, w) * Projected(c)[w].bias
    BY <1>4 DEF TypedAt
  <2> HIDE DEF c, k, t
  <2>5. Filled(c).points[w] = Projected(c)[w]
    BY <1>1, <1>2, <2>2, FilledPoints
  <2>6. FilledLevel(t).points[w] = LevelAt(t, w)
    BY <1>1, <1>2, <2>2, LevelMovesPast
  <2> QED
    BY <2>3, <2>4, <2>5, <2>6
<1> QED
  BY <1>3, <1>4

(* The curves of the gauges change in no week that has begun.              *)
LEMMA WeightsPast ==
  ASSUME WellFormed, InTime, WeightsMove
  PROVE  \A g \in Gauges : Past(weights[g], weights'[g])
<1> TAKE g \in Gauges
<1> DEFINE c == weights[g]
           d == weights'[g]
<1>1. Clock /\ Sane(c) /\ (c.time # 0 => Reaches(c.time)) /\ Moves(c, d)
  BY DEF WellFormed, Settled, CurvesOK, InTime, WeightsMove
<1> HIDE DEF c, d
<1>2. Past(c, d)
  BY <1>1, MovesPast
<1> QED
  BY <1>2 DEF c, d

(* A gauge gets its type once.                                             *)
LEMMA TypesStay ==
  ASSUME [GaugeNext]_gaugeVars, gaugeTypes \in [Gauges -> 0 .. typeCount], NEW g \in Gauges
  PROVE  gaugeTypes'[g] = gaugeTypes[g] \/ gaugeTypes[g] = 0
<1>1. ASSUME NEW x \in Gauges, NEW k \in Types, NEW weight \in Weights, AddGauge(x, k, weight)
      PROVE  gaugeTypes'[g] = gaugeTypes[g] \/ gaugeTypes[g] = 0
  BY <1>1 DEF AddGauge
<1>2. \A weight : AddType(weight) => UNCHANGED gaugeTypes
  BY DEF AddType
<1>3. \A k, weight : ChangeTypeWeight(k, weight) => UNCHANGED gaugeTypes
  BY DEF ChangeTypeWeight, setVars
<1>4. \A x, weight : ChangeGaugeWeight(x, weight) => UNCHANGED gaugeTypes
  BY DEF ChangeGaugeWeight, setVars
<1>5. Checkpoint => UNCHANGED gaugeTypes
  BY DEF Checkpoint, setVars
<1>6. \A x : CheckpointGauge(x) => UNCHANGED gaugeTypes
  BY DEF CheckpointGauge, setVars
<1>7. \A u, x, power : Vote(u, x, power) => UNCHANGED gaugeTypes
  BY DEF Vote, setVars
<1>8. \A u, lock : ChangeLock(u, lock) \/ Withdraw(u) => UNCHANGED gaugeTypes
  BY DEF ChangeLock, Withdraw, setVars
<1>9. GaugeTick \/ UNCHANGED gaugeVars => UNCHANGED gaugeTypes
  BY DEF GaugeTick, gaugeVars, setVars
<1>10. \/ UNCHANGED gaugeTypes
       \/ \E x \in Gauges, k \in Types, weight \in Weights : AddGauge(x, k, weight)
  BY <1>2, <1>3, <1>4, <1>5, <1>6, <1>7, <1>8, <1>9 DEF GaugeNext
<1> QED
  BY <1>1, <1>10

(* The same in the next state.                                             *)
LEMMA NextWeightsAre ==
  Ready' => \A w \in FilledWeeks' : /\ TotalWeight(w)' = TotalAt(sums', typeWeights', w)
                                    /\ \A g \in Gauges : TypedWeight(g, w)' = TypedAt(g, w)'
<1>1. (Ready => \A w \in FilledWeeks : TotalWeight(w) = TotalAt(sums, typeWeights, w))'
  BY TotalWeightIs, PTL
<1>2. (Ready => \A w \in FilledWeeks : \A g \in Gauges : TypedWeight(g, w) = TypedAt(g, w))'
  BY TypedWeightIs, PTL
<1> QED
  BY <1>1, <1>2

(* One step leaves the weights of the weeks that have begun as they were.  *)
LEMMA PastStep ==
  ASSUME Ready, Ready', [GaugeNext]_gaugeVars, NEW w \in FilledWeeks, w <= now
  PROVE  /\ TotalWeight(w)' = TotalWeight(w)
         /\ \A g \in Gauges : TypedWeight(g, w)' = TypedWeight(g, w)
<1>1. /\ WellFormed /\ InTime /\ Clock /\ CurvesOK /\ WeightsMove /\ TypesMove
      /\ gaugeTypes \in [Gauges -> 0 .. typeCount]
      /\ \A g \in Gauges : gaugeTypes[g] = 0 => weights[g] = Flat
  BY CurvesStep DEF Ready, WellFormed, Settled, Linked
<1>2. w \in Weeks /\ w \in Nat /\ DeployTime < w /\ w <= NextWeek /\ w < NextWeek
  BY <1>1, FilledWeekFacts, NextWeekFacts
<1>3. w \in FilledWeeks'
  <2>1. NextWeek \in Nat /\ NextWeek' \in Nat /\ NextWeek <= NextWeek'
    BY <1>1, ClockStep
  <2> QED
    BY <1>2, <2>1 DEF FilledWeeks
<1>4. /\ TotalWeight(w) = TotalAt(sums, typeWeights, w)
      /\ \A g \in Gauges : TypedWeight(g, w) = TypedAt(g, w)
  BY TotalWeightIs, TypedWeightIs
<1>5. /\ TotalWeight(w)' = TotalAt(sums', typeWeights', w)
      /\ \A g \in Gauges : TypedWeight(g, w)' = TypedAt(g, w)'
  BY <1>3, NextWeightsAre
<1>6. \A k \in Types : /\ Projected(sums'[k])[w] = Projected(sums[k])[w]
                       /\ LevelAt(typeWeights'[k], w) = LevelAt(typeWeights[k], w)
  BY <1>1, <1>2, TypesPast DEF Past, PastLevel
<1>7. TotalAt(sums', typeWeights', w) = TotalAt(sums, typeWeights, w)
  BY <1>6, SameTotal
<1>8. ASSUME NEW g \in Gauges
      PROVE  TypedAt(g, w)' = TypedAt(g, w)
  <2>1. Projected(weights'[g])[w] = Projected(weights[g])[w]
    BY <1>1, <1>2, WeightsPast DEF Past
  <2>2. TypedAt(g, w)' = IF gaugeTypes'[g] = 0 THEN 0
                         ELSE LevelAt(typeWeights'[gaugeTypes'[g] - 1], w) * Projected(weights'[g])[w].bias
    BY DEF TypedAt
  <2>3. CASE gaugeTypes'[g] = gaugeTypes[g]
    <3>1. gaugeTypes[g] # 0 => gaugeTypes[g] - 1 \in Types
      BY <1>1, TypeOfGauge
    <3> QED
      BY <1>6, <2>1, <2>2, <2>3, <3>1 DEF TypedAt
  <2>4. CASE gaugeTypes[g] = 0 /\ gaugeTypes'[g] # 0
    <3> DEFINE k == gaugeTypes'[g] - 1
    <3>1. k \in Types /\ typeWeights'[k] \in Levels
      <4>1. (WellFormed => gaugeTypes[g] \in Nat /\ (gaugeTypes[g] > 0 => gaugeTypes[g] - 1 \in Types))'
        <5>1. WellFormed => gaugeTypes[g] \in Nat /\ (gaugeTypes[g] > 0 => gaugeTypes[g] - 1 \in Types)
          BY TypeOfGauge
        <5> QED
          BY <5>1, TypeOfGauge, PTL
      <4>2. WellFormed'
        BY DEF Ready
      <4>3. k \in Types
        BY <2>4, <4>1, <4>2
      <4> QED
        BY <4>2, <4>3 DEF WellFormed, CurvesOK, SaneLevel
    <3> DEFINE l == LevelAt(typeWeights'[k], w)
    <3>2. l \in Nat
      BY <1>2, <3>1 DEF LevelAt, Levels
    <3>3. Projected(weights'[g])[w].bias = 0
      BY <1>1, <1>2, <2>1, <2>4, FlatProjected DEF Point
    <3>4. TypedAt(g, w)' = l * 0
      BY <2>2, <2>4, <3>3
    <3> HIDE DEF l
    <3>5. l * 0 = 0
      BY <3>2
    <3> QED
      BY <2>4, <3>4, <3>5 DEF TypedAt
  <2> QED
    BY <1>1, <2>3, <2>4, TypesStay
<1> QED
  BY <1>4, <1>5, <1>7, <1>8

(* The relative weights of the weeks that have begun, by which tokens are  *)
(* minted, are final: no vote, weight, gauge or type changes them any      *)
(* more, whether they were filled in time or not, as long as the loops     *)
(* over weeks are long enough to fill them (gauge_relative_weight_write).  *)
THEOREM PastWeightsAreAlwaysFinal == GaugeSpec /\ []InTime => PastWeightsAreFinal
<1>1. Ready /\ Ready' /\ [GaugeNext]_gaugeVars =>
        [\A w \in FilledWeeks : w <= now =>
           /\ TotalWeight(w)' = TotalWeight(w)
           /\ \A g \in Gauges : TypedWeight(g, w)' = TypedWeight(g, w)]_gaugeVars
  BY PastStep
<1> QED
  BY <1>1, AlwaysReady, PTL DEF GaugeSpec, PastWeightsAreFinal

---------------------------------------------------------------------------
(* What the weights have to be.                                            *)

\* A bias that falls by the slope each week, and is gone with the slope
Runs(b, s) ==
    /\ b \in [Weeks -> Nat] /\ s \in [Weeks -> Nat]
    /\ \A w \in Weeks : s[w] <= b[w]
    /\ \A w \in Weeks : w > 0 => b[w] = b[w - WEEK] - s[w - WEEK] * WEEK

\* A curve is on its way to them
Fits(c, b, s) ==
    /\ c.points[c.time] = Point(b[c.time], s[c.time])
    /\ \A w \in Weeks : w > c.time => c.changes[w] = s[w - WEEK] - s[w]

(* A week's decay of a point that fits.                                    *)
LEMMA DecayedFits ==
  ASSUME NEW b, NEW s, Runs(b, s), NEW w \in Weeks, w > 0
  PROVE  Decayed(Point(b[w - WEEK], s[w - WEEK]), s[w - WEEK] - s[w]) = Point(b[w], s[w])
<1>1. w - WEEK \in Weeks
  BY WeekFacts
<1> DEFINE v == w - WEEK
           x == b[v]
           y == s[v]
           fall == y * WEEK
<1>2. /\ x \in Nat /\ y \in Nat /\ b[w] \in Nat /\ s[w] \in Nat /\ s[w] <= b[w]
      /\ b[w] = x - fall /\ WEEK \in Nat
  BY <1>1, GaugeAssumption DEF Runs
<1>3. fall \in Nat
  BY <1>2
<1>4. Decayed(Point(x, y), y - s[w]) =
        IF x > fall THEN Point(x - fall, y - (y - s[w])) ELSE Point(0, 0)
  BY DEF Decayed, Point
<1> HIDE DEF v, x, y, fall
<1>5. CASE x > fall
  <2>1. y - (y - s[w]) = s[w]
    BY <1>2
  <2> QED
    BY <1>2, <1>4, <1>5, <2>1 DEF v, x, y
<1>6. CASE ~ (x > fall)
  <2>1. b[w] = 0 /\ s[w] = 0
    BY <1>2, <1>3, <1>6
  <2> QED
    BY <1>4, <1>6, <2>1 DEF v, x, y
<1> QED
  BY <1>5, <1>6

(* A curve that fits gets there.                                           *)
LEMMA FitsProjected ==
  ASSUME NEW c \in Curves, NEW b, NEW s, Runs(b, s), Fits(c, b, s)
  PROVE  \A w \in Weeks : w >= c.time => Projected(c)[w] = Point(b[w], s[w])
<1> DEFINE P == Projected(c)
           T == {w \in Weeks : P[w] = Point(b[w], s[w])}
<1>1. /\ c.time \in Weeks
      /\ \A w \in Weeks : w <= c.time => P[w] = c.points[w]
      /\ \A w \in Weeks : w > c.time => w - WEEK \in Weeks /\ P[w] = Decayed(P[w - WEEK], c.changes[w])
  BY CurveParts, ProjectedIs
<1> HIDE DEF P
<1> DEFINE d == c.time
<1>t. d \in Weeks /\ d \in Nat
  BY <1>1, WeekFacts
<1> HIDE DEF d
<1>2. c.time \in T
  <2>1. d <= d
    BY <1>t
  <2>2. d <= d => P[d] = c.points[d]
    BY <1>1, <1>t DEF d
  <2> QED
    BY <1>t, <2>1, <2>2 DEF Fits, d
<1>3. ASSUME NEW w \in Weeks, w >= c.time, w \in T, w + WEEK \in Weeks
      PROVE  w + WEEK \in T
  <2> DEFINE v == w + WEEK
  <2>a. w \in Nat /\ WEEK \in Nat /\ WEEK > 0 /\ w >= d
    BY <1>3, WeekFacts DEF d
  <2>b. v > d /\ v > 0 /\ v - WEEK = w
    BY <1>t, <2>a
  <2>1. v \in Weeks /\ v > c.time /\ v > 0 /\ v - WEEK = w
    BY <1>3, <2>b DEF d
  <2> HIDE DEF v
  <2>2. P[v] = Decayed(P[v - WEEK], c.changes[v]) /\ c.changes[v] = s[v - WEEK] - s[v]
    BY <1>1, <2>1 DEF Fits
  <2>3. P[v - WEEK] = Point(b[v - WEEK], s[v - WEEK])
    BY <1>3, <2>1
  <2>4. P[v] = Point(b[v], s[v])
    BY <2>1, <2>2, <2>3, DecayedFits
  <2>5. v \in T
    BY <2>1, <2>4
  <2> QED
    BY <2>5 DEF v
<1> HIDE DEF T
<1>4. \A w \in Weeks : w >= c.time => w \in T
  BY <1>1, <1>2, <1>3, WeekInduction
<1> QED
  BY <1>4 DEF T, P

\* The slope of a vote in a week
SlopeAt(v, w) == IF v.end > w THEN v.slope ELSE 0

BiasesOf(v) == [w \in Weeks |-> BiasAt(v, w)]
SlopesOf(v) == [w \in Weeks |-> SlopeAt(v, w)]

(* What is left of a vote falls to 0 by its slope.                         *)
LEMMA BallotRuns ==
  ASSUME NEW v \in Ballots
  PROVE  Runs(BiasesOf(v), SlopesOf(v))
<1> DEFINE e == v.end
           x == v.slope
<1>1. e \in Weeks /\ e \in Nat /\ x \in Nat /\ WEEK \in Nat
  BY WeekFacts DEF Ballots
<1>2. \A w \in Weeks : BiasAt(v, w) = (IF e > w THEN x * (e - w) ELSE 0) /\ SlopeAt(v, w) = IF e > w THEN x ELSE 0
  BY DEF BiasAt, SlopeAt
<1> HIDE DEF e, x
<1>3. \A w \in Weeks : BiasAt(v, w) \in Nat /\ SlopeAt(v, w) \in Nat
  BY <1>1, <1>2, BiasAtType
<1>4. ASSUME NEW w \in Weeks
      PROVE  SlopeAt(v, w) <= BiasAt(v, w)
  <2>1. CASE e > w
    <3> DEFINE n == e - w
    <3>1. n \in Nat /\ n >= 1
      BY <1>1, <2>1, WeekFacts
    <3> HIDE DEF n
    <3>2. x <= x * n
      BY <1>1, <3>1
    <3> QED
      BY <1>2, <2>1, <3>2 DEF n
  <2>2. CASE ~ (e > w)
    BY <1>2, <2>2
  <2> QED
    BY <2>1, <2>2
<1>5. ASSUME NEW w \in Weeks, w > 0
      PROVE  BiasAt(v, w) = BiasAt(v, w - WEEK) - SlopeAt(v, w - WEEK) * WEEK
  <2>1. w - WEEK \in Weeks /\ w \in Nat
    BY <1>5, WeekFacts
  <2>2. e > w - WEEK => e >= w
    <3>1. e > w - WEEK => (w - WEEK) + WEEK <= e
      BY <1>1, <2>1, WeekFacts
    <3> QED
      BY <1>1, <2>1, <3>1
  <2>3. CASE e > w - WEEK
    <3> DEFINE n == e - w
    <3>1. n \in Nat /\ e - (w - WEEK) = n + WEEK
      BY <1>1, <2>1, <2>2, <2>3
    <3>2. BiasAt(v, w) = x * n
      <4>1. CASE e > w
        BY <1>2, <4>1
      <4>2. CASE ~ (e > w)
        <5>1. n = 0 /\ x * 0 = 0
          BY <1>1, <2>1, <2>2, <2>3, <4>2
        <5> QED
          BY <1>2, <4>2, <5>1
      <4> QED
        BY <4>1, <4>2
    <3>3. BiasAt(v, w - WEEK) = x * (n + WEEK) /\ SlopeAt(v, w - WEEK) = x
      BY <1>2, <2>1, <2>3, <3>1
    <3> HIDE DEF n
    <3>4. x * (n + WEEK) = x * n + x * WEEK /\ x * n \in Nat /\ x * WEEK \in Nat
      BY <1>1, <3>1
    <3> QED
      BY <3>2, <3>3, <3>4
  <2>4. CASE ~ (e > w - WEEK)
    <3>1. ~ (e > w)
      BY <1>1, <2>1, <2>4
    <3>2. BiasAt(v, w) = 0 /\ BiasAt(v, w - WEEK) = 0 /\ SlopeAt(v, w - WEEK) = 0
      BY <1>2, <2>1, <2>4, <3>1
    <3>3. 0 * WEEK = 0
      BY <1>1
    <3> QED
      BY <3>2, <3>3
  <2> QED
    BY <2>3, <2>4
<1>6. BiasesOf(v) \in [Weeks -> Nat] /\ SlopesOf(v) \in [Weeks -> Nat]
  BY <1>3 DEF BiasesOf, SlopesOf
<1>7. \A w \in Weeks : BiasesOf(v)[w] = BiasAt(v, w) /\ SlopesOf(v)[w] = SlopeAt(v, w)
  BY DEF BiasesOf, SlopesOf
<1>8. \A w \in Weeks : w > 0 => w - WEEK \in Weeks
  BY WeekFacts
<1> QED
  BY <1>4, <1>5, <1>6, <1>7, <1>8 DEF Runs

(* Sums of them do, too.                                                   *)
LEMMA SumRuns ==
  ASSUME NEW S, IsFiniteSet(S), NEW mb, NEW ms, \A x \in S : Runs(mb[x], ms[x])
  PROVE  Runs(Columns(mb, S, Weeks), Columns(ms, S, Weeks))
<1> DEFINE B == Columns(mb, S, Weeks)
           D == Columns(ms, S, Weeks)
<1>1. \A w \in Weeks : B[w] = SumOf(Column(mb, S, w), S) /\ D[w] = SumOf(Column(ms, S, w), S)
  BY DEF Columns
<1>2. \A w \in Weeks : \A x \in S : Column(mb, S, w)[x] = mb[x][w] /\ Column(ms, S, w)[x] = ms[x][w]
  BY DEF Column
<1>3. ASSUME NEW w \in Weeks
      PROVE  B[w] \in Nat /\ D[w] \in Nat /\ D[w] <= B[w]
  <2> DEFINE f == Column(mb, S, w)
             g == Column(ms, S, w)
             h == [x \in S |-> f[x] - g[x]]
  <2>1. \A x \in S : f[x] \in Nat /\ g[x] \in Nat /\ g[x] <= f[x]
    BY <1>2 DEF Runs
  <2> HIDE DEF f, g
  <2>2. \A x \in S : h[x] \in Nat /\ f[x] = g[x] + h[x]
    BY <2>1
  <2> HIDE DEF h
  <2>3. SumOf(f, S) \in Nat /\ SumOf(g, S) \in Nat /\ SumOf(h, S) \in Nat
    BY <2>1, <2>2, SumOfNat
  <2>4. SumOf(f, S) = SumOf(g, S) + SumOf(h, S)
    <3>1. \A x \in S : g[x] \in Int /\ h[x] \in Int /\ f[x] = g[x] + h[x]
      BY <2>1, <2>2
    <3> QED
      BY <3>1, SumLinear
  <2> QED
    BY <1>1, <2>3, <2>4 DEF f, g
<1>4. ASSUME NEW w \in Weeks, w > 0
      PROVE  B[w] = B[w - WEEK] - D[w - WEEK] * WEEK
  <2> DEFINE v == w - WEEK
  <2>1. v \in Weeks /\ WEEK \in Int
    BY <1>4, WeekFacts
  <2> DEFINE f == Column(mb, S, w)
             g == Column(mb, S, v)
             h == Column(ms, S, v)
             k == [x \in S |-> h[x] * WEEK]
  <2>2. \A x \in S : mb[x][w] = mb[x][v] - ms[x][v] * WEEK /\ mb[x][w] \in Nat /\ mb[x][v] \in Nat /\ ms[x][v] \in Nat
    BY <1>4, <2>1 DEF Runs
  <2> HIDE DEF v
  <2>3. \A x \in S : f[x] = mb[x][w] /\ g[x] = mb[x][v] /\ h[x] = ms[x][v]
    BY <1>2, <2>1
  <2> HIDE DEF f, g, h
  <2>4. \A x \in S : h[x] \in Int /\ k[x] = h[x] * WEEK
    BY <2>2, <2>3
  <2>5. \A x \in S : k[x] \in Int /\ f[x] \in Int /\ g[x] = k[x] + f[x]
    <3> TAKE x \in S
    <3> DEFINE p == k[x]
    <3>1. p = h[x] * WEEK /\ h[x] \in Int
      BY <2>4
    <3>2. p \in Int
      BY <2>1, <3>1
    <3>3. f[x] = g[x] - p /\ g[x] \in Int
      BY <2>2, <2>3, <3>1
    <3> HIDE DEF p
    <3>4. f[x] \in Int /\ g[x] = p + f[x]
      BY <3>2, <3>3
    <3> QED
      BY <3>2, <3>4 DEF p
  <2> HIDE DEF k
  <2>6. SumOf(g, S) = SumOf(k, S) + SumOf(f, S)
    BY <2>5, SumLinear
  <2>7. SumOf(k, S) = SumOf(h, S) * WEEK
    BY <2>1, <2>4, SumOfMultiples
  <2>8. B[w] = SumOf(f, S) /\ B[v] = SumOf(g, S) /\ D[v] = SumOf(h, S)
    BY <1>1, <2>1 DEF f, g, h
  <2>9. SumOf(k, S) \in Int /\ SumOf(f, S) \in Int /\ SumOf(g, S) \in Int
    <3>1. \A x \in S : g[x] \in Int
      BY <2>2, <2>3
    <3> QED
      BY <2>5, <3>1, SumOfInt
  <2>10. SumOf(f, S) = SumOf(g, S) - SumOf(k, S)
    BY <2>6, <2>9
  <2> QED
    BY <2>7, <2>8, <2>10 DEF v
<1>5. B \in [Weeks -> Nat] /\ D \in [Weeks -> Nat]
  <2>1. B = [w \in Weeks |-> B[w]] /\ D = [w \in Weeks |-> D[w]]
    BY DEF Columns
  <2> HIDE DEF B, D
  <2> QED
    BY <1>3, <2>1
<1> HIDE DEF B, D
<1>6. Runs(B, D)
  BY <1>3, <1>4, <1>5 DEF Runs
<1> QED
  BY <1>6 DEF B, D

(* So does a weight that stays, besides.                                   *)
LEMMA RunsOnTop ==
  ASSUME NEW b, NEW s, Runs(b, s), NEW n \in Nat
  PROVE  Runs([w \in Weeks |-> n + b[w]], s)
<1> DEFINE c == [w \in Weeks |-> n + b[w]]
<1>1. b \in [Weeks -> Nat] /\ s \in [Weeks -> Nat]
  BY DEF Runs
<1>2. c \in [Weeks -> Nat] /\ \A w \in Weeks : c[w] = n + b[w]
  BY <1>1
<1> HIDE DEF c
<1>3. ASSUME NEW w \in Weeks
      PROVE  s[w] <= c[w]
  <2>1. s[w] <= b[w] /\ s[w] \in Nat /\ b[w] \in Nat
    BY <1>1 DEF Runs
  <2> QED
    BY <1>2, <2>1
<1>4. ASSUME NEW w \in Weeks, w > 0
      PROVE  c[w] = c[w - WEEK] - s[w - WEEK] * WEEK
  <2>1. w - WEEK \in Weeks
    BY <1>4, WeekFacts
  <2> DEFINE p == s[w - WEEK] * WEEK
  <2>2. b[w] = b[w - WEEK] - p /\ p \in Int
    <3>1. s[w - WEEK] \in Nat /\ WEEK \in Nat
      BY <1>1, <2>1, WeekFacts
    <3>2. p \in Int
      BY <3>1
    <3> QED
      BY <1>4, <3>2 DEF Runs
  <2> HIDE DEF p
  <2>3. c[w] = n + b[w] /\ c[w - WEEK] = n + b[w - WEEK] /\ b[w - WEEK] \in Nat
    BY <1>1, <1>2, <2>1
  <2> QED
    BY <2>2, <2>3 DEF p
<1> QED
  BY <1>1, <1>2, <1>3, <1>4 DEF Runs, c

\* The part of what the gauges have that those of type k have
OfType(types, m, k) ==
    [w \in Weeks |-> SumOf([g \in Gauges |-> IF types[g] = k + 1 THEN m[g][w] ELSE 0], Gauges)]

(* The sums over a type of what runs down run down.                        *)
LEMMA OfTypeRuns ==
  ASSUME NEW types, NEW mb, NEW ms, \A g \in Gauges : Runs(mb[g], ms[g]), NEW k
  PROVE  Runs(OfType(types, mb, k), OfType(types, ms, k))
<1> DEFINE zeros == [w \in Weeks |-> 0]
           pb == [g \in Gauges |-> IF types[g] = k + 1 THEN mb[g] ELSE zeros]
           ps == [g \in Gauges |-> IF types[g] = k + 1 THEN ms[g] ELSE zeros]
<1>1. Runs(zeros, zeros)
  <2>1. WEEK \in Nat /\ \A w \in Weeks : w > 0 => w - WEEK \in Weeks
    BY WeekFacts
  <2>2. zeros \in [Weeks -> Nat] /\ \A w \in Weeks : zeros[w] = 0
    OBVIOUS
  <2> HIDE DEF zeros
  <2>3. 0 * WEEK = 0
    BY <2>1
  <2>4. \A w \in Weeks : w > 0 => zeros[w] = zeros[w - WEEK] - zeros[w - WEEK] * WEEK
    BY <2>1, <2>2, <2>3
  <2> QED
    BY <2>2, <2>4 DEF Runs
<1>2. IsFiniteSet(Gauges)
  BY GaugeAssumption
<1>3. \A g \in Gauges : Runs(pb[g], ps[g])
  BY <1>1
<1>4. ASSUME NEW w \in Weeks
      PROVE  /\ SumOf(Column(pb, Gauges, w), Gauges) =
                  SumOf([g \in Gauges |-> IF types[g] = k + 1 THEN mb[g][w] ELSE 0], Gauges)
             /\ SumOf(Column(ps, Gauges, w), Gauges) =
                  SumOf([g \in Gauges |-> IF types[g] = k + 1 THEN ms[g][w] ELSE 0], Gauges)
  <2>1. /\ Column(pb, Gauges, w) = [g \in Gauges |-> IF types[g] = k + 1 THEN mb[g][w] ELSE 0]
        /\ Column(ps, Gauges, w) = [g \in Gauges |-> IF types[g] = k + 1 THEN ms[g][w] ELSE 0]
    BY DEF Column
  <2> QED
    BY <2>1
<1> HIDE DEF pb, ps
<1>5. Runs(Columns(pb, Gauges, Weeks), Columns(ps, Gauges, Weeks))
  BY <1>2, <1>3, SumRuns
<1>6. /\ Columns(pb, Gauges, Weeks) = OfType(types, mb, k)
      /\ Columns(ps, Gauges, Weeks) = OfType(types, ms, k)
  BY <1>4 DEF Columns, OfType
<1> QED
  BY <1>5, <1>6

\* What one gauge has of it
PartOf(types, m, k, g, w) == IF types[g] = k + 1 THEN m[g][w] ELSE 0

\* Only gauge g changes
ChangedAt(types, newTypes, m, n, w, g) ==
    \A h \in Gauges : /\ m[h][w] \in Int /\ n[h][w] \in Int
                      /\ h # g => newTypes[h] = types[h] /\ n[h][w] = m[h][w]

(* When one gauge changes, its part of the sums does.                      *)
LEMMA OfTypeChange ==
  ASSUME NEW types, NEW newTypes, NEW m, NEW n, NEW k, NEW w \in Weeks, NEW g \in Gauges,
         ChangedAt(types, newTypes, m, n, w, g)
  PROVE  /\ OfType(newTypes, n, k)[w] =
              OfType(types, m, k)[w] + (PartOf(newTypes, n, k, g, w) - PartOf(types, m, k, g, w))
         /\ OfType(types, m, k)[w] \in Int
         /\ PartOf(newTypes, n, k, g, w) \in Int /\ PartOf(types, m, k, g, w) \in Int
<1> DEFINE x == [h \in Gauges |-> IF types[h] = k + 1 THEN m[h][w] ELSE 0]
           y == [h \in Gauges |-> IF newTypes[h] = k + 1 THEN n[h][w] ELSE 0]
           p == PartOf(types, m, k, g, w)
           q == PartOf(newTypes, n, k, g, w)
           d == q - p
<1>1. OfType(types, m, k)[w] = SumOf(x, Gauges) /\ OfType(newTypes, n, k)[w] = SumOf(y, Gauges)
  BY DEF OfType
<1>2. p \in Int /\ q \in Int
  BY DEF PartOf, ChangedAt
<1>3. \A h \in Gauges : x[h] \in Int /\ (h # g => y[h] = x[h])
  BY DEF ChangedAt
<1>4. x[g] = p /\ y[g] = q
  BY DEF PartOf
<1> HIDE DEF x, y, p, q
<1>5. d \in Int /\ y[g] = x[g] + d
  BY <1>2, <1>4
<1> HIDE DEF d
<1>6. \A h \in Gauges : x[h] \in Int /\ y[h] = x[h] + (IF h = g THEN d ELSE 0)
  BY <1>3, <1>5
<1>7. IsFiniteSet(Gauges)
  BY GaugeAssumption
<1>8. SumOf(y, Gauges) = SumOf(x, Gauges) + d
  BY <1>5, <1>6, <1>7, SumOfChange
<1>9. SumOf(x, Gauges) \in Int
  BY <1>3, <1>7, SumOfInt
<1> QED
  BY <1>1, <1>2, <1>8, <1>9 DEF d, p, q

(* When no gauge of the type changes, they stay.                           *)
LEMMA OfTypeSame ==
  ASSUME NEW types, NEW newTypes, NEW m, NEW n, NEW k, NEW w \in Weeks,
         \A h \in Gauges : PartOf(newTypes, n, k, h, w) = PartOf(types, m, k, h, w)
  PROVE  OfType(newTypes, n, k)[w] = OfType(types, m, k)[w]
<1> DEFINE x == [h \in Gauges |-> IF types[h] = k + 1 THEN m[h][w] ELSE 0]
           y == [h \in Gauges |-> IF newTypes[h] = k + 1 THEN n[h][w] ELSE 0]
<1>1. OfType(types, m, k)[w] = SumOf(x, Gauges) /\ OfType(newTypes, n, k)[w] = SumOf(y, Gauges)
  BY DEF OfType
<1>2. \A h \in Gauges : y[h] = x[h]
  BY DEF PartOf
<1> HIDE DEF x, y
<1>3. IsFiniteSet(Gauges)
  BY GaugeAssumption
<1>4. SumOf(y, Gauges) = SumOf(x, Gauges)
  BY <1>2, <1>3, SumEqual
<1> QED
  BY <1>1, <1>4

---------------------------------------------------------------------------
(* How the calls keep the curves on their way.                             *)

(* A curve that fits can be filled, and fits when it is.                   *)
LEMMA FilledFits ==
  ASSUME Clock, NEW c, Sane(c), c.time # 0 => Reaches(c.time), NEW b, NEW s, Runs(b, s), Fits(c, b, s)
  PROVE  /\ Fillable(c)
         /\ Fits(Filled(c), b, s)
         /\ Bias(c) = b[NextWeek]
         /\ Filled(c).points[NextWeek] = Point(b[NextWeek], s[NextWeek])
         /\ \A w \in Weeks : w > NextWeek => Filled(c).changes[w] = s[w - WEEK] - s[w]
<1>1. /\ c \in Curves /\ c.time \in Weeks /\ c.time \in Nat /\ c.time <= NextWeek
      /\ c.points \in [Weeks -> Points]
  BY CurveParts, WeekFacts DEF Sane, Dated
<1>2. \A w \in Weeks : w >= c.time => Projected(c)[w] = Point(b[w], s[w])
  BY <1>1, FitsProjected
<1>3. NextWeek \in Weeks /\ NextWeek \in Nat
  BY NextWeekFacts
<1>4. \A w \in Weeks : w > c.time => c.changes[w] = s[w - WEEK] - s[w]
  BY DEF Fits
<1>5. \A w \in Weeks : w > NextWeek => c.changes[w] = s[w - WEEK] - s[w]
  <2> TAKE w \in Weeks
  <2>1. w > NextWeek => w > c.time
    <3>1. w \in Nat
      BY WeekFacts
    <3> QED
      BY <1>1, <1>3, <3>1
  <2> QED
    BY <1>4, <2>1
<1>6. CASE c.time = 0
  <2>1. c = Flat /\ Filled(c) = c /\ Fillable(c)
    BY <1>6, FlatFacts DEF Sane
  <2>2. Projected(c)[NextWeek] = Point(b[NextWeek], s[NextWeek])
    BY <1>1, <1>2, <1>3
  <2>3. Projected(c)[NextWeek] = Point(0, 0) /\ c.points[NextWeek] = Point(0, 0)
    BY <1>3, <2>1, FlatProjected, FlatFacts
  <2>4. b[NextWeek] = 0
    BY <2>2, <2>3 DEF Point
  <2>5. Bias(c) = 0
    BY <1>6 DEF Bias
  <2> QED
    BY <1>5, <2>1, <2>2, <2>3, <2>4, <2>5
<1>7. CASE c.time # 0
  <2>1. /\ Filled(c).time = NextWeek
        /\ Filled(c).changes = c.changes
        /\ \A w \in Weeks : Filled(c).points[w] = IF w > NextWeek THEN c.points[w] ELSE Projected(c)[w]
        /\ Bias(c) = Projected(c)[NextWeek].bias
    BY <1>7, FilledFully
  <2>2. Filled(c).points[NextWeek] = Projected(c)[NextWeek]
    <3>1. ~ (NextWeek > NextWeek)
      BY <1>3
    <3> QED
      BY <1>3, <2>1, <3>1
  <2>3. Projected(c)[NextWeek] = Point(b[NextWeek], s[NextWeek])
    BY <1>1, <1>2, <1>3
  <2>4. Bias(c) = b[NextWeek]
    BY <2>1, <2>3 DEF Point
  <2>5. Fits(Filled(c), b, s)
    BY <1>5, <2>1, <2>2, <2>3 DEF Fits
  <2>6. Fillable(c)
    <3>1. ASSUME NEW w \in FilledWeeks
          PROVE  Filled(c).points[w].slope >= 0
      <4>1. w \in Weeks /\ w \in Nat /\ w <= NextWeek
        BY FilledWeekFacts
      <4>2. Filled(c).points[w] = Projected(c)[w]
        BY <1>3, <2>1, <4>1
      <4>3. CASE w >= c.time
        <5>1. s[w] \in Nat
          BY <4>1 DEF Runs
        <5>2. Projected(c)[w] = Point(b[w], s[w])
          BY <1>2, <4>1, <4>3
        <5>3. Filled(c).points[w].slope = s[w]
          BY <4>2, <5>2 DEF Point
        <5> QED
          BY <5>1, <5>3
      <4>4. CASE ~ (w >= c.time)
        <5>1. w <= c.time
          BY <1>1, <4>1, <4>4
        <5>2. Projected(c)[w] = c.points[w]
          BY <1>1, <4>1, <5>1, CurveParts, ProjectedIs
        <5>3. c.points[w].slope \in Nat
          BY <1>1, <4>1, CurveParts
        <5> QED
          BY <4>2, <5>2, <5>3
      <4> QED
        BY <4>3, <4>4
    <3> QED
      BY <3>1 DEF Fillable
  <2> QED
    BY <1>5, <2>1, <2>2, <2>3, <2>4, <2>5, <2>6
<1> QED
  BY <1>6, <1>7

(* A curve that is filled fits when its next week, and what ends later, do. *)
LEMMA FitsFromNow ==
  ASSUME NEW d, NEW b, NEW s, d.time = NextWeek, d.points[NextWeek] = Point(b[NextWeek], s[NextWeek]),
         \A w \in Weeks : w > NextWeek => d.changes[w] = s[w - WEEK] - s[w]
  PROVE  Fits(d, b, s)
  BY DEF Fits

(* A curve that is given a new weight fits when what it is to fit is the   *)
(* new weight in the next week and falls as before.                        *)
LEMMA NewBiasFits ==
  ASSUME Clock, NEW c, Sane(c), c.time # 0 => Reaches(c.time), NEW b, NEW s, Runs(b, s), Fits(c, b, s),
         NEW n \in Nat, NEW b2, NEW s2, b2[NextWeek] = n,
         \A w \in Weeks : w >= NextWeek => s2[w] = s[w]
  PROVE  Fits(NewBias(Filled(c), n), b2, s2)
<1> DEFINE f == Filled(c)
           d == NewBias(f, n)
<1>1. /\ Fillable(c)
      /\ f.points[NextWeek] = Point(b[NextWeek], s[NextWeek])
      /\ \A w \in Weeks : w > NextWeek => f.changes[w] = s[w - WEEK] - s[w]
  BY FilledFits
<1>2. Sane(f)
  BY <1>1, FilledType
<1> HIDE DEF f
<1>3. /\ d.time = NextWeek /\ d.changes = f.changes
      /\ d.points = [f.points EXCEPT ![NextWeek] = Point(n, f.points[NextWeek].slope)]
  BY <1>2, NewBiasIs
<1>4. f.points \in [Weeks -> Points] /\ NextWeek \in Weeks /\ NextWeek \in Nat /\ NextWeek >= NextWeek
  <2>1. f \in Curves
    BY <1>2 DEF Sane
  <2>2. NextWeek \in Weeks /\ NextWeek \in Nat
    BY NextWeekFacts
  <2>3. NextWeek >= NextWeek
    BY <2>2
  <2> QED
    BY <2>1, <2>2, <2>3, CurveParts
<1>5. d.points[NextWeek] = Point(n, s[NextWeek])
  BY <1>1, <1>3, <1>4 DEF Point
<1>6. ASSUME NEW w \in Weeks, w > NextWeek
      PROVE  d.changes[w] = s2[w - WEEK] - s2[w]
  <2>1. w \in Nat /\ w > 0 /\ w >= NextWeek
    BY <1>4, <1>6, WeekFacts
  <2>2. w - WEEK \in Weeks /\ w - WEEK >= NextWeek
    <3>1. w - WEEK \in Weeks /\ NextWeek + WEEK <= w /\ WEEK \in Nat
      BY <1>4, <1>6, <2>1, WeekFacts
    <3>2. w - WEEK >= NextWeek
      BY <1>4, <2>1, <3>1
    <3> QED
      BY <3>1, <3>2
  <2> QED
    BY <1>1, <1>3, <1>6, <2>1, <2>2
<1> HIDE DEF d
<1>7. Fits(d, b2, s2)
  BY <1>3, <1>4, <1>5, <1>6, FitsFromNow
<1> QED
  BY <1>7 DEF d, f

(* The slope of a vote ends in one week.                                   *)
LEMMA SlopeEnds ==
  ASSUME NEW v \in Ballots, NEW w \in Weeks, w > 0
  PROVE  SlopeAt(v, w - WEEK) - SlopeAt(v, w) = IF w = v.end THEN v.slope ELSE 0
<1> DEFINE e == v.end
           x == v.slope
<1>1. e \in Weeks /\ e \in Nat /\ x \in Nat /\ WEEK \in Nat /\ WEEK > 0 /\ w \in Nat
  BY WeekFacts DEF Ballots
<1>2. w - WEEK \in Weeks /\ w - WEEK \in Nat
  BY <1>1, WeekFacts
<1>3. e > w - WEEK => e >= w
  <2>1. e > w - WEEK => (w - WEEK) + WEEK <= e
    BY <1>1, <1>2, WeekFacts
  <2> QED
    BY <1>1, <1>2, <2>1
<1>4. /\ SlopeAt(v, w - WEEK) = IF e > w - WEEK THEN x ELSE 0
      /\ SlopeAt(v, w) = IF e > w THEN x ELSE 0
  BY DEF SlopeAt
<1> HIDE DEF e, x
<1>5. CASE e > w
  <2>1. e > w - WEEK /\ e # w
    BY <1>1, <1>5
  <2> QED
    BY <1>1, <1>4, <1>5, <2>1 DEF e, x
<1>6. CASE e = w
  <2>1. e > w - WEEK /\ ~ (e > w)
    BY <1>1, <1>6
  <2> QED
    BY <1>1, <1>4, <1>6, <2>1 DEF e, x
<1>7. CASE e < w
  <2>1. ~ (e > w - WEEK) /\ ~ (e > w) /\ e # w
    BY <1>1, <1>2, <1>3, <1>7
  <2> QED
    BY <1>1, <1>4, <1>7, <2>1 DEF e, x
<1> QED
  BY <1>1, <1>5, <1>6, <1>7

\* x and y are what is left of a vote that is replaced in b and s
Replaced(b, s, b2, s2, x, y) ==
    \A w \in Weeks : w >= NextWeek =>
      /\ b2[w] = b[w] + (BiasAt(y, w) - BiasAt(x, w))
      /\ s2[w] = s[w] + (SlopeAt(y, w) - SlopeAt(x, w))

(* Nothing is cut off when the sums without the old vote are at least 0.   *)
LEMMA LaterMinus ==
  ASSUME NEW n \in Int, NEW m \in Int, n - m \in Nat
  PROVE  Later(n, m) - m = n - m
<1>1. CASE n < m
  BY <1>1
<1>2. CASE ~ (n < m)
  BY <1>2 DEF Later
<1> QED
  BY <1>1, <1>2

(* The point of the next week, with a vote for the one before.             *)
LEMMA PointAfterFits ==
  ASSUME Clock, NEW c, NEW b, NEW s, NEW b2, NEW s2, NEW x \in Ballots, NEW y \in Ballots,
         Runs(b, s), Runs(b2, s2), Replaced(b, s, b2, s2, x, y), y.end > NextWeek,
         Bias(c) = b[NextWeek], Filled(c).points[NextWeek] = Point(b[NextWeek], s[NextWeek])
  PROVE  PointAfter(c, x, y) = Point(b2[NextWeek], s2[NextWeek])
<1> DEFINE W == NextWeek
           b0 == b[W]
           s0 == s[W]
           b1 == b2[W]
           s1 == s2[W]
           bx == BiasAt(x, W)
           by == BiasAt(y, W)
           sx == SlopeAt(x, W)
           sy == SlopeAt(y, W)
<1>1. W \in Weeks /\ W \in Nat /\ W >= W
  <2>1. W \in Weeks /\ W \in Nat
    BY NextWeekFacts
  <2> QED
    BY <2>1
<1>2. b0 \in Nat /\ s0 \in Nat /\ b1 \in Nat /\ s1 \in Nat
  BY <1>1 DEF Runs
<1>3. bx \in Nat /\ by \in Nat
  BY <1>1, BiasAtType
<1>4. /\ x.slope \in Nat /\ y.slope \in Nat /\ x.end \in Nat /\ y.end \in Nat
      /\ sx = (IF x.end > W THEN x.slope ELSE 0) /\ sy = y.slope
  BY WeekFacts DEF Ballots, SlopeAt
<1>5. b1 = b0 + (by - bx) /\ s1 = s0 + (sy - sx)
  BY <1>1 DEF Replaced
<1>6. VoteBias(x) = bx /\ VoteBias(y) = by
  BY DEF VoteBias
<1>7. Filled(c).points[W].slope = s0
  BY DEF Point
<1>8. PointAfter(c, x, y) = Point(Later(b0 + by, bx) - bx,
                                  IF x.end > W THEN Later(s0 + y.slope, x.slope) - x.slope ELSE s0 + y.slope)
  BY <1>6, <1>7 DEF PointAfter
<1> HIDE DEF W, b0, s0, b1, s1, bx, by, sx, sy
<1>9. Later(b0 + by, bx) - bx = b1
  <2>1. b0 + by \in Int /\ bx \in Int /\ (b0 + by) - bx = b1 /\ (b0 + by) - bx \in Nat
    BY <1>2, <1>3, <1>5
  <2> QED
    BY <2>1, LaterMinus
<1>10. CASE x.end > W
  <2>1. s0 + y.slope \in Int /\ x.slope \in Int /\ (s0 + y.slope) - x.slope = s1 /\ (s0 + y.slope) - x.slope \in Nat
    BY <1>2, <1>4, <1>5, <1>10
  <2>2. Later(s0 + y.slope, x.slope) - x.slope = s1
    BY <2>1, LaterMinus
  <2> QED
    BY <1>8, <1>9, <1>10, <2>2 DEF W, b1, s1
<1>11. CASE ~ (x.end > W)
  <2>1. s0 + y.slope = s1
    BY <1>2, <1>4, <1>5, <1>11
  <2> QED
    BY <1>8, <1>9, <1>11, <2>1 DEF W, b1, s1
<1> QED
  BY <1>10, <1>11

(* A curve fits after a vote is replaced.                                  *)
LEMMA VotedFits ==
  ASSUME Clock, NEW c, Sane(c), c.time # 0, Reaches(c.time), NEW b, NEW s, Runs(b, s), Fits(c, b, s),
         NEW x \in Ballots, NEW y \in Ballots, Votable(c, x), y.end > NextWeek,
         NEW b2, NEW s2, Runs(b2, s2), Replaced(b, s, b2, s2, x, y)
  PROVE  Fits(Voted(c, x, y), b2, s2)
<1> DEFINE f == Filled(c)
           d == Voted(c, x, y)
<1>1. /\ Bias(c) = b[NextWeek]
      /\ f.points[NextWeek] = Point(b[NextWeek], s[NextWeek])
      /\ \A w \in Weeks : w > NextWeek => f.changes[w] = s[w - WEEK] - s[w]
  BY FilledFits
<1>2. /\ d.time = TimeAfter(c.time)
      /\ d.changes = Changes(c, x, y)
      /\ d.points = [f.points EXCEPT ![NextWeek] = PointAfter(c, x, y)]
  BY VotedIs
<1>3. f.time = NextWeek /\ f.changes = c.changes /\ Sane(f)
  <2>1. Fillable(c)
    BY DEF Votable
  <2> QED
    BY <2>1, FilledFully, FilledType
<1>4. d.time = NextWeek
  <2>1. c.time \in Weeks /\ c.time <= NextWeek
    BY DEF Sane, Dated
  <2> QED
    BY <1>2, <2>1, FilledToFacts
<1>5. NextWeek \in Weeks /\ NextWeek \in Nat /\ now \in Nat /\ now < NextWeek
  BY NextWeekFacts DEF Clock
<1>6. f.points \in [Weeks -> Points]
  BY <1>3, CurveParts DEF Sane
<1>7. PointAfter(c, x, y) = Point(b2[NextWeek], s2[NextWeek])
  BY <1>1, PointAfterFits
<1>8. d.points[NextWeek] = Point(b2[NextWeek], s2[NextWeek])
  BY <1>2, <1>5, <1>6, <1>7
<1>9. ASSUME NEW w \in Weeks, w > NextWeek
      PROVE  d.changes[w] = s2[w - WEEK] - s2[w]
  <2> DEFINE v == w - WEEK
             ex == IF w = x.end THEN x.slope ELSE 0
             ey == IF w = y.end THEN y.slope ELSE 0
  <2>1. w \in Nat /\ w > 0 /\ w >= NextWeek
    BY <1>5, <1>9, WeekFacts
  <2>2. v \in Weeks /\ v >= NextWeek
    <3>1. v \in Weeks /\ NextWeek + WEEK <= w /\ WEEK \in Nat
      BY <1>5, <1>9, <2>1, WeekFacts
    <3>2. v >= NextWeek
      BY <1>5, <2>1, <3>1
    <3> QED
      BY <3>1, <3>2
  <2>3. SlopeAt(x, v) - SlopeAt(x, w) = ex /\ SlopeAt(y, v) - SlopeAt(y, w) = ey
    BY <2>1, SlopeEnds
  <2>4. s2[w] = s[w] + (SlopeAt(y, w) - SlopeAt(x, w)) /\ s2[v] = s[v] + (SlopeAt(y, v) - SlopeAt(x, v))
    BY <2>1, <2>2 DEF Replaced
  <2>5. c.changes[w] = s[v] - s[w]
    BY <1>1, <1>3, <1>9
  <2>6. d.changes[w] = c.changes[w] - ex + ey
    <3>1. d.changes[w] = c.changes[w] - (IF w = x.end /\ x.end > now THEN x.slope ELSE 0)
                                      + (IF w = y.end THEN y.slope ELSE 0)
      BY <1>2 DEF Changes
    <3>2. w = x.end => x.end > now
      BY <1>5, <1>9, <2>1
    <3> QED
      BY <3>1, <3>2
  <2>7. s[w] \in Nat /\ s[v] \in Nat /\ s2[w] \in Nat /\ s2[v] \in Nat
    BY <2>2 DEF Runs
  <2>8. /\ SlopeAt(x, v) \in Nat /\ SlopeAt(x, w) \in Nat /\ SlopeAt(y, v) \in Nat /\ SlopeAt(y, w) \in Nat
        /\ ex \in Nat /\ ey \in Nat
    BY DEF SlopeAt, Ballots
  <2> HIDE DEF v, ex, ey
  <2>9. s[v] - s[w] - ex + ey = s2[v] - s2[w]
    BY <2>3, <2>4, <2>7, <2>8
  <2> QED
    BY <2>5, <2>6, <2>9 DEF v
<1> HIDE DEF d
<1>10. Fits(d, b2, s2)
  BY <1>4, <1>8, <1>9, FitsFromNow
<1> QED
  BY <1>10 DEF d

---------------------------------------------------------------------------
(* What the votes come to.                                                 *)

VotesWeight(vs, g, w) == SumOf([u \in Users |-> BiasAt(vs[u][g], w)], Users)
VotesSlope(vs, g, w) == SumOf([u \in Users |-> SlopeAt(vs[u][g], w)], Users)

\* The weight of each gauge, and its slope
WeightsOf(bs, vs) == [g \in Gauges |-> [w \in Weeks |-> bs[g] + VotesWeight(vs, g, w)]]
SlopesIn(vs) == [g \in Gauges |-> [w \in Weeks |-> VotesSlope(vs, g, w)]]

AllVotes == [Users -> [Gauges -> Ballots]]

(* The weight that the votes for a gauge come to runs down.                *)
LEMMA VotesRun ==
  ASSUME NEW vs \in AllVotes, NEW g \in Gauges
  PROVE  /\ Runs([w \in Weeks |-> VotesWeight(vs, g, w)], SlopesIn(vs)[g])
         /\ \A w \in Weeks : VotesWeight(vs, g, w) \in Nat /\ VotesSlope(vs, g, w) \in Nat
<1> DEFINE mb == [u \in Users |-> BiasesOf(vs[u][g])]
           ms == [u \in Users |-> SlopesOf(vs[u][g])]
           b == [w \in Weeks |-> VotesWeight(vs, g, w)]
           s == [w \in Weeks |-> VotesSlope(vs, g, w)]
<1>1. \A u \in Users : vs[u][g] \in Ballots
  BY DEF AllVotes
<1>2. \A u \in Users : Runs(mb[u], ms[u])
  BY <1>1, BallotRuns
<1>3. ASSUME NEW w \in Weeks
      PROVE  /\ SumOf(Column(mb, Users, w), Users) = VotesWeight(vs, g, w)
             /\ SumOf(Column(ms, Users, w), Users) = VotesSlope(vs, g, w)
  <2>1. /\ Column(mb, Users, w) = [u \in Users |-> BiasAt(vs[u][g], w)]
        /\ Column(ms, Users, w) = [u \in Users |-> SlopeAt(vs[u][g], w)]
    BY DEF Column, BiasesOf, SlopesOf
  <2> QED
    BY <2>1 DEF VotesWeight, VotesSlope
<1> HIDE DEF mb, ms
<1>4. IsFiniteSet(Users)
  BY GaugeAssumption
<1>5. Runs(Columns(mb, Users, Weeks), Columns(ms, Users, Weeks))
  BY <1>2, <1>4, SumRuns
<1>6. Columns(mb, Users, Weeks) = b /\ Columns(ms, Users, Weeks) = s
  BY <1>3 DEF Columns
<1>7. Runs(b, s)
  BY <1>5, <1>6
<1>8. \A w \in Weeks : b[w] = VotesWeight(vs, g, w) /\ s[w] = VotesSlope(vs, g, w)
  OBVIOUS
<1>9. SlopesIn(vs)[g] = s
  BY DEF SlopesIn
<1> HIDE DEF b, s
<1>10. \A w \in Weeks : b[w] \in Nat /\ s[w] \in Nat
  BY <1>7 DEF Runs
<1> QED
  BY <1>7, <1>8, <1>9, <1>10 DEF b

(* So does the weight of a gauge, and that of a type.                      *)
LEMMA WeightsRun ==
  ASSUME NEW vs \in AllVotes, NEW bs, \A g \in Gauges : bs[g] \in Nat
  PROVE  /\ \A g \in Gauges : Runs(WeightsOf(bs, vs)[g], SlopesIn(vs)[g])
         /\ \A g \in Gauges : \A w \in Weeks : WeightsOf(bs, vs)[g][w] \in Nat /\ SlopesIn(vs)[g][w] \in Nat
         /\ \A types, k : Runs(OfType(types, WeightsOf(bs, vs), k), OfType(types, SlopesIn(vs), k))
<1> DEFINE mb == WeightsOf(bs, vs)
           ms == SlopesIn(vs)
<1>1. ASSUME NEW g \in Gauges
      PROVE  Runs(mb[g], ms[g])
  <2> DEFINE b == [w \in Weeks |-> VotesWeight(vs, g, w)]
  <2>1. Runs(b, ms[g])
    BY VotesRun
  <2>2. [w \in Weeks |-> bs[g] + b[w]] = mb[g]
    BY DEF WeightsOf
  <2> HIDE DEF b, mb, ms
  <2>3. Runs([w \in Weeks |-> bs[g] + b[w]], ms[g])
    BY <2>1, RunsOnTop
  <2> QED
    BY <2>2, <2>3
<1> HIDE DEF mb, ms
<1>2. \A g \in Gauges : \A w \in Weeks : mb[g][w] \in Nat /\ ms[g][w] \in Nat
  BY <1>1 DEF Runs
<1>3. \A types, k : Runs(OfType(types, mb, k), OfType(types, ms, k))
  BY <1>1, OfTypeRuns
<1> QED
  BY <1>1, <1>2, <1>3 DEF mb, ms

(* A vote changes the weight of its gauge by what is left of it.           *)
LEMMA VoteChanges ==
  ASSUME NEW vs \in AllVotes, NEW u \in Users, NEW g \in Gauges, NEW y \in Ballots, NEW w \in Weeks, NEW h \in Gauges
  PROVE  LET x == vs[u][g]
             us == [vs EXCEPT ![u][g] = y]
         IN  /\ us \in AllVotes
             /\ VotesWeight(us, h, w) =
                  VotesWeight(vs, h, w) + (IF h = g THEN BiasAt(y, w) - BiasAt(x, w) ELSE 0)
             /\ VotesSlope(us, h, w) =
                  VotesSlope(vs, h, w) + (IF h = g THEN SlopeAt(y, w) - SlopeAt(x, w) ELSE 0)
<1> DEFINE x == vs[u][g]
           us == [vs EXCEPT ![u][g] = y]
           fb == [v \in Users |-> BiasAt(vs[v][h], w)]
           kb == [v \in Users |-> BiasAt(us[v][h], w)]
           fs == [v \in Users |-> SlopeAt(vs[v][h], w)]
           ks == [v \in Users |-> SlopeAt(us[v][h], w)]
           db == IF h = g THEN BiasAt(y, w) - BiasAt(x, w) ELSE 0
           ds == IF h = g THEN SlopeAt(y, w) - SlopeAt(x, w) ELSE 0
<1>1. us \in AllVotes
  BY DEF AllVotes
<1>2. \A v \in Users : vs[v][h] \in Ballots
  BY DEF AllVotes
<1>3. \A v \in Users : us[v][h] = IF v = u /\ h = g THEN y ELSE vs[v][h]
  BY DEF AllVotes
<1>4. \A v \in Ballots : BiasAt(v, w) \in Int /\ SlopeAt(v, w) \in Int
  BY BiasAtType DEF SlopeAt, Ballots
<1>5. x \in Ballots
  BY DEF AllVotes
<1>6. db \in Int /\ ds \in Int
  BY <1>4, <1>5
<1>7. \A v \in Users : fb[v] \in Int /\ fs[v] \in Int
  BY <1>2, <1>4
<1>8. ASSUME NEW v \in Users
      PROVE  kb[v] = fb[v] + (IF v = u THEN db ELSE 0) /\ ks[v] = fs[v] + (IF v = u THEN ds ELSE 0)
  <2>1. CASE v = u /\ h = g
    <3>1. kb[v] = BiasAt(y, w) /\ fb[v] = BiasAt(x, w) /\ ks[v] = SlopeAt(y, w) /\ fs[v] = SlopeAt(x, w)
      BY <1>3, <2>1
    <3>2. db = kb[v] - fb[v] /\ ds = ks[v] - fs[v] /\ kb[v] \in Int /\ ks[v] \in Int
      BY <1>4, <2>1, <3>1
    <3>3. fb[v] \in Int /\ fs[v] \in Int
      BY <1>7
    <3> HIDE DEF kb, fb, ks, fs, db, ds
    <3> QED
      BY <2>1, <3>2, <3>3
  <2>2. CASE ~ (v = u /\ h = g)
    <3>1. kb[v] = fb[v] /\ ks[v] = fs[v]
      BY <1>3, <2>2
    <3>2. (IF v = u THEN db ELSE 0) = 0 /\ (IF v = u THEN ds ELSE 0) = 0
      BY <2>2
    <3>3. fb[v] \in Int /\ fs[v] \in Int
      BY <1>7
    <3> HIDE DEF kb, fb, ks, fs, db, ds
    <3> QED
      BY <3>1, <3>2, <3>3
  <2> QED
    BY <2>1, <2>2
<1>9. IsFiniteSet(Users)
  BY GaugeAssumption
<1>10. /\ VotesWeight(us, h, w) = SumOf(kb, Users) /\ VotesWeight(vs, h, w) = SumOf(fb, Users)
       /\ VotesSlope(us, h, w) = SumOf(ks, Users) /\ VotesSlope(vs, h, w) = SumOf(fs, Users)
  BY DEF VotesWeight, VotesSlope
<1> HIDE DEF fb, kb, fs, ks, db, ds, us
<1>11. SumOf(kb, Users) = SumOf(fb, Users) + db
  BY <1>6, <1>7, <1>8, <1>9, SumOfChange
<1>12. SumOf(ks, Users) = SumOf(fs, Users) + ds
  BY <1>6, <1>7, <1>8, <1>9, SumOfChange
<1> QED
  BY <1>1, <1>10, <1>11, <1>12 DEF us, db, ds

(* A gauge whose votes have no slope left has none of their weight.        *)
LEMMA NoSlopeNoWeight ==
  ASSUME NEW vs \in AllVotes, NEW g \in Gauges, NEW first \in Weeks, VotesSlope(vs, g, first) = 0,
         NEW w \in Weeks, w >= first
  PROVE  VotesWeight(vs, g, w) = 0
<1> DEFINE f == [u \in Users |-> SlopeAt(vs[u][g], first)]
           k == [u \in Users |-> BiasAt(vs[u][g], w)]
<1>1. IsFiniteSet(Users)
  BY GaugeAssumption
<1>2. \A u \in Users : vs[u][g] \in Ballots
  BY DEF AllVotes
<1>3. \A u \in Users : f[u] \in Nat
  BY <1>2 DEF SlopeAt, Ballots
<1>4. SumOf(f, Users) = 0
  BY DEF VotesSlope
<1>5. \A u \in Users : f[u] = SlopeAt(vs[u][g], first)
  OBVIOUS
<1> HIDE DEF f
<1>6. \A u \in Users : f[u] <= 0
  BY <1>1, <1>3, <1>4, SumOfNat
<1>7. ASSUME NEW u \in Users
      PROVE  k[u] = 0
  <2> DEFINE v == vs[u][g]
             x == v.slope
             e == v.end
  <2>1. x \in Nat /\ e \in Nat /\ w \in Nat /\ first \in Nat
    BY <1>2, WeekFacts DEF Ballots
  <2>2. SlopeAt(v, first) = 0
    BY <1>3, <1>5, <1>6
  <2>3. (IF e > first THEN x ELSE 0) = 0
    BY <2>2 DEF SlopeAt
  <2>4. k[u] = IF e > w THEN x * (e - w) ELSE 0
    BY DEF BiasAt
  <2> HIDE DEF k, x, e
  <2>5. CASE e > w
    <3>1. e > first
      BY <2>1, <2>5
    <3>2. x = 0
      BY <2>3, <3>1
    <3>3. 0 * (e - w) = 0
      BY <2>1
    <3> QED
      BY <2>4, <2>5, <3>2, <3>3
  <2> QED
    BY <2>4, <2>5
<1> HIDE DEF k
<1>8. SumOf(k, Users) = 0
  BY <1>1, <1>7, SumOfZeros
<1> QED
  BY <1>8 DEF VotesWeight, k

---------------------------------------------------------------------------
(* Every curve is on its way to what the votes come to.                    *)

CurvesFit(types, mb, ms, ws, ss) ==
    /\ \A g \in Gauges : Fits(ws[g], mb[g], ms[g])
    /\ \A k \in Types : Fits(ss[k], OfType(types, mb, k), OfType(types, ms, k))

GaugeWeights == WeightsOf(base, votes)
GaugeSlopes == SlopesIn(votes)
TypeSums(k) == OfType(gaugeTypes, GaugeWeights, k)
TypeSlopes(k) == OfType(gaugeTypes, GaugeSlopes, k)

Counted == NotOverridden => CurvesFit(gaugeTypes, GaugeWeights, GaugeSlopes, weights, sums)

Exact == Ready /\ NotOverridden /\ Counted

(* A curve, and what it is to fit, with which the lemmas above apply.      *)
OnItsWay(c, b, s) ==
    Sane(c) /\ (c.time # 0 => Reaches(c.time)) /\ Runs(b, s) /\ Fits(c, b, s)

(* What holds of all of them.                                              *)
LEMMA ExactFacts ==
  ASSUME Exact
  PROVE  /\ Clock /\ WellFormed /\ CurvesOK /\ InTime
         /\ votes \in AllVotes /\ (\A g \in Gauges : base[g] \in Nat) /\ typeCount \in Nat
         /\ \A g \in Gauges : OnItsWay(weights[g], GaugeWeights[g], GaugeSlopes[g])
         /\ \A k \in Types : OnItsWay(sums[k], TypeSums(k), TypeSlopes(k))
         /\ \A g \in Gauges : \A w \in Weeks : GaugeWeights[g][w] \in Nat /\ GaugeSlopes[g][w] \in Nat
<1>1. Clock /\ WellFormed /\ CurvesOK /\ InTime /\ votes \in AllVotes /\ typeCount \in Nat
  BY DEF Exact, Ready, WellFormed, Settled, VotesOK, AllVotes
<1>2. \A g \in Gauges : base[g] \in Nat
  <2> TAKE g \in Gauges
  <2>1. base[g] \in Nat \cup {Overridden} /\ base[g] # Overridden
    BY DEF Exact, NotOverridden, Ready, WellFormed, Settled
  <2> QED
    BY <2>1
<1>3. /\ \A g \in Gauges : Runs(GaugeWeights[g], GaugeSlopes[g])
      /\ \A g \in Gauges : \A w \in Weeks : GaugeWeights[g][w] \in Nat /\ GaugeSlopes[g][w] \in Nat
      /\ \A types, k : Runs(OfType(types, GaugeWeights, k), OfType(types, GaugeSlopes, k))
  BY <1>1, <1>2, WeightsRun DEF GaugeWeights, GaugeSlopes
<1>4. CurvesFit(gaugeTypes, GaugeWeights, GaugeSlopes, weights, sums)
  BY DEF Exact, Counted
<1>5. ASSUME NEW g \in Gauges
      PROVE  OnItsWay(weights[g], GaugeWeights[g], GaugeSlopes[g])
  <2>1. Sane(weights[g]) /\ (weights[g].time # 0 => Reaches(weights[g].time))
    BY <1>1 DEF CurvesOK, InTime
  <2>2. Fits(weights[g], GaugeWeights[g], GaugeSlopes[g])
    BY <1>4 DEF CurvesFit
  <2> QED
    BY <1>3, <2>1, <2>2 DEF OnItsWay
<1>6. ASSUME NEW k \in Types
      PROVE  OnItsWay(sums[k], TypeSums(k), TypeSlopes(k))
  <2>1. Sane(sums[k]) /\ (sums[k].time # 0 => Reaches(sums[k].time))
    BY <1>1 DEF CurvesOK, InTime
  <2>2. Fits(sums[k], TypeSums(k), TypeSlopes(k))
    BY <1>4 DEF CurvesFit, TypeSums, TypeSlopes
  <2>3. Runs(TypeSums(k), TypeSlopes(k))
    BY <1>3 DEF TypeSums, TypeSlopes
  <2> QED
    BY <2>1, <2>2, <2>3 DEF OnItsWay
<1> QED
  BY <1>1, <1>2, <1>3, <1>5, <1>6

(* Filling keeps a curve on its way.                                       *)
LEMMA FilledOnItsWay ==
  ASSUME Clock, NEW c, NEW b, NEW s, OnItsWay(c, b, s)
  PROVE  /\ Fits(Filled(c), b, s) /\ Fillable(c) /\ Bias(c) = b[NextWeek]
         /\ Filled(c).points[NextWeek] = Point(b[NextWeek], s[NextWeek])
<1>1. Sane(c) /\ (c.time # 0 => Reaches(c.time)) /\ Runs(b, s) /\ Fits(c, b, s)
  BY DEF OnItsWay
<1> QED
  BY <1>1, FilledFits

(* What two sums have in common.                                           *)
LEMMA OfTypeEqual ==
  ASSUME NEW types, NEW newTypes, NEW m, NEW n, NEW k,
         \A h \in Gauges : \A w \in Weeks : PartOf(newTypes, n, k, h, w) = PartOf(types, m, k, h, w)
  PROVE  OfType(newTypes, n, k) = OfType(types, m, k)
<1>1. \A w \in Weeks : OfType(newTypes, n, k)[w] = OfType(types, m, k)[w]
  BY OfTypeSame
<1> DEFINE x == OfType(newTypes, n, k)
           y == OfType(types, m, k)
<1>2. x = [w \in Weeks |-> x[w]] /\ y = [w \in Weeks |-> y[w]]
  BY DEF OfType
<1> HIDE DEF x, y
<1>3. \A w \in Weeks : x[w] = y[w]
  BY <1>1 DEF x, y
<1>4. x = y
  BY <1>2, <1>3
<1> QED
  BY <1>4 DEF x, y

(* Filling some curves, or none, keeps all of them on their way.           *)
LEMMA RefilledFit ==
  ASSUME Exact, NEW ws, NEW ss,
         \A g \in Gauges : ws[g] = weights[g] \/ ws[g] = Filled(weights[g]),
         \A k \in Types : ss[k] = sums[k] \/ ss[k] = Filled(sums[k])
  PROVE  CurvesFit(gaugeTypes, GaugeWeights, GaugeSlopes, ws, ss)
<1>1. ASSUME NEW g \in Gauges
      PROVE  Fits(ws[g], GaugeWeights[g], GaugeSlopes[g])
  <2> DEFINE c == weights[g]
             b == GaugeWeights[g]
             s == GaugeSlopes[g]
  <2>1. Clock /\ OnItsWay(c, b, s)
    BY ExactFacts
  <2>2. ws[g] = c \/ ws[g] = Filled(c)
    OBVIOUS
  <2> HIDE DEF c, b, s
  <2>3. Fits(ws[g], b, s)
    BY <2>1, <2>2, FilledOnItsWay DEF OnItsWay
  <2> QED
    BY <2>3 DEF b, s
<1>2. ASSUME NEW k \in Types
      PROVE  Fits(ss[k], OfType(gaugeTypes, GaugeWeights, k), OfType(gaugeTypes, GaugeSlopes, k))
  <2> DEFINE c == sums[k]
             b == TypeSums(k)
             s == TypeSlopes(k)
  <2>1. Clock /\ OnItsWay(c, b, s)
    BY ExactFacts
  <2>2. ss[k] = c \/ ss[k] = Filled(c)
    OBVIOUS
  <2> HIDE DEF c, b, s
  <2>3. Fits(ss[k], b, s)
    BY <2>1, <2>2, FilledOnItsWay DEF OnItsWay
  <2> QED
    BY <2>3 DEF b, s, TypeSums, TypeSlopes
<1> QED
  BY <1>1, <1>2 DEF CurvesFit

(* So does the new sum of a type that is what its gauges come to.          *)
LEMMA ChangeSumFits ==
  ASSUME Exact, NEW j \in Types, j < typeCount, NEW n \in Nat, ChangeSum(j, n), NEW types, NEW mb, NEW ms,
         OfType(types, mb, j)[NextWeek] = n,
         \A w \in Weeks : w >= NextWeek => OfType(types, ms, j)[w] = TypeSlopes(j)[w],
         \A k \in Types : k # j =>
           OfType(types, mb, k) = TypeSums(k) /\ OfType(types, ms, k) = TypeSlopes(k)
  PROVE  \A k \in Types : Fits(sums'[k], OfType(types, mb, k), OfType(types, ms, k))
<1> DEFINE filled == FilledSums(typeCount, sums)
<1>1. sums' = [filled EXCEPT ![j] = NewBias(filled[j], n)]
  BY DEF ChangeSum
<1>2. filled = [k \in Types |-> filled[k]] /\ filled[j] = Filled(sums[j])
  BY DEF FilledSums
<1>3. \A k \in Types : filled[k] = sums[k] \/ filled[k] = Filled(sums[k])
  BY DEF FilledSums
<1> HIDE DEF filled
<1>4. sums'[j] = NewBias(Filled(sums[j]), n) /\ \A k \in Types : k # j => sums'[k] = filled[k]
  BY <1>1, <1>2
<1>5. ASSUME NEW k \in Types
      PROVE  Fits(sums'[k], OfType(types, mb, k), OfType(types, ms, k))
  <2> DEFINE c == sums[k]
             b == TypeSums(k)
             s == TypeSlopes(k)
             b2 == OfType(types, mb, k)
             s2 == OfType(types, ms, k)
  <2>1. Clock /\ OnItsWay(c, b, s)
    BY ExactFacts
  <2>2. CASE k # j
    <3>1. (sums'[k] = c \/ sums'[k] = Filled(c)) /\ b2 = b /\ s2 = s
      BY <1>3, <1>4, <2>2
    <3> HIDE DEF c, b, s, b2, s2
    <3>2. Fits(sums'[k], b, s)
      BY <2>1, <3>1, FilledOnItsWay DEF OnItsWay
    <3> QED
      BY <3>1, <3>2 DEF b2, s2
  <2>3. CASE k = j
    <3>1. sums'[k] = NewBias(Filled(c), n) /\ b2[NextWeek] = n /\ \A w \in Weeks : w >= NextWeek => s2[w] = s[w]
      BY <1>4, <2>3
    <3> HIDE DEF c, b, s, b2, s2
    <3>2. Fits(NewBias(Filled(c), n), b2, s2)
      BY <2>1, <3>1, NewBiasFits DEF OnItsWay
    <3> QED
      BY <3>1, <3>2 DEF b2, s2
  <2> QED
    BY <2>2, <2>3
<1> QED
  BY <1>5

(* A gauge whose weight is changed: the weights of the others stay.        *)
LEMMA NewBase ==
  ASSUME Exact, NEW g \in Gauges, NEW weight \in Nat
  PROVE  LET n == WeightsOf([base EXCEPT ![g] = weight], votes)
         IN  /\ \A h \in Gauges : h # g => n[h] = GaugeWeights[h]
             /\ \A w \in Weeks : n[g][w] = weight + VotesWeight(votes, g, w)
             /\ \A h \in Gauges : \A w \in Weeks : n[h][w] \in Nat
<1> DEFINE bs == [base EXCEPT ![g] = weight]
           n == WeightsOf(bs, votes)
<1>1. /\ base \in [Gauges -> Nat \cup {Overridden}] /\ votes \in AllVotes
      /\ \A h \in Gauges : base[h] \in Nat
  BY ExactFacts DEF WellFormed, Settled
<1>2. bs[g] = weight /\ \A h \in Gauges : h # g => bs[h] = base[h]
  BY <1>1
<1> HIDE DEF bs
<1>3. \A h \in Gauges : h # g => n[h] = GaugeWeights[h]
  BY <1>2 DEF WeightsOf, GaugeWeights
<1>4. \A w \in Weeks : n[g][w] = weight + VotesWeight(votes, g, w)
  BY <1>2 DEF WeightsOf
<1>5. \A h \in Gauges : bs[h] \in Nat
  BY <1>1, <1>2
<1>6. \A h \in Gauges : \A w \in Weeks : n[h][w] \in Nat
  BY <1>1, <1>5, WeightsRun
<1> QED
  BY <1>3, <1>4, <1>6 DEF bs

(* A gauge that has not been added has no weight and no slope.             *)
LEMMA NothingYet ==
  ASSUME WellFormed, NEW g \in Gauges, gaugeTypes[g] = 0, NEW w \in Weeks
  PROVE  VotesWeight(votes, g, w) = 0 /\ GaugeSlopes[g][w] = 0 /\ GaugeWeights[g][w] = 0
<1>1. votes \in AllVotes /\ base[g] = 0 /\ \A u \in Users : votes[u][g] = NoVote
  BY DEF WellFormed, Linked, VotesOK, AllVotes
<1>2. 0 \in Weeks /\ w \in Nat /\ w >= 0
  BY WeekFacts
<1>3. ASSUME NEW v \in Weeks
      PROVE  VotesSlope(votes, g, v) = 0
  <2> DEFINE f == [u \in Users |-> SlopeAt(votes[u][g], v)]
  <2>1. \A u \in Users : f[u] = 0
    BY <1>1 DEF SlopeAt, NoVote, VotedSlope
  <2>2. IsFiniteSet(Users)
    BY GaugeAssumption
  <2> HIDE DEF f
  <2>3. SumOf(f, Users) = 0
    BY <2>1, <2>2, SumOfZeros
  <2> QED
    BY <2>3 DEF VotesSlope, f
<1>4. VotesWeight(votes, g, w) = 0
  BY <1>1, <1>2, <1>3, NoSlopeNoWeight
<1>5. GaugeSlopes[g][w] = VotesSlope(votes, g, w) /\ GaugeWeights[g][w] = base[g] + VotesWeight(votes, g, w)
  BY DEF GaugeSlopes, GaugeWeights, SlopesIn, WeightsOf
<1> QED
  BY <1>1, <1>3, <1>4, <1>5

(* A gauge is added.                                                       *)
LEMMA AddGaugeFits ==
  ASSUME Exact, NEW g \in Gauges, NEW j \in Types, NEW weight \in Weights, AddGauge(g, j, weight)
  PROVE  CurvesFit(gaugeTypes', WeightsOf(base', votes'), SlopesIn(votes'), weights', sums')
<1> DEFINE types == [gaugeTypes EXCEPT ![g] = j + 1]
           bs == [base EXCEPT ![g] = weight]
           mb == WeightsOf(bs, votes)
           ms == GaugeSlopes
<1>1. /\ gaugeTypes' = types /\ base' = bs /\ votes' = votes
      /\ j < typeCount /\ gaugeTypes[g] = 0
      /\ weights' = [weights EXCEPT ![g] = NewBias(weights[g], weight)]
  BY DEF AddGauge, voteVars
<1>2. /\ Clock /\ CurvesOK /\ WellFormed /\ typeCount \in Nat /\ j \in Nat /\ weight \in Nat
      /\ \A k \in Types : k \in Nat
  BY ExactFacts, GaugeAssumption, TypesFinite
<1>3. NextWeek \in Weeks /\ NextWeek \in Nat /\ NextWeek >= NextWeek
  <2>1. NextWeek \in Weeks /\ NextWeek \in Nat
    BY <1>2, NextWeekFacts
  <2> QED
    BY <2>1
<1>4. types[g] = j + 1 /\ \A h \in Gauges : h # g => types[h] = gaugeTypes[h]
  BY <1>2 DEF WellFormed, Settled
<1>5. /\ \A h \in Gauges : h # g => mb[h] = GaugeWeights[h]
      /\ \A w \in Weeks : mb[g][w] = weight + VotesWeight(votes, g, w)
      /\ \A h \in Gauges : \A w \in Weeks : mb[h][w] \in Nat
  BY <1>2, NewBase
<1>6. \A w \in Weeks : mb[g][w] = weight /\ ms[g][w] = 0
  <2> TAKE w \in Weeks
  <2>1. VotesWeight(votes, g, w) = 0 /\ ms[g][w] = 0
    BY <1>1, <1>2, NothingYet
  <2> HIDE DEF mb
  <2> QED
    BY <1>2, <1>5, <2>1
<1>7. \A h \in Gauges : \A w \in Weeks : GaugeWeights[h][w] \in Nat /\ ms[h][w] \in Nat
  BY ExactFacts
<1> HIDE DEF types, mb, ms
<1>8. ASSUME NEW h \in Gauges
      PROVE  Fits(weights'[h], mb[h], ms[h])
  <2>1. OnItsWay(weights[h], GaugeWeights[h], GaugeSlopes[h])
    BY ExactFacts
  <2>2. CASE h # g
    <3>1. weights'[h] = weights[h]
      BY <1>1, <1>2, <2>2 DEF CurvesOK
    <3> QED
      BY <1>5, <2>1, <2>2, <3>1 DEF OnItsWay, ms
  <2>3. CASE h = g
    <3>1. weights[g] = Flat /\ Filled(Flat) = Flat
      BY <1>1, <1>2, FlatFacts DEF WellFormed, Linked
    <3>2. weights'[h] = NewBias(Filled(weights[h]), weight)
      BY <1>1, <1>2, <2>3, <3>1 DEF CurvesOK
    <3> DEFINE c == weights[h]
               b == GaugeWeights[h]
               s == ms[h]
               b2 == mb[h]
    <3>3. b2[NextWeek] = weight /\ OnItsWay(c, b, s)
      BY <1>3, <1>6, <2>1, <2>3 DEF ms
    <3> HIDE DEF c, b, s, b2
    <3>4. Fits(NewBias(Filled(c), weight), b2, s)
      BY <1>2, <3>3, NewBiasFits DEF OnItsWay
    <3> QED
      BY <3>2, <3>4 DEF c, b2, s
  <2> QED
    BY <2>2, <2>3
<1>9. ASSUME NEW k \in Types, k # j
      PROVE  OfType(types, mb, k) = TypeSums(k) /\ OfType(types, ms, k) = TypeSlopes(k)
  <2>1. \A h \in Gauges : types[h] = k + 1 <=> gaugeTypes[h] = k + 1
    <3> TAKE h \in Gauges
    <3>1. CASE h = g
      <4>1. k \in Nat /\ j \in Nat /\ j + 1 # k + 1 /\ 0 # k + 1
        BY <1>2, <1>9
      <4> QED
        BY <1>1, <1>4, <3>1, <4>1
    <3> QED
      BY <1>4, <3>1
  <2>2. gaugeTypes[g] # k + 1
    BY <1>1, <1>2
  <2>3. \A h \in Gauges : \A w \in Weeks :
          /\ PartOf(types, mb, k, h, w) = PartOf(gaugeTypes, GaugeWeights, k, h, w)
          /\ PartOf(types, ms, k, h, w) = PartOf(gaugeTypes, ms, k, h, w)
    BY <1>5, <2>1, <2>2 DEF PartOf
  <2> QED
    BY <2>3, OfTypeEqual DEF TypeSums, TypeSlopes, ms
<1>10. ASSUME NEW w \in Weeks
       PROVE  /\ OfType(types, mb, j)[w] = TypeSums(j)[w] + weight
              /\ OfType(types, ms, j)[w] = TypeSlopes(j)[w]
  <2>1. gaugeTypes[g] # j + 1
    BY <1>1, <1>2
  <2>2. /\ PartOf(types, mb, j, g, w) = weight /\ PartOf(gaugeTypes, GaugeWeights, j, g, w) = 0
        /\ PartOf(types, ms, j, g, w) = 0 /\ PartOf(gaugeTypes, ms, j, g, w) = 0
    BY <1>4, <1>6, <2>1 DEF PartOf
  <2>3. /\ \A h \in Gauges : GaugeWeights[h][w] \in Int /\ mb[h][w] \in Int /\ ms[h][w] \in Int
        /\ \A h \in Gauges : h # g => types[h] = gaugeTypes[h] /\ mb[h][w] = GaugeWeights[h][w]
    BY <1>4, <1>5, <1>7
  <2>a. /\ OfType(types, mb, j)[w] =
             OfType(gaugeTypes, GaugeWeights, j)[w]
               + (PartOf(types, mb, j, g, w) - PartOf(gaugeTypes, GaugeWeights, j, g, w))
        /\ OfType(gaugeTypes, GaugeWeights, j)[w] \in Int
    <3>1. ChangedAt(gaugeTypes, types, GaugeWeights, mb, w, g)
      BY <2>3 DEF ChangedAt
    <3> QED
      BY <3>1, OfTypeChange
  <2>4. /\ OfType(types, mb, j)[w] = TypeSums(j)[w] + (weight - 0)
        /\ TypeSums(j)[w] \in Int
    BY <2>2, <2>a DEF TypeSums
  <2>5. \A h \in Gauges : PartOf(types, ms, j, h, w) = PartOf(gaugeTypes, ms, j, h, w)
    BY <2>2, <2>3 DEF PartOf
  <2>6. OfType(types, ms, j)[w] = OfType(gaugeTypes, ms, j)[w]
    BY <2>5, OfTypeSame
  <2> DEFINE x == OfType(types, mb, j)[w]
             y == TypeSums(j)[w]
  <2>7. x = y + weight
    <3> HIDE DEF x, y
    <3>1. x = y + (weight - 0) /\ y \in Int
      BY <2>4 DEF x, y
    <3> QED
      BY <1>2, <3>1
  <2> QED
    BY <2>6, <2>7 DEF TypeSlopes, ms
<1>11. \A k \in Types : Fits(sums'[k], OfType(types, mb, k), OfType(types, ms, k))
  <2>1. OnItsWay(sums[j], TypeSums(j), TypeSlopes(j))
    BY ExactFacts
  <2>2. CASE weight > 0
    <3> DEFINE c == sums[j]
               n == Bias(c) + weight
    <3>1. Bias(c) = TypeSums(j)[NextWeek] /\ Bias(c) \in Nat
      <4> HIDE DEF c
      <4>1. OnItsWay(c, TypeSums(j), TypeSlopes(j))
        BY <2>1 DEF c
      <4> QED
        BY <1>2, <4>1, FilledOnItsWay, BiasType DEF OnItsWay
    <3>2. ChangeSum(j, n) /\ n \in Nat
      BY <1>2, <2>2, <3>1 DEF AddGauge
    <3>3. OfType(types, mb, j)[NextWeek] = n
      BY <1>3, <1>10, <3>1
    <3> HIDE DEF c, n
    <3>4. \A w \in Weeks : w >= NextWeek => OfType(types, ms, j)[w] = TypeSlopes(j)[w]
      BY <1>10
    <3>5. \A k \in Types : k # j => OfType(types, mb, k) = TypeSums(k) /\ OfType(types, ms, k) = TypeSlopes(k)
      BY <1>9
    <3>6. j < typeCount
      BY <1>1
    <3> QED
      BY <3>2, <3>3, <3>4, <3>5, <3>6, ChangeSumFits
  <2>3. CASE ~ (weight > 0)
    <3> DEFINE t == IF sums[j].time = 0 THEN NextWeek ELSE sums[j].time
    <3>1. weight = 0 /\ sums' = [sums EXCEPT ![j].time = t]
      <4>1. weight = 0
        BY <1>2, <2>3
      <4> QED
        BY <2>3, <4>1 DEF AddGauge
    <3>2. OfType(types, mb, j) = TypeSums(j) /\ OfType(types, ms, j) = TypeSlopes(j)
      <4> DEFINE x == OfType(types, mb, j)
                 y == TypeSums(j)
                 p == OfType(types, ms, j)
                 q == TypeSlopes(j)
      <4>1. /\ x = [w \in Weeks |-> x[w]] /\ y = [w \in Weeks |-> y[w]]
            /\ p = [w \in Weeks |-> p[w]] /\ q = [w \in Weeks |-> q[w]]
        BY DEF OfType, TypeSums, TypeSlopes
      <4>2. \A w \in Weeks : x[w] = y[w] + weight /\ p[w] = q[w]
        BY <1>10
      <4>3. \A w \in Weeks : y[w] \in Nat
        BY <2>1 DEF OnItsWay, Runs
      <4> HIDE DEF x, y, p, q
      <4>4. \A w \in Weeks : x[w] = y[w]
        BY <3>1, <4>2, <4>3
      <4>5. x = y /\ p = q
        BY <4>1, <4>2, <4>4
      <4> QED
        BY <4>5 DEF x, y, p, q
    <3>3. ASSUME NEW k \in Types
          PROVE  Fits(sums'[k], TypeSums(k), TypeSlopes(k))
      <4>1. OnItsWay(sums[k], TypeSums(k), TypeSlopes(k))
        BY ExactFacts
      <4>2. CASE k # j \/ sums[j].time # 0
        <5>1. sums'[k] = sums[k]
          <6>1. CASE k # j
            BY <1>2, <3>1, <6>1 DEF CurvesOK
          <6>2. CASE k = j
            <7>1. sums[j] \in Curves /\ t = sums[j].time
              BY <1>2, <4>2, <6>2 DEF CurvesOK, Sane
            <7> HIDE DEF t
            <7>2. [sums[j] EXCEPT !.time = t] = sums[j]
              BY <7>1 DEF Curves
            <7>3. sums'[j] = [sums[j] EXCEPT !.time = t]
              BY <1>2, <3>1 DEF CurvesOK
            <7> QED
              BY <6>2, <7>2, <7>3
          <6> QED
            BY <6>1, <6>2
        <5> QED
          BY <4>1, <5>1 DEF OnItsWay
      <4>3. CASE k = j /\ sums[j].time = 0
        <5> DEFINE b == TypeSums(k)
                   s == TypeSlopes(k)
                   d == sums'[k]
        <5>1. sums[k] = Flat
          BY <4>1, <4>3 DEF OnItsWay, Sane
        <5>2. d = Curve(Flat.points, Flat.changes, NextWeek)
          <6>1. t = NextWeek
            BY <4>3
          <6> HIDE DEF t
          <6>2. sums'[j] = [sums[j] EXCEPT !.time = t]
            BY <1>2, <3>1 DEF CurvesOK
          <6>3. [Flat EXCEPT !.time = NextWeek] = Curve(Flat.points, Flat.changes, NextWeek)
            BY DEF Flat, Curve
          <6> QED
            BY <4>3, <5>1, <6>1, <6>2, <6>3
        <5>3. d.points = Flat.points /\ d.changes = Flat.changes /\ d.time = NextWeek
          BY <5>2 DEF Curve
        <5>4. OnItsWay(Flat, b, s)
          BY <4>1, <5>1
        <5> HIDE DEF b, s, d
        <5>5. /\ Filled(Flat).points[NextWeek] = Point(b[NextWeek], s[NextWeek])
              /\ Filled(Flat) = Flat
          BY <1>2, <5>4, FilledOnItsWay, FlatFacts
        <5>6. \A w \in Weeks : w > NextWeek => Flat.changes[w] = s[w - WEEK] - s[w]
          <6>1. Fits(Flat, b, s) /\ Flat.time = 0
            BY <1>2, <5>4, FlatFacts DEF OnItsWay
          <6>2. \A w \in Weeks : w > NextWeek => w > 0
            BY <1>3, WeekFacts
          <6> QED
            BY <6>1, <6>2 DEF Fits
        <5>7. Fits(d, b, s)
          BY <5>3, <5>5, <5>6, FitsFromNow
        <5> QED
          BY <5>7 DEF d, b, s
      <4> QED
        BY <4>2, <4>3
    <3>4. ASSUME NEW k \in Types
          PROVE  Fits(sums'[k], OfType(types, mb, k), OfType(types, ms, k))
      BY <1>9, <3>2, <3>3
    <3> QED
      BY <3>4
  <2> QED
    BY <2>2, <2>3
<1>12. CurvesFit(types, mb, ms, weights', sums')
  BY <1>8, <1>11 DEF CurvesFit
<1> QED
  BY <1>1, <1>12 DEF mb, ms, types, GaugeSlopes

(* The weight of a gauge is changed, while no votes for it are left.       *)
LEMMA ChangeGaugeWeightFits ==
  ASSUME Exact, NEW g \in Gauges, NEW weight \in Weights, ChangeGaugeWeight(g, weight), NotOverridden'
  PROVE  CurvesFit(gaugeTypes', WeightsOf(base', votes'), SlopesIn(votes'), weights', sums')
<1> DEFINE j == gaugeTypes[g] - 1
           bs == [base EXCEPT ![g] = weight]
           mb == WeightsOf(bs, votes)
           ms == GaugeSlopes
           c == weights[g]
           W == NextWeek
<1>1. /\ gaugeTypes' = gaugeTypes /\ votes' = votes /\ gaugeTypes[g] > 0
      /\ weights' = [weights EXCEPT ![g] = NewBias(Filled(c), weight)]
      /\ ChangeSum(j, Bias(sums[j]) + weight - Bias(c))
  BY DEF ChangeGaugeWeight, voteVars, setVars
<1>2. /\ Clock /\ CurvesOK /\ WellFormed /\ typeCount \in Nat /\ weight \in Nat /\ votes \in AllVotes
      /\ j \in Types /\ j < typeCount
  BY <1>1, ExactFacts, GaugeAssumption, TypeOfGauge
<1>3. W \in Weeks /\ W \in Nat /\ W >= W
  <2>1. W \in Weeks /\ W \in Nat
    BY <1>2, NextWeekFacts
  <2> HIDE DEF W
  <2> QED
    BY <2>1
<1>4. OnItsWay(c, GaugeWeights[g], GaugeSlopes[g]) /\ OnItsWay(sums[j], TypeSums(j), TypeSlopes(j))
  BY <1>2, ExactFacts
<1>5. /\ Bias(c) = GaugeWeights[g][W] /\ Filled(c).points[W].slope = ms[g][W]
      /\ Bias(sums[j]) = TypeSums(j)[W]
  <2>1. /\ Bias(c) = GaugeWeights[g][W] /\ Filled(c).points[W] = Point(GaugeWeights[g][W], GaugeSlopes[g][W])
        /\ Bias(sums[j]) = TypeSums(j)[W]
    BY <1>2, <1>4, FilledOnItsWay
  <2> QED
    BY <2>1 DEF Point
<1>6. Filled(c).points[W].slope = 0 /\ base' = bs
  <2>1. base' = [base EXCEPT ![g] = IF Filled(c).points[W].slope = 0 /\ base[g] # Overridden
                                    THEN weight ELSE Overridden]
    BY DEF ChangeGaugeWeight
  <2>2. base \in [Gauges -> Nat \cup {Overridden}]
    BY <1>2 DEF WellFormed, Settled
  <2>3. base'[g] # Overridden
    BY DEF NotOverridden
  <2> HIDE DEF W, c
  <2>4. Filled(c).points[W].slope = 0 /\ base[g] # Overridden
    BY <2>1, <2>2, <2>3
  <2> QED
    BY <2>1, <2>4
<1>7. /\ \A h \in Gauges : h # g => mb[h] = GaugeWeights[h]
      /\ \A w \in Weeks : mb[g][w] = weight + VotesWeight(votes, g, w)
      /\ \A h \in Gauges : \A w \in Weeks : mb[h][w] \in Nat
  BY <1>2, NewBase
<1>8. \A w \in Weeks : w >= W => mb[g][w] = weight
  <2> TAKE w \in Weeks
  <2> HAVE w >= W
  <2>1. VotesSlope(votes, g, W) = 0
    BY <1>3, <1>5, <1>6 DEF GaugeSlopes, SlopesIn
  <2>2. VotesWeight(votes, g, w) = 0
    BY <1>2, <1>3, <2>1, NoSlopeNoWeight
  <2> HIDE DEF mb
  <2> QED
    BY <1>2, <1>7, <2>2
<1>9. \A h \in Gauges : \A w \in Weeks : GaugeWeights[h][w] \in Nat /\ ms[h][w] \in Nat
  BY ExactFacts
<1> HIDE DEF mb, ms
<1>10. ASSUME NEW h \in Gauges
       PROVE  Fits(weights'[h], mb[h], ms[h])
  <2>1. OnItsWay(weights[h], GaugeWeights[h], ms[h])
    BY ExactFacts DEF ms
  <2>2. CASE h # g
    <3>1. weights'[h] = weights[h]
      BY <1>1, <1>2, <2>2 DEF CurvesOK
    <3> QED
      BY <1>7, <2>1, <2>2, <3>1 DEF OnItsWay
  <2>3. CASE h = g
    <3>1. weights'[h] = NewBias(Filled(c), weight)
      BY <1>1, <1>2, <2>3 DEF CurvesOK
    <3> DEFINE b == GaugeWeights[h]
               s == ms[h]
               b2 == mb[h]
    <3>2. b2[W] = weight /\ OnItsWay(c, b, s)
      BY <1>3, <1>8, <2>1, <2>3
    <3> HIDE DEF c, b, s, b2
    <3>3. Fits(NewBias(Filled(c), weight), b2, s)
      BY <1>2, <3>2, NewBiasFits DEF OnItsWay
    <3> QED
      BY <3>1, <3>3 DEF b2, s
  <2> QED
    BY <2>2, <2>3
<1>11. ASSUME NEW k \in Types, k # j
       PROVE  OfType(gaugeTypes, mb, k) = TypeSums(k)
  <2>1. gaugeTypes[g] # k + 1
    <3>1. k \in Nat /\ gaugeTypes[g] \in Nat
      BY <1>2, TypesFinite, TypeOfGauge
    <3> QED
      BY <1>11, <3>1
  <2>2. \A h \in Gauges : \A w \in Weeks : PartOf(gaugeTypes, mb, k, h, w) = PartOf(gaugeTypes, GaugeWeights, k, h, w)
    BY <1>7, <2>1 DEF PartOf
  <2> QED
    BY <2>2, OfTypeEqual DEF TypeSums
<1>12. OfType(gaugeTypes, mb, j)[W] = TypeSums(j)[W] + weight - GaugeWeights[g][W] /\ TypeSums(j)[W] \in Int
  <2> DEFINE x == OfType(gaugeTypes, mb, j)[W]
             y == TypeSums(j)[W]
             z == GaugeWeights[g][W]
  <2>1. gaugeTypes[g] = j + 1
    <3>1. gaugeTypes[g] \in Nat
      BY <1>2, TypeOfGauge
    <3> QED
      BY <3>1
  <2>2. PartOf(gaugeTypes, mb, j, g, W) = weight /\ PartOf(gaugeTypes, GaugeWeights, j, g, W) = z
    BY <1>3, <1>8, <2>1 DEF PartOf
  <2>3. ChangedAt(gaugeTypes, gaugeTypes, GaugeWeights, mb, W, g)
    BY <1>3, <1>7, <1>9 DEF ChangedAt
  <2> HIDE DEF W, j
  <2>4. /\ OfType(gaugeTypes, mb, j)[W] =
             OfType(gaugeTypes, GaugeWeights, j)[W]
               + (PartOf(gaugeTypes, mb, j, g, W) - PartOf(gaugeTypes, GaugeWeights, j, g, W))
        /\ OfType(gaugeTypes, GaugeWeights, j)[W] \in Int
    <3>1. W \in Weeks
      BY <1>3
    <3> QED
      BY <3>1, <2>3, OfTypeChange
  <2>5. x = y + (weight - z) /\ y \in Int /\ z \in Nat
    BY <1>3, <1>9, <2>2, <2>4 DEF TypeSums
  <2> HIDE DEF x, y, z
  <2>6. x = y + weight - z
    BY <1>2, <2>5
  <2> QED
    BY <2>5, <2>6 DEF x, y, z
<1>13. \A k \in Types : OfType(gaugeTypes, ms, k) = TypeSlopes(k)
  BY DEF ms, TypeSlopes
<1>14. \A k \in Types : Fits(sums'[k], OfType(gaugeTypes, mb, k), OfType(gaugeTypes, ms, k))
  <2> DEFINE n == Bias(sums[j]) + weight - Bias(c)
  <2>1. n = OfType(gaugeTypes, mb, j)[W]
    BY <1>5, <1>12
  <2>2. n \in Int
    <3>1. GaugeWeights[g][W] \in Nat
      BY <1>3, <1>9
    <3> HIDE DEF W, c, j
    <3> QED
      BY <1>2, <1>5, <1>12, <3>1
  <2>3. ChangeSum(j, n)
    BY <1>1
  <2> HIDE DEF n, c, j
  <2>4. n \in Nat
    BY <2>2, <2>3 DEF ChangeSum
  <2>5. \A w \in Weeks : w >= NextWeek => OfType(gaugeTypes, ms, j)[w] = TypeSlopes(j)[w]
    BY <1>2, <1>13
  <2>6. \A k \in Types : k # j =>
          OfType(gaugeTypes, mb, k) = TypeSums(k) /\ OfType(gaugeTypes, ms, k) = TypeSlopes(k)
    BY <1>11, <1>13
  <2> QED
    BY <1>2, <2>1, <2>3, <2>4, <2>5, <2>6, ChangeSumFits
<1>15. CurvesFit(gaugeTypes, mb, ms, weights', sums')
  BY <1>10, <1>14 DEF CurvesFit
<1> QED
  BY <1>1, <1>6, <1>15 DEF mb, ms, GaugeSlopes

(* What a vote changes of what the curves are to fit.                      *)
LEMMA VoteReplaces ==
  ASSUME Exact, NEW u \in Users, NEW g \in Gauges, gaugeTypes[g] > 0, NEW y \in Ballots
  PROVE  LET x == votes[u][g]
             us == [votes EXCEPT ![u][g] = y]
             mb == WeightsOf(base, us)
             ms == SlopesIn(us)
         IN  /\ us \in AllVotes
             /\ \A h \in Gauges : h # g => mb[h] = GaugeWeights[h] /\ ms[h] = GaugeSlopes[h]
             /\ Replaced(GaugeWeights[g], GaugeSlopes[g], mb[g], ms[g], x, y)
             /\ \A k \in Types :
                  IF gaugeTypes[g] = k + 1
                  THEN Replaced(TypeSums(k), TypeSlopes(k), OfType(gaugeTypes, mb, k), OfType(gaugeTypes, ms, k), x, y)
                  ELSE OfType(gaugeTypes, mb, k) = TypeSums(k) /\ OfType(gaugeTypes, ms, k) = TypeSlopes(k)
<1> DEFINE x == votes[u][g]
           us == [votes EXCEPT ![u][g] = y]
           mb == WeightsOf(base, us)
           ms == SlopesIn(us)
<1>1. /\ votes \in AllVotes /\ \A h \in Gauges : base[h] \in Nat
      /\ \A h \in Gauges : \A w \in Weeks : GaugeWeights[h][w] \in Nat /\ GaugeSlopes[h][w] \in Nat
  BY ExactFacts
<1>2. us \in AllVotes
  BY <1>1 DEF AllVotes
<1>3. ASSUME NEW h \in Gauges, NEW w \in Weeks
      PROVE  /\ VotesWeight(us, h, w) =
                  VotesWeight(votes, h, w) + (IF h = g THEN BiasAt(y, w) - BiasAt(x, w) ELSE 0)
             /\ VotesSlope(us, h, w) =
                  VotesSlope(votes, h, w) + (IF h = g THEN SlopeAt(y, w) - SlopeAt(x, w) ELSE 0)
             /\ VotesWeight(votes, h, w) \in Nat /\ VotesSlope(votes, h, w) \in Nat
  <2>1. /\ VotesWeight(us, h, w) =
             VotesWeight(votes, h, w) + (IF h = g THEN BiasAt(y, w) - BiasAt(x, w) ELSE 0)
        /\ VotesSlope(us, h, w) =
             VotesSlope(votes, h, w) + (IF h = g THEN SlopeAt(y, w) - SlopeAt(x, w) ELSE 0)
    <3>1. votes \in AllVotes
      BY <1>1
    <3> QED
      BY <3>1, VoteChanges
  <2>2. VotesWeight(votes, h, w) \in Nat /\ VotesSlope(votes, h, w) \in Nat
    BY <1>1, VotesRun
  <2> QED
    BY <2>1, <2>2
<1>4. x \in Ballots
  BY <1>1 DEF AllVotes
<1> HIDE DEF us, x
<1>5. ASSUME NEW h \in Gauges, NEW w \in Weeks
      PROVE  /\ mb[h][w] = GaugeWeights[h][w] + (IF h = g THEN BiasAt(y, w) - BiasAt(x, w) ELSE 0)
             /\ ms[h][w] = GaugeSlopes[h][w] + (IF h = g THEN SlopeAt(y, w) - SlopeAt(x, w) ELSE 0)
  <2>1. /\ mb[h][w] = base[h] + VotesWeight(us, h, w) /\ ms[h][w] = VotesSlope(us, h, w)
        /\ GaugeWeights[h][w] = base[h] + VotesWeight(votes, h, w)
        /\ GaugeSlopes[h][w] = VotesSlope(votes, h, w)
    BY DEF GaugeWeights, GaugeSlopes, WeightsOf, SlopesIn
  <2> DEFINE db == IF h = g THEN BiasAt(y, w) - BiasAt(x, w) ELSE 0
             ds == IF h = g THEN SlopeAt(y, w) - SlopeAt(x, w) ELSE 0
  <2>2. db \in Int /\ ds \in Int
    BY <1>4, BiasAtType DEF SlopeAt, Ballots
  <2>3. /\ VotesWeight(us, h, w) = VotesWeight(votes, h, w) + db
        /\ VotesSlope(us, h, w) = VotesSlope(votes, h, w) + ds
        /\ VotesWeight(votes, h, w) \in Nat /\ VotesSlope(votes, h, w) \in Nat
    BY <1>3
  <2>4. base[h] \in Nat
    BY <1>1
  <2> HIDE DEF mb, ms, db, ds
  <2>5. mb[h][w] = GaugeWeights[h][w] + db /\ ms[h][w] = GaugeSlopes[h][w] + ds
    BY <2>1, <2>2, <2>3, <2>4
  <2> QED
    BY <2>5 DEF db, ds
<1>6. \A h \in Gauges : \A w \in Weeks : mb[h][w] \in Nat /\ ms[h][w] \in Nat
  BY <1>1, <1>2, WeightsRun
<1>7. ASSUME NEW h \in Gauges, h # g
      PROVE  mb[h] = GaugeWeights[h] /\ ms[h] = GaugeSlopes[h]
  <2> DEFINE p == mb[h]
             q == GaugeWeights[h]
             r == ms[h]
             s == GaugeSlopes[h]
  <2>1. /\ p = [w \in Weeks |-> p[w]] /\ q = [w \in Weeks |-> q[w]]
        /\ r = [w \in Weeks |-> r[w]] /\ s = [w \in Weeks |-> s[w]]
    BY DEF WeightsOf, SlopesIn, GaugeWeights, GaugeSlopes
  <2>2. ASSUME NEW w \in Weeks
        PROVE  p[w] = q[w] /\ r[w] = s[w]
    <3>1. p[w] = q[w] + 0 /\ r[w] = s[w] + 0 /\ q[w] \in Nat /\ s[w] \in Nat
      BY <1>1, <1>5, <1>7
    <3> HIDE DEF p, q, r, s
    <3> QED
      BY <3>1
  <2> HIDE DEF p, q, r, s
  <2>3. p = q /\ r = s
    BY <2>1, <2>2
  <2> QED
    BY <2>3 DEF p, q, r, s
<1> HIDE DEF mb, ms
<1>8. Replaced(GaugeWeights[g], GaugeSlopes[g], mb[g], ms[g], x, y)
  BY <1>5 DEF Replaced
<1>9. ASSUME NEW k \in Types
      PROVE  IF gaugeTypes[g] = k + 1
             THEN Replaced(TypeSums(k), TypeSlopes(k), OfType(gaugeTypes, mb, k), OfType(gaugeTypes, ms, k), x, y)
             ELSE OfType(gaugeTypes, mb, k) = TypeSums(k) /\ OfType(gaugeTypes, ms, k) = TypeSlopes(k)
  <2>1. CASE gaugeTypes[g] # k + 1
    <3>1. \A h \in Gauges : \A w \in Weeks :
            /\ PartOf(gaugeTypes, mb, k, h, w) = PartOf(gaugeTypes, GaugeWeights, k, h, w)
            /\ PartOf(gaugeTypes, ms, k, h, w) = PartOf(gaugeTypes, GaugeSlopes, k, h, w)
      BY <1>7, <2>1 DEF PartOf
    <3>2. OfType(gaugeTypes, mb, k) = TypeSums(k)
      BY <3>1, OfTypeEqual DEF TypeSums
    <3>3. OfType(gaugeTypes, ms, k) = TypeSlopes(k)
      BY <3>1, OfTypeEqual DEF TypeSlopes
    <3> QED
      BY <2>1, <3>2, <3>3
  <2>2. CASE gaugeTypes[g] = k + 1
    <3>1. ASSUME NEW w \in Weeks
          PROVE  /\ OfType(gaugeTypes, mb, k)[w] = TypeSums(k)[w] + (BiasAt(y, w) - BiasAt(x, w))
                 /\ OfType(gaugeTypes, ms, k)[w] = TypeSlopes(k)[w] + (SlopeAt(y, w) - SlopeAt(x, w))
      <4> DEFINE db == BiasAt(y, w) - BiasAt(x, w)
                 ds == SlopeAt(y, w) - SlopeAt(x, w)
      <4>1. db \in Int /\ ds \in Int
        BY <1>4, BiasAtType DEF SlopeAt, Ballots
      <4>2. mb[g][w] = GaugeWeights[g][w] + db /\ ms[g][w] = GaugeSlopes[g][w] + ds
        BY <1>5
      <4> HIDE DEF db, ds
      <4>3. ChangedAt(gaugeTypes, gaugeTypes, GaugeWeights, mb, w, g)
        BY <1>1, <1>6, <1>7 DEF ChangedAt
      <4>4. ChangedAt(gaugeTypes, gaugeTypes, GaugeSlopes, ms, w, g)
        BY <1>1, <1>6, <1>7 DEF ChangedAt
      <4>5. OfType(gaugeTypes, mb, k)[w] =
              OfType(gaugeTypes, GaugeWeights, k)[w]
                + (PartOf(gaugeTypes, mb, k, g, w) - PartOf(gaugeTypes, GaugeWeights, k, g, w))
        BY <4>3, OfTypeChange
      <4>6. OfType(gaugeTypes, ms, k)[w] =
              OfType(gaugeTypes, GaugeSlopes, k)[w]
                + (PartOf(gaugeTypes, ms, k, g, w) - PartOf(gaugeTypes, GaugeSlopes, k, g, w))
        BY <4>4, OfTypeChange
      <4>7. /\ PartOf(gaugeTypes, mb, k, g, w) = mb[g][w]
            /\ PartOf(gaugeTypes, GaugeWeights, k, g, w) = GaugeWeights[g][w]
            /\ PartOf(gaugeTypes, ms, k, g, w) = ms[g][w]
            /\ PartOf(gaugeTypes, GaugeSlopes, k, g, w) = GaugeSlopes[g][w]
        BY <2>2 DEF PartOf
      <4> DEFINE p == GaugeWeights[g][w]
                 q == GaugeSlopes[g][w]
      <4>8. mb[g][w] - p = db /\ ms[g][w] - q = ds
        <5>1. p \in Nat /\ q \in Nat
          BY <1>1
        <5>2. mb[g][w] = p + db /\ ms[g][w] = q + ds
          BY <4>2
        <5> HIDE DEF p, q
        <5> QED
          BY <4>1, <5>1, <5>2
      <4>9. /\ OfType(gaugeTypes, mb, k)[w] = TypeSums(k)[w] + db
            /\ OfType(gaugeTypes, ms, k)[w] = TypeSlopes(k)[w] + ds
        BY <4>5, <4>6, <4>7, <4>8 DEF TypeSums, TypeSlopes
      <4> QED
        BY <4>9 DEF db, ds
    <3>2. Replaced(TypeSums(k), TypeSlopes(k), OfType(gaugeTypes, mb, k), OfType(gaugeTypes, ms, k), x, y)
      BY <3>1 DEF Replaced
    <3> QED
      BY <2>2, <3>2
  <2> QED
    BY <2>1, <2>2
<1> QED
  BY <1>2, <1>7, <1>8, <1>9 DEF mb, ms, us, x

(* A user votes.                                                           *)
LEMMA VoteFits ==
  ASSUME Exact, NEW u \in Users, NEW g \in Gauges, NEW power \in Powers, Vote(u, g, power)
  PROVE  CurvesFit(gaugeTypes', WeightsOf(base', votes'), SlopesIn(votes'), weights', sums')
<1> DEFINE j == gaugeTypes[g] - 1
           x == votes[u][g]
           y == NewVote(u, power)
           us == [votes EXCEPT ![u][g] = y]
           mb == WeightsOf(base, us)
           ms == SlopesIn(us)
           mid == [sums EXCEPT ![j] = Voted(sums[j], x, y)]
<1>1. /\ gaugeTypes' = gaugeTypes /\ votes' = us /\ base' = base /\ gaugeTypes[g] > 0
      /\ locks[u].end > NextWeek /\ Votable(weights[g], x) /\ Votable(sums[j], x)
      /\ weights' = [weights EXCEPT ![g] = Voted(weights[g], x, y)]
      /\ FillTotal(typeCount, mid)
  BY DEF Vote, NewVote, setVars
<1>2. /\ Clock /\ CurvesOK /\ WellFormed /\ typeCount \in Nat /\ votes \in AllVotes
      /\ j \in Types /\ j < typeCount /\ \A h \in Gauges : base[h] \in Nat
  BY <1>1, ExactFacts, TypeOfGauge
<1>3. x \in Ballots /\ y \in Ballots /\ y.end > NextWeek
  BY <1>1, <1>2, NewVoteType DEF WellFormed, VotesOK, NewVote, VotedSlope
<1>4. weights[g].time # 0 /\ sums[j].time # 0
  BY <1>1, <1>2 DEF WellFormed, Linked
<1>5. /\ us \in AllVotes
      /\ \A h \in Gauges : h # g => mb[h] = GaugeWeights[h] /\ ms[h] = GaugeSlopes[h]
      /\ Replaced(GaugeWeights[g], GaugeSlopes[g], mb[g], ms[g], x, y)
      /\ \A k \in Types :
           IF gaugeTypes[g] = k + 1
           THEN Replaced(TypeSums(k), TypeSlopes(k), OfType(gaugeTypes, mb, k), OfType(gaugeTypes, ms, k), x, y)
           ELSE OfType(gaugeTypes, mb, k) = TypeSums(k) /\ OfType(gaugeTypes, ms, k) = TypeSlopes(k)
  BY <1>1, <1>3, VoteReplaces
<1>6. /\ \A h \in Gauges : Runs(mb[h], ms[h])
      /\ \A types, k : Runs(OfType(types, mb, k), OfType(types, ms, k))
  BY <1>2, <1>5, WeightsRun
<1>7. \A k \in Types : gaugeTypes[g] = k + 1 <=> k = j
  <2> TAKE k \in Types
  <2>1. k \in Nat /\ gaugeTypes[g] \in Nat
    BY <1>2, TypesFinite, TypeOfGauge
  <2> QED
    BY <2>1
<1>8. mid = [k \in Types |-> IF k = j THEN Voted(sums[j], x, y) ELSE sums[k]]
  BY <1>2 DEF CurvesOK
<1>9. sums' = FilledSums(typeCount, mid)
  BY <1>1 DEF FillTotal
<1> HIDE DEF x, y, us, mb, ms, mid, j
<1>10. ASSUME NEW h \in Gauges
       PROVE  Fits(weights'[h], mb[h], ms[h])
  <2>1. OnItsWay(weights[h], GaugeWeights[h], GaugeSlopes[h])
    BY ExactFacts
  <2>2. CASE h # g
    <3>1. weights'[h] = weights[h]
      BY <1>1, <1>2, <2>2 DEF CurvesOK
    <3> QED
      BY <1>5, <2>1, <2>2, <3>1 DEF OnItsWay
  <2>3. CASE h = g
    <3> DEFINE c == weights[h]
               b == GaugeWeights[h]
               s == GaugeSlopes[h]
               b2 == mb[h]
               s2 == ms[h]
    <3>1. /\ weights'[h] = Voted(c, x, y) /\ c.time # 0 /\ Votable(c, x)
          /\ Runs(b2, s2) /\ Replaced(b, s, b2, s2, x, y)
      BY <1>1, <1>2, <1>4, <1>5, <1>6, <2>3 DEF CurvesOK
    <3> HIDE DEF c, b, s, b2, s2
    <3>2. OnItsWay(c, b, s)
      BY <2>1 DEF c, b, s
    <3>3. Fits(Voted(c, x, y), b2, s2)
      BY <1>2, <1>3, <3>1, <3>2, VotedFits DEF OnItsWay
    <3> QED
      BY <3>1, <3>3 DEF b2, s2
  <2> QED
    BY <2>2, <2>3
<1>11. ASSUME NEW k \in Types
       PROVE  Fits(sums'[k], OfType(gaugeTypes, mb, k), OfType(gaugeTypes, ms, k))
  <2> DEFINE c == sums[k]
             b == TypeSums(k)
             s == TypeSlopes(k)
             b2 == OfType(gaugeTypes, mb, k)
             s2 == OfType(gaugeTypes, ms, k)
             v == Voted(c, x, y)
  <2>1. OnItsWay(c, b, s) /\ Runs(b2, s2)
    BY <1>6, ExactFacts
  <2>2. CASE k # j
    <3>1. (sums'[k] = c \/ sums'[k] = Filled(c)) /\ b2 = b /\ s2 = s
      BY <1>5, <1>7, <1>8, <1>9, <2>2 DEF FilledSums
    <3> HIDE DEF c, b, s, b2, s2
    <3>2. Fits(sums'[k], b, s)
      BY <1>2, <2>1, <3>1, FilledOnItsWay DEF OnItsWay
    <3> QED
      BY <3>1, <3>2 DEF b2, s2
  <2>3. CASE k = j
    <3>1. /\ sums'[k] = Filled(v) /\ c.time # 0 /\ Votable(c, x)
          /\ Replaced(b, s, b2, s2, x, y)
      BY <1>1, <1>2, <1>4, <1>5, <1>7, <1>8, <1>9, <2>3 DEF FilledSums
    <3> HIDE DEF c, b, s, b2, s2
    <3>2. Sane(c) /\ Reaches(c.time) /\ Runs(b, s) /\ Fits(c, b, s)
      BY <2>1, <3>1 DEF OnItsWay
    <3>3. Fits(v, b2, s2)
      BY <1>2, <1>3, <2>1, <3>1, <3>2, VotedFits
    <3>4. Sane(v) /\ v.time = NextWeek
      <4>1. Sane(v) /\ v.time = TimeAfter(c.time)
        BY <1>2, <1>3, <3>1, <3>2, VotedIs
      <4>2. c.time \in Weeks /\ c.time <= NextWeek
        BY <3>2 DEF Sane, Dated
      <4>3. TimeAfter(c.time) = NextWeek
        BY <1>2, <3>2, <4>2, FilledToFacts
      <4> QED
        BY <4>1, <4>3
    <3>5. OnItsWay(v, b2, s2)
      BY <1>2, <2>1, <3>3, <3>4, NextWeekReached DEF OnItsWay
    <3> HIDE DEF v
    <3>6. Fits(Filled(v), b2, s2)
      BY <1>2, <3>5, FilledOnItsWay
    <3> QED
      BY <3>1, <3>6 DEF b2, s2
  <2> QED
    BY <2>2, <2>3
<1>12. CurvesFit(gaugeTypes, mb, ms, weights', sums')
  BY <1>10, <1>11 DEF CurvesFit
<1> QED
  BY <1>1, <1>12 DEF mb, ms

(* A weight that was changed while votes counted stays marked so.          *)
LEMMA StaysOverridden ==
  ASSUME WellFormed, [GaugeNext]_gaugeVars, NotOverridden'
  PROVE  NotOverridden
<1>1. base \in [Gauges -> Nat \cup {Overridden}]
  BY DEF WellFormed, Settled
<1>2. \A g \in Gauges : base'[g] # Overridden
  BY DEF NotOverridden
<1>3. ASSUME NEW g \in Gauges, NEW k \in Types, NEW weight \in Weights, AddGauge(g, k, weight)
      PROVE  NotOverridden
  <2>1. base' = [base EXCEPT ![g] = weight] /\ base[g] = 0
    BY <1>3 DEF AddGauge, WellFormed, Linked
  <2>2. \A h \in Gauges : h # g => base'[h] = base[h]
    BY <1>1, <2>1
  <2>3. 0 # Overridden
    BY DEF Overridden
  <2> QED
    BY <1>2, <2>1, <2>2, <2>3 DEF NotOverridden
<1>4. ASSUME NEW g \in Gauges, NEW weight \in Weights, ChangeGaugeWeight(g, weight)
      PROVE  NotOverridden
  <2> DEFINE z == Filled(weights[g]).points[NextWeek].slope = 0
  <2>1. base' = [base EXCEPT ![g] = IF z /\ base[g] # Overridden THEN weight ELSE Overridden]
    BY <1>4 DEF ChangeGaugeWeight
  <2> HIDE DEF z
  <2>2. \A h \in Gauges : h # g => base'[h] = base[h]
    BY <1>1, <2>1
  <2>3. base[g] # Overridden
    BY <1>1, <1>2, <2>1
  <2> QED
    BY <1>2, <2>2, <2>3 DEF NotOverridden
<1>5. base' = base => NotOverridden
  BY DEF NotOverridden
<1>6. ASSUME NEW weight \in TypeWeights, AddType(weight)
      PROVE  base' = base
  BY <1>6 DEF AddType
<1>7. ASSUME NEW k \in Types, NEW weight \in TypeWeights, ChangeTypeWeight(k, weight)
      PROVE  base' = base
  BY <1>7 DEF ChangeTypeWeight
<1>8. Checkpoint \/ (\E g \in Gauges : CheckpointGauge(g)) => base' = base
  BY DEF Checkpoint, CheckpointGauge
<1>9. (\E u \in Users, g \in Gauges, power \in Powers : Vote(u, g, power)) => base' = base
  BY DEF Vote
<1>10. (\E u \in Users, lock \in Locks : ChangeLock(u, lock)) => base' = base
  BY DEF ChangeLock
<1>11. (\E u \in Users : Withdraw(u)) \/ GaugeTick \/ UNCHANGED gaugeVars => base' = base
  BY DEF Withdraw, GaugeTick, gaugeVars
<1> QED
  BY <1>3, <1>4, <1>5, <1>6, <1>7, <1>8, <1>9, <1>10, <1>11 DEF GaugeNext

(* The other calls fill some curves, or none.                              *)
LEMMA OthersRefill ==
  ASSUME Exact,
         \/ \E weight \in TypeWeights : AddType(weight)
         \/ \E k \in Types, weight \in TypeWeights : ChangeTypeWeight(k, weight)
         \/ Checkpoint
         \/ \E g \in Gauges : CheckpointGauge(g)
         \/ \E u \in Users, lock \in Locks : ChangeLock(u, lock)
         \/ \E u \in Users : Withdraw(u)
         \/ GaugeTick
         \/ UNCHANGED gaugeVars
  PROVE  /\ gaugeTypes' = gaugeTypes /\ base' = base /\ votes' = votes
         /\ \A g \in Gauges : weights'[g] = weights[g] \/ weights'[g] = Filled(weights[g])
         /\ \A k \in Types : sums'[k] = sums[k] \/ sums'[k] = Filled(sums[k])
<1> DEFINE Same == gaugeTypes' = gaugeTypes /\ base' = base /\ votes' = votes
           Gs == \A g \in Gauges : weights'[g] = weights[g] \/ weights'[g] = Filled(weights[g])
           Ts == \A k \in Types : sums'[k] = sums[k] \/ sums'[k] = Filled(sums[k])
<1>1. CurvesOK /\ \A n : \A k \in Types : FilledSums(n, sums)[k] = sums[k] \/ FilledSums(n, sums)[k] = Filled(sums[k])
  BY ExactFacts DEF FilledSums
<1>2. UNCHANGED <<weights, sums>> => Gs /\ Ts
  OBVIOUS
<1>3. ASSUME NEW n, NEW k, NEW weight, SetTypeWeight(n, k, weight)
      PROVE  Ts
  <2>1. sums' = [FilledSums(n, sums) EXCEPT ![k] = Filled(sums[k])]
    BY <1>3 DEF SetTypeWeight
  <2> DEFINE f == FilledSums(n, sums)
  <2>2. f = [j \in Types |-> f[j]]
    BY DEF FilledSums
  <2> HIDE DEF f
  <2>3. \A j \in Types : sums'[j] = IF j = k THEN Filled(sums[k]) ELSE f[j]
    BY <2>1, <2>2 DEF f
  <2> QED
    BY <1>1, <2>3 DEF f
<1>4. ASSUME NEW weight \in TypeWeights, AddType(weight)
      PROVE  Same /\ Gs /\ Ts
  <2>1. Same /\ weights' = weights
    BY <1>4 DEF AddType, voteVars
  <2>2. Ts
    BY <1>3, <1>4 DEF AddType
  <2> QED
    BY <2>1, <2>2
<1>5. ASSUME NEW k \in Types, NEW weight \in TypeWeights, ChangeTypeWeight(k, weight)
      PROVE  Same /\ Gs /\ Ts
  <2>1. Same /\ weights' = weights
    BY <1>5 DEF ChangeTypeWeight, voteVars, setVars
  <2>2. Ts
    BY <1>3, <1>5 DEF ChangeTypeWeight
  <2> QED
    BY <2>1, <2>2
<1>6. ASSUME FillTotal(typeCount, sums)
      PROVE  Ts
  BY <1>1, <1>6 DEF FillTotal
<1>7. ASSUME Checkpoint
      PROVE  Same /\ Gs /\ Ts
  <2>1. Same /\ weights' = weights /\ FillTotal(typeCount, sums)
    BY <1>7 DEF Checkpoint, voteVars, setVars
  <2> QED
    BY <1>6, <2>1
<1>8. ASSUME NEW g \in Gauges, CheckpointGauge(g)
      PROVE  Same /\ Gs /\ Ts
  <2>1. Same /\ FillTotal(typeCount, sums) /\ weights' = [weights EXCEPT ![g] = Filled(weights[g])]
    BY <1>8 DEF CheckpointGauge, voteVars, setVars
  <2>2. Gs
    BY <1>1, <2>1 DEF CurvesOK
  <2> QED
    BY <1>6, <2>1, <2>2
<1>9. ASSUME NEW u \in Users, NEW lock \in Locks, ChangeLock(u, lock)
      PROVE  Same /\ Gs /\ Ts
  BY <1>9 DEF ChangeLock, voteVars, setVars, curveVars
<1>10. ASSUME NEW u \in Users, Withdraw(u)
       PROVE  Same /\ Gs /\ Ts
  BY <1>10 DEF Withdraw, voteVars, setVars, curveVars
<1>11. GaugeTick => Same /\ Gs /\ Ts
  BY DEF GaugeTick, voteVars, setVars, curveVars
<1>12. UNCHANGED gaugeVars => Same /\ Gs /\ Ts
  BY DEF gaugeVars, voteVars, setVars, curveVars
<1> HIDE DEF Same, Gs, Ts
<1>13. Same /\ Gs /\ Ts
  BY <1>4, <1>5, <1>7, <1>8, <1>9, <1>10, <1>11, <1>12
<1> QED
  BY <1>13 DEF Same, Gs, Ts

(* Every step keeps the curves on their way.                               *)
LEMMA CountedStep ==
  ASSUME Ready, Counted, [GaugeNext]_gaugeVars
  PROVE  Counted'
<1> SUFFICES ASSUME NotOverridden'
             PROVE  CurvesFit(gaugeTypes', WeightsOf(base', votes'), SlopesIn(votes'), weights', sums')
  BY DEF Counted, GaugeWeights, GaugeSlopes
<1>1. Exact
  BY StaysOverridden DEF Exact, Ready
<1>2. CASE \E g \in Gauges, k \in Types, weight \in Weights : AddGauge(g, k, weight)
  BY <1>1, <1>2, AddGaugeFits
<1>3. CASE \E g \in Gauges, weight \in Weights : ChangeGaugeWeight(g, weight)
  BY <1>1, <1>3, ChangeGaugeWeightFits
<1>4. CASE \E u \in Users, g \in Gauges, power \in Powers : Vote(u, g, power)
  BY <1>1, <1>4, VoteFits
<1>5. CASE \/ \E weight \in TypeWeights : AddType(weight)
           \/ \E k \in Types, weight \in TypeWeights : ChangeTypeWeight(k, weight)
           \/ Checkpoint
           \/ \E g \in Gauges : CheckpointGauge(g)
           \/ \E u \in Users, lock \in Locks : ChangeLock(u, lock)
           \/ \E u \in Users : Withdraw(u)
           \/ GaugeTick
           \/ UNCHANGED gaugeVars
  <2>1. /\ gaugeTypes' = gaugeTypes /\ base' = base /\ votes' = votes
        /\ \A g \in Gauges : weights'[g] = weights[g] \/ weights'[g] = Filled(weights[g])
        /\ \A k \in Types : sums'[k] = sums[k] \/ sums'[k] = Filled(sums[k])
    BY <1>1, <1>5, OthersRefill
  <2> DEFINE ws == weights'
             ss == sums'
  <2>2. /\ \A g \in Gauges : ws[g] = weights[g] \/ ws[g] = Filled(weights[g])
        /\ \A k \in Types : ss[k] = sums[k] \/ ss[k] = Filled(sums[k])
    BY <2>1
  <2> HIDE DEF ws, ss
  <2>3. CurvesFit(gaugeTypes, GaugeWeights, GaugeSlopes, ws, ss)
    BY <1>1, <2>2, RefilledFit
  <2> QED
    BY <2>1, <2>3 DEF ws, ss, GaugeWeights, GaugeSlopes
<1> QED
  BY <1>2, <1>3, <1>4, <1>5 DEF GaugeNext

(* At the start there is nothing to fit.                                   *)
LEMMA CountedInit ==
  ASSUME GaugeInit
  PROVE  Counted
<1>1. /\ WellFormed /\ weights = [g \in Gauges |-> Flat] /\ sums = [k \in Types |-> Flat]
      /\ \A g \in Gauges : gaugeTypes[g] = 0
  BY WellFormedInit DEF GaugeInit
<1>2. \A g \in Gauges : \A w \in Weeks : GaugeWeights[g][w] = 0 /\ GaugeSlopes[g][w] = 0
  BY <1>1, NothingYet
<1>3. ASSUME NEW b, NEW s, \A w \in Weeks : b[w] = 0 /\ s[w] = 0
      PROVE  Fits(Flat, b, s)
  <2>1. /\ Flat.time = 0 /\ Flat.points = [w \in Weeks |-> Point(0, 0)] /\ Flat.changes = [w \in Weeks |-> 0]
        /\ 0 \in Weeks /\ \A w \in Weeks : w > 0 => w - WEEK \in Weeks
    BY WeekFacts DEF Flat, Curve
  <2>2. Flat.points[0] = Point(b[0], s[0])
    BY <1>3, <2>1
  <2>3. ASSUME NEW w \in Weeks, w > 0
        PROVE  Flat.changes[w] = s[w - WEEK] - s[w]
    <3>1. Flat.changes[w] = 0 /\ s[w - WEEK] = 0 /\ s[w] = 0
      BY <1>3, <2>1, <2>3
    <3> QED
      BY <3>1
  <2> QED
    BY <2>1, <2>2, <2>3 DEF Fits
<1>4. ASSUME NEW m, \A g \in Gauges : \A w \in Weeks : m[g][w] = 0, NEW k, NEW w \in Weeks
      PROVE  OfType(gaugeTypes, m, k)[w] = 0
  <2> DEFINE f == [g \in Gauges |-> IF gaugeTypes[g] = k + 1 THEN m[g][w] ELSE 0]
  <2>1. \A g \in Gauges : f[g] = 0
    BY <1>4
  <2>2. IsFiniteSet(Gauges)
    BY GaugeAssumption
  <2> HIDE DEF f
  <2>3. SumOf(f, Gauges) = 0
    BY <2>1, <2>2, SumOfZeros
  <2> QED
    BY <2>3 DEF OfType, f
<1>5. \A g \in Gauges : Fits(weights[g], GaugeWeights[g], GaugeSlopes[g])
  BY <1>1, <1>2, <1>3
<1>6. ASSUME NEW k \in Types
      PROVE  Fits(sums[k], OfType(gaugeTypes, GaugeWeights, k), OfType(gaugeTypes, GaugeSlopes, k))
  <2> DEFINE b == OfType(gaugeTypes, GaugeWeights, k)
             s == OfType(gaugeTypes, GaugeSlopes, k)
  <2>1. \A w \in Weeks : b[w] = 0 /\ s[w] = 0
    BY <1>2, <1>4
  <2> HIDE DEF b, s
  <2>2. Fits(Flat, b, s)
    BY <1>3, <2>1
  <2> QED
    BY <1>1, <2>2 DEF b, s
<1> QED
  BY <1>5, <1>6 DEF Counted, CurvesFit

(* All curves are always on their way, when no loop over weeks is too      *)
(* short.                                                                  *)
LEMMA AlwaysCounted == GaugeSpec /\ []InTime => [](Ready /\ Counted)
<1>1. GaugeInit => Counted
  BY CountedInit
<1>2. Ready /\ Counted /\ [GaugeNext]_gaugeVars => Counted'
  BY CountedStep
<1> QED
  BY <1>1, <1>2, AlwaysReady, PTL DEF GaugeSpec

(* What the votes of all users for a gauge come to is a sum over them.     *)
LEMMA VotesSum ==
  ASSUME NEW g, NEW w
  PROVE  Total(LAMBDA user : BiasAt(votes[user][g], w), Users) = VotesWeight(votes, g, w)
<1> DEFINE S == Users
           f == [u \in S |-> BiasAt(votes[u][g], w)]
           E(h) == h = [s \in SUBSET S |-> IF s = {} THEN 0
                          ELSE BiasAt(votes[Picked(s)][g], w) + h[s \ {Picked(s)}]]
<1>1. Total(LAMBDA user : BiasAt(votes[user][g], w), S) = (CHOOSE h : E(h))[S]
  BY DEF Total, MapThenSumSet, MapThenFoldSet, Picked
<1>2. IsFiniteSet(S)
  BY GaugeAssumption
<1>3. \A s \in SUBSET S : s # {} => f[Picked(s)] = BiasAt(votes[Picked(s)][g], w)
  BY PickedIsElement
<1>4. VotesWeight(votes, g, w) = SumOf(f, S)
  BY DEF VotesWeight
<1> HIDE DEF S, f
<1>5. \A h : E(h) <=> IsSum(h, f, S)
  BY <1>3 DEF IsSum
<1> HIDE DEF E
<1>6. PICK k : IsSum(k, f, S) /\ SumOf(f, S) = k[S]
  BY <1>2, SumIs
<1>7. (CHOOSE h : E(h))[S] = k[S]
  <2> DEFINE c == CHOOSE h : E(h)
  <2>1. IsSum(c, f, S)
    BY <1>5, <1>6
  <2> HIDE DEF c
  <2>2. c[S] = k[S]
    BY <1>2, <1>6, <2>1, SumUnique
  <2> QED
    BY <2>2 DEF c
<1> QED
  BY <1>1, <1>4, <1>6, <1>7 DEF S

(* From the next week on, the curves have what they are to fit.            *)
LEMMA FitsAhead ==
  ASSUME Clock, NEW c, NEW b, NEW s, OnItsWay(c, b, s), NEW w \in Weeks, w >= NextWeek
  PROVE  Projected(c)[w].bias = b[w]
<1>1. c \in Curves /\ c.time \in Weeks /\ c.time <= NextWeek /\ Runs(b, s) /\ Fits(c, b, s)
  BY DEF OnItsWay, Sane, Dated
<1>2. w >= c.time
  <2>1. w \in Nat /\ c.time \in Nat /\ NextWeek \in Nat
    BY <1>1, WeekFacts, NextWeekFacts
  <2> QED
    BY <1>1, <2>1
<1>3. Projected(c)[w] = Point(b[w], s[w])
  BY <1>1, <1>2, FitsProjected
<1> QED
  BY <1>3 DEF Point

(* The weight of a gauge in the next week and in every week after it is    *)
(* the weight it was given and what is left of the last vote of each user  *)
(* for it, however votes are repeated, replaced before or after they have  *)
(* run out, and filled (_vote_for_gauge_weights, _get_weight), as long as  *)
(* the loops over weeks are long enough to fill them.                      *)
THEOREM VotesAreAlwaysCounted == GaugeSpec /\ []InTime => []VotesAreCounted
<1>1. Ready /\ Counted => VotesAreCounted
  <2> SUFFICES ASSUME Ready, Counted, NotOverridden, NEW gauge \in Added, NEW w \in Weeks, w >= NextWeek
               PROVE  Projected(weights[gauge])[w].bias =
                        base[gauge] + Total(LAMBDA user : BiasAt(votes[user][gauge], w), Users)
    BY DEF VotesAreCounted
  <2>1. gauge \in Gauges /\ Exact
    BY DEF Added, Exact
  <2>2. Clock /\ OnItsWay(weights[gauge], GaugeWeights[gauge], GaugeSlopes[gauge])
    BY <2>1, ExactFacts
  <2>3. Projected(weights[gauge])[w].bias = GaugeWeights[gauge][w]
    BY <2>2, FitsAhead
  <2>4. GaugeWeights[gauge][w] = base[gauge] + VotesWeight(votes, gauge, w)
    BY <2>1 DEF GaugeWeights, WeightsOf
  <2> QED
    BY <2>3, <2>4, VotesSum
<1> QED
  BY <1>1, AlwaysCounted, PTL

(* Anyone can fill the weights at any time: no slope that ends is more     *)
(* than the slope there is (checkpoint, checkpoint_gauge).                 *)
THEOREM CheckpointsNeverRevert == GaugeSpec /\ []InTime => []CheckpointNeverReverts
<1>1. Ready /\ Counted => CheckpointNeverReverts
  <2> SUFFICES ASSUME Ready, Counted, NotOverridden
               PROVE  (\A g \in Gauges : Fillable(weights[g])) /\ SumsFillable(typeCount, sums)
    BY DEF CheckpointNeverReverts
  <2>1. Exact
    BY DEF Exact
  <2>2. /\ Clock
        /\ \A g \in Gauges : OnItsWay(weights[g], GaugeWeights[g], GaugeSlopes[g])
        /\ \A k \in Types : OnItsWay(sums[k], TypeSums(k), TypeSlopes(k))
    BY <2>1, ExactFacts
  <2>3. \A g \in Gauges : Fillable(weights[g])
    BY <2>2, FilledOnItsWay
  <2>4. \A k \in Types : Fillable(sums[k])
    BY <2>2, FilledOnItsWay
  <2> QED
    BY <2>3, <2>4 DEF SumsFillable, AddedTypes
<1> QED
  BY <1>1, AlwaysCounted, PTL

---------------------------------------------------------------------------
(* The sums of the types are those of their gauges in every week.          *)

WeightIn(types, ws, k, w) ==
    SumOf([g \in Gauges |-> IF types[g] = k + 1 THEN Projected(ws[g])[w].bias ELSE 0], Gauges)
AgreeAt(types, ws, ss, w) == \A k \in Types : Projected(ss[k])[w].bias = WeightIn(types, ws, k, w)
SumsAgree == NotOverridden => \A w \in Weeks : AgreeAt(gaugeTypes, weights, sums, w)

(* From the next week on, since they are all on their way.                 *)
LEMMA AgreeAhead ==
  Ready /\ Counted /\ NotOverridden =>
    \A w \in Weeks : w >= NextWeek => AgreeAt(gaugeTypes, weights, sums, w)
<1> SUFFICES ASSUME Ready, Counted, NotOverridden, NEW w \in Weeks, w >= NextWeek, NEW k \in Types
             PROVE  Projected(sums[k])[w].bias = WeightIn(gaugeTypes, weights, k, w)
  BY DEF AgreeAt
<1>1. Exact
  BY DEF Exact
<1>2. /\ Clock
      /\ \A g \in Gauges : OnItsWay(weights[g], GaugeWeights[g], GaugeSlopes[g])
      /\ OnItsWay(sums[k], TypeSums(k), TypeSlopes(k))
  BY <1>1, ExactFacts
<1>3. Projected(sums[k])[w].bias = TypeSums(k)[w]
  BY <1>2, FitsAhead
<1>4. \A g \in Gauges : Projected(weights[g])[w].bias = GaugeWeights[g][w]
  BY <1>2, FitsAhead
<1> DEFINE x == [g \in Gauges |-> IF gaugeTypes[g] = k + 1 THEN GaugeWeights[g][w] ELSE 0]
           y == [g \in Gauges |-> IF gaugeTypes[g] = k + 1 THEN Projected(weights[g])[w].bias ELSE 0]
<1>5. x = y
  BY <1>4
<1>6. TypeSums(k)[w] = SumOf(x, Gauges) /\ WeightIn(gaugeTypes, weights, k, w) = SumOf(y, Gauges)
  BY DEF TypeSums, OfType, WeightIn
<1> QED
  BY <1>3, <1>5, <1>6

(* So they do after a step.                                                *)
LEMMA AgreeAheadNext ==
  (Ready /\ Counted)' /\ NotOverridden' =>
    \A w \in Weeks : w >= NextWeek' => AgreeAt(gaugeTypes', weights', sums', w)
<1>1. (Ready /\ Counted /\ NotOverridden =>
        \A w \in Weeks : w >= NextWeek => AgreeAt(gaugeTypes, weights, sums, w))'
  BY AgreeAhead, PTL
<1> QED
  BY <1>1

(* The weeks before stay as they are.                                      *)
LEMMA AgreeStep ==
  ASSUME Ready, (Ready /\ Counted)', SumsAgree, [GaugeNext]_gaugeVars
  PROVE  SumsAgree'
<1> SUFFICES ASSUME NotOverridden', NEW w \in Weeks
             PROVE  AgreeAt(gaugeTypes', weights', sums', w)
  BY DEF SumsAgree
<1>1. WellFormed /\ InTime /\ Clock
  BY DEF Ready, WellFormed, Settled
<1>2. NotOverridden
  BY <1>1, StaysOverridden
<1>3. AgreeAt(gaugeTypes, weights, sums, w)
  BY <1>2 DEF SumsAgree
<1>4. Clock' /\ (now' = now \/ UNCHANGED <<locks, setVars, curveVars, voteVars, base>>)
  BY <1>1, ClockStep
<1>5. CASE w >= NextWeek'
  BY <1>5, AgreeAheadNext
<1>6. CASE UNCHANGED <<locks, setVars, curveVars, voteVars, base>>
  <2>1. gaugeTypes' = gaugeTypes /\ weights' = weights /\ sums' = sums
    BY <1>6 DEF setVars, curveVars
  <2> QED
    BY <1>3, <2>1
<1>7. CASE now' = now /\ ~ (w >= NextWeek')
  <2>1. w < NextWeek
    <3>1. NextWeek' = NextWeek
      BY <1>7 DEF NextWeek
    <3>2. NextWeek \in Nat /\ w \in Nat
      BY <1>1, NextWeekFacts, WeekFacts
    <3> QED
      BY <1>7, <3>1, <3>2
  <2>2. WeightsMove /\ TypesMove
    BY <1>1, CurvesStep
  <2>3. \A k \in Types : Projected(sums'[k])[w] = Projected(sums[k])[w]
    BY <1>1, <2>1, <2>2, TypesPast DEF Past
  <2>4. \A g \in Gauges : Projected(weights'[g])[w] = Projected(weights[g])[w]
    BY <1>1, <2>1, <2>2, WeightsPast DEF Past
  <2>5. ASSUME NEW k \in Types
        PROVE  WeightIn(gaugeTypes', weights', k, w) = WeightIn(gaugeTypes, weights, k, w)
    <3> DEFINE x == [g \in Gauges |-> IF gaugeTypes[g] = k + 1 THEN Projected(weights[g])[w].bias ELSE 0]
               y == [g \in Gauges |-> IF gaugeTypes'[g] = k + 1 THEN Projected(weights'[g])[w].bias ELSE 0]
    <3>1. ASSUME NEW g \in Gauges
          PROVE  y[g] = x[g]
      <4>1. gaugeTypes'[g] = gaugeTypes[g] \/ gaugeTypes[g] = 0
        BY <1>1, TypesStay DEF WellFormed, Settled
      <4>2. CASE gaugeTypes'[g] = gaugeTypes[g]
        BY <2>4, <4>2
      <4>3. CASE gaugeTypes[g] = 0
        <5>1. weights[g] = Flat
          BY <1>1, <4>3 DEF WellFormed, Linked
        <5>2. Projected(weights[g])[w].bias = 0
          BY <5>1, FlatProjected DEF Point
        <5>3. x[g] = 0
          BY <5>2
        <5>4. y[g] = 0
          BY <2>4, <5>2
        <5> QED
          BY <5>3, <5>4
      <4> QED
        BY <4>1, <4>2, <4>3
    <3>2. x = y
      BY <3>1
    <3>3. WeightIn(gaugeTypes', weights', k, w) = SumOf(y, Gauges) /\ WeightIn(gaugeTypes, weights, k, w) = SumOf(x, Gauges)
      BY DEF WeightIn
    <3> QED
      BY <3>2, <3>3
  <2> QED
    BY <1>3, <2>3, <2>5 DEF AgreeAt
<1> QED
  BY <1>4, <1>5, <1>6, <1>7

(* At the start all are 0.                                                 *)
LEMMA AgreeInit ==
  ASSUME GaugeInit
  PROVE  SumsAgree
<1>1. weights = [g \in Gauges |-> Flat] /\ sums = [k \in Types |-> Flat]
  BY DEF GaugeInit
<1>2. ASSUME NEW w \in Weeks, NEW k \in Types
      PROVE  Projected(sums[k])[w].bias = WeightIn(gaugeTypes, weights, k, w)
  <2> DEFINE f == [g \in Gauges |-> IF gaugeTypes[g] = k + 1 THEN Projected(weights[g])[w].bias ELSE 0]
  <2>1. Projected(Flat)[w].bias = 0
    BY FlatProjected DEF Point
  <2>2. \A g \in Gauges : f[g] = 0
    BY <1>1, <2>1
  <2>3. IsFiniteSet(Gauges)
    BY GaugeAssumption
  <2>4. WeightIn(gaugeTypes, weights, k, w) = SumOf(f, Gauges)
    BY DEF WeightIn
  <2> HIDE DEF f
  <2>5. SumOf(f, Gauges) = 0
    BY <2>2, <2>3, SumOfZeros
  <2> QED
    BY <1>1, <2>1, <2>4, <2>5
<1> QED
  BY <1>2 DEF SumsAgree, AgreeAt

(* The sums of the types always are those of their gauges.                 *)
LEMMA AlwaysAgree == GaugeSpec /\ []InTime => [](Ready /\ SumsAgree)
<1>1. GaugeInit => SumsAgree
  BY AgreeInit
<1>2. Ready /\ (Ready /\ Counted)' /\ SumsAgree /\ [GaugeNext]_gaugeVars => SumsAgree'
  BY AgreeStep
<1> QED
  BY <1>1, <1>2, AlwaysCounted, PTL DEF GaugeSpec

(* The weights of the gauges, each times the weight of its type, are a sum *)
(* over them.                                                              *)
LEMMA TypedSum ==
  ASSUME NEW w
  PROVE  Total(LAMBDA g : TypedWeight(g, w), Gauges) = SumOf([g \in Gauges |-> TypedWeight(g, w)], Gauges)
<1> DEFINE S == Gauges
           f == [g \in S |-> TypedWeight(g, w)]
           E(h) == h = [s \in SUBSET S |-> IF s = {} THEN 0
                          ELSE TypedWeight(Picked(s), w) + h[s \ {Picked(s)}]]
<1>1. Total(LAMBDA g : TypedWeight(g, w), S) = (CHOOSE h : E(h))[S]
  BY DEF Total, MapThenSumSet, MapThenFoldSet, Picked
<1>2. IsFiniteSet(S)
  BY GaugeAssumption
<1>3. \A s \in SUBSET S : s # {} => f[Picked(s)] = TypedWeight(Picked(s), w)
  BY PickedIsElement
<1>4. f = [g \in S |-> TypedWeight(g, w)]
  OBVIOUS
<1> HIDE DEF S, f
<1>5. \A h : E(h) <=> IsSum(h, f, S)
  BY <1>3 DEF IsSum
<1> HIDE DEF E
<1>6. PICK k : IsSum(k, f, S) /\ SumOf(f, S) = k[S]
  BY <1>2, SumIs
<1>7. (CHOOSE h : E(h))[S] = k[S]
  <2> DEFINE c == CHOOSE h : E(h)
  <2>1. IsSum(c, f, S)
    BY <1>5, <1>6
  <2> HIDE DEF c
  <2>2. c[S] = k[S]
    BY <1>2, <1>6, <2>1, SumUnique
  <2> QED
    BY <2>2 DEF c
<1> QED
  BY <1>1, <1>6, <1>7, <1>4 DEF S

(* The total of a week when the sums of the types are those of the gauges. *)
LEMMA TotalIsTypedSum ==
  ASSUME Ready, NEW w \in Weeks, AgreeAt(gaugeTypes, weights, sums, w)
  PROVE  TotalAt(sums, typeWeights, w) = SumOf([g \in Gauges |-> TypedAt(g, w)], Gauges)
<1> DEFINE lvl(k) == LevelAt(typeWeights[k], w)
           proj(g) == Projected(weights[g])[w].bias
           m == [k \in Types |-> [g \in Gauges |-> (IF gaugeTypes[g] = k + 1 THEN proj(g) ELSE 0) * lvl(k)]]
<1>1. WellFormed /\ CurvesOK /\ IsFiniteSet(Types) /\ IsFiniteSet(Gauges) /\ \A k \in Types : k \in Nat
  BY TypesFinite, GaugeAssumption DEF Ready, WellFormed
<1>2. \A k \in Types : lvl(k) \in Nat
  <2>1. \A k \in Types : sums[k] \in Curves /\ typeWeights[k] \in Levels
    BY <1>1 DEF CurvesOK, Sane, SaneLevel
  <2> QED
    BY <2>1, ProductsType
<1>3. \A g \in Gauges : proj(g) \in Nat
  <2> TAKE g \in Gauges
  <2>1. weights[g] \in Curves
    BY <1>1 DEF CurvesOK, Sane
  <2>2. Projected(weights[g])[w] \in AnyPoints
    BY <2>1, CurveParts, ProjectedIs
  <2> QED
    BY <2>2 DEF AnyPoints
<1> HIDE DEF lvl, proj
<1>4. ASSUME NEW k \in Types, NEW g \in Gauges
      PROVE  m[k][g] \in Int /\ m[k][g] = (IF gaugeTypes[g] = k + 1 THEN proj(g) ELSE 0) * lvl(k)
  <2> DEFINE a == IF gaugeTypes[g] = k + 1 THEN proj(g) ELSE 0
  <2>1. a \in Nat /\ lvl(k) \in Nat /\ m[k][g] = a * lvl(k)
    BY <1>2, <1>3
  <2> HIDE DEF a, m
  <2>2. a * lvl(k) \in Int
    BY <2>1
  <2> QED
    BY <2>1, <2>2 DEF a
<1>5. SumOf(Rows(m, Types, Gauges), Types) = SumOf(Columns(m, Types, Gauges), Gauges)
  <2> HIDE DEF m
  <2>1. \A k \in Types : \A g \in Gauges : m[k][g] \in Int
    BY <1>4
  <2> QED
    BY <1>1, <2>1, SumOfRows
<1>6. ASSUME NEW k \in Types
      PROVE  Rows(m, Types, Gauges)[k] = Products(sums, typeWeights, w)[k]
  <2> DEFINE x == [g \in Gauges |-> IF gaugeTypes[g] = k + 1 THEN proj(g) ELSE 0]
             y == m[k]
             c == lvl(k)
  <2>1. Rows(m, Types, Gauges)[k] = SumOf(y, Gauges)
    BY DEF Rows
  <2>2. \A g \in Gauges : x[g] \in Int /\ y[g] = x[g] * c
    BY <1>3, <1>4
  <2>3. c \in Int
    BY <1>2
  <2>4. SumOf(x, Gauges) = Projected(sums[k])[w].bias
    BY DEF AgreeAt, WeightIn, proj
  <2>5. Products(sums, typeWeights, w)[k] = Projected(sums[k])[w].bias * c
    BY DEF Products, lvl
  <2> HIDE DEF x, y, c
  <2>6. SumOf(y, Gauges) = SumOf(x, Gauges) * c
    BY <1>1, <2>2, <2>3, SumOfMultiples
  <2> QED
    BY <2>1, <2>4, <2>5, <2>6
<1>7. ASSUME NEW g \in Gauges
      PROVE  Columns(m, Types, Gauges)[g] = TypedAt(g, w)
  <2> DEFINE f == Column(m, Types, g)
             t == gaugeTypes[g]
             p == proj(g)
  <2>1. Columns(m, Types, Gauges)[g] = SumOf(f, Types)
    BY DEF Columns
  <2>2. \A k \in Types : f[k] = m[k][g]
    BY DEF Column
  <2>3. t \in Nat /\ (t > 0 => t - 1 \in Types) /\ p \in Nat
    BY <1>1, <1>3, TypeOfGauge
  <2>4. \A k \in Types : f[k] = (IF t = k + 1 THEN p ELSE 0) * lvl(k) /\ f[k] \in Int
    BY <1>4, <2>2
  <2>5. TypedAt(g, w) = IF t = 0 THEN 0 ELSE lvl(t - 1) * p
    BY DEF TypedAt, lvl, proj
  <2> HIDE DEF f, t, p, m
  <2>6. \A k \in Types : t # k + 1 => f[k] = 0
    <3> TAKE k \in Types
    <3> HAVE t # k + 1
    <3>1. lvl(k) \in Nat
      BY <1>2
    <3>2. 0 * lvl(k) = 0
      BY <3>1
    <3> QED
      BY <2>4, <3>2
  <2>7. CASE t = 0
    <3>1. \A k \in Types : f[k] = 0
      BY <1>1, <2>6, <2>7
    <3>2. SumOf(f, Types) = 0
      BY <1>1, <3>1, SumOfZeros
    <3> QED
      BY <2>1, <2>5, <2>7, <3>2
  <2>8. CASE t # 0
    <3> DEFINE k == t - 1
    <3>1. k \in Types /\ t = k + 1
      BY <2>3, <2>8
    <3>2. lvl(k) \in Nat /\ f[k] \in Int
      BY <1>2, <2>4, <3>1
    <3>3. f[k] = p * lvl(k)
      BY <2>4, <3>1
    <3>4. TypedAt(g, w) = lvl(k) * p
      BY <2>5, <2>8
    <3> HIDE DEF k
    <3>5. p * lvl(k) = lvl(k) * p
      BY <2>3, <3>2
    <3>6. \A e \in Types : e # k => f[e] = 0
      BY <1>1, <2>6, <3>1
    <3>7. SumOf(f, Types) = f[k]
      BY <1>1, <3>1, <3>2, <3>6, SumOfOne
    <3> QED
      BY <2>1, <3>3, <3>4, <3>5, <3>7
  <2> QED
    BY <2>7, <2>8
<1> HIDE DEF m
<1>8. SumOf(Rows(m, Types, Gauges), Types) = TotalAt(sums, typeWeights, w)
  BY <1>1, <1>6, SumEqual DEF TotalAt
<1>9. SumOf(Columns(m, Types, Gauges), Gauges) = SumOf([g \in Gauges |-> TypedAt(g, w)], Gauges)
  <2> DEFINE x == Columns(m, Types, Gauges)
             y == [g \in Gauges |-> TypedAt(g, w)]
  <2>1. \A g \in Gauges : x[g] = y[g]
    BY <1>7
  <2> HIDE DEF x, y
  <2>2. SumOf(x, Gauges) = SumOf(y, Gauges)
    BY <1>1, <2>1, SumEqual
  <2> QED
    BY <2>2 DEF x, y
<1> QED
  BY <1>5, <1>8, <1>9

(* In every week up to the next one the total is the sum of the gauges'    *)
(* weights times those of their types, although gauges, sums, types and    *)
(* the total are filled by different calls (_get_sum, _get_total), as long *)
(* as the loops over weeks are long enough to fill them.                   *)
THEOREM TotalIsAlwaysWeightedSum == GaugeSpec /\ []InTime => []TotalIsWeightedSum
<1>1. Ready /\ SumsAgree => TotalIsWeightedSum
  <2> SUFFICES ASSUME Ready, SumsAgree, NotOverridden, NEW w \in FilledWeeks
               PROVE  TotalWeight(w) = Total(LAMBDA g : TypedWeight(g, w), Gauges)
    BY DEF TotalIsWeightedSum
  <2>1. w \in Weeks
    BY DEF FilledWeeks
  <2>2. AgreeAt(gaugeTypes, weights, sums, w)
    BY <2>1 DEF SumsAgree
  <2>3. TotalWeight(w) = TotalAt(sums, typeWeights, w)
    BY TotalWeightIs
  <2>4. \A g \in Gauges : TypedWeight(g, w) = TypedAt(g, w)
    BY TypedWeightIs
  <2>5. TotalAt(sums, typeWeights, w) = SumOf([g \in Gauges |-> TypedAt(g, w)], Gauges)
    BY <2>1, <2>2, TotalIsTypedSum
  <2>6. [g \in Gauges |-> TypedWeight(g, w)] = [g \in Gauges |-> TypedAt(g, w)]
    BY <2>4
  <2> QED
    BY <2>3, <2>5, <2>6, TypedSum
<1> QED
  BY <1>1, AlwaysAgree, PTL

---------------------------------------------------------------------------

\* The run ends before the loops over weeks are too short for what was
\* filled when the contract was deployed
EndsInTime == MaxTime + WEEK <= RoundDown(DeployTime) + FillWeeks * WEEK

(* In the first FillWeeks weeks after the deployment no loop over weeks    *)
(* ends before it gets to the next week, however long no one calls: the    *)
(* assumption of the theorems above holds.                                 *)
THEOREM AlwaysInTimeAtFirst ==
  ASSUME EndsInTime
  PROVE  GaugeSpec => []InTime
<1>1. ASSUME WellFormed
      PROVE  InTime
  <2>1. Clock /\ CurvesOK
    BY <1>1 DEF WellFormed, Settled
  <2>2. /\ now \in Nat /\ now <= MaxTime /\ MaxTime \in Nat /\ DeployTime \in Nat /\ WEEK \in Nat
        /\ FillWeeks * WEEK \in Nat
    BY <2>1, GaugeAssumption DEF Clock
  <2>3. RoundDown(DeployTime) \in Nat /\ RoundDown(DeployTime) <= DeployTime
    BY <2>2, RoundDownFacts
  <2>4. NextWeek \in Nat /\ NextWeek <= MaxTime + WEEK
    <3>1. RoundDown(now) \in Nat /\ RoundDown(now) <= now
      BY <2>2, RoundDownFacts
    <3> QED
      BY <2>2, <3>1 DEF NextWeek
  <2>5. ASSUME NEW time \in Nat, RoundDown(DeployTime) <= time
        PROVE  Reaches(time)
    <3> DEFINE length == FillWeeks * WEEK
    <3>1. length \in Nat /\ MaxTime + WEEK <= RoundDown(DeployTime) + length
      BY <2>2 DEF EndsInTime
    <3>2. Reaches(time) <=> NextWeek <= time + length
      BY DEF Reaches
    <3> HIDE DEF length
    <3> QED
      BY <2>2, <2>3, <2>4, <2>5, <3>1, <3>2
  <2>6. ASSUME NEW time, Dated(time), time # 0
        PROVE  Reaches(time)
    <3>1. time \in Weeks /\ DeployTime < time
      BY <2>6 DEF Dated
    <3>2. time \in Nat
      BY <3>1, WeekFacts
    <3>3. RoundDown(DeployTime) <= time
      BY <2>2, <2>3, <3>1, <3>2
    <3> QED
      BY <2>5, <3>2, <3>3
  <2>7. \A g \in Gauges : Dated(weights[g].time)
    BY <2>1 DEF CurvesOK, Sane
  <2>8. \A k \in Types : Dated(sums[k].time) /\ Dated(typeWeights[k].time)
    BY <2>1 DEF CurvesOK, Sane, SaneLevel
  <2>9. Reaches(total.time)
    <3>1. total \in Levels /\ RoundDown(DeployTime) <= total.time
      BY <2>1 DEF CurvesOK, SaneTotal
    <3>2. total.time \in Weeks
      BY <3>1 DEF Levels
    <3>3. total.time \in Nat
      BY <3>2, WeekFacts
    <3> QED
      BY <2>5, <3>1, <3>3
  <2> QED
    BY <2>6, <2>7, <2>8, <2>9 DEF InTime
<1> QED
  BY <1>1, AlwaysWellFormed, PTL
===========================================================================
