------------------------ MODULE DistributionScheduler ------------------------
(***************************************************************************)
(* DistributionScheduler (pkg/liquidity-mining/contracts/admin): anyone    *)
(* leaves reward tokens with it, for a gauge to hand out over one of the   *)
(* next weeks, and anyone makes it pass on those that have become due.     *)
(* For each gauge and token it keeps a linked list of the weeks to come,   *)
(* in storage: a node is never deleted, only left out of the list when the *)
(* head moves past it.  The gauge is there with what the scheduler asks    *)
(* it: who distributes a token, and the deposit.                           *)
(***************************************************************************)
EXTENDS Integers, FiniteSetsExt

CONSTANTS
    RewardGauges,
    RewardTokens,       \* gauge -> its reward tokens
    SecondsInWeek,
    YearAhead,          \* 365 days
    MaxNodeAmount,      \* type(uint224).max
    RewardAmounts,      \* inputs
    MaxScheduled,       \* the most that a run schedules
    MaxTimestamp        \* last timestamp of a run

HEAD == 0
NULL == 0
StartTimes == 1 .. MaxTimestamp + YearAhead
StartOfWeek(t) == (t \div SecondsInWeek) * SecondsInWeek
Keys == {StartOfWeek(t) : t \in StartTimes \cup {HEAD}}
Rewards == UNION {{g} \X RewardTokens[g] : g \in RewardGauges}
AllTokens == UNION {RewardTokens[g] : g \in RewardGauges}

ASSUME SchedulerAssumption ==
    /\ SecondsInWeek \in Nat \ {0}
    /\ YearAhead \in Nat
    /\ MaxNodeAmount \in Nat
    /\ MaxTimestamp \in Nat
    /\ IsFiniteSet(Rewards)

VARIABLES
    timestamp,          \* block.timestamp
    rewardsLists,       \* _rewardsLists: of each <<gauge, token>>, the nodes
    distributed,        \* the rewards whose distributor is the scheduler
    deposited,          \* the scheduler's balance of each token
    received,           \* what each gauge has been given
    promised            \* not in the code: what is scheduled and not yet due or not yet passed on

schedulerVars == <<timestamp, rewardsLists, distributed, deposited, received, promised>>

Node(amount, next) == [amount |-> amount, nextTimestamp |-> next]

\* the first node that is not yet due, and the sum of those that are
PendingRewards(list, targetKey) ==
    LET from[k \in Keys] ==
            IF k # NULL /\ targetKey >= k
            THEN LET rest == from[list[k].nextTimestamp]
                 IN  [rest EXCEPT !.amount = @ + list[k].amount]
            ELSE [key |-> k, amount |-> 0]
    IN  from[list[HEAD].nextTimestamp]

\* the last node before the week, and the one after it
Neighbours(list, key) ==
    LET before[k \in Keys] ==
            LET next == list[k].nextTimestamp
            IN  IF key > next /\ next # NULL THEN before[next] ELSE k
        current == before[HEAD]
    IN  [current |-> current, next |-> list[current].nextTimestamp]

\* mutant: a new node in the middle ends the list
InsertedAsLast(list, key, amount) ==
    LET at == Neighbours(list, key)
    IN  IF at.next = key
        THEN [list EXCEPT ![key].amount = @ + amount]
        ELSE [list EXCEPT ![key] = Node(amount, NULL), ![at.current].nextTimestamp = key]

Inserted(list, key, amount) ==
    LET at == Neighbours(list, key)
    IN  IF at.next = key
        THEN [list EXCEPT ![key].amount = @ + amount]
        ELSE [list EXCEPT ![key] = Node(amount, at.next), ![at.current].nextTimestamp = key]

FitsNode(list, key, amount) ==
    Neighbours(list, key).next = key => list[key].amount + amount <= MaxNodeAmount

ScheduleDistribution(gauge, token, amount, startTime) ==
    /\ <<gauge, token>> \in distributed
    /\ amount \in 1 .. MaxNodeAmount
    /\ startTime >= timestamp
    /\ startTime = StartOfWeek(startTime)
    /\ startTime - timestamp <= YearAhead
    /\ FitsNode(rewardsLists[<<gauge, token>>], startTime, amount)
    /\ rewardsLists' = [rewardsLists EXCEPT ![<<gauge, token>>] = Inserted(@, startTime, amount)]
    /\ deposited' = [deposited EXCEPT ![token] = @ + amount]
    /\ promised' = [promised EXCEPT ![<<gauge, token>>][startTime] = @ + amount]
    /\ UNCHANGED <<timestamp, distributed, received>>

\* of several tokens of a gauge, each with its own list
StartRewards(gauge, tokens) ==
    LET pending == [t \in tokens |-> PendingRewards(rewardsLists[<<gauge, t>>], timestamp)]
        starts(r) == r[1] = gauge /\ r[2] \in tokens
    IN  /\ \A t \in tokens : deposited[t] >= pending[t].amount
        /\ rewardsLists' = [r \in Rewards |->
               IF starts(r) THEN [rewardsLists[r] EXCEPT ![HEAD].nextTimestamp = pending[r[2]].key]
               ELSE rewardsLists[r]]
        /\ deposited' = [t \in AllTokens |->
               IF t \in tokens THEN deposited[t] - pending[t].amount ELSE deposited[t]]
        /\ received' = [r \in Rewards |->
               IF starts(r) THEN received[r] + pending[r[2]].amount ELSE received[r]]
        /\ promised' = [r \in Rewards |->
               IF starts(r) THEN [w \in Keys |-> IF w <= timestamp THEN 0 ELSE promised[r][w]]
               ELSE promised[r]]
        /\ UNCHANGED <<timestamp, distributed>>

\* the gauge takes a deposit from the distributor alone
StartDistributionForToken(gauge, token) ==
    /\ <<gauge, token>> \in distributed
    /\ StartRewards(gauge, {token})

StartDistributions(gauge) ==
    StartRewards(gauge, {t \in RewardTokens[gauge] : <<gauge, t>> \in distributed})

\* by the gauge's admin
SetRewardDistributor(gauge, token) ==
    /\ distributed' \in {distributed \cup {<<gauge, token>>}, distributed \ {<<gauge, token>>}}
    /\ UNCHANGED <<timestamp, rewardsLists, deposited, received, promised>>

TimePasses ==
    /\ timestamp < MaxTimestamp
    /\ timestamp' = timestamp + 1
    /\ UNCHANGED <<rewardsLists, distributed, deposited, received, promised>>

SchedulerInit ==
    /\ timestamp = 1
    /\ rewardsLists = [r \in Rewards |-> [k \in Keys |-> Node(0, NULL)]]
    /\ distributed = Rewards
    /\ deposited = [t \in AllTokens |-> 0]
    /\ received = [r \in Rewards |-> 0]
    /\ promised = [r \in Rewards |-> [k \in Keys |-> 0]]

Scheduled ==
    MapThenSumSet(LAMBDA t : deposited[t], AllTokens) + MapThenSumSet(LAMBDA r : received[r], Rewards)

SchedulerNext ==
    \/ TimePasses
    \/ \E gauge \in RewardGauges :
        \/ StartDistributions(gauge)
        \/ \E token \in RewardTokens[gauge] :
            \/ StartDistributionForToken(gauge, token)
            \/ SetRewardDistributor(gauge, token)
            \/ \E amount \in RewardAmounts, startTime \in StartTimes :
                /\ Scheduled + amount <= MaxScheduled
                /\ ScheduleDistribution(gauge, token, amount, startTime)

SchedulerSpec == SchedulerInit /\ [][SchedulerNext]_schedulerVars

---------------------------------------------------------------------------
(* The list of a gauge and a token has the weeks that amounts were         *)
(* scheduled for and not passed on, each with their sum, in order, whatever*)
(* nodes of the past are still in storage; what is due is what of them has *)
(* begun; and the scheduler holds just what it owes to all gauges          *)
(* (scheduleDistribution, _insertReward, startDistributionForToken).       *)
ScheduleIsKept ==
    /\ \A r \in Rewards :
        LET Unpaid == {w \in Keys : promised[r][w] > 0}
            After(k) == {w \in Unpaid : w > k}
        IN  /\ \A k \in Unpaid \cup {HEAD} :
                rewardsLists[r][k].nextTimestamp = IF After(k) = {} THEN NULL ELSE Min(After(k))
            /\ \A w \in Unpaid : rewardsLists[r][w].amount = promised[r][w]
            /\ PendingRewards(rewardsLists[r], timestamp).amount =
                MapThenSumSet(LAMBDA w : promised[r][w], {w \in Unpaid : w <= timestamp})
    /\ \A t \in AllTokens :
        deposited[t] = MapThenSumSet(LAMBDA r : MapThenSumSet(LAMBDA w : promised[r][w], Keys),
                                     {r \in Rewards : r[2] = t})
===========================================================================
