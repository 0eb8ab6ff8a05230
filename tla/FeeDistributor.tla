-------------------------- MODULE FeeDistributor --------------------------
(***************************************************************************)
(* FeeDistributor.sol (pkg/liquidity-mining/contracts/fee-distribution):   *)
(* the tokens received in a week are shared by those who had veBAL at its  *)
(* beginning.  The contract copies, week by week, the total supply and the *)
(* users' balances out of the history of VotingEscrow, and spreads what it *)
(* has received over the weeks since it last looked.  A single token: no   *)
(* state is shared by tokens but the two copies.                           *)
(***************************************************************************)
EXTENDS VotingEscrow

CONSTANTS
    StartTime,          \* a week after the one of the deployment
    SupplyWeeks, ClaimWeeks, TokenWeeks,    \* iterations of the loops: 20
    UserSteps,          \* iterations of _checkpointUserBalance: 50
    SearchThreshold,    \* epochs of a user that are not searched: 20
    NearEnd,            \* the last day of a week
    FeeAmounts,         \* inputs
    MaxHeld             \* bound of the tokens received

ASSUME FeeAssumption ==
    /\ StartTime \in Nat /\ StartTime % WEEK = 0
    /\ StartTime > DeployTime
    /\ {SupplyWeeks, ClaimWeeks, TokenWeeks, UserSteps} \subseteq Nat \ {0}
    /\ FeeAmounts \subseteq Nat \ {0}

VARIABLES
    timeCursor,         \* the first week whose supply is not copied
    veSupplyCache,
    userState,          \* user -> [startTime, timeCursor, lastEpochCheckpointed]
    userBalanceAt,      \* user -> week -> balance
    token,              \* [startTime, timeCursor, cachedBalance, perWeek]
    userTokenTimeCursor,
    held,               \* the balance of the contract in the token
    received            \* what was paid to each user

supplyVars == <<timeCursor, veSupplyCache>>
userVars == <<userState, userBalanceAt>>
tokenVars == <<token, userTokenTimeCursor, held, received>>
lockVars == <<locked, userHistory, slopeChanges>>
feeVars == <<escrowVars, supplyVars, userVars, tokenVars>>

FeeInit ==
    /\ timeCursor = StartTime
    /\ veSupplyCache = [w \in Weeks |-> 0]
    /\ userState = [u \in Users |-> [startTime |-> 0, timeCursor |-> 0, lastEpochCheckpointed |-> 0]]
    /\ userBalanceAt = [u \in Users |-> [w \in Weeks |-> 0]]
    /\ token = [startTime |-> 0, timeCursor |-> 0, cachedBalance |-> 0, perWeek |-> [w \in Weeks |-> 0]]
    /\ userTokenTimeCursor = [u \in Users |-> 0]
    /\ held = 0
    /\ received = [u \in Users |-> 0]

---------------------------------------------------------------------------
(* _checkpointTotalSupply: a week is copied once its first second is over. *)

CopiedSupply ==
    LET end == Earlier(timeCursor + SupplyWeeks * WEEK, RoundDown(now) + WEEK)
        filled == FilledHistory
    IN  [cursor  |-> end,
         cache   |-> [w \in Weeks |-> IF timeCursor <= w /\ w < end THEN TotalSupplyIn(filled, w)
                                      ELSE veSupplyCache[w]],
         history |-> filled]

SameSupply == [cursor |-> timeCursor, cache |-> veSupplyCache, history |-> pointHistory]

\* mutant: the week that begins now is copied too
CheckpointAnySupply == IF timeCursor > RoundDown(now) THEN SameSupply ELSE CopiedSupply

CheckpointTotalSupply ==
    IF timeCursor > RoundDown(now) \/ RoundDown(now) = now THEN SameSupply ELSE CopiedSupply

StoreSupply(supply) ==
    /\ timeCursor' = supply.cursor
    /\ veSupplyCache' = supply.cache
    /\ pointHistory' = supply.history

---------------------------------------------------------------------------
(* _checkpointUserBalance.                                                 *)

(* _findTimestampUserEpoch, a binary search in epochs min .. max.          *)
UserEpochAt(u, t, min, max) ==
    min + Cardinality({e \in min + 1 .. max : userHistory[u][e].ts <= t})

FirstEpoch(u) ==
    LET last == userState[u].lastEpochCheckpointed
        max == Len(userHistory[u])
        epoch == IF userState[u].timeCursor = 0 THEN UserEpochAt(u, StartTime, 0, max)
                 ELSE IF max - last > SearchThreshold
                 THEN UserEpochAt(u, userState[u].timeCursor, last, max)
                 ELSE last
    IN  Later(1, epoch)

NoPoint == [bias |-> 0, slope |-> 0, ts |-> 0]

(* One iteration: s is at week, between the points of epochs epoch - 1,    *)
(* which is current, and epoch.                                            *)
WalkStep(u, s) ==
    LET next == IF s.epoch > Len(userHistory[u]) THEN NoPoint ELSE userHistory[u][s.epoch]
        balance == BalanceAtPoint(s.current, s.week)
    IN  IF s.week >= next.ts /\ s.epoch <= Len(userHistory[u])
        THEN [s EXCEPT !.epoch = @ + 1, !.current = next]
        ELSE IF s.week >= now THEN [s EXCEPT !.done = TRUE]
        ELSE IF balance = 0 /\ s.epoch > Len(userHistory[u])
        THEN [s EXCEPT !.week = RoundUp(now), !.done = TRUE]
        ELSE [s EXCEPT !.balances[s.week] = balance, !.week = @ + WEEK]

Walk(u, start) ==
    LET walk[i \in 0 .. UserSteps] ==
          IF i = 0 THEN start
          ELSE LET s == walk[i - 1] IN IF s.done THEN s ELSE WalkStep(u, s)
    IN  walk[UserSteps]

(* A user's first checkpoint reverts before the distribution has started.  *)
MayCheckpointUser(u) ==
    userHistory[u] # <<>> /\ userState[u].timeCursor = 0 => now > StartTime

CheckpointUserBalance(u) ==
    LET state == userState[u]
        first == state.timeCursor = 0
        epoch == FirstEpoch(u)
        week == IF first THEN Later(StartTime, RoundUp(userHistory[u][epoch].ts)) ELSE state.timeCursor
        end == Walk(u, [week |-> week, epoch |-> epoch, current |-> NoPoint,
                        balances |-> userBalanceAt[u], done |-> FALSE])
    IN  IF userHistory[u] = <<>> \/ (~first /\ state.timeCursor >= now)
        THEN [state |-> state, balances |-> userBalanceAt[u]]
        ELSE [state |-> [startTime |-> IF first THEN week ELSE state.startTime,
                         timeCursor |-> end.week,
                         lastEpochCheckpointed |-> end.epoch - 1],
              balances |-> end.balances]

StoreUser(u, user) ==
    /\ userState' = [userState EXCEPT ![u] = user.state]
    /\ userBalanceAt' = [userBalanceAt EXCEPT ![u] = user.balances]

---------------------------------------------------------------------------
(* _checkpointToken.                                                       *)

(* The first checkpoint of the token.                                      *)
MayCheckpointToken == token.timeCursor # 0 \/ now > StartTime

(* What week w gets of an amount received evenly between last and now; the *)
(* loop visits the first TokenWeeks weeks.                                 *)
Portion(amount, last, w) ==
    LET from == Later(last, w)
        to == Earlier(now, w + WEEK)
    IN  IF ~ (RoundDown(last) <= w /\ w <= now /\ w < RoundDown(last) + TokenWeeks * WEEK) THEN 0
        ELSE IF last = now THEN amount
        ELSE (amount * (to - from)) \div (now - last)

Skips(last) ==
    /\ RoundDown(now) = RoundDown(last)
    /\ RoundUp(now) - now >= NearEnd

TokenCheckpoint(k, balance, force) ==
    LET first == k.timeCursor = 0
        last == IF first THEN now ELSE k.timeCursor
        amount == balance - k.cachedBalance
    IN  IF ~first /\ ~force /\ Skips(last) THEN k
        ELSE [startTime     |-> IF first THEN RoundDown(now) ELSE k.startTime,
              timeCursor    |-> now,
              cachedBalance |-> balance,
              perWeek       |-> [w \in Weeks |-> k.perWeek[w] + Portion(amount, last, w)]]

---------------------------------------------------------------------------
(* _claimToken, with what the checkpoints of the supply, of user u and of  *)
(* the token (k) have returned.  A week without supply makes it revert.    *)

ClaimStart(u, user, k) ==
    IF userTokenTimeCursor[u] > 0 THEN userTokenTimeCursor[u]
    ELSE Later(user.state.startTime, k.startTime)

FirstUnclaimableWeek(supply, user, k) ==
    Earlier(RoundUp(Earlier(supply.cursor, user.state.timeCursor)), RoundDown(k.timeCursor))

Claim(u, supply, user, k) ==
    LET start == ClaimStart(u, user, k)
        end == Later(start, Earlier(FirstUnclaimableWeek(supply, user, k), start + ClaimWeeks * WEEK))
        weeks == {w \in start .. end - 1 : w % WEEK = 0}
        amount == MapThenSumSet(LAMBDA w : (k.perWeek[w] * user.balances[w]) \div supply.cache[w], weeks)
    IN  /\ \A w \in weeks : supply.cache[w] > 0
        /\ amount <= held
        /\ token' = [k EXCEPT !.cachedBalance = @ - amount]
        /\ userTokenTimeCursor' = [userTokenTimeCursor EXCEPT ![u] = end]
        /\ held' = held - amount
        /\ received' = [received EXCEPT ![u] = @ + amount]

---------------------------------------------------------------------------

\* mutant: what was received before is taken for part of the deposit
DepositAtOnce(amount) ==
    /\ MayCheckpointToken
    /\ held + amount <= MaxHeld
    /\ held' = held + amount
    /\ token' = TokenCheckpoint(token, held + amount, TRUE)
    /\ UNCHANGED <<escrowVars, supplyVars, userVars, userTokenTimeCursor, received>>

DepositToken(amount) ==
    /\ MayCheckpointToken
    /\ held + amount <= MaxHeld
    /\ held' = held + amount
    /\ token' = TokenCheckpoint(TokenCheckpoint(token, held, FALSE), held + amount, TRUE)
    /\ UNCHANGED <<escrowVars, supplyVars, userVars, userTokenTimeCursor, received>>

(* Anyone sends tokens to the contract.                                    *)
Transfer(amount) ==
    /\ held + amount <= MaxHeld
    /\ held' = held + amount
    /\ UNCHANGED <<escrowVars, supplyVars, userVars, token, userTokenTimeCursor, received>>

CheckpointToken ==
    /\ MayCheckpointToken
    /\ token' = TokenCheckpoint(token, held, TRUE)
    /\ UNCHANGED <<escrowVars, supplyVars, userVars, userTokenTimeCursor, held, received>>

(* checkpoint *)
CheckpointSupply ==
    /\ StoreSupply(CheckpointTotalSupply)
    /\ UNCHANGED <<now, lockVars, userVars, tokenVars>>

(* checkpointUser *)
CheckpointUser(u) ==
    /\ MayCheckpointUser(u)
    /\ StoreUser(u, CheckpointUserBalance(u))
    /\ UNCHANGED <<escrowVars, supplyVars, tokenVars>>

ClaimToken(u) ==
    LET supply == CheckpointTotalSupply
        user == CheckpointUserBalance(u)
    IN  /\ MayCheckpointUser(u)
        /\ MayCheckpointToken
        /\ StoreSupply(supply)
        /\ StoreUser(u, user)
        /\ Claim(u, supply, user, TokenCheckpoint(token, held, FALSE))
        /\ UNCHANGED <<now, lockVars>>

FeeNext ==
    \/ EscrowNext /\ UNCHANGED <<supplyVars, userVars, tokenVars>>
    \/ \E amount \in FeeAmounts : DepositToken(amount) \/ Transfer(amount)
    \/ CheckpointToken
    \/ CheckpointSupply
    \/ \E u \in Users : CheckpointUser(u) \/ ClaimToken(u)

FeeSpec == EscrowInit /\ FeeInit /\ [][FeeNext]_feeVars

---------------------------------------------------------------------------

(* What u is due of week w, by the balances of VotingEscrow themselves.    *)
Due(u, w) ==
    LET supply == MapThenSumSet(LAMBDA v : BalanceOf(v, w), Users)
    IN  IF supply = 0 THEN 0 ELSE (token.perWeek[w] * BalanceOf(u, w)) \div supply

DueIn(u, weeks) == MapThenSumSet(LAMBDA w : Due(u, w), weeks)

(* A user has been paid exactly the share of every week before the cursor, *)
(* as the history of VotingEscrow and the tokens of the week are now: no   *)
(* week is claimed twice or skipped, or before its supply, its balances or *)
(* its tokens are final, whatever the order of the checkpoints             *)
(* (_claimToken, firstUnclaimableWeek).                                    *)
PaidInFull ==
    \A u \in Users : received[u] = DueIn(u, {w \in Weeks : w < userTokenTimeCursor[u]})

(* The tokens assigned to weeks and not yet claimed are there for everyone *)
(* to claim (_claimToken: "this is safe").                                 *)
EveryoneCanBePaid ==
    /\ token.cachedBalance <= held
    /\ MapThenSumSet(LAMBDA u : DueIn(u, {w \in Weeks : userTokenTimeCursor[u] <= w /\ w <= now}), Users)
         <= token.cachedBalance

(* A deposit is distributed in the week it is made, whatever was sent to   *)
(* the contract before it (depositToken).                                  *)
DepositsAreForThisWeek ==
    [][\A amount \in FeeAmounts :
         DepositToken(amount) =>
           token'.perWeek[RoundDown(now)] >= token.perWeek[RoundDown(now)] + amount]_feeVars
===========================================================================
