--------------------------- MODULE VaultProofs ----------------------------
(***************************************************************************)
(* Proofs about Vault, for any Pools, tokens, accounts and amounts, and    *)
(* for calls nested as deep as one likes.                                  *)
(*                                                                         *)
(* The balances that a call in progress has read stay those stored, and    *)
(* the pause of the Vault is a TemporarilyPausable. Then lemmas about the  *)
(* operators the Vault is made of: lists from which tokens are removed,    *)
(* what the Vault owes and what it has in custody.                         *)
(*                                                                         *)
(* The Vault always has what it owes: the excess of what is in custody     *)
(* over what is owed is the same after each step, but for tokens given to  *)
(* the Vault; and what is deregistered holds nothing.                      *)
(*                                                                         *)
(* Last, what an operation may do: tokens are taken only from those for    *)
(* whom the caller may act, a paused Vault takes on no debts and every     *)
(* change of a Pool's balance is stamped with its block. Joins, exits and  *)
(* swaps check the caller and the pause before their hooks and move tokens *)
(* after them; the inductive invariant therefore says of a call in         *)
(* progress that the checks would still pass, since settings change only   *)
(* while no call is in progress.                                           *)
(***************************************************************************)
EXTENDS Vault, SumTheorems, SequenceTheorems, TLAPS

(* What NoLostUpdate says of one call in progress.                         *)
Current(f) ==
    f.op # "FLASH_LOAN" =>
      /\ f.balances = BalancesOf(f.id, f.tokens)
      /\ f.op \in Joins \/ f.id.specialization = "GENERAL" => f.tokens = tokens[f.id]
      /\ ToSet(f.tokens) \subseteq ToSet(tokens[f.id])

(* The inductive invariant: the reentrancy guard is entered exactly while  *)
(* one call, and one only, is in progress, and what it has read is         *)
(* current.                                                                *)
Free == status = "NOT_ENTERED" /\ frames = <<>>
InCall(f) == status = "ENTERED" /\ frames = <<f>> /\ Current(f)
IInv == Free \/ \E f : InCall(f)

(* No call is in progress at deployment.                                   *)
LEMMA IInvInitially == Init => IInv
  BY DEF Init, IInv, Free

(* A call that begins finds the guard free and leaves its frame alone.     *)
LEMMA HookIsInCall ==
  ASSUME NEW f, IInv, NonReentrant, CallHook(f), Current(f)'
  PROVE  IInv'
<1>1. frames = <<>>
  BY DEF IInv, Free, InCall, NonReentrant
<1>2. frames' = <<f>> /\ status' = "ENTERED"
  BY <1>1 DEF CallHook
<1> QED
  BY <1>2 DEF IInv, InCall

(* A call that resumes leaves the Vault free.                              *)
LEMMA ResumeIsFree ==
  ASSUME NEW ops, IInv, Resume(ops)
  PROVE  IInv'
<1>1. PICK f : frames = <<f>>
  BY DEF IInv, Free, InCall, Resume
<1>2. frames' = <<>>
  <2>1. Front(frames) = SubSeq(<<f>>, 1, 0)
    BY <1>1 DEF Front
  <2> QED
    BY <2>1, SubSeqEmpty DEF Resume
<1> QED
  BY <1>2 DEF Resume, IInv, Free

(* A guarded call that runs to its end finds and leaves the Vault free.    *)
LEMMA GuardedIsFree ==
  ASSUME IInv, NonReentrant, UNCHANGED <<status, frames>>
  PROVE  IInv'
  BY DEF IInv, Free, InCall, NonReentrant

(* What leaves the stores alone leaves the frames current.                 *)
LEMMA OutsideKeepsIInv ==
  ASSUME IInv, UNCHANGED <<status, frames, tokens, balances>>
  PROVE  IInv'
<1>1. CASE Free
  BY <1>1 DEF IInv, Free
<1>2. ASSUME NEW f, InCall(f)
      PROVE  InCall(f)'
  BY <1>2 DEF InCall, Current, BalancesOf
<1> QED
  BY <1>1, <1>2 DEF IInv

(* A join or exit that reaches its hook has read what is stored.           *)
LEMMA BeginJoinOrExitKeepsIInv ==
  ASSUME IInv, NEW op \in Joins, NEW caller, NEW id, NEW sender, NEW recipient, NEW limit, NEW useInternalBalance,
         BeginJoinOrExit(op, caller, id, sender, recipient, limit, useInternalBalance)
  PROVE  IInv'
<1>0. PICK f : f = [op |-> op, caller |-> caller, id |-> id, sender |-> sender,
                    recipient |-> recipient, limit |-> limit,
                    useInternalBalance |-> useInternalBalance,
                    tokens |-> tokens[id], balances |-> BalancesOf(id, tokens[id]),
                    relayers |-> CurrentRelayers]
  OBVIOUS
<1>1. NonReentrant /\ CallHook(f) /\ UNCHANGED <<tokens, balances>>
  BY <1>0 DEF BeginJoinOrExit, registryVars
<1>2. /\ f.op = op /\ f.id = id /\ f.tokens = tokens[id] /\ f.balances = BalancesOf(id, tokens[id])
  BY <1>0
<1>3. Current(f)'
  BY <1>1, <1>2 DEF Current, BalancesOf
<1> QED
  BY <1>1, <1>3, HookIsInCall

(* So has a swap.                                                          *)
LEMMA BeginSwapKeepsIInv ==
  ASSUME IInv, NEW caller, NEW id, NEW sender, NEW recipient, NEW kind, NEW tokenIn, NEW tokenOut,
         NEW amount, NEW limit, NEW fromInternal, NEW toInternal,
         BeginSwap(caller, id, sender, recipient, kind, tokenIn, tokenOut, amount, limit, fromInternal, toInternal)
  PROVE  IInv'
<1>1. PICK list : list = IF id.specialization = "GENERAL" THEN tokens[id] ELSE <<tokenIn, tokenOut>>
  OBVIOUS
<1>2. PICK f : f = [op |-> "SWAP", caller |-> caller, id |-> id, sender |-> sender,
                    recipient |-> recipient, kind |-> kind, tokenIn |-> tokenIn,
                    tokenOut |-> tokenOut, amount |-> amount, limit |-> limit,
                    fromInternal |-> fromInternal, toInternal |-> toInternal,
                    tokens |-> list, balances |-> BalancesOf(id, list),
                    relayers |-> CurrentRelayers]
  OBVIOUS
<1>3. /\ NonReentrant /\ CallHook(f) /\ UNCHANGED <<tokens, balances>>
      /\ {tokenIn, tokenOut} \subseteq ToSet(tokens[id])
  BY <1>1, <1>2 DEF BeginSwap, registryVars
<1>4. f.op = "SWAP" /\ f.id = id /\ f.tokens = list /\ f.balances = BalancesOf(id, list)
  BY <1>2
<1>5. ToSet(list) \subseteq ToSet(tokens[id])
  <2>1. CASE id.specialization = "GENERAL"
    BY <1>1, <2>1
  <2>2. CASE id.specialization # "GENERAL"
    <3>1. ToSet(<<tokenIn, tokenOut>>) = {tokenIn, tokenOut}
      BY DEF ToSet
    <3> QED
      BY <1>1, <1>3, <2>2, <3>1
  <2> QED
    BY <2>1, <2>2
<1>6. "SWAP" \notin Joins
  BY DEF Joins
<1>7. Current(f)'
  BY <1>1, <1>3, <1>4, <1>5, <1>6 DEF Current, BalancesOf
<1> QED
  BY <1>3, <1>7, HookIsInCall

(* A flash loan reads no balance of a Pool.                                *)
LEMMA BeginFlashLoanKeepsIInv ==
  ASSUME IInv, NEW caller, NEW recipient, NEW loan, BeginFlashLoan(caller, recipient, loan)
  PROVE  IInv'
<1>1. NonReentrant /\ \E f : CallHook(f) /\ f.op = "FLASH_LOAN"
  BY DEF BeginFlashLoan
<1>2. PICK f : CallHook(f) /\ f.op = "FLASH_LOAN"
  BY <1>1
<1>3. Current(f)'
  BY <1>2 DEF Current
<1> QED
  BY <1>1, <1>2, <1>3, HookIsInCall

---------------------------------------------------------------------------
(* What the operations of the registry leave alone.                        *)
LEMMA RegistryStep == PoolRegistryNext => NonReentrant /\ UNCHANGED <<status, frames, now, paused>>
<1>1. ASSUME NEW caller, NEW s, RegisterPool(caller, s)
      PROVE  NonReentrant /\ UNCHANGED <<status, frames, now, paused>>
  BY <1>1 DEF RegisterPool, CallAndReturn, permissionVars
<1>2. ASSUME NEW caller, NEW id, NEW list, NEW manager, RegisterTokens(caller, id, list, manager)
      PROVE  NonReentrant /\ UNCHANGED <<status, frames, now, paused>>
  BY <1>2 DEF RegisterTokens, CallAndReturn, permissionVars
<1>3. ASSUME NEW caller, NEW id, NEW list, DeregisterTokens(caller, id, list)
      PROVE  NonReentrant /\ UNCHANGED <<status, frames, now, paused>>
  BY <1>3 DEF DeregisterTokens, CallAndReturn, permissionVars
<1> QED
  BY <1>1, <1>2, <1>3 DEF PoolRegistryNext

(* The invariant is inductive.                                             *)
LEMMA IInvAlways == IInv /\ [Next]_vars => IInv'
<1> SUFFICES ASSUME IInv, [Next]_vars
             PROVE  IInv'
  OBVIOUS
<1>1. CASE PoolRegistryNext
  <2>1. NonReentrant /\ UNCHANGED <<status, frames>>
    BY <1>1, RegistryStep
  <2> QED
    BY <2>1, GuardedIsFree
<1>2. CASE PoolBalancesNext
  <2>1. ASSUME NEW caller, NEW id, NEW sender, NEW recipient, NEW limit, NEW useInternalBalance,
               \/ BeginJoin(caller, id, sender, recipient, limit, useInternalBalance)
               \/ BeginExit(caller, id, sender, recipient, limit, useInternalBalance)
        PROVE  IInv'
    <3>1. "JOIN" \in Joins /\ "EXIT" \in Joins
      BY DEF Joins
    <3> QED
      BY <2>1, <3>1, BeginJoinOrExitKeepsIInv DEF BeginJoin, BeginExit
  <2>2. CASE EndJoin \/ EndExit
    BY <2>2, ResumeIsFree DEF EndJoin, EndExit
  <2> QED
    BY <1>2, <2>1, <2>2 DEF PoolBalancesNext
<1>3. CASE SwapsNext
  <2>1. CASE EndSwap
    BY <2>1, ResumeIsFree DEF EndSwap
  <2> QED
    BY <1>3, <2>1, BeginSwapKeepsIInv DEF SwapsNext
<1>4. CASE FlashLoansNext
  <2>1. CASE EndFlashLoan
    BY <2>1, ResumeIsFree DEF EndFlashLoan
  <2> QED
    BY <1>4, <2>1, BeginFlashLoanKeepsIInv DEF FlashLoansNext
<1>5. CASE BalanceManagementNext
  <2>1. NonReentrant /\ UNCHANGED <<status, frames>>
    BY <1>5 DEF BalanceManagementNext, ManagePoolBalance, ManageUserBalance, CallAndReturn
  <2> QED
    BY <2>1, GuardedIsFree
<1>6. CASE GovernanceNext
  <2>1. ASSUME NEW caller, NEW a, NEW x, NEW y, NEW z,
               \/ SetRelayerApproval(caller, x, y, z)
               \/ SetAuthorizer(caller, a)
               \/ SetPaused(caller, z)
        PROVE  IInv'
    <3>1. NonReentrant /\ UNCHANGED <<status, frames>>
      BY <2>1 DEF SetRelayerApproval, SetAuthorizer, SetPaused, CallAndReturn
    <3> QED
      BY <3>1, GuardedIsFree
  <2>2. ASSUME NEW caller, NEW x, NEW y, NEW z,
               \/ SetFlashLoanFeePercentage(caller, x)
               \/ WithdrawCollectedFees(caller, x, y, z)
        PROVE  IInv'
    <3>1. UNCHANGED <<status, frames, tokens, balances>>
      BY <2>2 DEF SetFlashLoanFeePercentage, WithdrawCollectedFees, CallAndReturn, registryVars
    <3> QED
      BY <3>1, OutsideKeepsIInv
  <2> QED
    BY <1>6, <2>1, <2>2 DEF GovernanceNext
<1>7. CASE TokensNext
  <2>1. UNCHANGED <<status, frames, tokens, balances>>
    BY <1>7 DEF TokensNext, Erc20Transfer, CallAndReturn, registryVars
  <2> QED
    BY <2>1, OutsideKeepsIInv
<1>8. CASE Tick
  <2>1. UNCHANGED <<status, frames, tokens, balances>>
    BY <1>8 DEF Tick, callVars, registryVars
  <2> QED
    BY <2>1, OutsideKeepsIInv
<1>9. CASE AuthorizersNext
  <2>1. UNCHANGED <<status, frames, tokens, balances>>
    BY <1>9 DEF AuthorizersNext, SetPermission, callVars, registryVars
  <2> QED
    BY <2>1, OutsideKeepsIInv
<1>10. CASE UNCHANGED vars
  <2>1. UNCHANGED <<status, frames, tokens, balances>>
    BY <1>10 DEF vars, callVars, registryVars
  <2> QED
    BY <2>1, OutsideKeepsIInv
<1> QED
  BY <1>1, <1>2, <1>3, <1>4, <1>5, <1>6, <1>7, <1>8, <1>9, <1>10 DEF Next

(* The balances from which a hook and the code after it compute the new    *)
(* ones are still those stored when the call resumes, whatever foreign     *)
(* code has done in the hook: no join, exit or swap loses an update.       *)
THEOREM NoUpdateIsLost == Spec => []NoLostUpdate
<1>1. IInv => NoLostUpdate
  <2>1. CASE Free
    BY <2>1 DEF Free, NoLostUpdate
  <2>2. ASSUME NEW f, InCall(f)
        PROVE  NoLostUpdate
    BY <2>2 DEF InCall, Current, NoLostUpdate
  <2> QED
    BY <2>1, <2>2 DEF IInv
<1> QED
  BY IInvInitially, IInvAlways, <1>1, PTL DEF Spec

---------------------------------------------------------------------------
(* Only setPaused changes the flag, and only blocks pass.                  *)
LEMMA PausableStep == [Next]_vars => [Pausable!PausableNext]_(Pausable!pausableVars)
<1> SUFFICES ASSUME [Next]_vars
             PROVE  Pausable!PausableNext \/ UNCHANGED <<now, paused>>
  BY DEF Pausable!pausableVars
<1>1. CASE PoolRegistryNext
  BY <1>1, RegistryStep
<1>2. CASE PoolBalancesNext
  <2>1. ASSUME NEW op, NEW caller, NEW id, NEW sender, NEW recipient, NEW limit, NEW b,
               BeginJoinOrExit(op, caller, id, sender, recipient, limit, b)
        PROVE  UNCHANGED <<now, paused>>
    BY <2>1 DEF BeginJoinOrExit, permissionVars
  <2>2. CASE EndJoin \/ EndExit
    BY <2>2 DEF EndJoin, EndExit, permissionVars
  <2> QED
    BY <1>2, <2>1, <2>2 DEF PoolBalancesNext, BeginJoin, BeginExit
<1>3. CASE SwapsNext
  <2>1. ASSUME NEW caller, NEW id, NEW sender, NEW recipient, NEW kind, NEW tokenIn, NEW tokenOut,
               NEW amount, NEW limit, NEW fromInternal, NEW toInternal,
               BeginSwap(caller, id, sender, recipient, kind, tokenIn, tokenOut, amount, limit,
                         fromInternal, toInternal)
        PROVE  UNCHANGED <<now, paused>>
    BY <2>1 DEF BeginSwap, permissionVars
  <2>2. CASE EndSwap
    BY <2>2 DEF EndSwap, permissionVars
  <2> QED
    BY <1>3, <2>1, <2>2 DEF SwapsNext
<1>4. CASE FlashLoansNext
  BY <1>4 DEF FlashLoansNext, BeginFlashLoan, EndFlashLoan, permissionVars
<1>5. CASE BalanceManagementNext
  BY <1>5 DEF BalanceManagementNext, ManagePoolBalance, ManageUserBalance, permissionVars
<1>6. CASE GovernanceNext
  <2>1. ASSUME NEW caller, NEW isPaused \in BOOLEAN, SetPaused(caller, isPaused)
        PROVE  Pausable!PausableNext
    BY <2>1 DEF SetPaused, Pausable!PausableNext
  <2>2. ASSUME NEW caller, NEW a, NEW x, NEW y, NEW z,
               \/ SetRelayerApproval(caller, x, y, z)
               \/ SetAuthorizer(caller, a)
               \/ SetFlashLoanFeePercentage(caller, x)
               \/ WithdrawCollectedFees(caller, x, y, z)
        PROVE  UNCHANGED <<now, paused>>
    BY <2>2 DEF SetRelayerApproval, SetAuthorizer, SetFlashLoanFeePercentage, WithdrawCollectedFees,
                permissionVars
  <2> QED
    BY <1>6, <2>1, <2>2 DEF GovernanceNext
<1>7. CASE TokensNext
  BY <1>7 DEF TokensNext, Erc20Transfer, permissionVars
<1>8. CASE Tick
  BY <1>8 DEF Tick, Pausable!PausableTick, Pausable!PausableNext
<1>9. CASE AuthorizersNext
  BY <1>9 DEF AuthorizersNext, SetPermission
<1>10. CASE UNCHANGED vars
  BY <1>10 DEF vars, permissionVars
<1> QED
  BY <1>1, <1>2, <1>3, <1>4, <1>5, <1>6, <1>7, <1>8, <1>9, <1>10 DEF Next

(* The Vault implements TemporarilyPausable: nothing it does pauses or     *)
(* unpauses it, or at a time, other than setPaused may.                    *)
THEOREM IsPausable == Spec => PausableRefinement
<1>1. Init => Pausable!PausableInit
  BY DEF Init, Pausable!PausableInit
<1> QED
  BY <1>1, PausableStep, PTL DEF Spec, PausableRefinement, Pausable!PausableSpec

---------------------------------------------------------------------------
(* Lists.  deregisterTokens removes its tokens one by one, each time       *)
(* moving the last one of the list to the place of the removed one.        *)

(* Removing a token removes it, and nothing else.                           *)
LEMMA Popped ==
  ASSUME NEW l \in Seq(Tokens), IsInjective(l), NEW t \in ToSet(l)
  PROVE  /\ SwapAndPop(l, t) \in Seq(Tokens) /\ IsInjective(SwapAndPop(l, t))
         /\ ToSet(SwapAndPop(l, t)) = ToSet(l) \ {t}
<1> DEFINE n == Len(l)
           k == [i \in DOMAIN l |-> IF l[i] = t THEN Last(l) ELSE l[i]]
           r == [i \in 1 .. n - 1 |-> k[i]]
<1>1. n \in Nat /\ DOMAIN l = 1 .. n /\ \A i \in 1 .. n : l[i] \in Tokens
  BY LenProperties, ElementOfSeq
<1>2. PICK p \in 1 .. n : l[p] = t
  BY <1>1 DEF ToSet
<1>3. n \in Nat \ {0} /\ Last(l) = l[n] /\ n \in 1 .. n
  BY <1>1, <1>2 DEF Last
<1>4. \A i, j \in 1 .. n : l[i] = l[j] => i = j
  BY <1>1 DEF IsInjective
<1>5. \A i \in 1 .. n : k[i] = IF i = p THEN l[n] ELSE l[i]
  BY <1>1, <1>2, <1>3, <1>4
<1>6. k \in Seq(Tokens) /\ Len(k) = n
  <2>1. k \in [1 .. n -> Tokens]
    BY <1>1, <1>3
  <2> HIDE DEF k, n
  <2> QED
    BY <1>1, <2>1, IsASeq
<1>7. SwapAndPop(l, t) = SubSeq(k, 1, n - 1)
  BY <1>6 DEF SwapAndPop, Front
<1> HIDE DEF k
<1>8. SubSeq(k, 1, n - 1) = r
  BY <1>3, <1>6
<1>9. r \in Seq(Tokens) /\ Len(r) = n - 1 /\ DOMAIN r = 1 .. n - 1
  <2>1. r \in [1 .. n - 1 -> Tokens]
    BY <1>1, <1>3, <1>5
  <2>2. n - 1 \in Nat
    BY <1>3
  <2> HIDE DEF r, n
  <2> QED
    BY <2>1, <2>2, IsASeq
<1>10. \A i \in 1 .. n - 1 : i \in 1 .. n /\ i # n /\ r[i] = IF i = p THEN l[n] ELSE l[i]
  BY <1>3, <1>5
<1> HIDE DEF r, n
<1>11. IsInjective(r)
  BY <1>3, <1>4, <1>9, <1>10 DEF IsInjective
<1>12. \A x \in ToSet(r) : x \in ToSet(l) /\ x # t
  BY <1>1, <1>2, <1>3, <1>4, <1>9, <1>10 DEF ToSet
<1>13. ASSUME NEW x \in ToSet(l), x # t
       PROVE  x \in ToSet(r)
  <2>1. PICK i \in 1 .. n : l[i] = x
    BY <1>1 DEF ToSet
  <2>2. i # p
    BY <1>2, <1>13, <2>1
  <2>3. CASE i = n
    <3>1. p \in 1 .. n - 1
      BY <1>3, <2>2, <2>3
    <3> QED
      BY <1>9, <1>10, <2>1, <2>3, <3>1 DEF ToSet
  <2>4. CASE i # n
    <3>1. i \in 1 .. n - 1
      BY <1>3, <2>4
    <3> QED
      BY <1>9, <1>10, <2>1, <2>2, <3>1 DEF ToSet
  <2> QED
    BY <2>3, <2>4
<1> QED
  BY <1>7, <1>8, <1>9, <1>11, <1>12, <1>13

(* The largest of a finite set of numbers is one of it.                    *)
LEMMA MaxIsElement ==
  ASSUME NEW n \in Nat, NEW s \in SUBSET (1 .. n), s # {}
  PROVE  Max(s) \in s
<1> DEFINE S == 1 .. n
           Good == {r \in SUBSET S : r = {} \/ \E x \in r : \A y \in r : x >= y}
<1>1. {} \in Good
  OBVIOUS
<1>2. ASSUME NEW r \in SUBSET S, r # {}, \A e \in r : r \ {e} \in Good
      PROVE  r \in Good
  <2>1. PICK e \in r : TRUE
    BY <1>2
  <2>2. CASE r \ {e} = {}
    <3>1. \A y \in r : y = e /\ e \in Nat
      BY <2>2
    <3> QED
      BY <3>1
  <2>3. ASSUME NEW x \in r \ {e}, \A y \in r \ {e} : x >= y
        PROVE  r \in Good
    <3>1. x \in Nat /\ e \in Nat /\ r \subseteq Nat
      OBVIOUS
    <3>2. CASE x >= e
      <4>1. \A y \in r : x >= y
        BY <2>3, <3>2
      <4> QED
        BY <4>1
    <3>3. CASE ~(x >= e)
      <4>1. \A y \in r : e >= y
        BY <2>3, <3>1, <3>3
      <4> QED
        BY <4>1
    <3> QED
      BY <3>2, <3>3
  <2> QED
    BY <1>2, <2>2, <2>3
<1>3. Good = SUBSET S
  <2>1. IsFiniteSet(S)
    BY FS_Interval
  <2> HIDE DEF Good, S
  <2>2. Good \in SUBSET SUBSET S
    BY DEF Good
  <2> QED
    BY <1>1, <1>2, <2>1, <2>2, SubsetsInduction
<1>4. \E x \in s : \A y \in s : x >= y
  BY <1>3
<1> QED
  BY <1>4 DEF Max

(* g is the list of l without the tokens of list at the positions of every  *)
(* subset of S, by the recursion that FoldLeft computes it with.            *)
PopOf(g, l, list, s) == IF s = {} THEN l ELSE SwapAndPop(g[s \ {Max(s)}], list[Max(s)])

IsPopped(g, l, list, S) == g = [s \in SUBSET S |-> PopOf(g, l, list, s)]

(* The recursion that removes the listed tokens one by one defines a       *)
(* function.                                                               *)
LEMMA PopsExist ==
  ASSUME NEW n \in Nat, NEW l, NEW list
  PROVE  \E g : IsPopped(g, l, list, 1 .. n)
<1> DEFINE S == 1 .. n
           Pops(g, m) == g = [s \in Small(S, m) |-> PopOf(g, l, list, s)]
           Good == {s \in SUBSET S : \E g : Pops(g, Cardinality(s))}
<1>0. IsFiniteSet(S)
  BY FS_Interval
<1>1. \A s \in SUBSET S : /\ IsFiniteSet(s) /\ Cardinality(s) \in Nat /\ Cardinality(s) <= Cardinality(S)
                          /\ s # {} => Max(s) \in s
  BY <1>0, FS_Subset, FS_CardinalityType, MaxIsElement
<1> HIDE DEF S
<1>2. {} \in Good
  <2> DEFINE g == [s \in Small(S, 0) |-> l]
  <2>1. \A s \in Small(S, 0) : s = {}
    BY <1>1, FS_EmptySet DEF Small
  <2>2. Pops(g, 0)
    BY <2>1 DEF PopOf
  <2> QED
    BY <2>2, FS_EmptySet
<1>3. ASSUME NEW s \in SUBSET S, s # {}, \A e \in s : s \ {e} \in Good
      PROVE  s \in Good
  <2>0. PICK e \in s : TRUE
    BY <1>3
  <2> DEFINE m == Cardinality(s \ {e})
  <2>1. PICK g : Pops(g, m)
    BY <1>3
  <2>2. m \in Nat /\ Cardinality(s) = m + 1
    <3>1. s \ {e} \in SUBSET S
      OBVIOUS
    <3>2. Cardinality(s \ {e}) = Cardinality(s) - 1
      BY <1>1, FS_RemoveElement
    <3> QED
      BY <1>1, <3>1, <3>2
  <2> HIDE DEF m
  <2> DEFINE h == [r \in Small(S, m + 1) |-> PopOf(g, l, list, r)]
  <2>3. \A r \in Small(S, m + 1) : r # {} => r \ {Max(r)} \in Small(S, m)
    <3>1. ASSUME NEW r \in Small(S, m + 1), r # {}
          PROVE  r \ {Max(r)} \in Small(S, m)
      <4>1. r \in SUBSET S /\ Cardinality(r) <= m + 1
        BY DEF Small
      <4>2. Cardinality(r \ {Max(r)}) = Cardinality(r) - 1
        BY <1>1, <3>1, <4>1, FS_RemoveElement
      <4>3. Cardinality(r) - 1 <= m
        BY <1>1, <2>2, <4>1
      <4> QED
        BY <4>1, <4>2, <4>3 DEF Small
    <3> QED
      BY <3>1
  <2>4. \A r \in Small(S, m) : r \in Small(S, m + 1) /\ g[r] = PopOf(g, l, list, r)
    <3>1. \A r \in Small(S, m) : r \in Small(S, m + 1)
      BY <1>1, <2>2 DEF Small
    <3> QED
      BY <2>1, <3>1
  <2>5. \A r \in Small(S, m) : h[r] = g[r]
    BY <2>4
  <2>6. \A r \in Small(S, m + 1) : PopOf(h, l, list, r) = PopOf(g, l, list, r)
    <3> HIDE DEF h
    <3> QED
      BY <2>3, <2>5 DEF PopOf
  <2>7. Pops(h, m + 1)
    BY <2>6
  <2> HIDE DEF Pops
  <2> QED
    BY <2>2, <2>7
<1>4. Good = SUBSET S
  <2> HIDE DEF Good
  <2>1. Good \in SUBSET SUBSET S
    BY DEF Good
  <2> QED
    BY <1>0, <1>2, <1>3, <2>1, SubsetsInduction
<1>5. PICK g : Pops(g, Cardinality(S))
  BY <1>4
<1>6. Small(S, Cardinality(S)) = SUBSET S
  BY <1>1 DEF Small
<1> QED
  BY <1>5, <1>6 DEF S, IsPopped

(* Removing all the listed tokens leaves a list without repetitions of the *)
(* others.                                                                 *)
LEMMA AllPopped ==
  ASSUME NEW l \in Seq(Tokens), IsInjective(l), NEW list \in Seq(Tokens), IsInjective(list),
         ToSet(list) \subseteq ToSet(l)
  PROVE  /\ FoldLeft(SwapAndPop, l, list) \in Seq(Tokens)
         /\ IsInjective(FoldLeft(SwapAndPop, l, list))
         /\ ToSet(FoldLeft(SwapAndPop, l, list)) = ToSet(l) \ ToSet(list)
<1> DEFINE S == DOMAIN list
           Eq(g) == g = [s \in SUBSET S |-> IF s = {} THEN l
                                            ELSE SwapAndPop(g[s \ {Max(s)}], list[Max(s)])]
<1>1. FoldLeft(SwapAndPop, l, list) = (CHOOSE g : Eq(g))[S]
  BY DEF FoldLeft, MapThenFoldSet
<1>2. Len(list) \in Nat /\ S = 1 .. Len(list)
  BY LenProperties
<1>3. PICK g : Eq(g) /\ g = (CHOOSE h : Eq(h))
  <2>1. \E g : IsPopped(g, l, list, S)
    <3>1. \E g : IsPopped(g, l, list, 1 .. Len(list))
      BY <1>2, PopsExist
    <3> HIDE DEF S
    <3> QED
      BY <1>2, <3>1
  <2>2. ASSUME NEW g
        PROVE  Eq(g) <=> IsPopped(g, l, list, S)
    BY Zenon DEF PopOf, IsPopped
  <2> HIDE DEF Eq, S
  <2> QED
    BY <2>1, <2>2
<1>4. \A s \in SUBSET S : s # {} => Max(s) \in s
  BY <1>2, MaxIsElement
<1>5. \A i, j \in S : list[i] = list[j] => i = j
  BY DEF IsInjective
<1>6. \A i \in S : list[i] \in ToSet(l)
  BY DEF ToSet
<1> DEFINE Gone(s) == {list[i] : i \in s}
           Good == {s \in SUBSET S : /\ g[s] \in Seq(Tokens) /\ IsInjective(g[s])
                                     /\ ToSet(g[s]) = ToSet(l) \ Gone(s)}
<1>7. {} \in Good
  BY <1>3
<1> HIDE DEF S
<1>8. ASSUME NEW s \in SUBSET S, s # {}, \A e \in s : s \ {e} \in Good
      PROVE  s \in Good
  <2> DEFINE x == Max(s)
             r == s \ {x}
  <2>1. x \in s /\ x \in S /\ r \in Good /\ r \in SUBSET S
    BY <1>4, <1>8
  <2>2. g[s] = SwapAndPop(g[r], list[x])
    BY <1>3, <1>8
  <2>3. Gone(s) = Gone(r) \cup {list[x]} /\ list[x] \notin Gone(r)
    <3> HIDE DEF x
    <3> QED
      BY <1>5, <2>1
  <2> HIDE DEF x, r, Gone
  <2>4. list[x] \in ToSet(g[r])
    BY <1>6, <2>1, <2>3
  <2>5. g[r] \in Seq(Tokens) /\ IsInjective(g[r]) /\ ToSet(g[r]) = ToSet(l) \ Gone(r)
    BY <2>1
  <2>6. /\ g[s] \in Seq(Tokens) /\ IsInjective(g[s])
        /\ ToSet(g[s]) = ToSet(g[r]) \ {list[x]}
    BY <2>2, <2>4, <2>5, Popped
  <2> QED
    BY <2>3, <2>5, <2>6
<1>9. Good = SUBSET S
  <2>1. IsFiniteSet(S)
    BY <1>2, FS_Interval
  <2> HIDE DEF Good
  <2>2. Good \in SUBSET SUBSET S
    BY DEF Good
  <2> QED
    BY <1>7, <1>8, <2>1, <2>2, SubsetsInduction
<1>10. g[S] \in Seq(Tokens) /\ IsInjective(g[S]) /\ ToSet(g[S]) = ToSet(l) \ Gone(S)
  BY <1>9
<1>11. Gone(S) = ToSet(list)
  BY DEF ToSet, S
<1> QED
  BY <1>1, <1>3, <1>10, <1>11

---------------------------------------------------------------------------
(* What the Vault owes, and how it changes with the balances.              *)

OwedBy(int, bal, t) ==
    MapThenSumSet(LAMBDA h : int[h][t], Holders)
      + MapThenSumSet(LAMBDA id : bal[id][t].cash, PoolIds)

InternalOf(int, t) == [h \in Holders |-> int[h][t]]
CashOf(bal, t) == [id \in PoolIds |-> bal[id][t].cash]

(* There are finitely many accounts and finitely many Pools that can be    *)
(* registered.                                                             *)
LEMMA FiniteDomains == IsFiniteSet(Holders) /\ IsFiniteSet(PoolIds)
<1>1. IsFiniteSet(Holders)
  <2>1. IsFiniteSet({VaultAddress, Collector})
    <3>1. IsFiniteSet({VaultAddress} \cup {Collector})
      BY FS_Singleton, FS_AddElement
    <3> QED
      BY <3>1
  <2> QED
    BY <2>1, FiniteAssumption, FS_Union DEF Holders
<1>2. IsFiniteSet(PoolIds)
  <2>1. IsFiniteSet(PoolContracts)
    BY FiniteAssumption, AddressAssumption, FS_Subset
  <2>2. IsFiniteSet(Specializations)
    <3>1. IsFiniteSet({"GENERAL"} \cup {"MINIMAL_SWAP_INFO"})
      BY FS_Singleton, FS_AddElement
    <3> QED
      BY <3>1 DEF Specializations
  <2>3. IsFiniteSet(0 .. MaxPools - 1)
    BY FS_Interval, FiniteAssumption
  <2>4. IsFiniteSet(PoolContracts \X (Specializations \X (0 .. MaxPools - 1)))
    BY <2>1, <2>2, <2>3, FS_Product
  <2> DEFINE D == PoolContracts \X (Specializations \X (0 .. MaxPools - 1))
             F == [x \in D |-> [pool |-> x[1], specialization |-> x[2][1], nonce |-> x[2][2]]]
  <2>5. F \in Surjection(D, PoolIds)
    <3>1. \A x \in D : F[x] \in PoolIds
      BY DEF PoolIds
    <3>2. ASSUME NEW id \in PoolIds
          PROVE  \E x \in D : F[x] = id
      <4>1. <<id.pool, <<id.specialization, id.nonce>>>> \in D
        BY DEF PoolIds
      <4>2. F[<<id.pool, <<id.specialization, id.nonce>>>>] = id
        BY <4>1 DEF PoolIds
      <4> QED
        BY <4>1, <4>2
    <3> HIDE DEF D
    <3> QED
      BY <3>1, <3>2 DEF Surjection
  <2> QED
    BY <2>4, <2>5, FS_Surjection
<1> QED
  BY <1>1, <1>2

(* What the Vault owes is the sum of two recursions as above.              *)
LEMMA OwedIsSum ==
  ASSUME NEW int, NEW bal, NEW t
  PROVE  \E g, h : /\ IsSum(g, InternalOf(int, t), Holders)
                   /\ IsSum(h, CashOf(bal, t), PoolIds)
                   /\ OwedBy(int, bal, t) = g[Holders] + h[PoolIds]
<1> DEFINE E1(g) == g = [s \in SUBSET Holders |-> IF s = {} THEN 0
                           ELSE int[Picked(s)][t] + g[s \ {Picked(s)}]]
           E2(g) == g = [s \in SUBSET PoolIds |-> IF s = {} THEN 0
                           ELSE bal[Picked(s)][t].cash + g[s \ {Picked(s)}]]
<1>1. OwedBy(int, bal, t) = (CHOOSE g : E1(g))[Holders] + (CHOOSE g : E2(g))[PoolIds]
  BY DEF OwedBy, MapThenSumSet, MapThenFoldSet, Picked
<1>2. \A s \in SUBSET Holders : s # {} => InternalOf(int, t)[Picked(s)] = int[Picked(s)][t]
  BY PickedIsElement DEF InternalOf
<1>3. \A s \in SUBSET PoolIds : s # {} => CashOf(bal, t)[Picked(s)] = bal[Picked(s)][t].cash
  BY PickedIsElement DEF CashOf
<1>4. \A g : E1(g) <=> IsSum(g, InternalOf(int, t), Holders)
  BY <1>2 DEF IsSum
<1>5. \A g : E2(g) <=> IsSum(g, CashOf(bal, t), PoolIds)
  BY <1>3 DEF IsSum
<1> HIDE DEF E1, E2
<1>6. E1(CHOOSE g : E1(g))
  BY <1>4, FiniteDomains, SumExists
<1>7. E2(CHOOSE g : E2(g))
  BY <1>5, FiniteDomains, SumExists
<1> QED
  BY <1>1, <1>4, <1>5, <1>6, <1>7

(* Owed is OwedBy of the balances before a step.                           *)
LEMMA OwedNow == ASSUME NEW t
                 PROVE  Owed(t) = OwedBy(internal, balances, t)
  BY DEF Owed, OwedBy

(* Owed, after a step, is OwedBy of the balances after it.                 *)
LEMMA OwedThen == ASSUME NEW t
                  PROVE  Owed(t)' = OwedBy(internal', balances', t)
  BY DEF Owed, OwedBy, MapThenSumSet, MapThenFoldSet

(* The amounts of the accounts are those of functions.                      *)
AmountsOK ==
    /\ now \in Nat
    /\ internal \in [Holders -> [Tokens -> Nat]]
    /\ balances \in [PoolIds -> [Tokens -> Balance]]
    /\ erc20 \in [Holders -> [Tokens -> Int]]

(* One or two internal balances of a token, and one Pool's cash, change.    *)
InternalMoves(t, x, v, y, w) ==
    /\ x \in Holders /\ y \in Holders /\ v \in Int /\ w \in Int
    /\ \A h \in Holders : internal'[h][t] = internal[h][t] + (IF h = x THEN v ELSE 0)
                                                           + (IF h = y THEN w ELSE 0)

CashMoves(t, p, c) ==
    /\ p \in PoolIds /\ c \in Int
    /\ \A id \in PoolIds : balances'[id][t].cash = balances[id][t].cash + (IF id = p THEN c ELSE 0)

(* How the total owed changes with two Internal Balances and one Pool's    *)
(* balance.                                                                *)
LEMMA OwedChanges ==
  ASSUME AmountsOK, AmountsOK', NEW t \in Tokens,
         NEW x, NEW y, NEW v, NEW w, InternalMoves(t, x, v, y, w),
         NEW p, NEW c, CashMoves(t, p, c)
  PROVE  Owed(t) \in Int /\ Owed(t)' = Owed(t) + v + w + c
<1>1. PICK g, k : /\ IsSum(g, InternalOf(internal, t), Holders)
                  /\ IsSum(k, CashOf(balances, t), PoolIds)
                  /\ Owed(t) = g[Holders] + k[PoolIds]
  BY OwedIsSum, OwedNow
<1>2. PICK g1, k1 : /\ IsSum(g1, InternalOf(internal', t), Holders)
                    /\ IsSum(k1, CashOf(balances', t), PoolIds)
                    /\ Owed(t)' = g1[Holders] + k1[PoolIds]
  BY OwedIsSum, OwedThen
<1>3. g[Holders] \in Int /\ g1[Holders] = g[Holders] + v + w
  <2> DEFINE a == InternalOf(internal, t)
             b == InternalOf(internal', t)
  <2>1. Changed(b, a, Holders, x, v, y, w)
    BY DEF InternalOf, AmountsOK, Changed, InternalMoves
  <2>2. IsSum(g, a, Holders) /\ IsSum(g1, b, Holders)
    BY <1>1, <1>2
  <2>3. IsFiniteSet(Holders)
    BY FiniteDomains
  <2> HIDE DEF a, b
  <2> QED
    BY <2>1, <2>2, <2>3, SumChanges
<1>4. k[PoolIds] \in Int /\ k1[PoolIds] = k[PoolIds] + c
  <2> DEFINE a == CashOf(balances, t)
             b == CashOf(balances', t)
  <2>1. Changed(b, a, PoolIds, p, c, p, 0)
    BY DEF CashOf, AmountsOK, Balance, Changed, CashMoves
  <2>2. IsSum(k, a, PoolIds) /\ IsSum(k1, b, PoolIds)
    BY <1>1, <1>2
  <2>3. k[PoolIds] \in Int /\ k1[PoolIds] = k[PoolIds] + c + 0
    <3>1. 0 \in Int
      OBVIOUS
    <3> HIDE DEF a, b
    <3> QED
      BY <2>1, <2>2, <3>1, SumChanges, FiniteDomains
  <2> QED
    BY <2>3 DEF CashMoves
<1> QED
  BY <1>1, <1>2, <1>3, <1>4 DEF InternalMoves, CashMoves
(* Only internal balances change.                                           *)
LEMMA OwedMoves ==
  ASSUME AmountsOK, AmountsOK', NEW t \in Tokens, UNCHANGED balances,
         NEW x, NEW y, NEW v, NEW w, InternalMoves(t, x, v, y, w)
  PROVE  Owed(t) \in Int /\ Owed(t)' = Owed(t) + v + w
<1>1. PICK g, k : /\ IsSum(g, InternalOf(internal, t), Holders)
                  /\ IsSum(k, CashOf(balances, t), PoolIds)
                  /\ Owed(t) = g[Holders] + k[PoolIds]
  BY OwedIsSum, OwedNow
<1>2. PICK g1, k1 : /\ IsSum(g1, InternalOf(internal', t), Holders)
                    /\ IsSum(k1, CashOf(balances, t), PoolIds)
                    /\ Owed(t)' = g1[Holders] + k1[PoolIds]
  BY OwedIsSum, OwedThen
<1>3. g[Holders] \in Int /\ g1[Holders] = g[Holders] + v + w
  <2> DEFINE a == InternalOf(internal, t)
             b == InternalOf(internal', t)
  <2>1. Changed(b, a, Holders, x, v, y, w)
    BY DEF InternalOf, AmountsOK, Changed, InternalMoves
  <2>2. IsSum(g, a, Holders) /\ IsSum(g1, b, Holders)
    BY <1>1, <1>2
  <2>3. IsFiniteSet(Holders)
    BY FiniteDomains
  <2> HIDE DEF a, b
  <2> QED
    BY <2>1, <2>2, <2>3, SumChanges
<1>4. k[PoolIds] \in Int /\ k1[PoolIds] = k[PoolIds]
  <2> DEFINE a == CashOf(balances, t)
  <2>1. \A id \in PoolIds : a[id] \in Int /\ a[id] <= a[id]
    BY DEF CashOf, AmountsOK, Balance
  <2>2. IsSum(k, a, PoolIds) /\ IsSum(k1, a, PoolIds)
    BY <1>1, <1>2
  <2> HIDE DEF a
  <2>3. k[PoolIds] \in Int /\ k1[PoolIds] \in Int /\ k1[PoolIds] <= k[PoolIds]
    BY <2>1, <2>2, SumShrinks, FiniteDomains
  <2>4. k[PoolIds] <= k1[PoolIds]
    BY <2>1, <2>2, SumShrinks, FiniteDomains
  <2> QED
    BY <2>3, <2>4
<1> QED
  BY <1>1, <1>2, <1>3, <1>4 DEF InternalMoves


---------------------------------------------------------------------------
(* What the Vault has in custody: the tokens it holds, and during a flash  *)
(* loan those it lent.                                                     *)

(* What InCustody says of some frames and accounts.                         *)
Custody(fr, acc, t) ==
    LET lending == {f \in ToSet(fr) : f.op = "FLASH_LOAN" /\ \E i \in DOMAIN f.loan : f.loan[i].token = t}
        first(f) == CHOOSE i \in DOMAIN f.loan :
                      f.loan[i].token = t /\ \A j \in 1 .. i - 1 : f.loan[j].token # t
    IN  IF lending = {} THEN acc[VaultAddress][t]
        ELSE LET f == CHOOSE f \in lending : TRUE IN f.preLoan[first(f)]

(* InCustody as a function of the calls and of the tokens held.            *)
LEMMA CustodyNow == ASSUME NEW t
                    PROVE  InCustody(t) = Custody(frames, erc20, t)
  BY DEF InCustody, Custody

(* The same after a step.                                                  *)
LEMMA CustodyThen == ASSUME NEW t
                     PROVE  InCustody(t)' = Custody(frames', erc20', t)
  BY DEF InCustody, Custody

(* With no call in progress, what is in custody is what the Vault holds.   *)
LEMMA CustodyFree == ASSUME NEW acc, NEW t
                     PROVE  Custody(<<>>, acc, t) = acc[VaultAddress][t]
<1>1. ToSet(<<>>) = {}
  BY DEF ToSet
<1> QED
  BY <1>1 DEF Custody

(* The only element of a list of one.                                      *)
LEMMA ToSetOfOne == ASSUME NEW f
                    PROVE  ToSet(<<f>>) = {f}
  BY DEF ToSet

(* Nor does a call other than a flash loan have anything of the Vault's.   *)
LEMMA CustodyCall ==
  ASSUME NEW f, NEW acc, NEW t, f.op # "FLASH_LOAN"
  PROVE  Custody(<<f>>, acc, t) = acc[VaultAddress][t]
<1>1. {g \in ToSet(<<f>>) : g.op = "FLASH_LOAN" /\ \E i \in DOMAIN g.loan : g.loan[i].token = t} = {}
  BY ToSetOfOne
<1> QED
  BY <1>1 DEF Custody

(* The lists of loans are lists of tokens and amounts.                     *)
LEMMA LoanType ==
  ASSUME NEW loan \in Loans
  PROVE  /\ DOMAIN loan \subseteq Nat \ {0}
         /\ \A i \in DOMAIN loan : loan[i].token \in Tokens /\ loan[i].token \in Nat /\ loan[i].amount \in Nat
         /\ \A i \in DOMAIN loan : \A j \in 1 .. i - 1 : j \in DOMAIN loan
<1>1. loan \in Seq([token : Tokens, amount : Nat])
  BY InputAssumption
<1>2. Len(loan) \in Nat /\ DOMAIN loan = 1 .. Len(loan)
  BY <1>1, LenProperties
<1>3. \A i \in DOMAIN loan : loan[i] \in [token : Tokens, amount : Nat]
  BY <1>1, <1>2, ElementOfSeq
<1>4. \A i \in DOMAIN loan : loan[i].token \in Tokens /\ loan[i].token \in Nat /\ loan[i].amount \in Nat
  BY <1>3, AddressAssumption
<1> QED
  BY <1>2, <1>4

(* A loan has each token once: flashLoan wants the tokens in strictly      *)
(* increasing order.                                                       *)
LEMMA LoanOnce ==
  ASSUME NEW loan \in Loans, Sorted(loan), NEW i \in DOMAIN loan, NEW j \in DOMAIN loan,
         loan[i].token = loan[j].token
  PROVE  i = j
<1>1. i \in Nat /\ j \in Nat /\ loan[i].token \in Nat
  BY LoanType
<1>2. ~(i < j) /\ ~(j < i)
  BY <1>1 DEF Sorted
<1> QED
  BY <1>1, <1>2

(* During a flash loan, what it lent counts as in custody.                 *)
LEMMA CustodyLoan ==
  ASSUME NEW f, NEW acc, NEW t, f.op = "FLASH_LOAN", f.loan \in Loans, Sorted(f.loan)
  PROVE  /\ \A i \in DOMAIN f.loan : f.loan[i].token = t => Custody(<<f>>, acc, t) = f.preLoan[i]
         /\ (\A i \in DOMAIN f.loan : f.loan[i].token # t) => Custody(<<f>>, acc, t) = acc[VaultAddress][t]
<1> DEFINE lending == {g \in ToSet(<<f>>) : g.op = "FLASH_LOAN" /\ \E i \in DOMAIN g.loan : g.loan[i].token = t}
<1>1. CASE \A i \in DOMAIN f.loan : f.loan[i].token # t
  <2>1. lending = {}
    BY <1>1, ToSetOfOne
  <2> QED
    BY <1>1, <2>1 DEF Custody
<1>2. ASSUME NEW i \in DOMAIN f.loan, f.loan[i].token = t
      PROVE  Custody(<<f>>, acc, t) = f.preLoan[i]
  <2>1. lending = {f}
    BY <1>2, ToSetOfOne
  <2>2. (CHOOSE g \in lending : TRUE) = f /\ lending # {}
    BY <2>1
  <2> DEFINE First(j) == f.loan[j].token = t /\ \A k \in 1 .. j - 1 : f.loan[k].token # t
  <2>3. \A k \in 1 .. i - 1 : f.loan[k].token # t
    <3>1. ASSUME NEW k \in 1 .. i - 1, f.loan[k].token = t
          PROVE  FALSE
      <4>1. k \in DOMAIN f.loan /\ i \in Nat
        BY LoanType
      <4>2. k = i
        BY <1>2, <3>1, <4>1, LoanOnce
      <4> QED
        BY <4>1, <4>2
    <3> QED
      BY <3>1
  <2>4. \A j \in DOMAIN f.loan : First(j) => j = i
    BY <1>2, LoanOnce
  <2>5. (CHOOSE j \in DOMAIN f.loan : First(j)) = i
    BY <1>2, <2>3, <2>4
  <2> QED
    BY <2>2, <2>5 DEF Custody
<1> QED
  BY <1>1, <1>2

(* An amount is taken from the Internal Balance and the rest from the      *)
(* tokens, never more of the first than there is.                          *)
LEMMA FromInternal ==
  ASSUME AmountsOK, NEW sender \in Holders, NEW m \in [Tokens -> Nat], NEW b \in BOOLEAN
  PROVE  /\ Deducted(sender, m, b) \in [Tokens -> Nat] /\ Remainder(sender, m, b) \in [Tokens -> Nat]
         /\ \A t \in Tokens : /\ Deducted(sender, m, b)[t] + Remainder(sender, m, b)[t] = m[t]
                              /\ Deducted(sender, m, b)[t] <= internal[sender][t]
  BY DEF AmountsOK, Deducted, Remainder

(* New balances of a call are the old ones with their cash changed.         *)
LEMMA Stored ==
  ASSUME AmountsOK, NEW f, f.id \in PoolIds, f.op # "FLASH_LOAN", Current(f),
         NEW new, DOMAIN new \subseteq DOMAIN f.tokens, StoreBalances(f, new),
         NEW d \in [Tokens -> Int],
         \A i \in DOMAIN new : f.tokens[i] \in Tokens => new[i] = ChangeCash(f.balances[i], d[f.tokens[i]], now),
         \A t \in Tokens : (\E i \in DOMAIN new : f.tokens[i] = t) \/ d[t] = 0
  PROVE  /\ balances' \in [PoolIds -> [Tokens -> Balance]]
         /\ \A t \in Tokens : CashMoves(t, f.id, d[t])
<1> DEFINE Position(t) == CHOOSE i \in DOMAIN new : f.tokens[i] = t
           row == [t \in Tokens |-> IF \E i \in DOMAIN new : f.tokens[i] = t THEN new[Position(t)]
                                    ELSE balances[f.id][t]]
<1>1. f.balances = BalancesOf(f.id, f.tokens) /\ (f.id.specialization = "GENERAL" => f.tokens = tokens[f.id])
  BY DEF Current
<1>2. balances' = [balances EXCEPT ![f.id] = row] /\ \A i \in DOMAIN new : IsBalance(new[i])
  <2> DEFINE keys == IF f.id.specialization = "GENERAL" THEN tokens[f.id] ELSE f.tokens
             Row(k) == [t \in Tokens |-> IF \E i \in DOMAIN new : k[i] = t
                                         THEN new[CHOOSE i \in DOMAIN new : k[i] = t]
                                         ELSE balances[f.id][t]]
  <2>1. balances' = [balances EXCEPT ![f.id] = Row(keys)]
    BY DEF StoreBalances
  <2>2. keys = f.tokens
    BY <1>1
  <2> HIDE DEF keys
  <2>3. Row(keys) = row
    BY <2>2
  <2> HIDE DEF Row, row
  <2> QED
    BY <2>1, <2>3 DEF StoreBalances
<1>3. \A t \in Tokens : balances[f.id][t] \in Balance
  BY DEF AmountsOK
<1>4. ASSUME NEW t \in Tokens
      PROVE  row[t] \in Balance /\ row[t].cash = balances[f.id][t].cash + d[t]
  <2>1. CASE \E i \in DOMAIN new : f.tokens[i] = t
    <3>1. Position(t) \in DOMAIN new /\ f.tokens[Position(t)] = t
      BY <2>1
    <3>2. row[t] = new[Position(t)]
      BY <2>1
    <3> HIDE DEF Position
    <3>3. f.balances[Position(t)] = balances[f.id][t]
      BY <1>1, <3>1 DEF BalancesOf
    <3>4. row[t] = ChangeCash(balances[f.id][t], d[t], now) /\ IsBalance(row[t])
      BY <1>2, <3>1, <3>2, <3>3
    <3> HIDE DEF row
    <3> QED
      BY <1>3, <3>4 DEF ChangeCash, IsBalance, Balance, AmountsOK
  <2>2. CASE ~ \E i \in DOMAIN new : f.tokens[i] = t
    <3>1. d[t] = 0 /\ row[t] = balances[f.id][t]
      BY <2>2
    <3> HIDE DEF row
    <3> QED
      BY <1>3, <3>1 DEF Balance
  <2> QED
    BY <2>1, <2>2
<1>5. row \in [Tokens -> Balance]
  BY <1>4
<1> HIDE DEF row
<1>6. balances' \in [PoolIds -> [Tokens -> Balance]]
  BY <1>2, <1>5 DEF AmountsOK
<1>7. \A id \in PoolIds : balances'[id] = IF id = f.id THEN row ELSE balances[id]
  BY <1>2 DEF AmountsOK
<1>8. \A id \in PoolIds, t \in Tokens : balances[id][t].cash + 0 = balances[id][t].cash
  BY DEF AmountsOK, Balance
<1> QED
  BY <1>4, <1>6, <1>7, <1>8 DEF CashMoves

---------------------------------------------------------------------------
(* Solvency.                                                               *)

CallOK(f) ==
    \/ /\ f.op \in Joins \cup {"SWAP"}
       /\ f.id \in PoolIds /\ f.sender \in Accounts /\ f.recipient \in Recipients
       /\ f.op \in Joins => f.useInternalBalance \in BOOLEAN
       /\ f.op = "SWAP" => /\ f.amount \in Nat
                           /\ f.tokenIn \in Tokens /\ f.tokenOut \in Tokens
                           /\ {f.tokenIn, f.tokenOut} \subseteq ToSet(f.tokens)
                           /\ f.fromInternal \in BOOLEAN /\ f.toInternal \in BOOLEAN
    \/ /\ f.op = "FLASH_LOAN"
       /\ f.loan \in Loans /\ Sorted(f.loan) /\ f.preLoan \in [DOMAIN f.loan -> Int]

AccountsInv ==
    /\ IInv
    /\ AmountsOK
    /\ nextPoolNonce \in Nat
    /\ pools \subseteq PoolIds
    /\ \A n \in DOMAIN frames : CallOK(frames[n])

(* Nothing comes in or goes out that is not accounted for.                  *)
Balanced == \A t \in Tokens : Excess(t)' = Excess(t)

NoLoan == \A t \in Tokens : InCustody(t) = erc20[VaultAddress][t]

(* The Vault, the fees collector and everybody else are different          *)
(* accounts.                                                               *)
LEMMA Addresses ==
  /\ VaultAddress \in Holders /\ Collector \in Holders /\ VaultAddress # Collector
  /\ \A a \in Accounts : a \in Holders /\ a # VaultAddress /\ a # Collector
  /\ \A r \in Recipients : r \in Holders /\ r # VaultAddress
  BY AddressAssumption, InputAssumption DEF Holders

(* Outside of flash loans what is in custody is what the Vault holds.      *)
LEMMA NotLending ==
  /\ frames = <<>> => NoLoan
  /\ frames' = <<>> => NoLoan'
  /\ \A f : f.op # "FLASH_LOAN" => (frames = <<f>> => NoLoan) /\ (frames' = <<f>> => NoLoan')
<1>1. frames = <<>> => NoLoan
  BY CustodyNow, CustodyFree DEF NoLoan
<1>2. frames' = <<>> => NoLoan'
  BY CustodyThen, CustodyFree DEF NoLoan
<1>3. ASSUME NEW f, f.op # "FLASH_LOAN", frames = <<f>>
      PROVE  NoLoan
  BY <1>3, CustodyNow, CustodyCall DEF NoLoan
<1>4. ASSUME NEW f, f.op # "FLASH_LOAN", frames' = <<f>>
      PROVE  NoLoan'
  BY <1>4, CustodyThen, CustodyCall DEF NoLoan
<1> QED
  BY <1>1, <1>2, <1>3, <1>4

(* A call that is not reentrant begins when none is in progress.           *)
LEMMA FreeNow ==
  ASSUME IInv, NonReentrant
  PROVE  frames = <<>>
  BY DEF IInv, Free, InCall, NonReentrant

(* A call that resumes is the only one, what it read is current, and it    *)
(* leaves the Vault free.                                                  *)
LEMMA Resumed ==
  ASSUME NEW ops, AccountsInv, Resume(ops)
  PROVE  \E f : frames = <<f>> /\ Frame = f /\ f.op \in ops /\ Current(f) /\ CallOK(f) /\ frames' = <<>>
<1>1. PICK f : frames = <<f>> /\ Current(f)
  BY DEF AccountsInv, IInv, Free, InCall, Resume
<1>2. Frame = f
  BY <1>1 DEF Frame, Last
<1>3. frames' = <<>>
  <2>1. Front(frames) = SubSeq(<<f>>, 1, 0)
    BY <1>1 DEF Front
  <2> QED
    BY <2>1, SubSeqEmpty DEF Resume
<1>4. CallOK(f)
  BY <1>1 DEF AccountsInv
<1> QED
  BY <1>1, <1>2, <1>3, <1>4 DEF Resume, Frame

(* What the Vault takes in is what it owes more.                            *)
Settles(x, v, y, w, p, c) ==
    \A t \in Tokens :
        /\ InternalMoves(t, x, v[t], y, w[t])
        /\ CashMoves(t, p, c[t])
        /\ erc20'[VaultAddress][t] = erc20[VaultAddress][t] + v[t] + w[t] + c[t]

SettlesInternally(x, v, y, w) ==
    \A t \in Tokens :
        /\ InternalMoves(t, x, v[t], y, w[t])
        /\ erc20'[VaultAddress][t] = erc20[VaultAddress][t] + v[t] + w[t]

(* What comes in and what is owed more balance: the books by token.        *)
LEMMA Accounted ==
  ASSUME AmountsOK, AmountsOK', NoLoan, NoLoan',
         NEW x, NEW v, NEW y, NEW w, NEW p, NEW c, Settles(x, v, y, w, p, c)
  PROVE  Balanced
<1> SUFFICES ASSUME NEW t \in Tokens
             PROVE  Excess(t)' = Excess(t)
  BY DEF Balanced
<1>1. v[t] \in Int /\ w[t] \in Int /\ c[t] \in Int
  BY DEF InternalMoves, CashMoves, Settles
<1>2. Owed(t) \in Int /\ Owed(t)' = Owed(t) + v[t] + w[t] + c[t]
  BY OwedChanges DEF Settles
<1>3. InCustody(t) \in Int /\ InCustody(t)' = InCustody(t) + v[t] + w[t] + c[t]
  BY Addresses DEF NoLoan, AmountsOK, Settles
<1>4. Excess(t) = InCustody(t) - Owed(t) /\ Excess(t)' = InCustody(t)' - Owed(t)'
  BY DEF Excess
<1> QED
  BY <1>1, <1>2, <1>3, <1>4

(* The same when the step says what it does by token.                      *)
LEMMA AccountedMoves ==
  ASSUME AmountsOK, AmountsOK', NoLoan, NoLoan', UNCHANGED balances,
         NEW x, NEW v, NEW y, NEW w, SettlesInternally(x, v, y, w)
  PROVE  Balanced
<1> SUFFICES ASSUME NEW t \in Tokens
             PROVE  Excess(t)' = Excess(t)
  BY DEF Balanced
<1>1. v[t] \in Int /\ w[t] \in Int
  BY DEF InternalMoves, SettlesInternally
<1>2. Owed(t) \in Int /\ Owed(t)' = Owed(t) + v[t] + w[t]
  BY OwedMoves DEF SettlesInternally
<1>3. InCustody(t) \in Int /\ InCustody(t)' = InCustody(t) + v[t] + w[t]
  BY Addresses DEF NoLoan, AmountsOK, SettlesInternally
<1>4. Excess(t) = InCustody(t) - Owed(t) /\ Excess(t)' = InCustody(t)' - Owed(t)'
  BY DEF Excess
<1> QED
  BY <1>1, <1>2, <1>3, <1>4

(* The amounts a Pool answers with are amounts.                            *)
LEMMA Answers ==
  ASSUME NEW f, NEW values \in SUBSET Nat, NEW m \in PerToken(f, values)
  PROVE  m \in [Tokens -> Nat] /\ \A t \in Tokens : t \notin ToSet(f.tokens) => m[t] = 0
<1>1. PICK a \in [ToSet(f.tokens) -> values] : m = [t \in Tokens |-> IF t \in ToSet(f.tokens) THEN a[t] ELSE 0]
  BY DEF PerToken
<1> QED
  BY <1>1

(* A join takes what it adds to the Pool and pays what it takes off as     *)
(* fees.                                                                   *)
LEMMA EndJoinBalanced ==
  ASSUME AccountsInv, EndJoin
  PROVE  AmountsOK' /\ Balanced
<1>1. PICK f : frames = <<f>> /\ Frame = f /\ f.op = "JOIN" /\ Current(f) /\ CallOK(f) /\ frames' = <<>>
  BY Resumed DEF EndJoin
<1>2. f.id \in PoolIds /\ f.sender \in Accounts /\ f.useInternalBalance \in BOOLEAN /\ f.op # "FLASH_LOAN"
  BY <1>1 DEF CallOK, Joins
<1>3. AmountsOK /\ now' = now
  BY DEF AccountsInv, EndJoin, permissionVars
<1>4. PICK m \in PerToken(f, Amounts), fees \in PerToken(f, DueFees) : ProcessJoin(f, m, fees)
  BY <1>1 DEF EndJoin
<1>5. /\ m \in [Tokens -> Nat] /\ fees \in [Tokens -> Nat]
      /\ \A t \in Tokens : t \notin ToSet(f.tokens) => m[t] = 0 /\ fees[t] = 0
  BY Answers, InputAssumption
<1> DEFINE pulled == Remainder(f.sender, m, f.useInternalBalance)
           deducted == Deducted(f.sender, m, f.useInternalBalance)
           received == Transfer(erc20, f.sender, VaultAddress, pulled)
           d == [t \in Tokens |-> m[t] - fees[t]]
           v == [t \in Tokens |-> -deducted[t]]
           zero == [t \in Tokens |-> 0]
           new == [i \in DOMAIN f.tokens |->
                     ChangeCash(f.balances[i], m[f.tokens[i]] - fees[f.tokens[i]], now)]
<1>6. /\ f.sender \in Holders /\ f.sender # VaultAddress /\ f.sender # Collector
      /\ VaultAddress \in Holders /\ Collector \in Holders /\ VaultAddress # Collector
  BY <1>2, Addresses
<1>7. /\ deducted \in [Tokens -> Nat] /\ pulled \in [Tokens -> Nat]
      /\ \A t \in Tokens : deducted[t] + pulled[t] = m[t] /\ deducted[t] <= internal[f.sender][t]
  BY <1>2, <1>3, <1>5, <1>6, FromInternal
<1>8. /\ erc20' = Transfer(received, VaultAddress, Collector, fees)
      /\ internal' = Debit(internal, f.sender, deducted)
      /\ StoreBalances(f, new)
  BY <1>4 DEF ProcessJoin
<1> HIDE DEF pulled, deducted
<1>9. /\ erc20' \in [Holders -> [Tokens -> Int]]
      /\ \A t \in Tokens : erc20'[VaultAddress][t] = erc20[VaultAddress][t] + pulled[t] - fees[t]
  <2>1. erc20 \in [Holders -> [Tokens -> Int]]
    BY <1>3 DEF AmountsOK
  <2>2. /\ received \in [Holders -> [Tokens -> Int]]
        /\ \A t \in Tokens : received[VaultAddress][t] = erc20[VaultAddress][t] + pulled[t]
    BY <1>6, <1>7, <2>1 DEF Transfer
  <2> HIDE DEF received
  <2>3. /\ erc20' \in [Holders -> [Tokens -> Int]]
        /\ \A t \in Tokens : erc20'[VaultAddress][t] = received[VaultAddress][t] - fees[t]
    BY <1>5, <1>6, <1>8, <2>2 DEF Transfer
  <2>4. \A t \in Tokens : erc20[VaultAddress][t] \in Int /\ pulled[t] \in Int /\ fees[t] \in Int
    BY <1>5, <1>6, <1>7, <2>1
  <2> QED
    BY <2>2, <2>3, <2>4
<1>10. /\ internal' \in [Holders -> [Tokens -> Nat]]
       /\ \A t \in Tokens : InternalMoves(t, f.sender, v[t], f.sender, zero[t])
  BY <1>3, <1>6, <1>7, <1>8 DEF Debit, AmountsOK, InternalMoves
<1>11. /\ balances' \in [PoolIds -> [Tokens -> Balance]]
       /\ \A t \in Tokens : CashMoves(t, f.id, d[t])
  <2>1. d \in [Tokens -> Int] /\ DOMAIN new \subseteq DOMAIN f.tokens
    BY <1>5
  <2>2. \A i \in DOMAIN new : f.tokens[i] \in Tokens => new[i] = ChangeCash(f.balances[i], d[f.tokens[i]], now)
    OBVIOUS
  <2>3. \A t \in Tokens : (\E i \in DOMAIN new : f.tokens[i] = t) \/ d[t] = 0
    BY <1>5 DEF ToSet
  <2> HIDE DEF d, new
  <2> QED
    BY <1>1, <1>2, <1>3, <1>8, <2>1, <2>2, <2>3, Stored
<1>12. AmountsOK'
  BY <1>3, <1>9, <1>10, <1>11 DEF AmountsOK
<1>13. v \in [Tokens -> Int] /\ zero \in [Tokens -> Int] /\ d \in [Tokens -> Int]
  BY <1>5, <1>7
<1>14. \A t \in Tokens : erc20'[VaultAddress][t] = erc20[VaultAddress][t] + v[t] + zero[t] + d[t]
  <2>1. \A t \in Tokens : /\ erc20[VaultAddress][t] \in Int /\ pulled[t] \in Int /\ fees[t] \in Int
                          /\ deducted[t] \in Int /\ m[t] = deducted[t] + pulled[t]
    BY <1>3, <1>5, <1>6, <1>7 DEF AmountsOK
  <2> QED
    BY <1>9, <2>1
<1> HIDE DEF d, v, zero
<1>15. NoLoan /\ NoLoan'
  BY <1>1, <1>2, NotLending
<1>16. Settles(f.sender, v, f.sender, zero, f.id, d)
  BY <1>10, <1>11, <1>14 DEF Settles
<1>17. Balanced
  BY <1>3, <1>12, <1>15, <1>16, Accounted
<1> QED
  BY <1>12, <1>17

(* An exit pays what it takes from the Pool, to the recipient and as fees. *)
LEMMA EndExitBalanced ==
  ASSUME AccountsInv, EndExit
  PROVE  AmountsOK' /\ Balanced
<1>1. PICK f : frames = <<f>> /\ Frame = f /\ f.op = "EXIT" /\ Current(f) /\ CallOK(f) /\ frames' = <<>>
  BY Resumed DEF EndExit
<1>2. f.id \in PoolIds /\ f.recipient \in Recipients /\ f.useInternalBalance \in BOOLEAN /\ f.op # "FLASH_LOAN"
  BY <1>1 DEF CallOK, Joins
<1>3. AmountsOK /\ now' = now
  BY DEF AccountsInv, EndExit, permissionVars
<1>4. PICK m \in PerToken(f, Amounts), fees \in PerToken(f, DueFees) : ProcessExit(f, m, fees)
  BY <1>1 DEF EndExit
<1>5. /\ m \in [Tokens -> Nat] /\ fees \in [Tokens -> Nat]
      /\ \A t \in Tokens : t \notin ToSet(f.tokens) => m[t] = 0 /\ fees[t] = 0
  BY Answers, InputAssumption
<1> DEFINE sent == IF f.useInternalBalance THEN Nothing ELSE m
           kept == IF f.useInternalBalance THEN m ELSE Nothing
           remaining == Transfer(erc20, VaultAddress, f.recipient, sent)
           d == [t \in Tokens |-> -(m[t] + fees[t])]
           new == [i \in DOMAIN f.tokens |->
                     ChangeCash(f.balances[i], -(m[f.tokens[i]] + fees[f.tokens[i]]), now)]
<1>6. /\ f.recipient \in Holders /\ f.recipient # VaultAddress
      /\ VaultAddress \in Holders /\ Collector \in Holders /\ VaultAddress # Collector
  BY <1>2, Addresses
<1>7. /\ sent \in [Tokens -> Nat] /\ kept \in [Tokens -> Nat] /\ Nothing \in [Tokens -> Int]
      /\ \A t \in Tokens : sent[t] + kept[t] = m[t] /\ Nothing[t] = 0
  BY <1>2, <1>5 DEF Nothing
<1>8. /\ erc20' = Transfer(remaining, VaultAddress, Collector, fees)
      /\ internal' = IF f.useInternalBalance THEN Credit(internal, f.recipient, m) ELSE internal
      /\ StoreBalances(f, new)
  BY <1>4 DEF ProcessExit
<1> HIDE DEF sent
<1>9. /\ erc20' \in [Holders -> [Tokens -> Int]]
      /\ \A t \in Tokens : erc20'[VaultAddress][t] = erc20[VaultAddress][t] - sent[t] - fees[t]
  <2>1. erc20 \in [Holders -> [Tokens -> Int]]
    BY <1>3 DEF AmountsOK
  <2>2. /\ remaining \in [Holders -> [Tokens -> Int]]
        /\ \A t \in Tokens : remaining[VaultAddress][t] = erc20[VaultAddress][t] - sent[t]
    BY <1>6, <1>7, <2>1 DEF Transfer
  <2> HIDE DEF remaining
  <2>3. /\ erc20' \in [Holders -> [Tokens -> Int]]
        /\ \A t \in Tokens : erc20'[VaultAddress][t] = remaining[VaultAddress][t] - fees[t]
    BY <1>5, <1>6, <1>8, <2>2 DEF Transfer
  <2>4. \A t \in Tokens : erc20[VaultAddress][t] \in Int /\ sent[t] \in Int /\ fees[t] \in Int
    BY <1>5, <1>6, <1>7, <2>1
  <2> QED
    BY <2>2, <2>3, <2>4
<1>10. /\ internal' \in [Holders -> [Tokens -> Nat]]
       /\ \A t \in Tokens : InternalMoves(t, f.recipient, kept[t], f.recipient, Nothing[t])
  <2>1. CASE f.useInternalBalance
    BY <1>3, <1>5, <1>6, <1>7, <1>8, <2>1 DEF Credit, AmountsOK, InternalMoves
  <2>2. CASE ~f.useInternalBalance
    BY <1>3, <1>6, <1>7, <1>8, <2>2 DEF AmountsOK, InternalMoves
  <2> QED
    BY <2>1, <2>2
<1>11. /\ balances' \in [PoolIds -> [Tokens -> Balance]]
       /\ \A t \in Tokens : CashMoves(t, f.id, d[t])
  <2>1. d \in [Tokens -> Int] /\ DOMAIN new \subseteq DOMAIN f.tokens
    BY <1>5
  <2>2. \A i \in DOMAIN new : f.tokens[i] \in Tokens => new[i] = ChangeCash(f.balances[i], d[f.tokens[i]], now)
    OBVIOUS
  <2>3. \A t \in Tokens : (\E i \in DOMAIN new : f.tokens[i] = t) \/ d[t] = 0
    BY <1>5 DEF ToSet
  <2> HIDE DEF d, new
  <2> QED
    BY <1>1, <1>2, <1>3, <1>8, <2>1, <2>2, <2>3, Stored
<1>12. AmountsOK'
  BY <1>3, <1>9, <1>10, <1>11 DEF AmountsOK
<1>13. \A t \in Tokens : erc20'[VaultAddress][t] = erc20[VaultAddress][t] + kept[t] + Nothing[t] + d[t]
  <2>1. \A t \in Tokens : /\ erc20[VaultAddress][t] \in Int /\ sent[t] \in Int /\ fees[t] \in Int
                          /\ kept[t] \in Int /\ m[t] = sent[t] + kept[t] /\ Nothing[t] = 0
    BY <1>3, <1>5, <1>6, <1>7 DEF AmountsOK
  <2> HIDE DEF kept
  <2> QED
    BY <1>9, <2>1
<1>14. NoLoan /\ NoLoan'
  BY <1>1, <1>2, NotLending
<1> HIDE DEF d, kept
<1>15. Settles(f.recipient, kept, f.recipient, Nothing, f.id, d)
  BY <1>10, <1>11, <1>13 DEF Settles
<1>16. Balanced
  BY <1>3, <1>12, <1>14, <1>15, Accounted
<1> QED
  BY <1>12, <1>16

(* A swap moves in what it adds to the Pool and out what it takes from it. *)
LEMMA ProcessSwapBalanced ==
  ASSUME AccountsInv, NEW f, frames = <<f>>, frames' = <<>>, f.op = "SWAP", Current(f), CallOK(f), now' = now,
         NEW amountIn \in Nat, NEW amountOut \in Nat, ProcessSwap(f, amountIn, amountOut)
  PROVE  AmountsOK' /\ Balanced
<1>1. /\ f.id \in PoolIds /\ f.sender \in Accounts /\ f.recipient \in Recipients /\ f.op # "FLASH_LOAN"
      /\ f.tokenIn \in Tokens /\ f.tokenOut \in Tokens /\ {f.tokenIn, f.tokenOut} \subseteq ToSet(f.tokens)
      /\ f.fromInternal \in BOOLEAN /\ f.toInternal \in BOOLEAN
  BY DEF CallOK, Joins
<1>2. AmountsOK
  BY DEF AccountsInv
<1> DEFINE in == Only(f.tokenIn, amountIn)
           out == Only(f.tokenOut, amountOut)
           pulled == Remainder(f.sender, in, f.fromInternal)
           deducted == Deducted(f.sender, in, f.fromInternal)
           sent == IF f.toInternal THEN Nothing ELSE out
           kept == IF f.toInternal THEN out ELSE Nothing
           received == Transfer(erc20, f.sender, VaultAddress, pulled)
           spent == Debit(internal, f.sender, deducted)
           v == [t \in Tokens |-> -deducted[t]]
           d == [t \in Tokens |-> in[t] - out[t]]
           swapped == {i \in DOMAIN f.tokens : f.tokens[i] \in {f.tokenIn, f.tokenOut}}
           new == [i \in swapped |-> ChangeCash(f.balances[i], in[f.tokens[i]] - out[f.tokens[i]], now)]
<1>3. /\ f.sender \in Holders /\ f.sender # VaultAddress /\ f.sender # Collector
      /\ f.recipient \in Holders /\ f.recipient # VaultAddress /\ VaultAddress \in Holders
  BY <1>1, Addresses
<1>4. /\ in \in [Tokens -> Nat] /\ out \in [Tokens -> Nat]
      /\ \A t \in Tokens : t \notin {f.tokenIn, f.tokenOut} => in[t] = 0 /\ out[t] = 0
  BY <1>1 DEF Only
<1>5. /\ erc20' = Transfer(received, VaultAddress, f.recipient, sent)
      /\ internal' = IF f.toInternal THEN Credit(spent, f.recipient, out) ELSE spent
      /\ StoreBalances(f, new)
  BY DEF ProcessSwap
<1> HIDE DEF in, out
<1>6. /\ deducted \in [Tokens -> Nat] /\ pulled \in [Tokens -> Nat]
      /\ \A t \in Tokens : deducted[t] + pulled[t] = in[t] /\ deducted[t] <= internal[f.sender][t]
  BY <1>1, <1>2, <1>3, <1>4, FromInternal
<1> HIDE DEF pulled, deducted
<1>7. /\ sent \in [Tokens -> Nat] /\ kept \in [Tokens -> Nat]
      /\ \A t \in Tokens : sent[t] + kept[t] = out[t]
  BY <1>1, <1>4 DEF Nothing
<1>8. spent \in [Holders -> [Tokens -> Nat]]
      /\ \A h \in Holders, t \in Tokens : spent[h][t] = internal[h][t] + (IF h = f.sender THEN v[t] ELSE 0)
  BY SMTT(30), <1>2, <1>3, <1>6 DEF Debit, AmountsOK
<1>9. /\ internal' \in [Holders -> [Tokens -> Nat]]
      /\ \A t \in Tokens : InternalMoves(t, f.sender, v[t], f.recipient, kept[t])
  <2>1. \A t \in Tokens : v[t] \in Int /\ kept[t] \in Int
    BY <1>6, <1>7
  <2>2. CASE f.toInternal
    <3>1. kept = out /\ internal' = Credit(spent, f.recipient, out)
      BY <1>5, <2>2
    <3> HIDE DEF spent, kept, v
    <3>2. \A h \in Holders, t \in Tokens : internal'[h][t] = spent[h][t] + (IF h = f.recipient THEN kept[t] ELSE 0)
      BY <1>3, <1>4, <1>8, <3>1 DEF Credit
    <3>3. internal' \in [Holders -> [Tokens -> Nat]]
      BY <1>3, <1>4, <1>8, <3>1 DEF Credit
    <3> QED
      BY <1>3, <1>8, <2>1, <3>2, <3>3 DEF InternalMoves
  <2>3. CASE ~f.toInternal
    <3>1. internal' = spent /\ \A t \in Tokens : kept[t] = 0
      BY <1>5, <2>3 DEF Nothing
    <3>2. \A h \in Holders, t \in Tokens : internal[h][t] \in Int
      BY <1>2 DEF AmountsOK
    <3> HIDE DEF spent, kept, v
    <3> QED
      BY <1>3, <1>8, <2>1, <3>1, <3>2 DEF InternalMoves
  <2> QED
    BY <1>1, <2>2, <2>3
<1>10. /\ erc20' \in [Holders -> [Tokens -> Int]]
       /\ \A t \in Tokens : erc20'[VaultAddress][t] = erc20[VaultAddress][t] + pulled[t] - sent[t]
  <2>1. erc20 \in [Holders -> [Tokens -> Int]]
    BY <1>2 DEF AmountsOK
  <2> HIDE DEF sent
  <2>2. /\ received \in [Holders -> [Tokens -> Int]]
        /\ \A t \in Tokens : received[VaultAddress][t] = erc20[VaultAddress][t] + pulled[t]
    BY SMTT(30), <1>3, <1>6, <2>1 DEF Transfer
  <2> HIDE DEF received
  <2>3. /\ erc20' \in [Holders -> [Tokens -> Int]]
        /\ \A t \in Tokens : erc20'[VaultAddress][t] = received[VaultAddress][t] - sent[t]
    <3>1. erc20' = Transfer(received, VaultAddress, f.recipient, sent) /\ sent \in [Tokens -> Nat]
      BY <1>5, <1>7
    <3> QED
      BY SMTT(30), <1>3, <2>2, <3>1 DEF Transfer
  <2>4. \A t \in Tokens : erc20[VaultAddress][t] \in Int /\ pulled[t] \in Int /\ sent[t] \in Int
    BY <1>3, <1>6, <1>7, <2>1
  <2> QED
    BY <2>2, <2>3, <2>4
<1>11. /\ balances' \in [PoolIds -> [Tokens -> Balance]]
       /\ \A t \in Tokens : CashMoves(t, f.id, d[t])
  <2>1. d \in [Tokens -> Int] /\ DOMAIN new \subseteq DOMAIN f.tokens
    BY <1>4
  <2>2. \A i \in DOMAIN new : f.tokens[i] \in Tokens => new[i] = ChangeCash(f.balances[i], d[f.tokens[i]], now)
    OBVIOUS
  <2>3. \A t \in Tokens : (\E i \in DOMAIN new : f.tokens[i] = t) \/ d[t] = 0
    <3>1. ASSUME NEW t \in Tokens
          PROVE  (\E i \in DOMAIN new : f.tokens[i] = t) \/ d[t] = 0
      <4>1. CASE t \in {f.tokenIn, f.tokenOut}
        <5>1. PICK i \in DOMAIN f.tokens : f.tokens[i] = t
          BY <1>1, <4>1 DEF ToSet
        <5> QED
          BY <4>1, <5>1
      <4>2. CASE t \notin {f.tokenIn, f.tokenOut}
        BY <1>4, <4>2
      <4> QED
        BY <4>1, <4>2
    <3> QED
      BY <3>1
  <2> HIDE DEF d, new
  <2> QED
    BY <1>1, <1>2, <1>5, <2>1, <2>2, <2>3, Stored
<1>12. AmountsOK'
  BY <1>2, <1>9, <1>10, <1>11 DEF AmountsOK
<1>13. \A t \in Tokens : erc20'[VaultAddress][t] = erc20[VaultAddress][t] + v[t] + kept[t] + d[t]
  <2>1. \A t \in Tokens : /\ erc20[VaultAddress][t] \in Int /\ sent[t] \in Int /\ pulled[t] \in Int
                          /\ kept[t] \in Int /\ deducted[t] \in Int
                          /\ out[t] = sent[t] + kept[t] /\ in[t] = deducted[t] + pulled[t]
    BY <1>2, <1>3, <1>4, <1>6, <1>7 DEF AmountsOK
  <2> HIDE DEF kept, sent
  <2>2. \A t \in Tokens : v[t] = -deducted[t] /\ d[t] = in[t] - out[t]
    OBVIOUS
  <2> HIDE DEF v, d
  <2>3. ASSUME NEW t \in Tokens
        PROVE  erc20'[VaultAddress][t] = erc20[VaultAddress][t] + v[t] + kept[t] + d[t]
    <3>1. /\ erc20[VaultAddress][t] \in Int /\ sent[t] \in Int /\ pulled[t] \in Int
          /\ kept[t] \in Int /\ deducted[t] \in Int
          /\ out[t] = sent[t] + kept[t] /\ in[t] = deducted[t] + pulled[t]
          /\ v[t] = -deducted[t] /\ d[t] = in[t] - out[t]
          /\ erc20'[VaultAddress][t] = erc20[VaultAddress][t] + pulled[t] - sent[t]
      BY <1>10, <2>1, <2>2
    <3> QED
      BY SMTT(30), <3>1
  <2> QED
    BY <2>3
<1>14. NoLoan /\ NoLoan'
  BY <1>1, NotLending
<1> HIDE DEF d, kept, v
<1>15. Settles(f.sender, v, f.recipient, kept, f.id, d)
  BY <1>9, <1>11, <1>13 DEF Settles
<1>16. Balanced
  BY <1>2, <1>12, <1>14, <1>15, Accounted
<1> QED
  BY <1>12, <1>16

(* The same for the step that ends a swap.                                 *)
LEMMA EndSwapBalanced ==
  ASSUME AccountsInv, EndSwap
  PROVE  AmountsOK' /\ Balanced
<1>1. PICK f : frames = <<f>> /\ Frame = f /\ f.op = "SWAP" /\ Current(f) /\ CallOK(f) /\ frames' = <<>>
  BY Resumed DEF EndSwap
<1>2. f.amount \in Nat
  BY <1>1 DEF CallOK, Joins
<1>3. \E calculated \in Nat : ProcessSwap(f, f.amount, calculated) \/ ProcessSwap(f, calculated, f.amount)
  BY <1>1, InputAssumption DEF EndSwap
<1>4. now' = now
  BY DEF EndSwap, permissionVars
<1> QED
  BY <1>1, <1>2, <1>3, <1>4, ProcessSwapBalanced

Conserved ==
    \A t \in Tokens : Excess(t)' # Excess(t) =>
      erc20'[VaultAddress][t] > erc20[VaultAddress][t] /\ Owed(t)' = Owed(t)

NoLess == \A t \in Tokens : Excess(t)' >= Excess(t)

CallsOK == \A n \in DOMAIN frames : CallOK(frames[n])

(* What a step that calls and returns leaves in custody.                    *)
LEMMA OwedIsInt ==
  ASSUME AmountsOK, NEW t \in Tokens
  PROVE  Owed(t) \in Int
<1>1. PICK g, k : /\ IsSum(g, InternalOf(internal, t), Holders)
                  /\ IsSum(k, CashOf(balances, t), PoolIds)
                  /\ Owed(t) = g[Holders] + k[PoolIds]
  BY OwedIsSum, OwedNow
<1> DEFINE a == InternalOf(internal, t)
           b == CashOf(balances, t)
<1>2. \A h \in Holders : a[h] \in Int
  BY DEF InternalOf, AmountsOK
<1>3. \A id \in PoolIds : b[id] \in Int
  BY DEF CashOf, AmountsOK, Balance
<1> HIDE DEF a, b
<1>4. IsSum(g, a, Holders) /\ IsSum(k, b, PoolIds)
  BY <1>1 DEF a, b
<1>5. g[Holders] \in Int
  BY <1>2, <1>4, FiniteDomains, SumType
<1>6. k[PoolIds] \in Int
  BY <1>3, <1>4, FiniteDomains, SumType
<1> QED
  BY <1>1, <1>5, <1>6

(* Owed is an integer after a step that keeps the balances numbers.        *)
LEMMA OwedIsIntThen == AmountsOK' => \A t \in Tokens : Owed(t)' \in Int
<1> DEFINE P == \A t \in Tokens : Owed(t) \in Int
<1>1. AmountsOK => P
  BY OwedIsInt
<1> HIDE DEF P
<1>2. AmountsOK' => P'
  BY <1>1, PTL
<1> QED
  BY <1>2 DEF P

(* At most one call is in progress.                                        *)
LEMMA OneCall ==
  ASSUME AccountsInv
  PROVE  frames = <<>> \/ \E f : frames = <<f>> /\ Current(f) /\ CallOK(f)
<1>1. frames = <<>> \/ \E f : frames = <<f>> /\ Current(f)
  BY DEF AccountsInv, IInv, Free, InCall
<1> QED
  BY <1>1 DEF AccountsInv

(* It is a flash loan or it is not.                                        *)
LEMMA CallIsLoanOrNot ==
  ASSUME NEW f, CallOK(f)
  PROVE  f.op # "FLASH_LOAN" \/ (/\ f.op = "FLASH_LOAN" /\ f.loan \in Loans /\ Sorted(f.loan)
                                 /\ f.preLoan \in [DOMAIN f.loan -> Int])
  BY DEF CallOK, Joins

(* Custody is a function of the Vault's tokens, or of the loan.             *)
LEMMA CustodyIs ==
  ASSUME AccountsInv, NEW t \in Tokens
  PROVE  \/ \A acc : Custody(frames, acc, t) = acc[VaultAddress][t]
         \/ \E n \in Int : \A acc : Custody(frames, acc, t) = n
<1>1. CASE frames = <<>>
  BY <1>1, CustodyFree
<1>2. ASSUME NEW f, frames = <<f>>, CallOK(f)
      PROVE  \/ \A acc : Custody(frames, acc, t) = acc[VaultAddress][t]
             \/ \E n \in Int : \A acc : Custody(frames, acc, t) = n
  <2>1. CASE f.op # "FLASH_LOAN"
    BY <1>2, <2>1, CustodyCall
  <2>2. CASE f.op = "FLASH_LOAN"
    <3>1. f.loan \in Loans /\ Sorted(f.loan) /\ f.preLoan \in [DOMAIN f.loan -> Int]
      BY <1>2, <2>2, CallIsLoanOrNot
    <3>2. CASE \A i \in DOMAIN f.loan : f.loan[i].token # t
      BY <1>2, <2>2, <3>1, <3>2, CustodyLoan
    <3>3. ASSUME NEW i \in DOMAIN f.loan, f.loan[i].token = t
          PROVE  \E n \in Int : \A acc : Custody(frames, acc, t) = n
      <4>1. f.preLoan[i] \in Int
        BY <3>1
      <4>2. \A acc : Custody(frames, acc, t) = f.preLoan[i]
        BY <1>2, <2>2, <3>1, <3>3, CustodyLoan
      <4> QED
        BY <4>1, <4>2
    <3> QED
      BY <3>2, <3>3
  <2> QED
    BY <2>1, <2>2
<1> QED
  BY <1>1, <1>2, OneCall

(* What is in custody and what is owed are integers, and so is their       *)
(* difference.                                                             *)
LEMMA ExcessIsInt ==
  ASSUME AccountsInv, NEW t \in Tokens
  PROVE  InCustody(t) \in Int /\ Owed(t) \in Int /\ Excess(t) \in Int
<1>1. AmountsOK
  BY DEF AccountsInv
<1>2. Owed(t) \in Int
  BY <1>1, OwedIsInt
<1>3. erc20[VaultAddress][t] \in Int
  BY <1>1, Addresses DEF AmountsOK
<1>4. InCustody(t) \in Int
  BY <1>3, CustodyIs, CustodyNow
<1> QED
  BY <1>2, <1>4 DEF Excess

(* A step that balances neither takes from the excess nor adds to it.      *)
LEMMA BalancedIsNoLess ==
  ASSUME AccountsInv, Balanced
  PROVE  NoLess /\ Conserved
  BY ExcessIsInt DEF NoLess, Balanced, Conserved

(* Steps that leave the accounts of the Vault alone.                        *)
LEMMA OwedStays ==
  ASSUME UNCHANGED <<internal, balances>>, NEW t
  PROVE  Owed(t)' = Owed(t)
  BY OwedNow, OwedThen

(* A transfer of tokens to the Vault from outside is all excess.           *)
LEMMA DonationIsConserved ==
  ASSUME AccountsInv, UNCHANGED <<frames, now, internal, balances>>,
         erc20' \in [Holders -> [Tokens -> Int]],
         \A t \in Tokens : erc20'[VaultAddress][t] >= erc20[VaultAddress][t]
  PROVE  AmountsOK' /\ NoLess /\ Conserved
<1>1. AmountsOK /\ AmountsOK'
  BY DEF AccountsInv, AmountsOK
<1>2. ASSUME NEW t \in Tokens
      PROVE  /\ Excess(t)' >= Excess(t)
             /\ Excess(t)' # Excess(t) => erc20'[VaultAddress][t] > erc20[VaultAddress][t] /\ Owed(t)' = Owed(t)
  <2>1. Owed(t)' = Owed(t) /\ Owed(t) \in Int
    BY <1>1, OwedStays, OwedIsInt
  <2>2. /\ erc20[VaultAddress][t] \in Int /\ erc20'[VaultAddress][t] \in Int
        /\ erc20'[VaultAddress][t] >= erc20[VaultAddress][t]
    BY <1>1, Addresses DEF AmountsOK
  <2>3. InCustody(t) = Custody(frames, erc20, t) /\ InCustody(t)' = Custody(frames, erc20', t)
    BY CustodyNow, CustodyThen
  <2>4. \/ InCustody(t) = erc20[VaultAddress][t] /\ InCustody(t)' = erc20'[VaultAddress][t]
        \/ InCustody(t) \in Int /\ InCustody(t)' = InCustody(t)
    BY <2>3, CustodyIs
  <2>5. Excess(t) = InCustody(t) - Owed(t) /\ Excess(t)' = InCustody(t)' - Owed(t)'
    BY DEF Excess
  <2> QED
    BY <2>1, <2>2, <2>4, <2>5
<1> QED
  BY <1>1, <1>2 DEF NoLess, Conserved

(* A step that moves no tokens conserves the funds.                        *)
LEMMA NothingMoves ==
  ASSUME AccountsInv, UNCHANGED <<frames, now, internal, balances, erc20>>
  PROVE  AmountsOK' /\ NoLess /\ Conserved
<1>1. erc20' \in [Holders -> [Tokens -> Int]]
  BY DEF AccountsInv, AmountsOK
<1>2. \A t \in Tokens : erc20[VaultAddress][t] \in Int
  BY Addresses DEF AccountsInv, AmountsOK
<1>3. \A t \in Tokens : erc20'[VaultAddress][t] >= erc20[VaultAddress][t]
  BY <1>2
<1> QED
  BY <1>1, <1>3, DonationIsConserved

(* A call that begins.                                                      *)
LEMMA Begun ==
  ASSUME AccountsInv, NonReentrant, NEW f, CallHook(f), CallOK(f)
  PROVE  frames = <<>> /\ frames' = <<f>> /\ CallsOK'
<1>1. frames = <<>>
  BY FreeNow DEF AccountsInv
<1>2. frames' = <<f>>
  BY <1>1 DEF CallHook
<1> QED
  BY <1>1, <1>2 DEF CallsOK

(* A call that reaches its hook without having moved anything conserves    *)
(* the funds.                                                              *)
LEMMA HookMovesNothing ==
  ASSUME AccountsInv, NonReentrant, NEW f, CallHook(f), CallOK(f), f.op # "FLASH_LOAN",
         UNCHANGED <<now, internal, balances, erc20>>
  PROVE  AmountsOK' /\ NoLess /\ Conserved /\ CallsOK'
<1>1. frames = <<>> /\ frames' = <<f>> /\ CallsOK'
  BY Begun
<1>2. NoLoan /\ NoLoan'
  BY <1>1, NotLending
<1>3. AmountsOK'
  BY DEF AccountsInv, AmountsOK
<1>4. ASSUME NEW t \in Tokens
      PROVE  Excess(t)' = Excess(t)
  BY <1>2, OwedStays DEF Excess, NoLoan
<1>5. Balanced
  BY <1>4 DEF Balanced
<1> QED
  BY <1>1, <1>3, <1>5, BalancedIsNoLess

(* Sums over the entries of a loan.                                         *)
LEMMA BeforeIsNothing ==
  ASSUME NEW loan \in Loans, Sorted(loan), NEW i \in DOMAIN loan, NEW amounts
  PROVE  Before(loan, amounts, i) = 0
<1> DEFINE S == {j \in 1 .. i - 1 : loan[j].token = loan[i].token}
           Eq(g) == g = [s \in SUBSET S |-> IF s = {} THEN 0 ELSE amounts[Picked(s)] + g[s \ {Picked(s)}]]
<1>1. Before(loan, amounts, i) = (CHOOSE g : Eq(g))[S]
  BY DEF Before, MapThenSumSet, MapThenFoldSet, Picked
<1>2. S = {}
  <2>1. ASSUME NEW j \in 1 .. i - 1, loan[j].token = loan[i].token
        PROVE  FALSE
    <3>1. j \in DOMAIN loan /\ i \in Nat /\ i # j
      BY LoanType
    <3> QED
      BY <2>1, <3>1, LoanOnce
  <2> QED
    BY <2>1
<1> HIDE DEF S
<1>3. Eq([s \in SUBSET S |-> 0])
  BY <1>2
<1>4. PICK g : Eq(g) /\ g = (CHOOSE h : Eq(h))
  BY <1>3
<1>5. g[S] = 0
  BY <1>2, <1>4
<1> QED
  BY <1>1, <1>4, <1>5

EntriesOf(loan, t) == {i \in DOMAIN loan : loan[i].token = t}

(* A loan has finitely many entries.                                       *)
LEMMA EntriesAreFinite ==
  ASSUME NEW loan \in Loans, NEW t
  PROVE  IsFiniteSet(EntriesOf(loan, t))
<1>1. loan \in Seq([token : Tokens, amount : Nat])
  BY InputAssumption
<1>2. Len(loan) \in Nat /\ DOMAIN loan = 1 .. Len(loan)
  BY <1>1, LenProperties
<1>3. IsFiniteSet(1 .. Len(loan))
  BY <1>2, FS_Interval
<1> QED
  BY <1>2, <1>3, FS_Subset DEF EntriesOf

(* What a loan lent of a token is a sum over its entries of that token.    *)
LEMMA LentIsSum ==
  ASSUME NEW loan \in Loans, NEW t
  PROVE  \E g : /\ IsSum(g, LoanAmounts(loan), EntriesOf(loan, t))
                /\ Lent(loan, t) = g[EntriesOf(loan, t)]
<1> DEFINE S == EntriesOf(loan, t)
           Eq(g) == g = [s \in SUBSET S |-> IF s = {} THEN 0 ELSE loan[Picked(s)].amount + g[s \ {Picked(s)}]]
<1>1. Lent(loan, t) = (CHOOSE g : Eq(g))[S]
  BY DEF Lent, MapThenSumSet, MapThenFoldSet, Picked, EntriesOf
<1>2. S \subseteq DOMAIN loan
  BY DEF EntriesOf
<1> HIDE DEF S
<1>3. \A s \in SUBSET S : s # {} => LoanAmounts(loan)[Picked(s)] = loan[Picked(s)].amount
  BY <1>2, PickedIsElement DEF LoanAmounts
<1>4. \A g : Eq(g) <=> IsSum(g, LoanAmounts(loan), S)
  BY <1>3 DEF IsSum
<1>5. IsFiniteSet(S)
  BY EntriesAreFinite DEF S
<1> HIDE DEF Eq
<1>6. Eq(CHOOSE g : Eq(g))
  BY <1>4, <1>5, SumExists
<1> QED
  BY <1>1, <1>4, <1>6 DEF S

(* Of a token a loan lends the amount of its one entry, if there is one.   *)
LEMMA LentIs ==
  ASSUME NEW loan \in Loans, Sorted(loan), NEW t
  PROVE  /\ \A i \in DOMAIN loan : loan[i].token = t => Lent(loan, t) = loan[i].amount
         /\ (\A i \in DOMAIN loan : loan[i].token # t) => Lent(loan, t) = 0
         /\ Lent(loan, t) \in Nat
<1> DEFINE S == EntriesOf(loan, t)
           a == LoanAmounts(loan)
<1>1. PICK g : IsSum(g, a, S) /\ Lent(loan, t) = g[S]
  BY LentIsSum
<1>2. \A i \in DOMAIN loan : a[i] = loan[i].amount /\ a[i] \in Nat
  BY LoanType DEF LoanAmounts
<1> HIDE DEF a
<1>3. ASSUME NEW i \in DOMAIN loan, loan[i].token = t
      PROVE  g[S] = a[i]
  <2>1. S = {i}
    BY <1>3, LoanOnce DEF EntriesOf
  <2> HIDE DEF S
  <2>2. Picked(S) = i /\ S \ {Picked(S)} = {} /\ S # {}
    BY <2>1, PickedIsElement
  <2>3. g[S] = a[i] + g[{}] /\ g[{}] = 0
    BY <1>1, <2>2 DEF IsSum
  <2> QED
    BY <1>2, <2>3
<1>4. ASSUME \A i \in DOMAIN loan : loan[i].token # t
      PROVE  g[S] = 0
  <2>1. S = {}
    BY <1>4 DEF EntriesOf
  <2> HIDE DEF S
  <2> QED
    BY <1>1, <2>1 DEF IsSum
<1> QED
  BY <1>1, <1>2, <1>3, <1>4

(* What a flash loan sends out is still in custody.                        *)
LEMMA BeginFlashLoanConserves ==
  ASSUME AccountsInv, NEW caller, NEW recipient \in Recipients, NEW loan \in Loans,
         BeginFlashLoan(caller, recipient, loan)
  PROVE  AmountsOK' /\ NoLess /\ Conserved /\ CallsOK'
<1>1. /\ NonReentrant /\ Sorted(loan) /\ UNCHANGED <<now, internal, balances>>
      /\ erc20' = Transfer(erc20, VaultAddress, recipient, [t \in Tokens |-> Lent(loan, t)])
  BY DEF BeginFlashLoan, permissionVars
<1>2. PICK f : /\ CallHook(f) /\ f.op = "FLASH_LOAN" /\ f.loan = loan /\ f.preLoan = PreLoan(loan)
  BY DEF BeginFlashLoan
<1>3. AmountsOK /\ VaultAddress \in Holders /\ recipient # VaultAddress
  BY Addresses DEF AccountsInv
<1>4. \A i \in DOMAIN loan : erc20[VaultAddress][loan[i].token] \in Int
  BY <1>3, LoanType DEF AmountsOK
<1>5. /\ PreLoan(loan) \in [DOMAIN loan -> Int]
      /\ \A i \in DOMAIN loan : PreLoan(loan)[i] = erc20[VaultAddress][loan[i].token]
  <2>1. \A i \in DOMAIN loan : Before(loan, LoanAmounts(loan), i) = 0
    BY <1>1, BeforeIsNothing
  <2> QED
    BY <1>4, <2>1 DEF PreLoan
<1>6. CallOK(f)
  BY <1>1, <1>2, <1>5 DEF CallOK
<1>7. frames = <<>> /\ frames' = <<f>> /\ CallsOK'
  BY <1>1, <1>2, <1>6, Begun
<1>8. NoLoan
  BY <1>7, NotLending
<1> DEFINE lent == [t \in Tokens |-> Lent(loan, t)]
<1>9. /\ lent \in [Tokens -> Int]
      /\ \A t \in Tokens : (\A i \in DOMAIN loan : loan[i].token # t) => lent[t] = 0
  BY <1>1, LentIs
<1>10. erc20' = Transfer(erc20, VaultAddress, recipient, lent)
  BY <1>1
<1> HIDE DEF lent
<1>11. /\ erc20' \in [Holders -> [Tokens -> Int]]
       /\ \A t \in Tokens : erc20'[VaultAddress][t] = erc20[VaultAddress][t] - lent[t]
  BY <1>3, <1>9, <1>10 DEF Transfer, AmountsOK
<1>12. AmountsOK'
  BY <1>1, <1>3, <1>11 DEF AmountsOK
<1>13. ASSUME NEW t \in Tokens
       PROVE  InCustody(t)' = InCustody(t)
  <2>1. InCustody(t) = erc20[VaultAddress][t] /\ InCustody(t)' = Custody(<<f>>, erc20', t)
    BY <1>7, <1>8, CustodyThen DEF NoLoan
  <2>2. CASE \A i \in DOMAIN loan : loan[i].token # t
    <3>1. Custody(<<f>>, erc20', t) = erc20'[VaultAddress][t]
      BY <1>1, <1>2, <2>2, CustodyLoan
    <3>2. erc20'[VaultAddress][t] = erc20[VaultAddress][t] - lent[t] /\ lent[t] = 0
      BY <1>9, <1>11, <2>2
    <3>3. erc20[VaultAddress][t] \in Int
      BY <1>3 DEF AmountsOK
    <3> QED
      BY <2>1, <3>1, <3>2, <3>3
  <2>3. ASSUME NEW i \in DOMAIN loan, loan[i].token = t
        PROVE  InCustody(t)' = InCustody(t)
    <3>1. Custody(<<f>>, erc20', t) = f.preLoan[i]
      BY <1>1, <1>2, <2>3, CustodyLoan
    <3> QED
      BY <1>2, <1>5, <2>1, <2>3, <3>1
  <2> QED
    BY <2>2, <2>3
<1>14. Balanced
  BY <1>1, <1>13, OwedStays DEF Balanced, Excess
<1> QED
  BY <1>7, <1>12, <1>14, BalancedIsNoLess

(* What came back of an entry's token: no other entry is of the same       *)
(* token.                                                                  *)
LEMMA ReceivedAt ==
  ASSUME NEW f, f.loan \in Loans, Sorted(f.loan)
  PROVE  \A i \in DOMAIN f.loan :
           Received(f)[i] = erc20[VaultAddress][f.loan[i].token] - f.preLoan[i] - 0
<1> DEFINE Term(r, i) == erc20[VaultAddress][f.loan[i].token] - f.preLoan[i] - Before(f.loan, r, i)
           Eq(r) == r = [i \in DOMAIN f.loan |-> Term(r, i)]
           r0 == [i \in DOMAIN f.loan |-> erc20[VaultAddress][f.loan[i].token] - f.preLoan[i] - 0]
<1>1. Received(f) = CHOOSE r : Eq(r)
  BY DEF Received
<1>2. \A r : \A i \in DOMAIN f.loan : Term(r, i) = r0[i]
  BY BeforeIsNothing
<1>3. Eq(r0)
  BY <1>2
<1>4. Eq(CHOOSE r : Eq(r))
  <2> HIDE DEF Eq, r0
  <2> QED
    BY <1>3
<1> HIDE DEF Term
<1>5. \A i \in DOMAIN f.loan : Received(f)[i] = Term(Received(f), i)
  BY <1>1, <1>4
<1> QED
  BY <1>2, <1>5

(* What the collector gets of a token is what came back for its entry.     *)
LEMMA PaidIs ==
  ASSUME NEW f, f.loan \in Loans, Sorted(f.loan), \A i \in DOMAIN f.loan : Received(f)[i] \in Int, NEW t
  PROVE  /\ \A i \in DOMAIN f.loan : f.loan[i].token = t => Paid(f, t) = Received(f)[i]
         /\ (\A i \in DOMAIN f.loan : f.loan[i].token # t) => Paid(f, t) = 0
<1> DEFINE S == EntriesOf(f.loan, t)
           Eq(g) == g = [s \in SUBSET S |-> IF s = {} THEN 0 ELSE Received(f)[Picked(s)] + g[s \ {Picked(s)}]]
<1>1. Paid(f, t) = (CHOOSE g : Eq(g))[S]
  BY DEF Paid, MapThenSumSet, MapThenFoldSet, Picked, EntriesOf
<1>2. IsFiniteSet(S)
  BY EntriesAreFinite
<1>3. \A g : Eq(g) <=> IsSum(g, Received(f), S)
  BY DEF IsSum
<1>4. PICK g : Eq(g) /\ g = (CHOOSE h : Eq(h))
  <2> HIDE DEF Eq, S
  <2>1. \E g : IsSum(g, Received(f), S)
    BY <1>2, SumExists
  <2> QED
    BY <1>3, <2>1
<1>5. ASSUME NEW i \in DOMAIN f.loan, f.loan[i].token = t
      PROVE  g[S] = Received(f)[i]
  <2>1. S = {i}
    BY <1>5, LoanOnce DEF EntriesOf
  <2> HIDE DEF S
  <2>2. Picked(S) = i /\ S \ {Picked(S)} = {} /\ S # {}
    BY <2>1, PickedIsElement
  <2>3. g[S] = Received(f)[i] + g[{}] /\ g[{}] = 0
    BY <1>4, <2>2
  <2> QED
    BY <2>3
<1>6. ASSUME \A i \in DOMAIN f.loan : f.loan[i].token # t
      PROVE  g[S] = 0
  <2>1. S = {}
    BY <1>6 DEF EntriesOf
  <2> HIDE DEF S
  <2> QED
    BY <1>4, <2>1
<1> QED
  BY <1>1, <1>4, <1>5, <1>6

(* By entry: what the collector gets is what the Vault has more than       *)
(* before.                                                                 *)
LEMMA PaidNow ==
  ASSUME AmountsOK, NEW f, f.loan \in Loans, Sorted(f.loan), f.preLoan \in [DOMAIN f.loan -> Int], NEW t \in Tokens
  PROVE  /\ Paid(f, t) \in Int
         /\ \A i \in DOMAIN f.loan : f.loan[i].token = t =>
              /\ Paid(f, t) = Received(f)[i]
              /\ Paid(f, t) = erc20[VaultAddress][t] - f.preLoan[i]
         /\ (\A i \in DOMAIN f.loan : f.loan[i].token # t) => Paid(f, t) = 0
<1>1. \A i \in DOMAIN f.loan : /\ erc20[VaultAddress][f.loan[i].token] \in Int /\ f.preLoan[i] \in Int
                               /\ f.loan[i].token \in Tokens
  BY Addresses, LoanType DEF AmountsOK
<1>2. \A i \in DOMAIN f.loan : /\ Received(f)[i] \in Int
                               /\ Received(f)[i] = erc20[VaultAddress][f.loan[i].token] - f.preLoan[i]
  <2>1. \A i \in DOMAIN f.loan :
           Received(f)[i] = erc20[VaultAddress][f.loan[i].token] - f.preLoan[i] - 0
    BY ReceivedAt
  <2> QED
    BY <1>1, <2>1
<1>3. /\ \A i \in DOMAIN f.loan : f.loan[i].token = t => Paid(f, t) = Received(f)[i]
      /\ (\A i \in DOMAIN f.loan : f.loan[i].token # t) => Paid(f, t) = 0
  BY <1>2, PaidIs
<1> QED
  BY <1>2, <1>3

(* The end of a flash loan leaves the Vault at least what it lent.         *)
LEMMA EndFlashLoanConserves ==
  ASSUME AccountsInv, EndFlashLoan
  PROVE  AmountsOK' /\ NoLess /\ Conserved /\ frames' = <<>>
<1>1. PICK f : frames = <<f>> /\ Frame = f /\ f.op = "FLASH_LOAN" /\ CallOK(f) /\ frames' = <<>>
  BY Resumed DEF EndFlashLoan
<1>2. f.loan \in Loans /\ Sorted(f.loan) /\ f.preLoan \in [DOMAIN f.loan -> Int]
  BY <1>1, CallIsLoanOrNot
<1>3. /\ UNCHANGED <<now, internal, balances>>
      /\ erc20' = Transfer(erc20, VaultAddress, Collector, [t \in Tokens |-> Paid(f, t)])
  BY <1>1 DEF EndFlashLoan, permissionVars
<1>4. AmountsOK /\ VaultAddress \in Holders /\ Collector # VaultAddress
  BY Addresses DEF AccountsInv
<1>5. \A i \in DOMAIN f.loan : f.preLoan[i] \in Int
  BY <1>2
<1> DEFINE paid == [t \in Tokens |-> Paid(f, t)]
<1>7. ASSUME NEW t \in Tokens
      PROVE  /\ paid[t] \in Int
             /\ \A i \in DOMAIN f.loan : f.loan[i].token = t => paid[t] = erc20[VaultAddress][t] - f.preLoan[i]
             /\ (\A i \in DOMAIN f.loan : f.loan[i].token # t) => paid[t] = 0
  BY <1>2, <1>4, PaidNow
<1>8. paid \in [Tokens -> Int] /\ erc20' = Transfer(erc20, VaultAddress, Collector, paid)
  BY <1>3, <1>7
<1> HIDE DEF paid
<1>9. /\ erc20' \in [Holders -> [Tokens -> Int]]
      /\ \A t \in Tokens : erc20'[VaultAddress][t] = erc20[VaultAddress][t] - paid[t]
  BY <1>4, <1>8 DEF Transfer, AmountsOK
<1>10. AmountsOK'
  BY <1>3, <1>4, <1>9 DEF AmountsOK
<1>11. ASSUME NEW t \in Tokens
       PROVE  InCustody(t)' = InCustody(t)
  <2>1. InCustody(t) = Custody(<<f>>, erc20, t) /\ InCustody(t)' = erc20'[VaultAddress][t]
    BY <1>1, CustodyNow, NotLending DEF NoLoan
  <2>2. erc20[VaultAddress][t] \in Int /\ erc20'[VaultAddress][t] = erc20[VaultAddress][t] - paid[t]
    BY <1>4, <1>9 DEF AmountsOK
  <2>3. CASE \A i \in DOMAIN f.loan : f.loan[i].token # t
    <3>1. Custody(<<f>>, erc20, t) = erc20[VaultAddress][t]
      BY <1>1, <1>2, <2>3, CustodyLoan
    <3>2. paid[t] = 0
      BY <1>7, <2>3
    <3> QED
      BY <2>1, <2>2, <3>1, <3>2
  <2>4. ASSUME NEW i \in DOMAIN f.loan, f.loan[i].token = t
        PROVE  InCustody(t)' = InCustody(t)
    <3>1. Custody(<<f>>, erc20, t) = f.preLoan[i]
      BY <1>1, <1>2, <2>4, CustodyLoan
    <3>2. paid[t] = erc20[VaultAddress][t] - f.preLoan[i] /\ f.preLoan[i] \in Int
      BY <1>5, <1>7, <2>4
    <3> QED
      BY <2>1, <2>2, <3>1, <3>2
  <2> QED
    BY <2>3, <2>4
<1>12. Balanced
  BY <1>3, <1>11, OwedStays DEF Balanced, Excess
<1> QED
  BY <1>1, <1>10, <1>12, BalancedIsNoLess

(* The first half of a join or exit moves nothing.                         *)
LEMMA BeginJoinOrExitConserves ==
  ASSUME AccountsInv, NEW op \in Joins, NEW caller, NEW id \in pools, NEW sender \in Accounts,
         NEW recipient \in Recipients, NEW limit, NEW useInternalBalance \in BOOLEAN,
         BeginJoinOrExit(op, caller, id, sender, recipient, limit, useInternalBalance)
  PROVE  AmountsOK' /\ NoLess /\ Conserved /\ CallsOK'
<1>1. PICK f : f = [op |-> op, caller |-> caller, id |-> id, sender |-> sender,
                    recipient |-> recipient, limit |-> limit,
                    useInternalBalance |-> useInternalBalance,
                    tokens |-> tokens[id], balances |-> BalancesOf(id, tokens[id]),
                    relayers |-> CurrentRelayers]
  OBVIOUS
<1>2. NonReentrant /\ CallHook(f) /\ UNCHANGED <<now, internal, balances, erc20>>
  BY <1>1 DEF BeginJoinOrExit, permissionVars
<1>3. /\ f.op = op /\ f.id = id /\ f.sender = sender /\ f.recipient = recipient
      /\ f.useInternalBalance = useInternalBalance
  BY <1>1
<1>4. id \in PoolIds
  BY DEF AccountsInv
<1>5. CallOK(f) /\ f.op # "FLASH_LOAN"
  BY <1>3, <1>4 DEF CallOK, Joins
<1> QED
  BY <1>2, <1>5, HookMovesNothing

(* Nor does the first half of a swap.                                      *)
LEMMA BeginSwapConserves ==
  ASSUME AccountsInv, NEW caller, NEW id \in pools, NEW sender \in Accounts, NEW recipient \in Recipients,
         NEW kind, NEW tokenIn \in Tokens, NEW tokenOut \in Tokens, NEW amount \in Nat, NEW limit,
         NEW fromInternal \in BOOLEAN, NEW toInternal \in BOOLEAN,
         BeginSwap(caller, id, sender, recipient, kind, tokenIn, tokenOut, amount, limit, fromInternal, toInternal)
  PROVE  AmountsOK' /\ NoLess /\ Conserved /\ CallsOK'
<1>1. PICK list : list = IF id.specialization = "GENERAL" THEN tokens[id] ELSE <<tokenIn, tokenOut>>
  OBVIOUS
<1>2. PICK f : f = [op |-> "SWAP", caller |-> caller, id |-> id, sender |-> sender,
                    recipient |-> recipient, kind |-> kind, tokenIn |-> tokenIn,
                    tokenOut |-> tokenOut, amount |-> amount, limit |-> limit,
                    fromInternal |-> fromInternal, toInternal |-> toInternal,
                    tokens |-> list, balances |-> BalancesOf(id, list),
                    relayers |-> CurrentRelayers]
  OBVIOUS
<1>3. /\ NonReentrant /\ CallHook(f) /\ UNCHANGED <<now, internal, balances, erc20>>
      /\ {tokenIn, tokenOut} \subseteq ToSet(tokens[id])
  BY <1>1, <1>2 DEF BeginSwap, permissionVars
<1>4. /\ f.op = "SWAP" /\ f.id = id /\ f.sender = sender /\ f.recipient = recipient /\ f.tokens = list
      /\ f.amount = amount /\ f.tokenIn = tokenIn /\ f.tokenOut = tokenOut
      /\ f.fromInternal = fromInternal /\ f.toInternal = toInternal
  BY <1>2
<1>5. id \in PoolIds
  BY DEF AccountsInv
<1>6. {tokenIn, tokenOut} \subseteq ToSet(list)
  <2>1. CASE id.specialization = "GENERAL"
    BY <1>1, <1>3, <2>1
  <2>2. CASE id.specialization # "GENERAL"
    <3>1. ToSet(<<tokenIn, tokenOut>>) = {tokenIn, tokenOut}
      BY DEF ToSet
    <3> QED
      BY <1>1, <2>2, <3>1
  <2> QED
    BY <2>1, <2>2
<1>7. CallOK(f) /\ f.op # "FLASH_LOAN"
  BY <1>4, <1>5, <1>6 DEF CallOK, Joins
<1> QED
  BY <1>3, <1>7, HookMovesNothing

---------------------------------------------------------------------------
(* An amount of one token is a list of amounts of all tokens.              *)
LEMMA OnlyIsAmount ==
  ASSUME NEW token, NEW amount \in Nat
  PROVE  Only(token, amount) \in [Tokens -> Nat]
  BY DEF Only

(* What the update of one balance of a Pool does to the total owed.        *)
LEMMA SetBalanceMoves ==
  ASSUME AmountsOK, NEW id \in PoolIds, NEW token \in Tokens, NEW new, NEW c \in Int,
         SetBalance(id, token, new), new \in [cash : Int, managed : Int, lastChangeBlock : Nat],
         new.cash = balances[id][token].cash + c
  PROVE  /\ balances' \in [PoolIds -> [Tokens -> Balance]]
         /\ \A t \in Tokens : CashMoves(t, id, IF t = token THEN c ELSE 0)
<1>1. new \in Balance /\ balances' = [balances EXCEPT ![id][token] = new]
  BY DEF SetBalance, IsBalance, Balance
<1>2. balances' \in [PoolIds -> [Tokens -> Balance]]
  BY <1>1 DEF AmountsOK
<1>3. \A p \in PoolIds, t \in Tokens : balances'[p][t] = IF p = id /\ t = token THEN new ELSE balances[p][t]
  BY <1>1 DEF AmountsOK
<1>4. \A p \in PoolIds, t \in Tokens : balances[p][t].cash \in Int
  BY DEF AmountsOK, Balance
<1> QED
  BY <1>2, <1>3, <1>4 DEF CashMoves

(* An Asset Manager's withdrawal moves cash out that the Pool is not owed  *)
(* as cash any more; a deposit brings it back.                             *)
LEMMA ManagePoolBalanceConserves ==
  ASSUME AccountsInv, NEW caller \in Accounts, NEW id \in pools, NEW token \in Tokens, NEW amount \in Nat,
         ManagePoolBalance(caller, id, token, amount)
  PROVE  AmountsOK' /\ NoLess /\ Conserved
<1>1. AmountsOK /\ id \in PoolIds /\ NonReentrant /\ UNCHANGED <<frames, now, internal>>
  BY DEF AccountsInv, ManagePoolBalance, CallAndReturn, permissionVars
<1>2. NoLoan /\ NoLoan'
  BY <1>1, FreeNow, NotLending DEF AccountsInv
<1>3. /\ caller \in Holders /\ caller # VaultAddress /\ VaultAddress \in Holders
      /\ Only(token, amount) \in [Tokens -> Nat]
  BY Addresses, OnlyIsAmount
<1>4. balances[id][token] \in Balance
  BY <1>1 DEF AmountsOK
<1>5. \E c \in Int : /\ balances' \in [PoolIds -> [Tokens -> Balance]]
                     /\ erc20' \in [Holders -> [Tokens -> Int]]
                     /\ \A t \in Tokens :
                          /\ CashMoves(t, id, IF t = token THEN c ELSE 0)
                          /\ erc20'[VaultAddress][t] = erc20[VaultAddress][t] + (IF t = token THEN c ELSE 0)
  <2>1. CASE WithdrawPoolBalance(id, caller, token, amount)
    <3>1. /\ SetBalance(id, token, CashToManaged(balances[id][token], amount))
          /\ erc20' = Transfer(erc20, VaultAddress, caller, Only(token, amount))
      BY <2>1 DEF WithdrawPoolBalance
    <3>2. /\ CashToManaged(balances[id][token], amount) \in [cash : Int, managed : Int, lastChangeBlock : Nat]
          /\ CashToManaged(balances[id][token], amount).cash = balances[id][token].cash + (-amount)
          /\ -amount \in Int
      BY <1>4 DEF CashToManaged, Balance
    <3>3. /\ balances' \in [PoolIds -> [Tokens -> Balance]]
          /\ \A t \in Tokens : CashMoves(t, id, IF t = token THEN -amount ELSE 0)
      BY <1>1, <3>1, <3>2, SetBalanceMoves
    <3>4. /\ erc20' \in [Holders -> [Tokens -> Int]]
          /\ \A t \in Tokens :
               erc20'[VaultAddress][t] = erc20[VaultAddress][t] + (IF t = token THEN -amount ELSE 0)
      BY <1>1, <1>3, <3>1 DEF Transfer, Only, AmountsOK
    <3> QED
      BY <3>2, <3>3, <3>4
  <2>2. CASE DepositPoolBalance(id, caller, token, amount)
    <3>1. /\ SetBalance(id, token, ManagedToCash(balances[id][token], amount))
          /\ erc20' = Transfer(erc20, caller, VaultAddress, Only(token, amount))
      BY <2>2 DEF DepositPoolBalance
    <3>2. /\ ManagedToCash(balances[id][token], amount) \in [cash : Int, managed : Int, lastChangeBlock : Nat]
          /\ ManagedToCash(balances[id][token], amount).cash = balances[id][token].cash + amount
          /\ amount \in Int
      BY <1>4 DEF ManagedToCash, Balance
    <3>3. /\ balances' \in [PoolIds -> [Tokens -> Balance]]
          /\ \A t \in Tokens : CashMoves(t, id, IF t = token THEN amount ELSE 0)
      BY <1>1, <3>1, <3>2, SetBalanceMoves
    <3>4. /\ erc20' \in [Holders -> [Tokens -> Int]]
          /\ \A t \in Tokens :
               erc20'[VaultAddress][t] = erc20[VaultAddress][t] + (IF t = token THEN amount ELSE 0)
      BY <1>1, <1>3, <3>1 DEF Transfer, Only, AmountsOK
    <3> QED
      BY <3>2, <3>3, <3>4
  <2>3. CASE UpdateManagedBalance(id, token, amount)
    <3>1. SetBalance(id, token, SetManaged(balances[id][token], amount, now)) /\ erc20' = erc20
      BY <2>3 DEF UpdateManagedBalance
    <3>2. /\ SetManaged(balances[id][token], amount, now) \in [cash : Int, managed : Int, lastChangeBlock : Nat]
          /\ SetManaged(balances[id][token], amount, now).cash = balances[id][token].cash + 0
          /\ 0 \in Int
      BY <1>1, <1>4 DEF SetManaged, Balance, AmountsOK
    <3>3. /\ balances' \in [PoolIds -> [Tokens -> Balance]]
          /\ \A t \in Tokens : CashMoves(t, id, IF t = token THEN 0 ELSE 0)
      BY <1>1, <3>1, <3>2, SetBalanceMoves
    <3>4. /\ erc20' \in [Holders -> [Tokens -> Int]]
          /\ \A t \in Tokens :
               erc20'[VaultAddress][t] = erc20[VaultAddress][t] + (IF t = token THEN 0 ELSE 0)
      BY <1>1, <1>3, <3>1 DEF AmountsOK
    <3> QED
      BY <3>2, <3>3, <3>4
  <2> QED
    BY <2>1, <2>2, <2>3 DEF ManagePoolBalance
<1>6. PICK c \in Int : /\ balances' \in [PoolIds -> [Tokens -> Balance]]
                       /\ erc20' \in [Holders -> [Tokens -> Int]]
                       /\ \A t \in Tokens :
                            /\ CashMoves(t, id, IF t = token THEN c ELSE 0)
                            /\ erc20'[VaultAddress][t] = erc20[VaultAddress][t] + (IF t = token THEN c ELSE 0)
  BY <1>5
<1>7. AmountsOK'
  BY <1>1, <1>6 DEF AmountsOK
<1> DEFINE d == [t \in Tokens |-> IF t = token THEN c ELSE 0]
           zero == [t \in Tokens |-> 0]
<1>8. ASSUME NEW t \in Tokens
      PROVE  /\ InternalMoves(t, caller, zero[t], caller, zero[t])
             /\ CashMoves(t, id, d[t])
             /\ erc20'[VaultAddress][t] = erc20[VaultAddress][t] + zero[t] + zero[t] + d[t]
  <2>1. erc20[VaultAddress][t] \in Int /\ \A h \in Holders : internal[h][t] \in Int
    BY <1>1, <1>3 DEF AmountsOK
  <2>2. zero[t] = 0 /\ d[t] = IF t = token THEN c ELSE 0
    OBVIOUS
  <2> HIDE DEF zero, d
  <2>3. InternalMoves(t, caller, zero[t], caller, zero[t])
    BY <1>1, <1>3, <2>1, <2>2 DEF InternalMoves
  <2> QED
    BY <1>6, <2>1, <2>2, <2>3
<1> HIDE DEF d, zero
<1>9. Settles(caller, zero, caller, zero, id, d)
  BY <1>8 DEF Settles
<1>10. Balanced
  BY <1>1, <1>2, <1>7, <1>9, Accounted
<1> QED
  BY <1>7, <1>10, BalancedIsNoLess

(* One or two internal balances change by m, and the Vault's tokens.        *)
LEMMA ManageUserBalanceConserves ==
  ASSUME AccountsInv, NEW caller, NEW sender \in Accounts, NEW recipient \in Recipients,
         NEW token \in Tokens, NEW amount \in Nat,
         ManageUserBalance(caller, sender, recipient, token, amount)
  PROVE  AmountsOK' /\ Balanced /\ NoLess /\ Conserved
<1>1. AmountsOK /\ NonReentrant /\ UNCHANGED <<frames, now, balances>>
  BY DEF AccountsInv, ManageUserBalance, CallAndReturn, permissionVars
<1>2. NoLoan /\ NoLoan'
  BY <1>1, FreeNow, NotLending DEF AccountsInv
<1> DEFINE m == Only(token, amount)
           zero == [t \in Tokens |-> 0]
           less == [t \in Tokens |-> -m[t]]
<1>3. /\ sender \in Holders /\ sender # VaultAddress /\ VaultAddress \in Holders
      /\ recipient \in Holders /\ recipient # VaultAddress /\ m \in [Tokens -> Nat]
  BY Addresses, OnlyIsAmount
<1>4. \/ WithdrawInternal(sender, recipient, m)
      \/ DepositInternal(sender, recipient, m)
      \/ TransferInternal(sender, recipient, m)
      \/ TransferExternal(sender, recipient, m)
  BY DEF ManageUserBalance
<1> HIDE DEF m
<1>5. zero \in [Tokens -> Int] /\ less \in [Tokens -> Int] /\ \A t \in Tokens : zero[t] = 0 /\ less[t] = -m[t]
  BY <1>3
<1> HIDE DEF zero, less
<1>6. \E v, w \in [Tokens -> Int] :
        /\ internal' \in [Holders -> [Tokens -> Nat]]
        /\ erc20' \in [Holders -> [Tokens -> Int]]
        /\ SettlesInternally(sender, v, recipient, w)
  <2>1. CASE WithdrawInternal(sender, recipient, m)
    <3>1. /\ Holds(internal, sender, m) /\ internal' = Debit(internal, sender, m)
          /\ erc20' = Transfer(erc20, VaultAddress, recipient, m)
      BY <2>1 DEF WithdrawInternal
    <3>2. internal' \in [Holders -> [Tokens -> Nat]]
      BY <1>1, <1>3, <3>1 DEF Holds, Debit, AmountsOK
    <3>3. \A t \in Tokens : InternalMoves(t, sender, less[t], recipient, zero[t])
      <4>1. ASSUME NEW h \in Holders, NEW t \in Tokens
            PROVE  internal'[h][t] = internal[h][t] + (IF h = sender THEN less[t] ELSE 0)
                                                    + (IF h = recipient THEN zero[t] ELSE 0)
        <5>1. /\ internal[h][t] \in Int /\ m[t] \in Int /\ less[t] = -m[t] /\ zero[t] = 0
              /\ internal'[h][t] = IF h = sender THEN internal[h][t] - m[t] ELSE internal[h][t]
          BY <1>1, <1>3, <1>5, <3>1 DEF Debit, AmountsOK
        <5> QED
          BY <5>1
      <4>2. \A t \in Tokens : less[t] \in Int /\ zero[t] \in Int
        BY <1>3, <1>5
      <4> QED
        BY <1>3, <4>1, <4>2 DEF InternalMoves
    <3>4. /\ erc20' \in [Holders -> [Tokens -> Int]]
          /\ \A t \in Tokens : erc20'[VaultAddress][t] = erc20[VaultAddress][t] + less[t] + zero[t]
      <4>1. /\ erc20' \in [Holders -> [Tokens -> Int]]
            /\ \A t \in Tokens : erc20'[VaultAddress][t] = erc20[VaultAddress][t] - m[t]
        BY <1>1, <1>3, <3>1 DEF Transfer, AmountsOK
      <4>2. \A t \in Tokens : erc20[VaultAddress][t] \in Int /\ m[t] \in Int
        BY <1>1, <1>3 DEF AmountsOK
      <4> QED
        BY <1>5, <4>1, <4>2
    <3> QED
      BY <1>5, <3>2, <3>3, <3>4 DEF SettlesInternally
  <2>2. CASE DepositInternal(sender, recipient, m)
    <3>1. internal' = Credit(internal, recipient, m) /\ erc20' = Transfer(erc20, sender, VaultAddress, m)
      BY <2>2 DEF DepositInternal
    <3>2. internal' \in [Holders -> [Tokens -> Nat]]
      BY <1>1, <1>3, <3>1 DEF Credit, AmountsOK
    <3>3. \A t \in Tokens : InternalMoves(t, sender, zero[t], recipient, m[t])
      BY <1>1, <1>3, <1>5, <3>1 DEF Credit, AmountsOK, InternalMoves
    <3>4. /\ erc20' \in [Holders -> [Tokens -> Int]]
          /\ \A t \in Tokens : erc20'[VaultAddress][t] = erc20[VaultAddress][t] + zero[t] + m[t]
      BY <1>1, <1>3, <1>5, <3>1 DEF Transfer, AmountsOK
    <3>5. m \in [Tokens -> Int]
      BY <1>3
    <3> QED
      BY <1>5, <3>2, <3>3, <3>4, <3>5 DEF SettlesInternally
  <2>3. CASE TransferInternal(sender, recipient, m)
    <3>1. /\ Holds(internal, sender, m) /\ internal' = Transfer(internal, sender, recipient, m)
          /\ erc20' = erc20
      BY <2>3 DEF TransferInternal
    <3>2. internal' \in [Holders -> [Tokens -> Nat]]
      BY <1>1, <1>3, <3>1 DEF Holds, Transfer, AmountsOK
    <3>3. \A t \in Tokens : InternalMoves(t, sender, less[t], recipient, m[t])
      <4>1. \A h \in Holders, t \in Tokens :
              internal'[h][t] = internal[h][t] - (IF h = sender THEN m[t] ELSE 0) + (IF h = recipient THEN m[t] ELSE 0)
        BY <3>1 DEF Transfer
      <4>2. \A h \in Holders, t \in Tokens : internal[h][t] \in Int /\ m[t] \in Int
        BY <1>1, <1>3 DEF AmountsOK
      <4>3. ASSUME NEW h \in Holders, NEW t \in Tokens
            PROVE  internal'[h][t] = internal[h][t] + (IF h = sender THEN less[t] ELSE 0)
                                                    + (IF h = recipient THEN m[t] ELSE 0)
        <5>1. /\ internal[h][t] \in Int /\ m[t] \in Int /\ less[t] = -m[t]
              /\ internal'[h][t] = internal[h][t] - (IF h = sender THEN m[t] ELSE 0)
                                                  + (IF h = recipient THEN m[t] ELSE 0)
          BY <1>5, <4>1, <4>2
        <5> QED
          BY <5>1
      <4>4. \A t \in Tokens : less[t] \in Int /\ m[t] \in Int
        BY <1>3, <1>5
      <4> QED
        BY <1>3, <4>3, <4>4 DEF InternalMoves
    <3>4. /\ erc20' \in [Holders -> [Tokens -> Int]]
          /\ \A t \in Tokens : erc20'[VaultAddress][t] = erc20[VaultAddress][t] + less[t] + m[t]
      BY <1>1, <1>3, <1>5, <3>1 DEF AmountsOK
    <3>5. m \in [Tokens -> Int]
      BY <1>3
    <3> QED
      BY <1>5, <3>2, <3>3, <3>4, <3>5 DEF SettlesInternally
  <2>4. CASE TransferExternal(sender, recipient, m)
    <3>1. internal' = internal /\ erc20' = Transfer(erc20, sender, recipient, m)
      BY <2>4 DEF TransferExternal
    <3>2. internal' \in [Holders -> [Tokens -> Nat]]
      BY <1>1, <3>1 DEF AmountsOK
    <3>3. \A t \in Tokens : InternalMoves(t, sender, zero[t], recipient, zero[t])
      BY <1>1, <1>3, <1>5, <3>1 DEF AmountsOK, InternalMoves
    <3>4. /\ erc20' \in [Holders -> [Tokens -> Int]]
          /\ \A t \in Tokens : erc20'[VaultAddress][t] = erc20[VaultAddress][t] + zero[t] + zero[t]
      BY <1>1, <1>3, <1>5, <3>1 DEF Transfer, AmountsOK
    <3> QED
      BY <1>5, <3>2, <3>3, <3>4 DEF SettlesInternally
  <2> QED
    BY <1>4, <2>1, <2>2, <2>3, <2>4
<1>7. PICK v, w \in [Tokens -> Int] :
        /\ internal' \in [Holders -> [Tokens -> Nat]]
        /\ erc20' \in [Holders -> [Tokens -> Int]]
        /\ SettlesInternally(sender, v, recipient, w)
  BY <1>6
<1>8. AmountsOK'
  BY <1>1, <1>7 DEF AmountsOK
<1>9. Balanced
  BY <1>1, <1>2, <1>7, <1>8, AccountedMoves
<1> QED
  BY <1>8, <1>9, BalancedIsNoLess

(* The registry: the lists of tokens, and what is not in them.              *)
RegistryOK ==
    /\ nextPoolNonce \in Nat
    /\ pools \subseteq PoolIds
    /\ tokens \in [PoolIds -> Seq(Tokens)]
    /\ \A id \in PoolIds : IsInjective(tokens[id])
    /\ managers \in [PoolIds -> [Tokens -> Accounts \cup {NoAccount}]]
    /\ DeregisteredIsEmpty

LedgerInv == AccountsInv /\ RegistryOK

(* Only balances of registered tokens change.                               *)
Touches ==
    \A id \in PoolIds, t \in Tokens : t \notin ToSet(tokens[id]) => balances'[id][t] = balances[id][t]

(* The registry is sound after a step that changes only balances of        *)
(* registered tokens.                                                      *)
LEMMA RegistryStays ==
  ASSUME RegistryOK, UNCHANGED registryVars, Touches
  PROVE  RegistryOK'
  BY DEF RegistryOK, registryVars, Touches, DeregisteredIsEmpty

(* And so after a step that changes no balance.                            *)
LEMMA BalancesStay ==
  ASSUME RegistryOK, UNCHANGED registryVars, UNCHANGED balances
  PROVE  RegistryOK'
  BY RegistryStays DEF Touches

(* A call stores balances of the tokens it has read, which are registered. *)
LEMMA StoreTouches ==
  ASSUME AmountsOK, NEW f, f.id \in PoolIds, f.op # "FLASH_LOAN", Current(f),
         NEW new, DOMAIN new \subseteq DOMAIN f.tokens, StoreBalances(f, new)
  PROVE  Touches
<1> DEFINE keys == IF f.id.specialization = "GENERAL" THEN tokens[f.id] ELSE f.tokens
           row == [t \in Tokens |-> IF \E i \in DOMAIN new : keys[i] = t
                                    THEN new[CHOOSE i \in DOMAIN new : keys[i] = t]
                                    ELSE balances[f.id][t]]
<1>1. balances' = [balances EXCEPT ![f.id] = row]
  BY DEF StoreBalances
<1>2. keys = f.tokens /\ ToSet(f.tokens) \subseteq ToSet(tokens[f.id])
  BY DEF Current
<1>3. \A t \in Tokens : t \notin ToSet(f.tokens) => row[t] = balances[f.id][t]
  BY <1>2 DEF ToSet
<1> HIDE DEF row, keys
<1>4. \A id \in PoolIds : balances'[id] = IF id = f.id THEN row ELSE balances[id]
  BY <1>1 DEF AmountsOK
<1> QED
  BY <1>2, <1>3, <1>4 DEF Touches

(* So a join keeps the registry sound,                                     *)
LEMMA EndJoinTouches ==
  ASSUME LedgerInv, EndJoin
  PROVE  RegistryOK'
<1>1. PICK f : Frame = f /\ f.op = "JOIN" /\ Current(f) /\ CallOK(f)
  BY Resumed DEF EndJoin, LedgerInv
<1>2. f.id \in PoolIds /\ f.op # "FLASH_LOAN" /\ AmountsOK
  BY <1>1 DEF CallOK, Joins, LedgerInv, AccountsInv
<1>3. PICK m, fees : ProcessJoin(f, m, fees)
  BY <1>1 DEF EndJoin
<1>4. \E new : StoreBalances(f, new) /\ DOMAIN new \subseteq DOMAIN f.tokens
  BY <1>3 DEF ProcessJoin
<1>5. Touches
  BY <1>1, <1>2, <1>4, StoreTouches
<1> QED
  BY <1>5, RegistryStays DEF EndJoin, LedgerInv

(* an exit,                                                                *)
LEMMA EndExitTouches ==
  ASSUME LedgerInv, EndExit
  PROVE  RegistryOK'
<1>1. PICK f : Frame = f /\ f.op = "EXIT" /\ Current(f) /\ CallOK(f)
  BY Resumed DEF EndExit, LedgerInv
<1>2. f.id \in PoolIds /\ f.op # "FLASH_LOAN" /\ AmountsOK
  BY <1>1 DEF CallOK, Joins, LedgerInv, AccountsInv
<1>3. PICK m, fees : ProcessExit(f, m, fees)
  BY <1>1 DEF EndExit
<1>4. \E new : StoreBalances(f, new) /\ DOMAIN new \subseteq DOMAIN f.tokens
  BY <1>3 DEF ProcessExit
<1>5. Touches
  BY <1>1, <1>2, <1>4, StoreTouches
<1> QED
  BY <1>5, RegistryStays DEF EndExit, LedgerInv

(* a swap,                                                                 *)
LEMMA EndSwapTouches ==
  ASSUME LedgerInv, EndSwap
  PROVE  RegistryOK'
<1>1. PICK f : Frame = f /\ f.op = "SWAP" /\ Current(f) /\ CallOK(f)
  BY Resumed DEF EndSwap, LedgerInv
<1>2. f.id \in PoolIds /\ f.op # "FLASH_LOAN" /\ AmountsOK
  BY <1>1 DEF CallOK, Joins, LedgerInv, AccountsInv
<1>3. PICK in, out : ProcessSwap(f, in, out)
  BY <1>1 DEF EndSwap
<1>4. \E new : StoreBalances(f, new) /\ DOMAIN new \subseteq DOMAIN f.tokens
  BY <1>3 DEF ProcessSwap
<1>5. Touches
  BY <1>1, <1>2, <1>4, StoreTouches
<1> QED
  BY <1>5, RegistryStays DEF EndSwap, LedgerInv

(* and an Asset Manager.                                                   *)
LEMMA ManagePoolBalanceTouches ==
  ASSUME LedgerInv, NEW caller, NEW id, NEW token, NEW amount,
         ManagePoolBalance(caller, id, token, amount)
  PROVE  RegistryOK'
<1>1. AmountsOK /\ token \in ToSet(tokens[id]) /\ UNCHANGED registryVars
  BY DEF LedgerInv, AccountsInv, ManagePoolBalance, OnlyAssetManager
<1>2. \E new : balances' = [balances EXCEPT ![id][token] = new]
  BY DEF ManagePoolBalance, WithdrawPoolBalance, DepositPoolBalance, UpdateManagedBalance, SetBalance
<1>3. Touches
  BY <1>1, <1>2 DEF Touches, AmountsOK
<1> QED
  BY <1>1, <1>3, RegistryStays DEF LedgerInv

---------------------------------------------------------------------------
(* A new Pool gets an identifier of its own, without tokens or balances.   *)
LEMMA RegisterPoolKeeps ==
  ASSUME LedgerInv, NEW caller \in PoolContracts, NEW s \in Specializations, RegisterPool(caller, s)
  PROVE  /\ RegistryOK' /\ AmountsOK' /\ NoLess /\ Conserved
         /\ UNCHANGED frames
<1>1. /\ nextPoolNonce < MaxPools /\ nextPoolNonce' = nextPoolNonce + 1
      /\ pools' = pools \cup {[pool |-> caller, specialization |-> s, nonce |-> nextPoolNonce]}
      /\ UNCHANGED <<frames, now, tokens, managers, balances, internal, erc20>>
  BY DEF RegisterPool, CallAndReturn, permissionVars
<1>2. nextPoolNonce \in 0 .. MaxPools - 1
  BY <1>1, FiniteAssumption DEF LedgerInv, RegistryOK
<1>3. pools' \subseteq PoolIds
  BY <1>1, <1>2 DEF LedgerInv, RegistryOK, PoolIds
<1>4. RegistryOK'
  BY <1>1, <1>3 DEF LedgerInv, RegistryOK, DeregisteredIsEmpty
<1> QED
  BY <1>1, <1>4, NothingMoves DEF LedgerInv

(* A token that is registered was not, and so starts with an empty         *)
(* balance.                                                                *)
LEMMA RegisterTokensKeeps ==
  ASSUME LedgerInv, NEW caller, NEW id \in pools, NEW list \in TokenLists,
         NEW manager \in Accounts \cup {NoAccount}, RegisterTokens(caller, id, list, manager)
  PROVE  /\ RegistryOK' /\ AmountsOK' /\ NoLess /\ Conserved
         /\ UNCHANGED frames
<1>1. /\ AllAdded(id, list) /\ tokens' = [tokens EXCEPT ![id] = @ \o list]
      /\ managers' = [managers EXCEPT ![id] = [t \in Tokens |-> IF t \in ToSet(list) THEN manager ELSE @[t]]]
      /\ UNCHANGED <<frames, now, nextPoolNonce, pools, internal, erc20>>
  BY DEF RegisterTokens, CallAndReturn, permissionVars
<1>2. /\ id \in PoolIds /\ tokens \in [PoolIds -> Seq(Tokens)] /\ \A p \in PoolIds : IsInjective(tokens[p])
      /\ managers \in [PoolIds -> [Tokens -> Accounts \cup {NoAccount}]]
      /\ list \in Seq(Tokens) /\ tokens[id] \in Seq(Tokens)
      /\ AmountsOK
  BY InputAssumption DEF LedgerInv, AccountsInv, RegistryOK
<1>3. balances' = balances
  <2>1. \A t \in ToSet(list) : t \in Tokens => balances[id][t] = EmptyBalance
    BY <1>1, <1>2 DEF AllAdded, LedgerInv, RegistryOK, DeregisteredIsEmpty
  <2>2. balances[id] = [t \in Tokens |-> balances[id][t]]
    BY <1>2 DEF AmountsOK
  <2>3. [t \in Tokens |-> IF t \in ToSet(list) THEN EmptyBalance ELSE balances[id][t]] = balances[id]
    BY <2>1, <2>2
  <2>4. [balances EXCEPT ![id] = balances[id]] = balances
    BY <1>2 DEF AmountsOK
  <2> QED
    BY <2>3, <2>4 DEF RegisterTokens
<1> DEFINE l == tokens[id] \o list
<1>4. l \in Seq(Tokens) /\ IsInjective(l) /\ ToSet(l) = ToSet(tokens[id]) \cup ToSet(list)
  <2> DEFINE a == tokens[id]
             n == Len(a)
             k == Len(list)
  <2>1. a \in Seq(Tokens) /\ IsInjective(a) /\ IsInjective(list) /\ ToSet(list) \cap ToSet(a) = {}
    BY <1>1, <1>2 DEF AllAdded
  <2>2. /\ n \in Nat /\ k \in Nat /\ DOMAIN a = 1 .. n /\ DOMAIN list = 1 .. k
        /\ l \in Seq(Tokens) /\ DOMAIN l = 1 .. n + k
        /\ \A i \in 1 .. n + k : l[i] = IF i <= n THEN a[i] ELSE list[i - n]
    BY <1>2, <2>1, LenProperties, ConcatProperties
  <2>3. \A i \in 1 .. n : a[i] \in ToSet(a)
    BY <2>2 DEF ToSet
  <2>4. \A i \in 1 .. k : list[i] \in ToSet(list)
    BY <2>2 DEF ToSet
  <2>5. \A i \in 1 .. n + k : i \in 1 .. n \/ (~(i <= n) /\ i - n \in 1 .. k)
    BY <2>2
  <2>6. \A i, j \in 1 .. n + k : i - n = j - n => i = j
    BY <2>2
  <2> HIDE DEF a, n, k, l
  <2>7. IsInjective(l)
    <3>1. ASSUME NEW i \in 1 .. n + k, NEW j \in 1 .. n + k, l[i] = l[j]
          PROVE  i = j
      <4>1. CASE i \in 1 .. n /\ j \in 1 .. n
        BY <2>1, <2>2, <3>1, <4>1 DEF IsInjective
      <4>2. CASE ~(i <= n) /\ ~(j <= n)
        <5>1. i - n \in DOMAIN list /\ j - n \in DOMAIN list
          BY <2>2, <2>5, <4>2
        <5>2. list[i - n] = list[j - n]
          BY <2>2, <3>1, <4>2
        <5>3. i - n = j - n
          BY <2>1, <5>1, <5>2 DEF IsInjective
        <5> QED
          BY <2>6, <5>3
      <4>3. CASE i \in 1 .. n /\ ~(j <= n)
        <5>1. l[i] \in ToSet(a)
          BY <2>2, <2>3, <4>3
        <5>2. l[j] \in ToSet(list)
          BY <2>2, <2>4, <2>5, <4>3
        <5> QED
          BY <2>1, <3>1, <5>1, <5>2
      <4>4. CASE ~(i <= n) /\ j \in 1 .. n
        <5>1. l[j] \in ToSet(a)
          BY <2>2, <2>3, <4>4
        <5>2. l[i] \in ToSet(list)
          BY <2>2, <2>4, <2>5, <4>4
        <5> QED
          BY <2>1, <3>1, <5>1, <5>2
      <4> QED
        BY <2>5, <4>1, <4>2, <4>3, <4>4
    <3> QED
      BY <2>2, <3>1 DEF IsInjective
  <2>8. ToSet(l) = ToSet(a) \cup ToSet(list)
    <3>1. \A x \in ToSet(l) : x \in ToSet(a) \cup ToSet(list)
      <4>1. ASSUME NEW i \in 1 .. n + k
            PROVE  l[i] \in ToSet(a) \cup ToSet(list)
        <5>1. CASE i \in 1 .. n
          <6>1. i <= n /\ l[i] = a[i]
            BY <2>2, <5>1
          <6> QED
            BY <2>3, <5>1, <6>1
        <5>2. CASE ~(i <= n) /\ i - n \in 1 .. k
          BY <2>2, <2>4, <5>2
        <5> QED
          BY <2>5, <5>1, <5>2
      <4> QED
        BY <2>2, <4>1 DEF ToSet
    <3>2. \A x \in ToSet(a) : x \in ToSet(l)
      <4>1. \A i \in 1 .. n : i \in 1 .. n + k /\ a[i] = l[i]
        BY <2>2
      <4> QED
        BY <2>2, <4>1 DEF ToSet
    <3>3. \A x \in ToSet(list) : x \in ToSet(l)
      <4>1. \A i \in 1 .. k : n + i \in 1 .. n + k /\ list[i] = l[n + i]
        BY <2>2
      <4> QED
        BY <2>2, <4>1 DEF ToSet
    <3> QED
      BY <3>1, <3>2, <3>3
  <2> QED
    BY <2>2, <2>7, <2>8 DEF a
<1> HIDE DEF l
<1>5. tokens' = [tokens EXCEPT ![id] = l]
  BY <1>1 DEF l
<1>6. /\ tokens' \in [PoolIds -> Seq(Tokens)]
      /\ \A p \in PoolIds : tokens'[p] = IF p = id THEN l ELSE tokens[p]
  BY <1>2, <1>4, <1>5
<1>7. /\ managers' \in [PoolIds -> [Tokens -> Accounts \cup {NoAccount}]]
      /\ \A p \in PoolIds, t \in Tokens :
           managers'[p][t] = IF p = id /\ t \in ToSet(list) THEN manager ELSE managers[p][t]
  BY <1>1, <1>2
<1>8. DeregisteredIsEmpty'
  <2>1. \A p \in PoolIds, t \in Tokens : t \notin ToSet(tokens[p]) =>
           balances[p][t] = EmptyBalance /\ managers[p][t] = NoAccount
    BY DEF DeregisteredIsEmpty, LedgerInv, RegistryOK
  <2>2. ASSUME NEW p \in PoolIds, NEW t \in Tokens, t \notin ToSet(tokens'[p])
        PROVE  balances'[p][t] = EmptyBalance /\ managers'[p][t] = NoAccount
    <3>1. CASE p # id
      <4>1. tokens'[p] = tokens[p] /\ managers'[p][t] = managers[p][t] /\ balances'[p][t] = balances[p][t]
        BY <1>3, <1>6, <1>7, <3>1
      <4> QED
        BY <2>1, <2>2, <4>1
    <3>2. CASE p = id
      <4>1. t \notin ToSet(l)
        BY <1>6, <2>2, <3>2
      <4> QED
        BY <1>3, <1>4, <1>7, <2>1, <3>2, <4>1
    <3> QED
      BY <3>1, <3>2
  <2> QED
    BY <2>2 DEF DeregisteredIsEmpty
<1>9. RegistryOK'
  BY <1>1, <1>2, <1>4, <1>6, <1>7, <1>8 DEF LedgerInv, RegistryOK
<1> QED
  BY <1>1, <1>3, <1>9, NothingMoves DEF LedgerInv

(* A token that is deregistered has an empty balance, and its Asset        *)
(* Manager is forgotten.                                                   *)
LEMMA DeregisterTokensKeeps ==
  ASSUME LedgerInv, NEW caller, NEW id \in pools, NEW list \in TokenLists, DeregisterTokens(caller, id, list)
  PROVE  /\ RegistryOK' /\ AmountsOK' /\ NoLess /\ Conserved
         /\ UNCHANGED frames
<1>1. /\ NonReentrant /\ IsInjective(list) /\ ToSet(list) \subseteq ToSet(tokens[id])
      /\ \A t \in ToSet(list) : IsZero(balances[id][t])
      /\ tokens' = [tokens EXCEPT ![id] = FoldLeft(SwapAndPop, tokens[id], list)]
      /\ balances' = [balances EXCEPT ![id] =
                       [t \in Tokens |-> IF t \in ToSet(list) THEN EmptyBalance ELSE balances[id][t]]]
      /\ managers' = [managers EXCEPT ![id] =
                       [t \in Tokens |-> IF t \in ToSet(list) THEN NoAccount ELSE managers[id][t]]]
      /\ UNCHANGED <<frames, now, nextPoolNonce, pools, internal, erc20>>
  BY DEF DeregisterTokens, HasNoBalance, RemoveManagers, CallAndReturn, permissionVars
<1>2. /\ id \in PoolIds /\ tokens \in [PoolIds -> Seq(Tokens)] /\ \A p \in PoolIds : IsInjective(tokens[p])
      /\ managers \in [PoolIds -> [Tokens -> Accounts \cup {NoAccount}]]
      /\ list \in Seq(Tokens) /\ tokens[id] \in Seq(Tokens)
      /\ AccountsInv /\ AmountsOK
  BY InputAssumption DEF LedgerInv, AccountsInv, RegistryOK
<1>3. /\ balances' \in [PoolIds -> [Tokens -> Balance]]
      /\ \A p \in PoolIds, t \in Tokens :
           balances'[p][t] = IF p = id /\ t \in ToSet(list) THEN EmptyBalance ELSE balances[p][t]
  <2>1. EmptyBalance \in Balance
    BY DEF EmptyBalance, Balance
  <2> QED
    BY <1>1, <1>2, <2>1 DEF AmountsOK
<1>4. /\ managers' \in [PoolIds -> [Tokens -> Accounts \cup {NoAccount}]]
      /\ \A p \in PoolIds, t \in Tokens :
           managers'[p][t] = IF p = id /\ t \in ToSet(list) THEN NoAccount ELSE managers[p][t]
  BY <1>1, <1>2
<1> DEFINE l == FoldLeft(SwapAndPop, tokens[id], list)
<1>5. l \in Seq(Tokens) /\ IsInjective(l) /\ ToSet(l) = ToSet(tokens[id]) \ ToSet(list)
  BY <1>1, <1>2, AllPopped
<1>6. tokens' = [tokens EXCEPT ![id] = l]
  BY <1>1
<1> HIDE DEF l
<1>7. /\ tokens' \in [PoolIds -> Seq(Tokens)]
      /\ \A p \in PoolIds : tokens'[p] = IF p = id THEN l ELSE tokens[p]
  BY <1>2, <1>5, <1>6
<1>8. DeregisteredIsEmpty'
  <2>1. \A p \in PoolIds, t \in Tokens : t \notin ToSet(tokens[p]) =>
           balances[p][t] = EmptyBalance /\ managers[p][t] = NoAccount
    BY DEF DeregisteredIsEmpty, LedgerInv, RegistryOK
  <2>2. ASSUME NEW p \in PoolIds, NEW t \in Tokens, t \notin ToSet(tokens'[p])
        PROVE  balances'[p][t] = EmptyBalance /\ managers'[p][t] = NoAccount
    <3>1. CASE p # id
      BY <1>3, <1>4, <1>7, <2>1, <2>2, <3>1
    <3>2. CASE p = id
      <4>1. t \notin ToSet(l)
        BY <1>7, <2>2, <3>2
      <4> QED
        BY <1>3, <1>4, <1>5, <2>1, <3>2, <4>1
    <3> QED
      BY <3>1, <3>2
  <2> QED
    BY <2>2 DEF DeregisteredIsEmpty
<1>9. RegistryOK'
  BY <1>1, <1>2, <1>4, <1>5, <1>7, <1>8 DEF LedgerInv, RegistryOK
<1>10. AmountsOK'
  BY <1>1, <1>2, <1>3 DEF AmountsOK
<1>11. NoLoan /\ NoLoan'
  BY <1>1, <1>2, FreeNow, NotLending DEF AccountsInv
<1> DEFINE zero == [t \in Tokens |-> 0]
<1>12. ASSUME NEW t \in Tokens
       PROVE  /\ InternalMoves(t, VaultAddress, zero[t], VaultAddress, zero[t])
              /\ CashMoves(t, id, zero[t])
              /\ erc20'[VaultAddress][t] = erc20[VaultAddress][t] + zero[t] + zero[t] + zero[t]
  <2>1. /\ erc20[VaultAddress][t] \in Int /\ \A h \in Holders : internal[h][t] \in Int
        /\ \A p \in PoolIds : balances[p][t].cash \in Int
    BY <1>2, Addresses DEF AmountsOK, Balance
  <2>2. zero[t] = 0 /\ VaultAddress \in Holders
    BY Addresses
  <2> HIDE DEF zero
  <2>3. InternalMoves(t, VaultAddress, zero[t], VaultAddress, zero[t])
    BY <1>1, <2>1, <2>2 DEF InternalMoves
  <2>4. \A p \in PoolIds : balances'[p][t].cash = balances[p][t].cash
    BY <1>1, <1>3 DEF IsZero, EmptyBalance
  <2>5. CashMoves(t, id, zero[t])
    BY <1>2, <2>1, <2>2, <2>4 DEF CashMoves
  <2> QED
    BY <1>1, <2>1, <2>2, <2>3, <2>5
<1> HIDE DEF zero
<1>13. Settles(VaultAddress, zero, VaultAddress, zero, id, zero)
  BY <1>12 DEF Settles
<1>14. Balanced
  BY <1>2, <1>10, <1>11, <1>13, Accounted
<1> QED
  BY <1>1, <1>2, <1>9, <1>10, <1>14, BalancedIsNoLess

(* A step keeps the accounts and the registry, and takes nothing from what  *)
(* the Vault holds in excess of what it owes.                               *)
Sound == RegistryOK' /\ AmountsOK' /\ CallsOK' /\ NoLess /\ Conserved

(* A step that begins no call keeps what is known of those in progress.    *)
LEMMA CallsStay ==
  ASSUME AccountsInv, UNCHANGED frames \/ frames' = <<>>
  PROVE  CallsOK'
  BY DEF AccountsInv, CallsOK

(* A step that touches none of the books is sound.                         *)
LEMMA QuietStep ==
  ASSUME LedgerInv, UNCHANGED <<frames, now, internal, balances, erc20, nextPoolNonce, pools, tokens, managers>>
  PROVE  Sound
<1>1. RegistryOK'
  BY BalancesStay DEF LedgerInv, registryVars
<1> QED
  BY <1>1, NothingMoves, CallsStay DEF LedgerInv, Sound

(* One lemma per part of the Vault.  The registry of Pools.                *)
LEMMA PoolRegistrySound == ASSUME LedgerInv, PoolRegistryNext
                           PROVE  Sound
<1>1. ASSUME NEW caller \in PoolContracts, NEW s \in Specializations, RegisterPool(caller, s)
      PROVE  Sound
  BY <1>1, RegisterPoolKeeps, CallsStay DEF LedgerInv, Sound
<1>2. ASSUME NEW id \in pools, NEW list \in TokenLists, NEW caller \in Accounts,
             NEW manager \in Accounts \cup {NoAccount}, RegisterTokens(caller, id, list, manager)
      PROVE  Sound
  BY <1>2, RegisterTokensKeeps, CallsStay DEF LedgerInv, Sound
<1>3. ASSUME NEW id \in pools, NEW list \in TokenLists, NEW caller \in Accounts, DeregisterTokens(caller, id, list)
      PROVE  Sound
  BY <1>3, DeregisterTokensKeeps, CallsStay DEF LedgerInv, Sound
<1> QED
  BY <1>1, <1>2, <1>3 DEF PoolRegistryNext

(* Joins and exits.                                                        *)
LEMMA PoolBalancesSound == ASSUME LedgerInv, PoolBalancesNext
                           PROVE  Sound
<1>1. ASSUME NEW op \in Joins, NEW caller \in Accounts, NEW sender \in Accounts, NEW recipient \in Recipients,
             NEW id \in pools, NEW limit \in Limits, NEW b \in BOOLEAN,
             BeginJoinOrExit(op, caller, id, sender, recipient, limit, b)
      PROVE  Sound
  <2>1. AmountsOK' /\ NoLess /\ Conserved /\ CallsOK'
    BY <1>1, BeginJoinOrExitConserves DEF LedgerInv
  <2>2. RegistryOK'
    BY <1>1, BalancesStay DEF LedgerInv, BeginJoinOrExit
  <2> QED
    BY <2>1, <2>2 DEF Sound
<1>2. CASE EndJoin
  <2>1. AmountsOK' /\ NoLess /\ Conserved
    BY <1>2, EndJoinBalanced, BalancedIsNoLess DEF LedgerInv
  <2>2. CallsOK'
    BY <1>2, Resumed, CallsStay DEF LedgerInv, EndJoin
  <2> QED
    BY <1>2, <2>1, <2>2, EndJoinTouches DEF Sound
<1>3. CASE EndExit
  <2>1. AmountsOK' /\ NoLess /\ Conserved
    BY <1>3, EndExitBalanced, BalancedIsNoLess DEF LedgerInv
  <2>2. CallsOK'
    BY <1>3, Resumed, CallsStay DEF LedgerInv, EndExit
  <2> QED
    BY <1>3, <2>1, <2>2, EndExitTouches DEF Sound
<1>4. "JOIN" \in Joins /\ "EXIT" \in Joins
  BY DEF Joins
<1> QED
  BY <1>1, <1>2, <1>3, <1>4 DEF PoolBalancesNext, BeginJoin, BeginExit

(* Swaps.                                                                  *)
LEMMA SwapsSound == ASSUME LedgerInv, SwapsNext
                    PROVE  Sound
<1>1. ASSUME NEW caller \in Accounts, NEW sender \in Accounts, NEW recipient \in Recipients, NEW id \in pools,
             NEW kind \in SwapKinds, NEW tokenIn \in Tokens, NEW tokenOut \in Tokens, NEW amount \in Amounts,
             NEW limit \in Limits, NEW fromInternal \in BOOLEAN, NEW toInternal \in BOOLEAN,
             BeginSwap(caller, id, sender, recipient, kind, tokenIn, tokenOut, amount, limit,
                       fromInternal, toInternal)
      PROVE  Sound
  <2>1. amount \in Nat
    BY InputAssumption
  <2>2. AmountsOK' /\ NoLess /\ Conserved /\ CallsOK'
    BY <1>1, <2>1, BeginSwapConserves DEF LedgerInv
  <2>3. RegistryOK'
    BY <1>1, BalancesStay DEF LedgerInv, BeginSwap
  <2> QED
    BY <2>2, <2>3 DEF Sound
<1>2. CASE EndSwap
  <2>1. AmountsOK' /\ NoLess /\ Conserved
    BY <1>2, EndSwapBalanced, BalancedIsNoLess DEF LedgerInv
  <2>2. CallsOK'
    BY <1>2, Resumed, CallsStay DEF LedgerInv, EndSwap
  <2> QED
    BY <1>2, <2>1, <2>2, EndSwapTouches DEF Sound
<1> QED
  BY <1>1, <1>2 DEF SwapsNext

(* Flash loans.                                                            *)
LEMMA FlashLoansSound == ASSUME LedgerInv, FlashLoansNext
                         PROVE  Sound
<1>1. ASSUME NEW caller \in Accounts, NEW recipient \in Accounts \cap Recipients, NEW loan \in Loans,
             BeginFlashLoan(caller, recipient, loan)
      PROVE  Sound
  <2>1. AmountsOK' /\ NoLess /\ Conserved /\ CallsOK'
    BY <1>1, BeginFlashLoanConserves DEF LedgerInv
  <2>2. RegistryOK'
    BY <1>1, BalancesStay DEF LedgerInv, BeginFlashLoan
  <2> QED
    BY <2>1, <2>2 DEF Sound
<1>2. CASE EndFlashLoan
  <2>1. AmountsOK' /\ NoLess /\ Conserved /\ CallsOK'
    BY <1>2, EndFlashLoanConserves, CallsStay DEF LedgerInv
  <2>2. RegistryOK'
    BY <1>2, BalancesStay DEF LedgerInv, EndFlashLoan
  <2> QED
    BY <2>1, <2>2 DEF Sound
<1> QED
  BY <1>1, <1>2 DEF FlashLoansNext

(* Asset Managers and Internal Balances.                                   *)
LEMMA BalanceManagementSound == ASSUME LedgerInv, BalanceManagementNext
                                PROVE  Sound
<1>1. ASSUME NEW caller \in Accounts, NEW token \in Tokens, NEW amount \in Amounts, NEW id \in pools,
             ManagePoolBalance(caller, id, token, amount)
      PROVE  Sound
  <2>1. AmountsOK' /\ NoLess /\ Conserved
    BY <1>1, InputAssumption, ManagePoolBalanceConserves DEF LedgerInv
  <2>2. CallsOK'
    BY <1>1, CallsStay DEF LedgerInv, ManagePoolBalance, CallAndReturn
  <2> QED
    BY <1>1, <2>1, <2>2, ManagePoolBalanceTouches DEF Sound
<1>2. ASSUME NEW caller \in Accounts, NEW token \in Tokens, NEW amount \in Amounts, NEW sender \in Accounts,
             NEW recipient \in Recipients, ManageUserBalance(caller, sender, recipient, token, amount)
      PROVE  Sound
  <2>1. amount \in Nat
    BY InputAssumption
  <2>2. AmountsOK' /\ NoLess /\ Conserved
    BY <1>2, <2>1, ManageUserBalanceConserves DEF LedgerInv
  <2>3. CallsOK'
    BY <1>2, CallsStay DEF LedgerInv, ManageUserBalance, CallAndReturn
  <2>4. RegistryOK'
    BY <1>2, BalancesStay DEF LedgerInv, ManageUserBalance
  <2> QED
    BY <2>2, <2>3, <2>4 DEF Sound
<1> QED
  BY <1>1, <1>2 DEF BalanceManagementNext

(* Transfers of tokens from somebody else than the Vault.                   *)
LEMMA TransferSound ==
  ASSUME LedgerInv, NEW from \in Holders, from # VaultAddress, NEW to, NEW token, NEW amount \in Nat,
         erc20' = Transfer(erc20, from, to, Only(token, amount)),
         UNCHANGED <<frames, now, internal, balances, nextPoolNonce, pools, tokens, managers>>
  PROVE  Sound
<1>1. AmountsOK /\ VaultAddress \in Holders /\ Only(token, amount) \in [Tokens -> Nat]
  BY OnlyIsAmount, Addresses DEF LedgerInv, AccountsInv
<1>2. /\ erc20' \in [Holders -> [Tokens -> Int]]
      /\ \A t \in Tokens : erc20'[VaultAddress][t] >= erc20[VaultAddress][t]
  BY <1>1 DEF Transfer, AmountsOK
<1>3. AmountsOK' /\ NoLess /\ Conserved
  BY <1>2, DonationIsConserved DEF LedgerInv
<1>4. RegistryOK'
  BY BalancesStay DEF LedgerInv, registryVars
<1> QED
  BY <1>3, <1>4, CallsStay DEF LedgerInv, Sound

(* The permissions, the pause and the fees collector.                      *)
LEMMA GovernanceSound == ASSUME LedgerInv, GovernanceNext
                         PROVE  Sound
<1>1. ASSUME NEW caller, NEW a, NEW x, NEW y, NEW z,
             \/ SetRelayerApproval(caller, x, y, z)
             \/ SetAuthorizer(caller, a)
             \/ SetPaused(caller, z)
             \/ SetFlashLoanFeePercentage(caller, x)
      PROVE  Sound
  <2>1. UNCHANGED <<frames, now, internal, balances, erc20, nextPoolNonce, pools, tokens, managers>>
    BY <1>1 DEF SetRelayerApproval, SetAuthorizer, SetPaused, Pausable!SetPaused, SetFlashLoanFeePercentage,
                CallAndReturn, permissionVars, registryVars
  <2> QED
    BY <2>1, QuietStep
<1>2. ASSUME NEW caller \in Accounts, NEW recipient \in Recipients, NEW token \in Tokens, NEW amount \in Amounts,
             WithdrawCollectedFees(caller, recipient, token, amount)
      PROVE  Sound
  <2>1. /\ erc20' = Transfer(erc20, Collector, recipient, Only(token, amount))
        /\ UNCHANGED <<frames, now, internal, balances, nextPoolNonce, pools, tokens, managers>>
    BY <1>2 DEF WithdrawCollectedFees, CallAndReturn, permissionVars, registryVars
  <2>2. amount \in Nat /\ Collector \in Holders /\ Collector # VaultAddress
    BY InputAssumption, Addresses
  <2> QED
    BY <2>1, <2>2, TransferSound
<1> QED
  BY <1>1, <1>2 DEF GovernanceNext

(* The Authorizers' permissions.                                           *)
LEMMA AuthorizersSound == ASSUME LedgerInv, AuthorizersNext
                          PROVE  Sound
<1>1. UNCHANGED <<frames, now, internal, balances, erc20, nextPoolNonce, pools, tokens, managers>>
  BY DEF AuthorizersNext, SetPermission, callVars, registryVars
<1> QED
  BY <1>1, QuietStep

(* Transfers of tokens outside of the Vault.                               *)
LEMMA TokensSound == ASSUME LedgerInv, TokensNext
                     PROVE  Sound
<1>1. ASSUME NEW caller \in Accounts, NEW recipient, NEW token \in Tokens, NEW amount \in Amounts,
             Erc20Transfer(caller, recipient, token, amount)
      PROVE  Sound
  <2>1. /\ erc20' = Transfer(erc20, caller, recipient, Only(token, amount))
        /\ UNCHANGED <<frames, now, internal, balances, nextPoolNonce, pools, tokens, managers>>
    BY <1>1 DEF Erc20Transfer, CallAndReturn, permissionVars, registryVars
  <2>2. amount \in Nat /\ caller \in Holders /\ caller # VaultAddress
    BY InputAssumption, Addresses
  <2> QED
    BY <2>1, <2>2, TransferSound
<1> QED
  BY <1>1 DEF TokensNext

(* Time.                                                                   *)
LEMMA TickSound == ASSUME LedgerInv, Tick
                   PROVE  Sound
<1>1. /\ UNCHANGED <<frames, internal, balances, erc20, nextPoolNonce, pools, tokens, managers>>
      /\ now' = now + 1
  BY DEF Tick, Pausable!PausableTick, callVars, registryVars
<1>2. AmountsOK'
  BY <1>1 DEF LedgerInv, AccountsInv, AmountsOK
<1>3. ASSUME NEW t \in Tokens
      PROVE  Excess(t)' = Excess(t)
  <2>1. InCustody(t)' = InCustody(t)
    BY <1>1, CustodyNow, CustodyThen
  <2> QED
    BY <1>1, <2>1, OwedStays DEF Excess
<1>4. NoLess /\ Conserved
  BY <1>3, BalancedIsNoLess DEF Balanced, LedgerInv
<1>5. RegistryOK'
  BY <1>1, BalancesStay DEF LedgerInv, registryVars
<1> QED
  BY <1>1, <1>2, <1>4, <1>5, CallsStay DEF LedgerInv, Sound

(* LedgerInv is inductive, and every step conserves the funds.             *)
LEMMA NextIsSound == ASSUME LedgerInv, [Next]_vars
                     PROVE  Sound /\ LedgerInv'
<1>1. ASSUME UNCHANGED vars
      PROVE  Sound
  <2>1. UNCHANGED <<frames, now, internal, balances, erc20, nextPoolNonce, pools, tokens, managers>>
    BY <1>1 DEF vars, callVars, permissionVars, registryVars
  <2> QED
    BY <2>1, QuietStep
<1>2. Sound
  BY <1>1, PoolRegistrySound, PoolBalancesSound, SwapsSound, FlashLoansSound, BalanceManagementSound,
     GovernanceSound, AuthorizersSound, TokensSound, TickSound DEF Next
<1>3. IInv'
  BY IInvAlways DEF LedgerInv, AccountsInv
<1> QED
  BY <1>2, <1>3 DEF Sound, LedgerInv, AccountsInv, CallsOK, RegistryOK

(* It holds of a Vault just deployed.                                      *)
LEMMA InitIsSound == ASSUME Init
                     PROVE  LedgerInv
<1>1. IInv
  BY IInvInitially
<1>2. AmountsOK
  BY AddressAssumption DEF Init, AmountsOK, Holders, Balance, EmptyBalance
<1>3. RegistryOK
  <2>1. <<>> \in Seq(Tokens) /\ IsInjective(<<>>) /\ ToSet(<<>>) = {}
    BY EmptySeq DEF IsInjective, ToSet
  <2> QED
    BY <2>1 DEF Init, RegistryOK, DeregisteredIsEmpty
<1> QED
  BY <1>1, <1>2, <1>3 DEF Init, LedgerInv, AccountsInv, RegistryOK

(* A new Vault owes nothing.                                               *)
LEMMA SolventInitially == Init => Solvent
<1> SUFFICES ASSUME Init, NEW t \in Tokens
             PROVE  Owed(t) <= InCustody(t)
  BY DEF Solvent
<1>1. LedgerInv /\ AmountsOK
  BY InitIsSound DEF LedgerInv, AccountsInv
<1>2. InCustody(t) = 0
  <2>1. erc20[VaultAddress][t] = 0
    BY AddressAssumption DEF Init, Holders
  <2> QED
    BY <2>1, NotLending DEF Init, NoLoan
<1>3. Owed(t) = 0
  <2>1. PICK g, k : /\ IsSum(g, InternalOf(internal, t), Holders)
                    /\ IsSum(k, CashOf(balances, t), PoolIds)
                    /\ Owed(t) = g[Holders] + k[PoolIds]
    BY OwedIsSum, OwedNow
  <2> DEFINE a == InternalOf(internal, t)
             b == CashOf(balances, t)
  <2>2. \A h \in Holders : a[h] = 0
    BY DEF Init, InternalOf
  <2>3. \A id \in PoolIds : b[id] = 0
    BY DEF Init, CashOf, EmptyBalance
  <2>4. IsSum(g, a, Holders) /\ IsSum(k, b, PoolIds)
    BY <2>1
  <2> HIDE DEF a, b
  <2>5. g[Holders] = 0 /\ k[PoolIds] = 0
    BY <2>2, <2>3, <2>4, FiniteDomains, SumOfNothing
  <2> QED
    BY <2>1, <2>5
<1> QED
  BY <1>2, <1>3

(* The same after a step.                                                  *)
LEMMA ExcessIsIntThen ==
  AccountsInv' => \A t \in Tokens : InCustody(t)' \in Int /\ Owed(t)' \in Int
<1> DEFINE P == \A t \in Tokens : InCustody(t) \in Int /\ Owed(t) \in Int
<1>1. AccountsInv => P
  BY ExcessIsInt
<1> HIDE DEF P
<1>2. AccountsInv' => P'
  BY <1>1, PTL
<1> QED
  BY <1>2 DEF P

(* The Vault never owes more than it has.                                   *)
THEOREM IsSolvent == Spec => []Solvent
<1>1. Init => LedgerInv /\ Solvent
  BY InitIsSound, SolventInitially
<1>2. LedgerInv /\ Solvent /\ [Next]_vars => LedgerInv' /\ Solvent'
  <2> SUFFICES ASSUME LedgerInv, Solvent, [Next]_vars
               PROVE  LedgerInv' /\ Solvent'
    OBVIOUS
  <2>1. NoLess /\ LedgerInv'
    BY NextIsSound DEF Sound
  <2>2. ASSUME NEW t \in Tokens
        PROVE  Owed(t)' <= InCustody(t)'
    <3>1. Owed(t) \in Int /\ InCustody(t) \in Int
      BY ExcessIsInt DEF LedgerInv
    <3>2. Owed(t)' \in Int /\ InCustody(t)' \in Int
      BY <2>1, ExcessIsIntThen DEF LedgerInv
    <3>3. Excess(t) = InCustody(t) - Owed(t) /\ Excess(t)' = InCustody(t)' - Owed(t)'
      BY DEF Excess
    <3>4. Excess(t)' >= Excess(t) /\ Owed(t) <= InCustody(t)
      BY <2>1 DEF NoLess, Solvent
    <3> QED
      BY <3>1, <3>2, <3>3, <3>4
  <2> QED
    BY <2>1, <2>2 DEF Solvent
<1> QED
  BY <1>1, <1>2, PTL DEF Spec

(* No operation takes from the excess.                                      *)
THEOREM ConservesFunds == Spec => FundsAreConserved
<1>1. Init => LedgerInv
  BY InitIsSound
<1>2. LedgerInv /\ [Next]_vars => LedgerInv'
  BY NextIsSound
<1>3. LedgerInv /\ [Next]_vars =>
        [\A t \in Tokens : Excess(t)' # Excess(t) =>
           /\ erc20'[VaultAddress][t] > erc20[VaultAddress][t]
           /\ Owed(t)' = Owed(t)]_vars
  BY NextIsSound DEF Sound, Conserved
<1> QED
  BY <1>1, <1>2, <1>3, PTL DEF Spec, FundsAreConserved

(* What is not registered is empty.                                         *)
THEOREM ForgetsDeregistered == Spec => []DeregisteredIsEmpty
<1>1. Init => LedgerInv
  BY InitIsSound
<1>2. LedgerInv /\ [Next]_vars => LedgerInv'
  BY NextIsSound
<1>3. LedgerInv => DeregisteredIsEmpty
  BY DEF LedgerInv, RegistryOK
<1> QED
  BY <1>1, <1>2, <1>3, PTL DEF Spec

---------------------------------------------------------------------------
(* What an operation may do.                                               *)

(* The settings of the Vault and of the fees collector.                    *)
SettingsOK ==
    /\ paused \in BOOLEAN
    /\ status \in {"NOT_ENTERED", "ENTERED"}
    /\ msgSender \in Accounts \cup {NoAccount}
    /\ authorizer \in Authorizers
    /\ permissions \subseteq Authorizers \X Roles \X Accounts
    /\ approved \subseteq Accounts \X Accounts
    /\ flashLoanFee \in 0 .. MaxFlashLoanFee

(* Every balance fits its word, and nobody has less than nothing.          *)
BalancesFit == \A id \in PoolIds, t \in Tokens : IsBalance(balances[id][t])
Erc20OK == erc20 \in [Holders -> [Tokens -> Nat]]

(* The call f was begun by its sender, or by a relayer of that time whom   *)
(* the sender still approves.                                              *)
MayActFor(f) ==
    \/ f.caller = f.sender
    \/ f.caller \in f.relayers /\ <<f.sender, f.caller>> \in approved

(* What is known of a call in progress and of its caller: it may act for   *)
(* the sender, and a join or swap has not been overtaken by a pause.       *)
CallerOK(f) ==
    /\ f.caller \in Accounts
    /\ f.op # "FLASH_LOAN" => MayActFor(f)
    /\ f.op = "FLASH_LOAN" => f.preLoan \in [DOMAIN f.loan -> Nat]
    /\ f.op \in {"JOIN", "SWAP"} => WhenNotPaused

CallersOK == \A n \in DOMAIN frames : CallerOK(frames[n])

(* The inductive invariant.                                                *)
TypeInv == LedgerInv /\ SettingsOK /\ BalancesFit /\ Erc20OK /\ CallersOK

(* What the action properties say of a step.                               *)
DebitsOK ==
    \A u \in Accounts, t \in Tokens :
      erc20'[u][t] < erc20[u][t] \/ internal'[u][t] < internal[u][t] => MayDebit(u)

PausesOK == ~WhenNotPaused => \A t \in Tokens : Owed(t)' <= Owed(t)

Stamped ==
    \A id \in PoolIds, t \in Tokens :
      /\ t \in ToSet(tokens[id]) /\ t \in ToSet(tokens'[id])
      /\ Total(balances'[id][t]) # Total(balances[id][t])
      => balances'[id][t].lastChangeBlock = now'

(* How a step leaves the permissions, the balances of Pools, and tokens.   *)
Permitted == SettingsOK' /\ CallersOK'
Booked == BalancesFit' /\ Stamped
Guarded == Erc20OK' /\ DebitsOK /\ PausesOK

(* What is used of the invariant most often.                               *)
LEMMA TypeInvIs ==
  ASSUME TypeInv
  PROVE  /\ LedgerInv /\ AccountsInv /\ AmountsOK /\ Erc20OK
         /\ \A u \in Accounts : u \in Holders /\ u # VaultAddress /\ u # Collector
         /\ \A u \in Holders, t \in Tokens : erc20[u][t] \in Nat /\ internal[u][t] \in Nat
         /\ erc20 \in [Holders -> [Tokens -> Nat]] /\ internal \in [Holders -> [Tokens -> Nat]]
  BY Addresses DEF TypeInv, LedgerInv, AccountsInv, AmountsOK, Erc20OK

(* A call that resumes acts for the caller it began for.                   *)
LEMMA ResumedBy ==
  ASSUME NEW ops, TypeInv, Resume(ops)
  PROVE  \E f : /\ frames = <<f>> /\ Frame = f /\ f.op \in ops /\ Current(f) /\ CallOK(f) /\ frames' = <<>>
                /\ CallerOK(f) /\ msgSender' = f.caller
<1>1. PICK f : frames = <<f>> /\ Frame = f /\ f.op \in ops /\ Current(f) /\ CallOK(f) /\ frames' = <<>>
  BY Resumed, TypeInvIs
<1>2. CallerOK(f)
  BY <1>1 DEF TypeInv, CallersOK
<1>3. msgSender' = f.caller
  BY <1>1 DEF Resume, Frame
<1> QED
  BY <1>1, <1>2, <1>3

(* It may spend for the sender.                                            *)
LEMMA ResumedMayDebit ==
  ASSUME NEW f, frames = <<f>>, Frame = f, frames' = <<>>, CallerOK(f), f.op # "FLASH_LOAN", msgSender' = f.caller
  PROVE  MayDebit(f.sender)
<1>1. Len(frames') < Len(frames)
  OBVIOUS
<1>2. RelayersAtStart = f.relayers
  BY <1>1 DEF RelayersAtStart
<1> QED
  BY <1>2 DEF MayDebit, CallerOK, MayActFor

(* A caller that is authenticated may spend for the user in the same step. *)
LEMMA AuthenticatedMayDebit ==
  ASSUME NEW caller \in Accounts, NEW user, AuthenticateFor(caller, user), frames = <<>>, CallAndReturn(caller)
  PROVE  MayDebit(user)
<1>1. frames' = <<>> /\ msgSender' = caller
  BY DEF CallAndReturn
<1>2. ~(Len(frames') < Len(frames))
  BY <1>1
<1>3. RelayersAtStart = CurrentRelayers
  BY <1>2 DEF RelayersAtStart
<1> QED
  BY <1>1, <1>3 DEF MayDebit, AuthenticateFor, CurrentRelayers

(* A call is begun by a caller that is authenticated.                      *)
LEMMA BegunMayAct ==
  ASSUME NEW f, f.caller \in Accounts, AuthenticateFor(f.caller, f.sender), f.relayers = CurrentRelayers
  PROVE  MayActFor(f)
  BY DEF MayActFor, AuthenticateFor, CurrentRelayers

---------------------------------------------------------------------------
(* Permissions.                                                            *)

(* A call that calls no foreign code and changes no setting.               *)
LEMMA ReturnIsPermitted ==
  ASSUME TypeInv, NEW caller \in Accounts, CallAndReturn(caller), UNCHANGED <<permissionVars, flashLoanFee>>
  PROVE  Permitted
<1>1. SettingsOK'
  BY DEF TypeInv, SettingsOK, CallAndReturn, permissionVars
<1>2. CallersOK'
  BY DEF TypeInv, CallersOK, CallerOK, CallAndReturn, permissionVars, MayActFor, WhenNotPaused,
         Pausable!NotPaused
<1> QED
  BY <1>1, <1>2 DEF Permitted

(* A call that reaches its hook.                                           *)
LEMMA HookIsPermitted ==
  ASSUME TypeInv, NonReentrant, NEW f, CallHook(f), CallerOK(f), UNCHANGED <<permissionVars, flashLoanFee>>
  PROVE  Permitted
<1>1. SettingsOK'
  BY DEF TypeInv, SettingsOK, CallHook, CallerOK, permissionVars
<1>2. frames = <<>>
  BY FreeNow, TypeInvIs DEF AccountsInv
<1>3. frames' = <<f>>
  BY <1>2 DEF CallHook
<1>4. CallersOK'
  BY <1>3 DEF CallersOK, CallerOK, permissionVars, MayActFor, WhenNotPaused, Pausable!NotPaused
<1> QED
  BY <1>1, <1>4 DEF Permitted

(* A call that resumes and returns.                                        *)
LEMMA ResumeIsPermitted ==
  ASSUME TypeInv, NEW ops, Resume(ops), UNCHANGED <<permissionVars, flashLoanFee>>
  PROVE  Permitted
<1>1. PICK f : frames' = <<>> /\ CallerOK(f) /\ msgSender' = f.caller
  BY ResumedBy
<1>2. SettingsOK'
  BY <1>1 DEF TypeInv, SettingsOK, Resume, CallerOK, permissionVars
<1> QED
  BY <1>1, <1>2 DEF Permitted, CallersOK

---------------------------------------------------------------------------
(* Balances of Pools.                                                      *)

(* A call that leaves the balances of Pools alone stamps none.             *)
LEMMA KeptIsBooked ==
  ASSUME TypeInv, UNCHANGED balances
  PROVE  Booked
  BY DEF TypeInv, BalancesFit, Booked, Stamped

(* What a hook's answers are stored as: checked, and stamped.              *)
LEMMA StoreIsBooked ==
  ASSUME TypeInv, UNCHANGED now, NEW f, f.id \in PoolIds, NEW new, StoreBalances(f, new),
         \A i \in DOMAIN new : new[i].lastChangeBlock = now
  PROVE  Booked
<1> DEFINE keys == IF f.id.specialization = "GENERAL" THEN tokens[f.id] ELSE f.tokens
           row == [t \in Tokens |-> IF \E i \in DOMAIN new : keys[i] = t
                                    THEN new[CHOOSE i \in DOMAIN new : keys[i] = t]
                                    ELSE balances[f.id][t]]
<1>1. balances' = [balances EXCEPT ![f.id] = row] /\ \A i \in DOMAIN new : IsBalance(new[i])
  BY DEF StoreBalances
<1>2. \A t \in Tokens : \/ row[t] = balances[f.id][t]
                        \/ IsBalance(row[t]) /\ row[t].lastChangeBlock = now
  BY <1>1
<1> HIDE DEF row
<1>3. \A id \in PoolIds : balances'[id] = IF id = f.id THEN row ELSE balances[id]
  BY <1>1, TypeInvIs DEF AmountsOK
<1> QED
  BY <1>2, <1>3 DEF TypeInv, BalancesFit, Booked, Stamped

(* One balance changes: it is checked, and stamped unless its total stays. *)
LEMMA SetIsBooked ==
  ASSUME TypeInv, UNCHANGED now, NEW id \in PoolIds, NEW token \in Tokens, NEW new, SetBalance(id, token, new),
         Total(new) = Total(balances[id][token]) \/ new.lastChangeBlock = now
  PROVE  Booked
<1>1. IsBalance(new) /\ balances' = [balances EXCEPT ![id][token] = new]
  BY DEF SetBalance
<1>2. \A p \in PoolIds, t \in Tokens : balances'[p][t] = IF p = id /\ t = token THEN new ELSE balances[p][t]
  BY <1>1, TypeInvIs DEF AmountsOK
<1> QED
  BY <1>1, <1>2 DEF TypeInv, BalancesFit, Booked, Stamped

---------------------------------------------------------------------------
(* Debits and the pause.                                                   *)

(* A call that moves nothing takes nothing and owes nothing.               *)
LEMMA QuietIsGuarded ==
  ASSUME TypeInv, UNCHANGED <<internal, balances, erc20>>
  PROVE  Guarded
<1>1. Erc20OK'
  BY TypeInvIs DEF Erc20OK
<1>2. DebitsOK
  <2>1. \A u \in Accounts, t \in Tokens : erc20[u][t] \in Nat /\ internal[u][t] \in Nat
    BY TypeInvIs
  <2> QED
    BY <2>1 DEF DebitsOK
<1>3. PausesOK
  BY OwedStays, OwedIsInt, TypeInvIs DEF PausesOK
<1> QED
  BY <1>1, <1>2, <1>3 DEF Guarded

(* Nobody but x has less than before.                                      *)
OnlyFrom(x) ==
    \A u \in Accounts, t \in Tokens :
      u # x => erc20'[u][t] >= erc20[u][t] /\ internal'[u][t] >= internal[u][t]

(* A step that takes from x only, for whom the caller may act.             *)
LEMMA DebitFrom ==
  ASSUME TypeInv, NEW x, x \in Accounts => MayDebit(x), OnlyFrom(x), Erc20OK', AmountsOK'
  PROVE  DebitsOK
<1>1. \A u \in Accounts, t \in Tokens :
        /\ erc20[u][t] \in Int /\ internal[u][t] \in Int
        /\ erc20'[u][t] \in Int /\ internal'[u][t] \in Int
  BY TypeInvIs DEF Erc20OK, AmountsOK
<1> QED
  BY <1>1 DEF DebitsOK, OnlyFrom

(* A transfer of what the sender has.                                      *)
LEMMA TransferFrom ==
  ASSUME NEW acc \in [Holders -> [Tokens -> Nat]], NEW from \in Holders, NEW to,
         NEW m \in [Tokens -> Nat], Holds(acc, from, m)
  PROVE  /\ Transfer(acc, from, to, m) \in [Holders -> [Tokens -> Nat]]
         /\ \A h \in Holders, t \in Tokens : h # from => Transfer(acc, from, to, m)[h][t] >= acc[h][t]
         /\ \A h \in Holders, t \in Tokens : h # to => Transfer(acc, from, to, m)[h][t] <= acc[h][t]
  BY DEF Transfer, Holds

(* Two transfers of what the senders have, the second from the Vault.      *)
TwoTransfers(acc, last, from, to, third, m, n) ==
    LET mid == Transfer(acc, from, to, m)
    IN  /\ Holds(acc, from, m)
        /\ Holds(mid, VaultAddress, n)
        /\ last = Transfer(mid, VaultAddress, third, n)

(* Only the senders can end with less, only the recipients with more.      *)
LEMMA TwoTransfersFrom ==
  ASSUME NEW acc \in [Holders -> [Tokens -> Nat]], NEW from \in Holders, NEW to, NEW third, NEW last,
         NEW m \in [Tokens -> Nat], NEW n \in [Tokens -> Nat], TwoTransfers(acc, last, from, to, third, m, n)
  PROVE  /\ last \in [Holders -> [Tokens -> Nat]]
         /\ \A h \in Holders, t \in Tokens : h # from /\ h # VaultAddress => last[h][t] >= acc[h][t]
         /\ \A h \in Holders, t \in Tokens : h # to /\ h # third => last[h][t] <= acc[h][t]
<1> DEFINE mid == Transfer(acc, from, to, m)
<1>1. Holds(acc, from, m) /\ Holds(mid, VaultAddress, n) /\ last = Transfer(mid, VaultAddress, third, n)
  BY DEF TwoTransfers
<1>2. /\ mid \in [Holders -> [Tokens -> Nat]]
      /\ \A h \in Holders, t \in Tokens : h # from => mid[h][t] >= acc[h][t]
      /\ \A h \in Holders, t \in Tokens : h # to => mid[h][t] <= acc[h][t]
  BY <1>1, TransferFrom
<1> HIDE DEF mid
<1>3. /\ last \in [Holders -> [Tokens -> Nat]]
      /\ \A h \in Holders, t \in Tokens : h # VaultAddress => last[h][t] >= mid[h][t]
      /\ \A h \in Holders, t \in Tokens : h # third => last[h][t] <= mid[h][t]
  BY <1>1, <1>2, TransferFrom, Addresses
<1>4. \A h \in Holders, t \in Tokens : acc[h][t] \in Int /\ mid[h][t] \in Int /\ last[h][t] \in Int
  BY <1>2, <1>3
<1> QED
  BY <1>2, <1>3, <1>4

(* What is paid out while the Vault is paused.                             *)
LEMMA PaysOut ==
  ASSUME TypeInv, AmountsOK', NoLoan, NoLoan', Balanced,
         \A t \in Tokens : erc20'[VaultAddress][t] <= erc20[VaultAddress][t]
  PROVE  PausesOK
<1>1. ASSUME NEW t \in Tokens
      PROVE  Owed(t)' <= Owed(t)
  <2>1. Owed(t) \in Int
    BY OwedIsInt, TypeInvIs
  <2>2. Excess(t)' = Excess(t)
    BY DEF Balanced
  <2>3. Excess(t) = erc20[VaultAddress][t] - Owed(t) /\ Excess(t)' = erc20'[VaultAddress][t] - Owed(t)'
    BY DEF Excess, NoLoan
  <2>4. /\ erc20[VaultAddress][t] \in Int /\ erc20'[VaultAddress][t] \in Int
        /\ erc20'[VaultAddress][t] <= erc20[VaultAddress][t]
    BY TypeInvIs, Addresses DEF AmountsOK
  <2>5. Owed(t)' \in Int
    BY OwedIsIntThen
  <2> QED
    BY <2>1, <2>2, <2>3, <2>4, <2>5
<1> QED
  BY <1>1 DEF PausesOK

(* A join takes from its sender.                                           *)
LEMMA EndJoinIsGuarded ==
  ASSUME TypeInv, EndJoin
  PROVE  Guarded /\ Booked
<1>1. PICK f : /\ Frame = f /\ f.op = "JOIN" /\ CallOK(f) /\ CallerOK(f) /\ msgSender' = f.caller
               /\ frames = <<f>> /\ frames' = <<>>
  BY ResumedBy DEF EndJoin
<1>2. PICK m \in PerToken(f, Amounts), fees \in PerToken(f, DueFees) : ProcessJoin(f, m, fees)
  BY <1>1 DEF EndJoin
<1>3. m \in [Tokens -> Nat] /\ fees \in [Tokens -> Nat]
  BY Answers, InputAssumption
<1>4. /\ f.id \in PoolIds /\ f.sender \in Accounts /\ f.useInternalBalance \in BOOLEAN
      /\ MayDebit(f.sender) /\ WhenNotPaused
  BY <1>1, ResumedMayDebit DEF CallOK, CallerOK, Joins
<1>5. AmountsOK'
  BY TypeInvIs, EndJoinBalanced
<1> DEFINE pulled == Remainder(f.sender, m, f.useInternalBalance)
           deducted == Deducted(f.sender, m, f.useInternalBalance)
           received == Transfer(erc20, f.sender, VaultAddress, pulled)
           new == [i \in DOMAIN f.tokens |->
                     ChangeCash(f.balances[i], m[f.tokens[i]] - fees[f.tokens[i]], now)]
<1>6. deducted \in [Tokens -> Nat] /\ pulled \in [Tokens -> Nat]
  BY <1>3, <1>4, FromInternal, TypeInvIs
<1>7. /\ erc20' = Transfer(received, VaultAddress, Collector, fees)
      /\ Holds(erc20, f.sender, pulled) /\ Holds(received, VaultAddress, fees)
      /\ internal' = Debit(internal, f.sender, deducted)
      /\ StoreBalances(f, new)
  BY <1>2 DEF ProcessJoin
<1> HIDE DEF pulled, deducted
<1>8. /\ erc20' \in [Holders -> [Tokens -> Nat]]
      /\ \A h \in Holders, t \in Tokens : h # f.sender /\ h # VaultAddress => erc20'[h][t] >= erc20[h][t]
  <2>1. f.sender \in Holders /\ erc20 \in [Holders -> [Tokens -> Nat]]
    BY <1>4, TypeInvIs
  <2>2. TwoTransfers(erc20, erc20', f.sender, VaultAddress, Collector, pulled, fees)
    BY <1>7 DEF TwoTransfers
  <2> QED
    BY <1>3, <1>6, <2>1, <2>2, TwoTransfersFrom
<1>9. \A h \in Holders, t \in Tokens : h # f.sender => internal'[h][t] = internal[h][t]
  BY <1>4, <1>7, TypeInvIs DEF Debit
<1>10. OnlyFrom(f.sender)
  BY <1>8, <1>9, TypeInvIs DEF OnlyFrom
<1>11. Guarded
  BY <1>4, <1>5, <1>8, <1>10, DebitFrom DEF Guarded, PausesOK, Erc20OK
<1>12. Booked
  <2>1. \A i \in DOMAIN new : new[i].lastChangeBlock = now
    BY DEF ChangeCash
  <2>2. UNCHANGED now
    BY DEF EndJoin, permissionVars
  <2> HIDE DEF new
  <2> QED
    BY <1>4, <1>7, <2>1, <2>2, StoreIsBooked
<1> QED
  BY <1>11, <1>12

(* An exit takes from nobody, and pays.                                    *)
LEMMA EndExitIsGuarded ==
  ASSUME TypeInv, EndExit
  PROVE  Guarded /\ Booked
<1>1. PICK f : /\ Frame = f /\ f.op = "EXIT" /\ CallOK(f) /\ frames = <<f>> /\ frames' = <<>>
  BY ResumedBy DEF EndExit
<1>2. PICK m \in PerToken(f, Amounts), fees \in PerToken(f, DueFees) : ProcessExit(f, m, fees)
  BY <1>1 DEF EndExit
<1>3. m \in [Tokens -> Nat] /\ fees \in [Tokens -> Nat]
  BY Answers, InputAssumption
<1>4. /\ f.id \in PoolIds /\ f.recipient \in Recipients /\ f.useInternalBalance \in BOOLEAN
      /\ f.op # "FLASH_LOAN"
  BY <1>1 DEF CallOK, Joins
<1>5. AmountsOK' /\ Balanced
  BY TypeInvIs, EndExitBalanced
<1> DEFINE sent == IF f.useInternalBalance THEN Nothing ELSE m
           remaining == Transfer(erc20, VaultAddress, f.recipient, sent)
           new == [i \in DOMAIN f.tokens |->
                     ChangeCash(f.balances[i], -(m[f.tokens[i]] + fees[f.tokens[i]]), now)]
<1>6. sent \in [Tokens -> Nat]
  BY <1>3, <1>4 DEF Nothing
<1>7. /\ erc20' = Transfer(remaining, VaultAddress, Collector, fees)
      /\ Holds(erc20, VaultAddress, sent) /\ Holds(remaining, VaultAddress, fees)
      /\ internal' = IF f.useInternalBalance THEN Credit(internal, f.recipient, m) ELSE internal
      /\ StoreBalances(f, new)
  BY <1>2 DEF ProcessExit
<1> HIDE DEF sent
<1>8. /\ erc20' \in [Holders -> [Tokens -> Nat]]
      /\ \A h \in Holders, t \in Tokens : h # VaultAddress => erc20'[h][t] >= erc20[h][t]
      /\ \A t \in Tokens : erc20'[VaultAddress][t] <= erc20[VaultAddress][t]
  <2>1. /\ VaultAddress \in Holders /\ erc20 \in [Holders -> [Tokens -> Nat]]
        /\ f.recipient # VaultAddress /\ Collector # VaultAddress
    BY <1>4, TypeInvIs, Addresses
  <2>2. TwoTransfers(erc20, erc20', VaultAddress, f.recipient, Collector, sent, fees)
    BY <1>7 DEF TwoTransfers
  <2> QED
    BY <1>3, <1>6, <2>1, <2>2, TwoTransfersFrom
<1>9. \A h \in Holders, t \in Tokens : internal'[h][t] >= internal[h][t]
  <2>1. f.recipient \in Holders /\ \A t \in Tokens : m[t] \in Nat
    BY <1>3, <1>4, Addresses
  <2>2. internal \in [Holders -> [Tokens -> Nat]]
    BY TypeInvIs
  <2>3. CASE f.useInternalBalance
    BY <1>7, <2>1, <2>2, <2>3 DEF Credit
  <2>4. CASE ~f.useInternalBalance
    BY <1>7, <2>2, <2>4
  <2> QED
    BY <2>3, <2>4
<1>10. OnlyFrom(VaultAddress)
  BY <1>8, <1>9, TypeInvIs DEF OnlyFrom
<1>11. Guarded
  <2>1. DebitsOK
    BY <1>5, <1>8, <1>10, DebitFrom, TypeInvIs DEF Erc20OK
  <2>2. NoLoan /\ NoLoan'
    BY <1>1, <1>4, NotLending
  <2>3. PausesOK
    BY <1>5, <1>8, <2>2, PaysOut
  <2> QED
    BY <1>8, <2>1, <2>3 DEF Guarded, Erc20OK
<1>12. Booked
  <2>1. \A i \in DOMAIN new : new[i].lastChangeBlock = now
    BY DEF ChangeCash
  <2>2. UNCHANGED now
    BY DEF EndExit, permissionVars
  <2> HIDE DEF new
  <2> QED
    BY <1>4, <1>7, <2>1, <2>2, StoreIsBooked
<1> QED
  BY <1>11, <1>12

---------------------------------------------------------------------------
(* Swaps and flash loans.                                                  *)

(* A swap takes from its sender, whether the Pool is paid from the tokens  *)
(* or from the Internal Balance.                                           *)
LEMMA ProcessSwapIsGuarded ==
  ASSUME TypeInv, AmountsOK', UNCHANGED now, NEW f, f.op = "SWAP", CallOK(f), CallerOK(f), MayDebit(f.sender),
         NEW amountIn \in Nat, NEW amountOut \in Nat, ProcessSwap(f, amountIn, amountOut)
  PROVE  Guarded /\ Booked
<1>1. /\ f.id \in PoolIds /\ f.sender \in Accounts /\ f.recipient \in Recipients
      /\ f.fromInternal \in BOOLEAN /\ f.toInternal \in BOOLEAN
      /\ WhenNotPaused
  BY DEF CallOK, CallerOK, Joins
<1>2. /\ f.sender \in Holders /\ f.recipient \in Holders /\ f.recipient # VaultAddress
      /\ erc20 \in [Holders -> [Tokens -> Nat]] /\ internal \in [Holders -> [Tokens -> Nat]]
  BY <1>1, TypeInvIs, Addresses
<1> DEFINE in == Only(f.tokenIn, amountIn)
           out == Only(f.tokenOut, amountOut)
           pulled == Remainder(f.sender, in, f.fromInternal)
           deducted == Deducted(f.sender, in, f.fromInternal)
           sent == IF f.toInternal THEN Nothing ELSE out
           received == Transfer(erc20, f.sender, VaultAddress, pulled)
           spent == Debit(internal, f.sender, deducted)
           swapped == {i \in DOMAIN f.tokens : f.tokens[i] \in {f.tokenIn, f.tokenOut}}
           new == [i \in swapped |-> ChangeCash(f.balances[i], in[f.tokens[i]] - out[f.tokens[i]], now)]
<1>3. in \in [Tokens -> Nat] /\ out \in [Tokens -> Nat]
  BY OnlyIsAmount
<1>4. /\ erc20' = Transfer(received, VaultAddress, f.recipient, sent)
      /\ Holds(erc20, f.sender, pulled) /\ Holds(received, VaultAddress, sent)
      /\ internal' = IF f.toInternal THEN Credit(spent, f.recipient, out) ELSE spent
      /\ StoreBalances(f, new)
  BY DEF ProcessSwap
<1> HIDE DEF in, out
<1>5. deducted \in [Tokens -> Nat] /\ pulled \in [Tokens -> Nat] /\ sent \in [Tokens -> Nat]
  BY <1>1, <1>2, <1>3, FromInternal, TypeInvIs DEF Nothing
<1>6. \A t \in Tokens : deducted[t] <= internal[f.sender][t]
  BY <1>1, <1>2, <1>3, FromInternal, TypeInvIs
<1> HIDE DEF pulled, deducted, sent
<1>7. /\ erc20' \in [Holders -> [Tokens -> Nat]]
      /\ \A h \in Holders, t \in Tokens : h # f.sender /\ h # VaultAddress => erc20'[h][t] >= erc20[h][t]
  <2>1. TwoTransfers(erc20, erc20', f.sender, VaultAddress, f.recipient, pulled, sent)
    BY <1>4 DEF TwoTransfers
  <2> QED
    BY <1>2, <1>5, <2>1, TwoTransfersFrom
<1>8. \A h \in Holders, t \in Tokens : h # f.sender => internal'[h][t] >= internal[h][t]
  <2>1. /\ spent \in [Holders -> [Tokens -> Int]]
        /\ \A h \in Holders, t \in Tokens : h # f.sender => spent[h][t] = internal[h][t]
    BY <1>2, <1>5 DEF Debit
  <2> HIDE DEF spent
  <2>2. \A h \in Holders, t \in Tokens : internal[h][t] \in Int /\ out[t] \in Nat /\ spent[h][t] \in Int
    BY <1>2, <1>3, <2>1
  <2>3. \A h \in Holders, t \in Tokens : internal'[h][t] = spent[h][t] \/ internal'[h][t] = spent[h][t] + out[t]
    BY <1>2, <1>3, <1>4, <2>1 DEF Credit
  <2> QED
    BY <2>1, <2>2, <2>3
<1>9. OnlyFrom(f.sender)
  BY <1>7, <1>8, TypeInvIs DEF OnlyFrom
<1>10. Guarded
  BY <1>1, <1>7, <1>9, DebitFrom DEF Guarded, PausesOK, Erc20OK
<1>11. Booked
  <2>1. \A i \in DOMAIN new : new[i].lastChangeBlock = now
    BY DEF ChangeCash
  <2> HIDE DEF new
  <2> QED
    BY <1>1, <1>4, <2>1, StoreIsBooked
<1> QED
  BY <1>10, <1>11

(* A swap in either direction, whatever the Pool answers.                  *)
LEMMA EndSwapIsGuarded ==
  ASSUME TypeInv, EndSwap
  PROVE  Guarded /\ Booked
<1>1. PICK f : /\ Frame = f /\ f.op = "SWAP" /\ CallOK(f) /\ CallerOK(f) /\ MayDebit(f.sender)
  BY ResumedBy, ResumedMayDebit DEF EndSwap
<1>2. f.amount \in Nat
  BY <1>1 DEF CallOK, Joins
<1>3. \E calculated \in Nat : ProcessSwap(f, f.amount, calculated) \/ ProcessSwap(f, calculated, f.amount)
  BY <1>1, InputAssumption DEF EndSwap
<1>4. AmountsOK' /\ UNCHANGED now
  BY TypeInvIs, EndSwapBalanced DEF EndSwap, permissionVars
<1> QED
  BY <1>1, <1>2, <1>3, <1>4, ProcessSwapIsGuarded

(* A flash loan lends what the Vault has.                                  *)
LEMMA BeginFlashLoanIsGuarded ==
  ASSUME TypeInv, NEW caller \in Accounts, NEW recipient \in Recipients, NEW loan \in Loans,
         BeginFlashLoan(caller, recipient, loan)
  PROVE  Guarded /\ Booked /\ Permitted
<1>1. /\ NonReentrant /\ Sorted(loan) /\ UNCHANGED <<internal, balances, flashLoanFee, permissionVars>>
      /\ erc20' = Transfer(erc20, VaultAddress, recipient, [t \in Tokens |-> Lent(loan, t)])
      /\ \A i \in DOMAIN loan : PreLoan(loan)[i] >= loan[i].amount
      /\ WhenNotPaused
  BY DEF BeginFlashLoan
<1>2. PICK f : /\ CallHook(f) /\ f.op = "FLASH_LOAN" /\ f.loan = loan /\ f.preLoan = PreLoan(loan)
               /\ f.caller = caller
  BY DEF BeginFlashLoan
<1>3. /\ VaultAddress \in Holders /\ recipient # VaultAddress /\ recipient \in Holders
      /\ erc20 \in [Holders -> [Tokens -> Nat]]
  BY TypeInvIs, Addresses
<1>4. /\ PreLoan(loan) \in [DOMAIN loan -> Nat]
      /\ \A i \in DOMAIN loan : PreLoan(loan)[i] = erc20[VaultAddress][loan[i].token]
  <2>1. \A i \in DOMAIN loan : Before(loan, LoanAmounts(loan), i) = 0
    BY <1>1, BeforeIsNothing
  <2>2. \A i \in DOMAIN loan : erc20[VaultAddress][loan[i].token] \in Nat
    BY <1>3, LoanType
  <2> QED
    BY <2>1, <2>2 DEF PreLoan
<1> DEFINE lent == [t \in Tokens |-> Lent(loan, t)]
<1>5. lent \in [Tokens -> Nat] /\ Holds(erc20, VaultAddress, lent)
  <2>1. \A t \in Tokens : Lent(loan, t) \in Nat
    BY <1>1, LentIs
  <2>2. ASSUME NEW t \in Tokens
        PROVE  erc20[VaultAddress][t] >= Lent(loan, t)
    <3>1. CASE \A i \in DOMAIN loan : loan[i].token # t
      <4>1. Lent(loan, t) = 0
        BY <1>1, <3>1, LentIs
      <4> QED
        BY <1>3, <4>1
    <3>2. ASSUME NEW i \in DOMAIN loan, loan[i].token = t
          PROVE  erc20[VaultAddress][t] >= Lent(loan, t)
      <4>1. Lent(loan, t) = loan[i].amount
        BY <1>1, <3>2, LentIs
      <4> QED
        BY <1>1, <1>4, <3>2, <4>1
    <3> QED
      BY <3>1, <3>2
  <2> QED
    BY <2>1, <2>2 DEF Holds
<1>6. erc20' = Transfer(erc20, VaultAddress, recipient, lent)
  BY <1>1
<1> HIDE DEF lent
<1>7. /\ erc20' \in [Holders -> [Tokens -> Nat]]
      /\ \A h \in Holders, t \in Tokens : h # VaultAddress => erc20'[h][t] >= erc20[h][t]
  BY <1>3, <1>5, <1>6, TransferFrom
<1>8. DebitsOK
  <2>1. \A h \in Holders, t \in Tokens : /\ erc20'[h][t] \in Nat /\ erc20[h][t] \in Nat /\ internal[h][t] \in Nat
                                         /\ internal'[h][t] = internal[h][t]
    BY <1>1, <1>3, <1>7, TypeInvIs
  <2> QED
    BY <1>7, <2>1, TypeInvIs DEF DebitsOK
<1>9. Guarded
  BY <1>1, <1>7, <1>8 DEF Guarded, PausesOK, Erc20OK
<1>10. CallerOK(f)
  BY <1>2, <1>4 DEF CallerOK
<1> QED
  BY <1>1, <1>2, <1>9, <1>10, HookIsPermitted, KeptIsBooked

(* What came in during a loan goes to the collector.                       *)
LEMMA EndFlashLoanIsGuarded ==
  ASSUME TypeInv, EndFlashLoan
  PROVE  Guarded /\ Booked
<1>1. PICK f : Frame = f /\ f.op = "FLASH_LOAN" /\ CallOK(f) /\ CallerOK(f)
  BY ResumedBy DEF EndFlashLoan
<1>2. f.loan \in Loans /\ Sorted(f.loan) /\ f.preLoan \in [DOMAIN f.loan -> Nat]
  BY <1>1, CallIsLoanOrNot DEF CallerOK
<1>3. /\ UNCHANGED <<internal, balances>> /\ Repaid(f)
      /\ erc20' = Transfer(erc20, VaultAddress, Collector, [t \in Tokens |-> Paid(f, t)])
  BY <1>1 DEF EndFlashLoan
<1>4. /\ AmountsOK /\ VaultAddress \in Holders /\ Collector # VaultAddress
      /\ erc20 \in [Holders -> [Tokens -> Nat]]
  BY TypeInvIs, Addresses
<1> DEFINE paid == [t \in Tokens |-> Paid(f, t)]
<1>5. paid \in [Tokens -> Nat] /\ Holds(erc20, VaultAddress, paid)
  <2>1. ASSUME NEW t \in Tokens
        PROVE  Paid(f, t) \in Nat /\ erc20[VaultAddress][t] >= Paid(f, t)
    <3>1. CASE \A i \in DOMAIN f.loan : f.loan[i].token # t
      <4>1. Paid(f, t) = 0
        BY <1>2, <1>4, <3>1, PaidNow
      <4> QED
        BY <1>4, <4>1
    <3>2. ASSUME NEW i \in DOMAIN f.loan, f.loan[i].token = t
          PROVE  Paid(f, t) \in Nat /\ erc20[VaultAddress][t] >= Paid(f, t)
      <4>1. Paid(f, t) = Received(f)[i] /\ Paid(f, t) = erc20[VaultAddress][t] - f.preLoan[i]
        BY <1>2, <1>4, <3>2, PaidNow
      <4>2. erc20[VaultAddress][t] \in Nat /\ f.preLoan[i] \in Nat /\ Received(f)[i] >= 0
        BY <1>2, <1>3, <1>4, <3>2 DEF Repaid
      <4> QED
        BY <4>1, <4>2
    <3> QED
      BY <3>1, <3>2
  <2> QED
    BY <2>1 DEF Holds
<1>6. erc20' = Transfer(erc20, VaultAddress, Collector, paid)
  BY <1>3
<1> HIDE DEF paid
<1>7. /\ erc20' \in [Holders -> [Tokens -> Nat]]
      /\ \A h \in Holders, t \in Tokens : h # VaultAddress => erc20'[h][t] >= erc20[h][t]
  BY <1>4, <1>5, <1>6, TransferFrom
<1>8. DebitsOK
  <2>1. \A h \in Holders, t \in Tokens : /\ erc20'[h][t] \in Nat /\ erc20[h][t] \in Nat /\ internal[h][t] \in Nat
                                         /\ internal'[h][t] = internal[h][t]
    BY <1>3, <1>4, <1>7, TypeInvIs
  <2> QED
    BY <1>7, <2>1, TypeInvIs DEF DebitsOK
<1>9. PausesOK
  BY <1>3, OwedStays, OwedIsInt, TypeInvIs DEF PausesOK
<1> QED
  BY <1>3, <1>7, <1>8, <1>9, KeptIsBooked DEF Guarded, Erc20OK

---------------------------------------------------------------------------
(* Asset Managers and user operations.                                     *)

(* Only a transfer of tokens, from somebody for whom the caller may act or *)
(* who is nobody's account.                                                *)
LEMMA TransferIsGuarded ==
  ASSUME TypeInv, UNCHANGED <<internal, balances>>, NEW from \in Holders, NEW to, NEW m \in [Tokens -> Nat],
         Holds(erc20, from, m), erc20' = Transfer(erc20, from, to, m),
         from \in Accounts => MayDebit(from)
  PROVE  Guarded
<1>1. /\ erc20' \in [Holders -> [Tokens -> Nat]]
      /\ \A h \in Holders, t \in Tokens : h # from => erc20'[h][t] >= erc20[h][t]
  BY TransferFrom, TypeInvIs
<1>2. DebitsOK
  <2>1. \A h \in Holders, t \in Tokens : /\ erc20'[h][t] \in Nat /\ erc20[h][t] \in Nat /\ internal[h][t] \in Nat
                                         /\ internal'[h][t] = internal[h][t]
    BY <1>1, TypeInvIs
  <2> QED
    BY <1>1, <2>1, TypeInvIs DEF DebitsOK
<1>3. PausesOK
  BY OwedStays, OwedIsInt, TypeInvIs DEF PausesOK
<1> QED
  BY <1>1, <1>2, <1>3 DEF Guarded, Erc20OK

(* An Asset Manager may move cash out and pays what comes back.            *)
LEMMA ManagePoolBalanceIsGuarded ==
  ASSUME TypeInv, NEW caller \in Accounts, NEW id \in pools, NEW token \in Tokens, NEW amount \in Amounts,
         ManagePoolBalance(caller, id, token, amount)
  PROVE  Guarded /\ Booked /\ Permitted
<1>1. /\ CallAndReturn(caller) /\ UNCHANGED <<permissionVars, internal, flashLoanFee>> /\ WhenNotPaused
      /\ \/ WithdrawPoolBalance(id, caller, token, amount)
         \/ DepositPoolBalance(id, caller, token, amount)
         \/ UpdateManagedBalance(id, token, amount)
  BY DEF ManagePoolBalance
<1>2. /\ id \in PoolIds /\ amount \in Nat /\ Only(token, amount) \in [Tokens -> Nat]
      /\ caller \in Holders /\ VaultAddress \in Holders
      /\ erc20 \in [Holders -> [Tokens -> Nat]] /\ balances[id][token] \in Balance
  BY TypeInvIs, InputAssumption, Addresses, OnlyIsAmount DEF AccountsInv, AmountsOK
<1>3. /\ erc20' \in [Holders -> [Tokens -> Nat]]
      /\ \A h \in Holders, t \in Tokens : h # caller /\ h # VaultAddress => erc20'[h][t] >= erc20[h][t]
  <2>1. CASE WithdrawPoolBalance(id, caller, token, amount)
    BY <1>2, <2>1, TransferFrom DEF WithdrawPoolBalance
  <2>2. CASE DepositPoolBalance(id, caller, token, amount)
    BY <1>2, <2>2, TransferFrom DEF DepositPoolBalance
  <2>3. CASE UpdateManagedBalance(id, token, amount)
    <3>1. erc20' = erc20
      BY <2>3 DEF UpdateManagedBalance
    <3> QED
      BY <1>2, <3>1
  <2> QED
    BY <1>1, <2>1, <2>2, <2>3
<1>4. DebitsOK
  <2>1. AmountsOK'
    BY <1>2, TypeInvIs, ManagePoolBalanceConserves
  <2>2. MayDebit(caller)
    BY <1>1 DEF CallAndReturn, MayDebit
  <2>3. \A h \in Holders, t \in Tokens : internal'[h][t] = internal[h][t] /\ internal[h][t] \in Nat
    BY <1>1, TypeInvIs
  <2>4. OnlyFrom(caller)
    BY <1>3, <2>3, TypeInvIs DEF OnlyFrom
  <2> QED
    BY <1>3, <2>1, <2>2, <2>4, DebitFrom DEF Erc20OK
<1>5. Guarded
  BY <1>1, <1>3, <1>4 DEF Guarded, PausesOK, Erc20OK
<1>6. \E new : SetBalance(id, token, new) /\ (Total(new) = Total(balances[id][token]) \/ new.lastChangeBlock = now)
  <2>1. \A c, d \in Int : (c - amount) + (d + amount) = c + d /\ (c + amount) + (d - amount) = c + d
    BY <1>2
  <2>2. balances[id][token].cash \in Int /\ balances[id][token].managed \in Int
    BY <1>2 DEF Balance
  <2>3. /\ Total(CashToManaged(balances[id][token], amount)) = Total(balances[id][token])
        /\ Total(ManagedToCash(balances[id][token], amount)) = Total(balances[id][token])
        /\ SetManaged(balances[id][token], amount, now).lastChangeBlock = now
    BY <2>1, <2>2 DEF Total, CashToManaged, ManagedToCash, SetManaged
  <2> QED
    BY <1>1, <2>3 DEF WithdrawPoolBalance, DepositPoolBalance, UpdateManagedBalance
<1>7. UNCHANGED now
  BY <1>1 DEF permissionVars
<1>8. Booked
  BY <1>2, <1>6, <1>7, SetIsBooked
<1> QED
  BY <1>1, <1>5, <1>8, ReturnIsPermitted

(* User operations take from the sender, for whom the caller may act.      *)
LEMMA ManageUserBalanceIsGuarded ==
  ASSUME TypeInv, NEW caller \in Accounts, NEW sender \in Accounts, NEW recipient \in Recipients,
         NEW token \in Tokens, NEW amount \in Amounts, ManageUserBalance(caller, sender, recipient, token, amount)
  PROVE  Guarded /\ Booked /\ Permitted
<1> DEFINE m == Only(token, amount)
<1>1. /\ CallAndReturn(caller) /\ UNCHANGED <<permissionVars, balances, flashLoanFee>>
      /\ AuthenticateFor(caller, sender) /\ NonReentrant
      /\ \/ WithdrawInternal(sender, recipient, m)
         \/ DepositInternal(sender, recipient, m)
         \/ TransferInternal(sender, recipient, m)
         \/ TransferExternal(sender, recipient, m)
  BY DEF ManageUserBalance
<1>2. /\ amount \in Nat /\ m \in [Tokens -> Nat]
      /\ sender \in Holders /\ recipient \in Holders /\ recipient # VaultAddress /\ VaultAddress \in Holders
      /\ erc20 \in [Holders -> [Tokens -> Nat]] /\ internal \in [Holders -> [Tokens -> Nat]]
  BY TypeInvIs, InputAssumption, Addresses, OnlyIsAmount
<1>3. AmountsOK' /\ Balanced
  BY <1>2, TypeInvIs, ManageUserBalanceConserves
<1> HIDE DEF m
<1>4. /\ erc20' \in [Holders -> [Tokens -> Nat]]
      /\ \A h \in Holders, t \in Tokens : h # sender /\ h # VaultAddress => erc20'[h][t] >= erc20[h][t]
  <2>1. CASE WithdrawInternal(sender, recipient, m)
    BY <1>2, <2>1, TransferFrom DEF WithdrawInternal
  <2>2. CASE DepositInternal(sender, recipient, m)
    BY <1>2, <2>2, TransferFrom DEF DepositInternal
  <2>3. CASE TransferInternal(sender, recipient, m)
    <3>1. erc20' = erc20
      BY <2>3 DEF TransferInternal
    <3> QED
      BY <1>2, <3>1
  <2>4. CASE TransferExternal(sender, recipient, m)
    BY <1>2, <2>4, TransferFrom DEF TransferExternal
  <2> QED
    BY <1>1, <2>1, <2>2, <2>3, <2>4
<1>5. \A h \in Holders, t \in Tokens : h # sender => internal'[h][t] >= internal[h][t]
  <2>1. CASE WithdrawInternal(sender, recipient, m)
    BY <1>2, <2>1 DEF WithdrawInternal, Debit
  <2>2. CASE DepositInternal(sender, recipient, m)
    BY <1>2, <2>2 DEF DepositInternal, Credit
  <2>3. CASE TransferInternal(sender, recipient, m)
    BY <1>2, <2>3, TransferFrom DEF TransferInternal
  <2>4. CASE TransferExternal(sender, recipient, m)
    BY <1>2, <2>4 DEF TransferExternal
  <2> QED
    BY <1>1, <2>1, <2>2, <2>3, <2>4
<1>6. DebitsOK
  <2>1. OnlyFrom(sender)
    BY <1>4, <1>5, TypeInvIs DEF OnlyFrom
  <2>2. MayDebit(sender)
    BY <1>1, AuthenticatedMayDebit, FreeNow, TypeInvIs DEF AccountsInv
  <2> QED
    BY <1>3, <1>4, <2>1, <2>2, DebitFrom DEF Erc20OK
<1>7. PausesOK
  <2>1. CASE WhenNotPaused
    BY <2>1 DEF PausesOK
  <2>2. CASE WithdrawInternal(sender, recipient, m)
    <3>1. frames = <<>> /\ frames' = <<>>
      BY <1>1, FreeNow, TypeInvIs DEF AccountsInv, CallAndReturn
    <3>2. NoLoan /\ NoLoan'
      BY <3>1, NotLending
    <3>3. \A t \in Tokens : erc20'[VaultAddress][t] <= erc20[VaultAddress][t]
      <4>1. erc20' = Transfer(erc20, VaultAddress, recipient, m)
        BY <2>2 DEF WithdrawInternal
      <4> QED
        BY <1>2, <4>1 DEF Transfer
    <3> QED
      BY <1>3, <3>2, <3>3, PaysOut
  <2>3. WhenNotPaused \/ WithdrawInternal(sender, recipient, m)
    BY <1>1 DEF DepositInternal, TransferInternal, TransferExternal
  <2> QED
    BY <2>1, <2>2, <2>3
<1> QED
  BY <1>1, <1>4, <1>6, <1>7, ReturnIsPermitted, KeptIsBooked DEF Guarded, Erc20OK

---------------------------------------------------------------------------
(* Every step.                                                             *)

(* The group of a step: what it does to the permissions, to the balances   *)
(* of Pools, and to the tokens and the Internal Balances.                  *)
Kept == Permitted /\ Booked /\ Guarded

(* Tokens are registered with, and deregistered at, no balance.            *)
LEMMA PoolRegistryIsKept == ASSUME TypeInv, PoolRegistryNext
                            PROVE  Kept
<1>1. ASSUME NEW caller \in PoolContracts, NEW s \in Specializations, RegisterPool(caller, s)
      PROVE  Kept
  <2>1. /\ CallAndReturn(caller) /\ caller \in Accounts
        /\ UNCHANGED <<permissionVars, flashLoanFee, balances, internal, erc20>>
    BY <1>1, AddressAssumption DEF RegisterPool
  <2> QED
    BY <2>1, ReturnIsPermitted, KeptIsBooked, QuietIsGuarded DEF Kept
<1>2. ASSUME NEW id \in pools, NEW list \in TokenLists, NEW caller \in Accounts,
             \/ \E manager \in Accounts \cup {NoAccount} : RegisterTokens(caller, id, list, manager)
             \/ DeregisterTokens(caller, id, list)
      PROVE  Kept
  <2>1. /\ CallAndReturn(caller) /\ WhenNotPaused
        /\ UNCHANGED <<permissionVars, flashLoanFee, internal, erc20>>
    BY <1>2 DEF RegisterTokens, DeregisterTokens
  <2>2. /\ \/ balances' = balances
           \/ balances' = [balances EXCEPT ![id] =
                             [t \in Tokens |-> IF t \in ToSet(list) THEN EmptyBalance ELSE balances[id][t]]]
        /\ \/ \A t \in ToSet(list) : t \notin ToSet(tokens[id])
           \/ \A t \in ToSet(list) : IsZero(balances[id][t])
    BY <1>2 DEF RegisterTokens, DeregisterTokens, AllAdded, HasNoBalance
  <2>3. id \in PoolIds /\ balances \in [PoolIds -> [Tokens -> Balance]]
    BY TypeInvIs DEF AccountsInv, AmountsOK
  <2>4. \A p \in PoolIds, t \in Tokens :
           \/ balances'[p][t] = balances[p][t]
           \/ p = id /\ t \in ToSet(list) /\ balances'[p][t] = EmptyBalance
    BY <2>2, <2>3
  <2>5. IsBalance(EmptyBalance) /\ \A b : IsZero(b) => Total(b) = Total(EmptyBalance)
    BY BoundAssumption DEF IsBalance, EmptyBalance, Total, IsZero
  <2>6. BalancesFit'
    BY <2>4, <2>5 DEF TypeInv, BalancesFit
  <2>7. Stamped
    BY <2>2, <2>4, <2>5 DEF Stamped
  <2>8. Guarded
    <3>1. Erc20OK'
      BY <2>1, TypeInvIs DEF Erc20OK
    <3>2. DebitsOK
      BY <2>1, TypeInvIs DEF DebitsOK
    <3>3. PausesOK
      BY <2>1 DEF PausesOK
    <3> QED
      BY <3>1, <3>2, <3>3 DEF Guarded
  <2> QED
    BY <2>1, <2>6, <2>7, <2>8, ReturnIsPermitted DEF Kept, Booked
<1> QED
  BY <1>1, <1>2 DEF PoolRegistryNext

(* Joins and exits, which check the caller before the hook.                *)
LEMMA PoolBalancesIsKept == ASSUME TypeInv, PoolBalancesNext
                            PROVE  Kept
<1>1. ASSUME NEW op \in Joins, NEW caller \in Accounts, NEW id \in pools, NEW sender \in Accounts,
             NEW recipient, NEW limit, NEW b, op = "JOIN" => WhenNotPaused,
             BeginJoinOrExit(op, caller, id, sender, recipient, limit, b)
      PROVE  Kept
  <2>1. /\ NonReentrant /\ AuthenticateFor(caller, sender)
        /\ UNCHANGED <<permissionVars, flashLoanFee, balances, internal, erc20>>
    BY <1>1 DEF BeginJoinOrExit
  <2>2. PICK f : CallHook(f) /\ f.op = op /\ f.caller = caller /\ f.sender = sender /\ f.relayers = CurrentRelayers
    BY <1>1 DEF BeginJoinOrExit
  <2>3. CallerOK(f)
    BY <1>1, <2>1, <2>2, BegunMayAct DEF CallerOK, Joins
  <2> QED
    BY <2>1, <2>2, <2>3, HookIsPermitted, KeptIsBooked, QuietIsGuarded DEF Kept
<1>2. CASE EndJoin
  BY <1>2, EndJoinIsGuarded, ResumeIsPermitted DEF Kept, EndJoin
<1>3. CASE EndExit
  BY <1>3, EndExitIsGuarded, ResumeIsPermitted DEF Kept, EndExit
<1> QED
  BY <1>1, <1>2, <1>3 DEF PoolBalancesNext, BeginJoin, BeginExit, Joins

(* Swaps, which check the caller and the pause before the hook.            *)
LEMMA SwapsIsKept == ASSUME TypeInv, SwapsNext
                     PROVE  Kept
<1>1. ASSUME NEW caller \in Accounts, NEW sender \in Accounts, NEW recipient, NEW id, NEW kind,
             NEW tokenIn, NEW tokenOut, NEW amount, NEW limit, NEW fromInternal, NEW toInternal,
             BeginSwap(caller, id, sender, recipient, kind, tokenIn, tokenOut, amount, limit,
                       fromInternal, toInternal)
      PROVE  Kept
  <2>1. /\ NonReentrant /\ AuthenticateFor(caller, sender) /\ WhenNotPaused
        /\ UNCHANGED <<permissionVars, flashLoanFee, balances, internal, erc20>>
    BY <1>1 DEF BeginSwap
  <2>2. PICK f : CallHook(f) /\ f.op = "SWAP" /\ f.caller = caller /\ f.sender = sender /\ f.relayers = CurrentRelayers
    BY <1>1 DEF BeginSwap
  <2>3. CallerOK(f)
    BY <1>1, <2>1, <2>2, BegunMayAct DEF CallerOK
  <2> QED
    BY <2>1, <2>2, <2>3, HookIsPermitted, KeptIsBooked, QuietIsGuarded DEF Kept
<1>2. CASE EndSwap
  BY <1>2, EndSwapIsGuarded, ResumeIsPermitted DEF Kept, EndSwap
<1> QED
  BY <1>1, <1>2 DEF SwapsNext

(* Flash loans, which take from the Vault only.                            *)
LEMMA FlashLoansIsKept == ASSUME TypeInv, FlashLoansNext
                          PROVE  Kept
<1>1. ASSUME NEW caller \in Accounts, NEW recipient \in Accounts \cap Recipients, NEW loan \in Loans,
             BeginFlashLoan(caller, recipient, loan)
      PROVE  Kept
  BY <1>1, BeginFlashLoanIsGuarded DEF Kept
<1>2. CASE EndFlashLoan
  BY <1>2, EndFlashLoanIsGuarded, ResumeIsPermitted DEF Kept, EndFlashLoan
<1> QED
  BY <1>1, <1>2 DEF FlashLoansNext

(* User operations and those of Asset Managers.                            *)
LEMMA BalanceManagementIsKept == ASSUME TypeInv, BalanceManagementNext
                                 PROVE  Kept
  BY ManagePoolBalanceIsGuarded, ManageUserBalanceIsGuarded DEF BalanceManagementNext, Kept

(* Settings change only when no call is in progress.                       *)
LEMMA SettingIsPermitted ==
  ASSUME TypeInv, NonReentrant, SettingsOK', UNCHANGED frames
  PROVE  Permitted
<1>1. frames = <<>>
  BY FreeNow, TypeInvIs DEF AccountsInv
<1> QED
  BY <1>1 DEF Permitted, CallersOK

(* Settings change between calls; collected fees are the collector's.      *)
LEMMA GovernanceIsKept == ASSUME TypeInv, GovernanceNext
                          PROVE  Kept
<1>1. ASSUME NEW caller \in Accounts, NEW approval \in Approvals, NEW b \in BOOLEAN,
             SetRelayerApproval(caller, approval[1], approval[2], b)
      PROVE  Kept
  <2>1. <<approval[1], approval[2]>> \in Accounts \X Accounts
    BY InputAssumption
  <2>2. SettingsOK'
    BY <1>1, <2>1 DEF TypeInv, SettingsOK, SetRelayerApproval, CallAndReturn
  <2>3. NonReentrant /\ UNCHANGED <<frames, balances, internal, erc20>>
    BY <1>1 DEF SetRelayerApproval, CallAndReturn
  <2> QED
    BY <2>2, <2>3, SettingIsPermitted, KeptIsBooked, QuietIsGuarded DEF Kept
<1>2. ASSUME NEW caller \in Accounts, NEW a \in Authorizers, SetAuthorizer(caller, a)
      PROVE  Kept
  <2>1. SettingsOK'
    BY <1>2 DEF TypeInv, SettingsOK, SetAuthorizer, CallAndReturn
  <2>2. NonReentrant /\ UNCHANGED <<frames, balances, internal, erc20>>
    BY <1>2 DEF SetAuthorizer, CallAndReturn
  <2> QED
    BY <2>1, <2>2, SettingIsPermitted, KeptIsBooked, QuietIsGuarded DEF Kept
<1>3. ASSUME NEW caller \in Accounts, NEW b \in BOOLEAN, SetPaused(caller, b)
      PROVE  Kept
  <2>1. SettingsOK'
    BY <1>3 DEF TypeInv, SettingsOK, SetPaused, Pausable!SetPaused, CallAndReturn
  <2>2. NonReentrant /\ UNCHANGED <<frames, balances, internal, erc20>>
    BY <1>3 DEF SetPaused, CallAndReturn
  <2> QED
    BY <2>1, <2>2, SettingIsPermitted, KeptIsBooked, QuietIsGuarded DEF Kept
<1>4. ASSUME NEW caller \in Accounts, NEW percentage \in 0 .. MaxFlashLoanFee + 1,
             SetFlashLoanFeePercentage(caller, percentage)
      PROVE  Kept
  <2>1. /\ CallAndReturn(caller) /\ UNCHANGED <<permissionVars, balances, internal, erc20>>
        /\ flashLoanFee' = percentage /\ percentage \in 0 .. MaxFlashLoanFee
    BY <1>4, InputAssumption DEF SetFlashLoanFeePercentage
  <2>2. SettingsOK'
    BY <2>1 DEF TypeInv, SettingsOK, CallAndReturn, permissionVars
  <2>3. CallersOK'
    BY <2>1 DEF TypeInv, CallersOK, CallerOK, CallAndReturn, permissionVars, MayActFor, WhenNotPaused,
                Pausable!NotPaused
  <2> QED
    BY <2>1, <2>2, <2>3, KeptIsBooked, QuietIsGuarded DEF Kept, Permitted
<1>5. ASSUME NEW caller \in Accounts, NEW recipient \in Recipients, NEW token \in Tokens, NEW amount \in Amounts,
             WithdrawCollectedFees(caller, recipient, token, amount)
      PROVE  Kept
  <2>1. /\ CallAndReturn(caller) /\ UNCHANGED <<permissionVars, flashLoanFee, balances, internal>>
        /\ Holds(erc20, Collector, Only(token, amount))
        /\ erc20' = Transfer(erc20, Collector, recipient, Only(token, amount))
    BY <1>5 DEF WithdrawCollectedFees
  <2>2. Only(token, amount) \in [Tokens -> Nat] /\ Collector \in Holders /\ Collector \notin Accounts
    BY InputAssumption, OnlyIsAmount, Addresses
  <2> QED
    BY <2>1, <2>2, TransferIsGuarded, ReturnIsPermitted, KeptIsBooked DEF Kept
<1> QED
  BY <1>1, <1>2, <1>3, <1>4, <1>5 DEF GovernanceNext

(* Authorizers grant and revoke at any time: a call that has begun keeps   *)
(* the answer it got.                                                      *)
LEMMA AuthorizersIsKept == ASSUME TypeInv, AuthorizersNext
                           PROVE  Kept
<1>1. PICK permission \in PermissionInputs, b \in BOOLEAN : SetPermission(permission, b)
  BY DEF AuthorizersNext
<1>2. UNCHANGED <<callVars, now, paused, authorizer, approved, flashLoanFee, balances, internal, erc20>>
  BY <1>1 DEF SetPermission
<1>3. SettingsOK'
  <2>1. permissions \subseteq Authorizers \X Roles \X Accounts
    BY DEF TypeInv, SettingsOK
  <2>2. permissions' \subseteq permissions \cup {permission}
    BY <1>1 DEF SetPermission
  <2>3. permission \in Authorizers \X Roles \X Accounts
    BY AuthorizerAssumption
  <2>4. permissions' \subseteq Authorizers \X Roles \X Accounts
    BY <2>1, <2>2, <2>3
  <2> QED
    BY <1>2, <2>4 DEF TypeInv, SettingsOK, callVars
<1>4. CallersOK'
  BY <1>2 DEF TypeInv, CallersOK, CallerOK, MayActFor, callVars, WhenNotPaused, Pausable!NotPaused
<1> QED
  BY <1>2, <1>3, <1>4, KeptIsBooked, QuietIsGuarded DEF Kept, Permitted

(* A transfer of tokens outside of the Vault is its caller's.              *)
LEMMA TokensIsKept == ASSUME TypeInv, TokensNext
                      PROVE  Kept
<1>1. ASSUME NEW caller \in Accounts, NEW recipient, NEW token \in Tokens, NEW amount \in Amounts,
             Erc20Transfer(caller, recipient, token, amount)
      PROVE  Kept
  <2>1. /\ CallAndReturn(caller) /\ UNCHANGED <<permissionVars, flashLoanFee, balances, internal>>
        /\ Holds(erc20, caller, Only(token, amount))
        /\ erc20' = Transfer(erc20, caller, recipient, Only(token, amount))
    BY <1>1 DEF Erc20Transfer
  <2>2. Only(token, amount) \in [Tokens -> Nat] /\ caller \in Holders
    BY InputAssumption, OnlyIsAmount, Addresses
  <2>3. MayDebit(caller)
    BY <2>1 DEF CallAndReturn, MayDebit
  <2> QED
    BY <2>1, <2>2, <2>3, TransferIsGuarded, ReturnIsPermitted, KeptIsBooked DEF Kept
<1> QED
  BY <1>1 DEF TokensNext

(* Blocks follow each other between calls, not within one.                 *)
LEMMA TickIsKept == ASSUME TypeInv, Tick
                    PROVE  Kept
<1>1. /\ frames = <<>> /\ UNCHANGED <<callVars, paused, authorizer, approved, permissions, flashLoanFee>>
      /\ UNCHANGED <<balances, internal, erc20>>
  BY DEF Tick, Pausable!PausableTick
<1>2. SettingsOK'
  BY <1>1 DEF TypeInv, SettingsOK, callVars
<1>3. CallersOK'
  BY <1>1 DEF CallersOK, callVars
<1> QED
  BY <1>1, <1>2, <1>3, KeptIsBooked, QuietIsGuarded DEF Kept, Permitted

(* Nothing happens.                                                        *)
LEMMA StutterIsKept == ASSUME TypeInv, UNCHANGED vars
                       PROVE  Kept
<1>1. UNCHANGED <<callVars, permissionVars, flashLoanFee, balances, internal, erc20>>
  BY DEF vars
<1>2. SettingsOK'
  BY <1>1 DEF TypeInv, SettingsOK, callVars, permissionVars
<1>3. CallersOK'
  BY <1>1 DEF TypeInv, CallersOK, CallerOK, callVars, permissionVars, MayActFor, WhenNotPaused,
              Pausable!NotPaused
<1> QED
  BY <1>1, <1>2, <1>3, KeptIsBooked, QuietIsGuarded DEF Kept, Permitted

(* Every step is within what the caller may do, and keeps the invariant.   *)
LEMMA NextIsKept == ASSUME TypeInv, [Next]_vars
                    PROVE  Kept /\ TypeInv'
<1>1. Kept
  BY PoolRegistryIsKept, PoolBalancesIsKept, SwapsIsKept, FlashLoansIsKept, BalanceManagementIsKept,
     GovernanceIsKept, AuthorizersIsKept, TokensIsKept, TickIsKept, StutterIsKept DEF Next
<1>2. LedgerInv'
  BY NextIsSound, TypeInvIs
<1> QED
  BY <1>1, <1>2 DEF Kept, Permitted, Booked, Guarded, TypeInv

(* The invariant holds at deployment.                                      *)
LEMMA InitIsTyped == Init => TypeInv
<1> SUFFICES ASSUME Init
             PROVE  TypeInv
  OBVIOUS
<1>1. LedgerInv
  BY InitIsSound
<1>2. SettingsOK
  <2>1. authorizer \in Authorizers /\ permissions \subseteq Authorizers \X Roles \X Accounts
    BY AuthorizerAssumption DEF Init
  <2>2. flashLoanFee \in 0 .. MaxFlashLoanFee
    <3>1. MaxFlashLoanFee \in Nat
      BY InputAssumption
    <3> QED
      BY <3>1 DEF Init
  <2> QED
    BY <2>1, <2>2 DEF Init, SettingsOK
<1>3. BalancesFit
  BY BoundAssumption DEF Init, BalancesFit, IsBalance, EmptyBalance, Total
<1>4. Erc20OK
  BY AddressAssumption DEF Init, Erc20OK
<1>5. CallersOK
  BY DEF Init, CallersOK
<1> QED
  BY <1>1, <1>2, <1>3, <1>4, <1>5 DEF TypeInv

(* And from then on.                                                       *)
LEMMA TypeInvAlways == Spec => []TypeInv
<1>1. TypeInv /\ [Next]_vars => TypeInv'
  BY NextIsKept
<1> QED
  BY <1>1, InitIsTyped, PTL DEF Spec

(* The state of the Vault is well-typed: no amount is negative, every      *)
(* balance fits its word and no list has a token twice.                    *)
THEOREM TypeCorrect == Spec => []TypeOK
<1>1. TypeInv => TypeOK
  BY DEF TypeInv, LedgerInv, AccountsInv, AmountsOK, RegistryOK, SettingsOK, BalancesFit, Erc20OK, TypeOK
<1> QED
  BY <1>1, TypeInvAlways, PTL

(* Tokens and Internal Balances of an account are taken only by the        *)
(* account itself, or by a relayer whom the account approves at that very  *)
(* moment and whom the Authorizer let relay when the call began, though    *)
(* joins, exits and swaps ask both before their hooks: what the Authorizer *)
(* revokes in the hook is not asked again, and the account's approval      *)
(* cannot go in it.                                                        *)
THEOREM DebitsAreAuthorized == Spec => OnlyAuthorizedDebit
<1>1. TypeInv /\ [Next]_vars =>
        [\A u \in Accounts, t \in Tokens :
           erc20'[u][t] < erc20[u][t] \/ internal'[u][t] < internal[u][t] => MayDebit(u)]_vars
  BY NextIsKept DEF Kept, Guarded, DebitsOK
<1> QED
  BY <1>1, TypeInvAlways, PTL DEF Spec, OnlyAuthorizedDebit

(* A paused Vault takes on no debts, not even in calls that began before   *)
(* the pause.                                                              *)
THEOREM PausedPaysOut == Spec => PausedOnlyPaysOut
<1>1. TypeInv /\ [Next]_vars => [~WhenNotPaused => \A t \in Tokens : Owed(t)' <= Owed(t)]_vars
  BY NextIsKept DEF Kept, Guarded, PausesOK
<1> QED
  BY <1>1, TypeInvAlways, PTL DEF Spec, PausedOnlyPaysOut

(* Every change of a Pool's total balance leaves the block of the change.  *)
THEOREM ChangesAreStamped == Spec => TotalChangesAreStamped
<1>1. TypeInv /\ [Next]_vars =>
        [\A id \in PoolIds, t \in Tokens :
           /\ t \in ToSet(tokens[id]) /\ t \in ToSet(tokens'[id])
           /\ Total(balances'[id][t]) # Total(balances[id][t])
           => balances'[id][t].lastChangeBlock = now']_vars
  BY NextIsKept DEF Kept, Booked, Stamped
<1> QED
  BY <1>1, TypeInvAlways, PTL DEF Spec, TotalChangesAreStamped
===========================================================================
