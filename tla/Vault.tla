------------------------------ MODULE Vault ------------------------------
(***************************************************************************)
(* The accounting of the Vault (pkg/vault/contracts): it keeps the tokens  *)
(* of all Pools and users in one pot, and records in Pool balances and in  *)
(* internal balances who owns what.                                        *)
(*                                                                         *)
(* A transaction that calls no foreign code is one action.  Joins, exits,  *)
(* swaps and flash loans call a hook of a Pool or of the borrower, and are *)
(* split there in a Begin and an End action; the local variables that the  *)
(* code uses after the hook are kept in a frame on a stack.  Between the   *)
(* two any contract may run, which may call the Vault again (the actions   *)
(* of this module), the fees collector, or a token.  What a hook answers   *)
(* is a choice of the End action.                                          *)
(*                                                                         *)
(* A call that reverts undoes all its effects and is not a step.  Tokens   *)
(* are ERC20s without callbacks that move the amount they are asked to,    *)
(* and holders have approved the Vault.  The entry points that take an     *)
(* array of operations (manageUserBalance, managePoolBalance) run them one *)
(* after the other with nothing in between, so one action is one           *)
(* operation.  Two Token Pools have a module of their own; ETH, batch      *)
(* swaps and signatures are left out.  Events are left out.                *)
(***************************************************************************)
EXTENDS BalanceAllocation, Sequences, FiniteSetsExt, SequencesExt

CONSTANTS
    Tokens,             \* token addresses: numbers, because the code compares them
    Accounts,           \* senders of transactions, Pool contracts and Asset Managers
    PoolContracts,      \* the accounts that are Pools
    VaultAddress,
    Collector,          \* the ProtocolFeesCollector
    NoAccount,          \* address(0)
    InitialSupply,      \* [Accounts -> [Tokens -> Nat]], before the Vault is deployed
    Authorizers,
    InitialAuthorizer,
    InitialPermissions, \* <<authorizer, role, account>> of those granted at first
    PauseWindowEnd,
    BufferPeriodEnd,
    One,                \* FixedPoint.ONE
    MaxFlashLoanFee     \* _MAX_PROTOCOL_FLASH_LOAN_FEE_PERCENTAGE

CONSTANTS               \* the arguments that callers try, and the bounds of a run
    Amounts,            \* amounts that callers ask for and hooks answer
    Limits,             \* limits of joins, exits and swaps
    DueFees,            \* due protocol fees answered by Pools
    Loans,              \* sequences of [token, amount]
    TokenLists,         \* sequences of tokens to register and deregister
    Recipients,         \* recipients of tokens; to name the Vault is to donate to it
    Approvals,          \* <<user, relayer>> of calls to setRelayerApproval
    PermissionInputs,   \* <<authorizer, role, account>> that Authorizers grant and revoke
    MaxTime,            \* last block; its timestamp is its number
    MaxPools,           \* most Pools ever registered
    MaxDepth            \* deepest nesting of calls

Holders == Accounts \cup {VaultAddress, Collector}
Specializations == {"GENERAL", "MINIMAL_SWAP_INFO"}
PoolIds == [pool : PoolContracts, specialization : Specializations, nonce : 0 .. MaxPools - 1]
Joins == {"JOIN", "EXIT"}

(* To act for others; and to pause, to replace the Authorizer and to use   *)
(* the collected fees.                                                     *)
Roles == {"RELAY", "GOVERN"}

SwapKinds == {"GIVEN_IN", "GIVEN_OUT"}

ASSUME AddressAssumption ==
    /\ Tokens \subseteq Nat \ {0}
    /\ PoolContracts \subseteq Accounts
    /\ VaultAddress # Collector
    /\ Accounts \cap {VaultAddress, Collector, NoAccount} = {}
    /\ InitialSupply \in [Accounts -> [Tokens -> Nat]]

ASSUME FiniteAssumption == IsFiniteSet(Accounts) /\ MaxPools \in Nat

ASSUME AuthorizerAssumption ==
    /\ InitialAuthorizer \in Authorizers
    /\ InitialPermissions \subseteq Authorizers \X Roles \X Accounts
    /\ PermissionInputs \subseteq Authorizers \X Roles \X Accounts

ASSUME InputAssumption ==
    /\ Amounts \subseteq Nat
    /\ Limits \subseteq Nat
    /\ DueFees \subseteq Nat
    /\ Loans \subseteq Seq([token : Tokens, amount : Nat])
    /\ TokenLists \subseteq Seq(Tokens)
    /\ Recipients \subseteq Holders \ {VaultAddress}
    /\ Approvals \subseteq Accounts \X Accounts
    /\ One \in Nat \ {0}
    /\ MaxFlashLoanFee \in Nat

VARIABLES
    now,            \* block.number and block.timestamp
    paused,         \* TemporarilyPausable._paused
    status,         \* ReentrancyGuard._status
    frames,         \* the Vault's calls that wait for a hook, innermost last
    msgSender,      \* sender of the Vault call that made the last step
    authorizer,     \* _authorizer
    permissions,    \* the <<authorizer, role, account>> that the Authorizers answer with true
    approved,       \* _approvedRelayers, the set of <<user, relayer>> mapped to true
    nextPoolNonce,  \* _nextPoolNonce
    pools,          \* _isPoolRegistered
    tokens,         \* the tokens of each Pool, in the order of the stores
    balances,       \* the balances of the stores
    managers,       \* _poolAssetManagers
    internal,       \* _internalTokenBalance
    flashLoanFee,   \* ProtocolFeesCollector._flashLoanFeePercentage
    erc20           \* the token contracts' balanceOf

Pausable == INSTANCE TemporarilyPausable WITH timestamp <- now, LastTime <- MaxTime

callVars == <<status, frames, msgSender>>
permissionVars == <<now, paused, authorizer, approved, permissions>>
registryVars == <<nextPoolNonce, pools, tokens, managers>>
vars == <<callVars, permissionVars, registryVars, balances, internal, flashLoanFee, erc20>>

Init ==
    /\ now = 0
    /\ paused = FALSE
    /\ status = "NOT_ENTERED"
    /\ frames = <<>>
    /\ msgSender = NoAccount
    /\ authorizer = InitialAuthorizer
    /\ permissions = InitialPermissions
    /\ approved = {}
    /\ nextPoolNonce = 0
    /\ pools = {}
    /\ tokens = [id \in PoolIds |-> <<>>]
    /\ balances = [id \in PoolIds |-> [t \in Tokens |-> EmptyBalance]]
    /\ managers = [id \in PoolIds |-> [t \in Tokens |-> NoAccount]]
    /\ internal = [a \in Holders |-> [t \in Tokens |-> 0]]
    /\ flashLoanFee = 0
    /\ erc20 = [h \in Holders |-> IF h \in Accounts THEN InitialSupply[h]
                                  ELSE [t \in Tokens |-> 0]]

---------------------------------------------------------------------------
(* Modifiers.                                                              *)

\* mutant: no reentrancy guard
Reentrant == TRUE

NonReentrant == status = "NOT_ENTERED"

WhenNotPaused == Pausable!NotPaused

(* _canPerform: what the Authorizer answers now.                           *)
CanPerform(role, caller) == <<authorizer, role, caller>> \in permissions

OnlyGovernor(caller) == CanPerform("GOVERN", caller)

\* mutant: the relayer's role is checked, the user's approval is not
AuthenticateRoleOnly(caller, user) == caller = user \/ CanPerform("RELAY", caller)

\* _authenticateFor
AuthenticateFor(caller, user) ==
    \/ caller = user
    \/ CanPerform("RELAY", caller) /\ <<user, caller>> \in approved

(* Who may relay now.  A frame keeps it for OnlyAuthorizedDebit: the code  *)
(* asks before the hook and never again.                                   *)
CurrentRelayers == {a \in Accounts : CanPerform("RELAY", a)}

WithRegisteredPool(id) == id \in pools

OnlyPool(id, caller) == WithRegisteredPool(id) /\ caller = id.pool

(* A call that runs to its end without calling foreign code.               *)
CallAndReturn(caller) == msgSender' = caller /\ UNCHANGED <<status, frames>>

(* A call that leaves the frame f behind and calls a hook.                 *)
CallHook(f) ==
    /\ Len(frames) < MaxDepth
    /\ status' = "ENTERED"
    /\ frames' = Append(frames, f)
    /\ msgSender' = f.caller

(* The innermost call, of one of the kinds in ops, resumes and returns.    *)
Resume(ops) ==
    /\ frames # <<>>
    /\ Last(frames).op \in ops
    /\ status' = "NOT_ENTERED"
    /\ frames' = Front(frames)
    /\ msgSender' = Last(frames).caller

(* The frame of the call that resumes.                                     *)
Frame == Last(frames)

---------------------------------------------------------------------------
(* Moving tokens.  An amount per token is a function m on Tokens.          *)

(* The accounts after m has moved from one holder to another.              *)
Transfer(accounts, from, to, m) ==
    [h \in Holders |-> [t \in Tokens |->
        accounts[h][t] - (IF h = from THEN m[t] ELSE 0) + (IF h = to THEN m[t] ELSE 0)]]

Credit(accounts, holder, m) ==
    [accounts EXCEPT ![holder] = [t \in Tokens |-> @[t] + m[t]]]

Debit(accounts, holder, m) ==
    [accounts EXCEPT ![holder] = [t \in Tokens |-> @[t] - m[t]]]

Holds(accounts, holder, m) == \A t \in Tokens : accounts[holder][t] >= m[t]

Nothing == [t \in Tokens |-> 0]

Only(token, amount) == [t \in Tokens |-> IF t = token THEN amount ELSE 0]

(* Answers of a hook, one per token of the frame.                          *)
PerToken(f, values) ==
    {[t \in Tokens |-> IF t \in ToSet(f.tokens) THEN m[t] ELSE 0] :
        m \in [ToSet(f.tokens) -> values]}

(* The part of m that _receiveAsset takes from sender's internal balance.  *)
Deducted(sender, m, fromInternal) ==
    [t \in Tokens |-> IF fromInternal /\ internal[sender][t] < m[t] THEN internal[sender][t]
                      ELSE IF fromInternal THEN m[t] ELSE 0]

(* What is left of m to pull from the sender.                              *)
Remainder(sender, m, fromInternal) ==
    [t \in Tokens |-> IF ~fromInternal THEN m[t]
                      ELSE IF internal[sender][t] < m[t] THEN m[t] - internal[sender][t] ELSE 0]

---------------------------------------------------------------------------
(* PoolRegistry and PoolTokens.                                            *)

RegisterPool(caller, specialization) ==
    LET id == [pool |-> caller, specialization |-> specialization, nonce |-> nextPoolNonce]
    IN  /\ NonReentrant
        /\ WhenNotPaused
        /\ nextPoolNonce < MaxPools
        /\ ~WithRegisteredPool(id)
        /\ pools' = pools \cup {id}
        /\ nextPoolNonce' = nextPoolNonce + 1
        /\ CallAndReturn(caller)
        /\ UNCHANGED <<permissionVars, tokens, managers, balances, internal, flashLoanFee, erc20>>

\* mutant: registering a token again is not noticed
RegisterAgain(id, list) == TRUE

(* EnumerableMap.set and EnumerableSet.add tell for every token that it is *)
(* new.                                                                    *)
AllAdded(id, list) == IsInjective(list) /\ ToSet(list) \cap ToSet(tokens[id]) = {}

RegisterTokens(caller, id, list, manager) ==
    /\ NonReentrant
    /\ WhenNotPaused
    /\ OnlyPool(id, caller)
    /\ AllAdded(id, list)
    /\ managers' = [managers EXCEPT ![id] = [t \in Tokens |-> IF t \in ToSet(list) THEN manager ELSE @[t]]]
    /\ tokens' = [tokens EXCEPT ![id] = @ \o list]
    /\ balances' = IF id.specialization = "GENERAL"
                   THEN [balances EXCEPT ![id] =
                           [t \in Tokens |-> IF t \in ToSet(list) THEN EmptyBalance ELSE @[t]]]
                   ELSE balances
    /\ CallAndReturn(caller)
    /\ UNCHANGED <<permissionVars, nextPoolNonce, pools, internal, flashLoanFee, erc20>>

(* EnumerableMap.remove and EnumerableSet.remove: the last entry takes the *)
(* place of the removed one.                                               *)
SwapAndPop(list, token) ==
    Front([i \in DOMAIN list |-> IF list[i] = token THEN Last(list) ELSE list[i]])

HasNoBalance(id, token) == IsZero(balances[id][token])

\* mutant: the Asset Managers stay
KeepManagers(id, list) == managers

RemoveManagers(id, list) ==
    [managers EXCEPT ![id] = [t \in Tokens |-> IF t \in ToSet(list) THEN NoAccount ELSE @[t]]]

DeregisterTokens(caller, id, list) ==
    /\ NonReentrant
    /\ WhenNotPaused
    /\ OnlyPool(id, caller)
    /\ IsInjective(list)
    /\ ToSet(list) \subseteq ToSet(tokens[id])
    /\ \A t \in ToSet(list) : HasNoBalance(id, t)
    /\ tokens' = [tokens EXCEPT ![id] = FoldLeft(SwapAndPop, @, list)]
    /\ balances' = [balances EXCEPT ![id] =
                       [t \in Tokens |-> IF t \in ToSet(list) THEN EmptyBalance ELSE @[t]]]
    /\ managers' = RemoveManagers(id, list)
    /\ CallAndReturn(caller)
    /\ UNCHANGED <<permissionVars, nextPoolNonce, pools, internal, flashLoanFee, erc20>>

---------------------------------------------------------------------------
(* PoolBalances: joins and exits.                                          *)

(* What the Vault reads of a Pool before it calls its hook.                *)
BalancesOf(id, list) == [i \in DOMAIN list |-> balances[id][list[i]]]

(* Writing balances computed from those of a frame, `new` being a function *)
(* on the positions written: the store of General Pools is written at the  *)
(* position, the other at the token.                                       *)
StoreBalances(f, new) ==
    LET keys == IF f.id.specialization = "GENERAL" THEN tokens[f.id] ELSE f.tokens
        Position(t) == CHOOSE i \in DOMAIN new : keys[i] = t
    IN  /\ \A i \in DOMAIN new : IsBalance(new[i])
        /\ balances' = [balances EXCEPT ![f.id] = [t \in Tokens |->
                          IF \E i \in DOMAIN new : keys[i] = t THEN new[Position(t)] ELSE @[t]]]

(* _joinOrExit up to the hook.  The caller's list of tokens must be that   *)
(* of the Pool.                                                            *)
BeginJoinOrExit(op, caller, id, sender, recipient, limit, useInternalBalance) ==
    /\ NonReentrant
    /\ WithRegisteredPool(id)
    /\ AuthenticateFor(caller, sender)
    /\ tokens[id] # <<>>
    /\ CallHook([op |-> op, caller |-> caller, id |-> id, sender |-> sender,
                 recipient |-> recipient, limit |-> limit,
                 useInternalBalance |-> useInternalBalance,
                 tokens |-> tokens[id], balances |-> BalancesOf(id, tokens[id]),
                 relayers |-> CurrentRelayers])
    /\ UNCHANGED <<permissionVars, registryVars, balances, internal, flashLoanFee, erc20>>

BeginJoin(caller, id, sender, recipient, limit, fromInternalBalance) ==
    /\ WhenNotPaused
    /\ BeginJoinOrExit("JOIN", caller, id, sender, recipient, limit, fromInternalBalance)

BeginExit(caller, id, sender, recipient, limit, toInternalBalance) ==
    BeginJoinOrExit("EXIT", caller, id, sender, recipient, limit, toInternalBalance)

\* mutant: the due fee is paid but not taken from the Pool's balance
ProcessJoinFeeUncharged(f, amountsIn, fees) ==
    LET pulled == Remainder(f.sender, amountsIn, f.useInternalBalance)
        received == Transfer(erc20, f.sender, VaultAddress, pulled)
    IN  /\ Holds(erc20, f.sender, pulled)
        /\ Holds(received, VaultAddress, fees)
        /\ erc20' = Transfer(received, VaultAddress, Collector, fees)
        /\ internal' = Debit(internal, f.sender, Deducted(f.sender, amountsIn, f.useInternalBalance))
        /\ StoreBalances(f, [i \in DOMAIN f.tokens |->
              ChangeCash(f.balances[i], amountsIn[f.tokens[i]], now)])

(* _processJoinPoolTransfers, and the update of the Pool's balances.       *)
ProcessJoin(f, amountsIn, fees) ==
    LET pulled == Remainder(f.sender, amountsIn, f.useInternalBalance)
        received == Transfer(erc20, f.sender, VaultAddress, pulled)
    IN  /\ Holds(erc20, f.sender, pulled)
        /\ Holds(received, VaultAddress, fees)
        /\ erc20' = Transfer(received, VaultAddress, Collector, fees)
        /\ internal' = Debit(internal, f.sender, Deducted(f.sender, amountsIn, f.useInternalBalance))
        /\ StoreBalances(f, [i \in DOMAIN f.tokens |->
              ChangeCash(f.balances[i], amountsIn[f.tokens[i]] - fees[f.tokens[i]], now)])

EndJoin ==
    /\ Resume({"JOIN"})
    /\ \E amountsIn \in PerToken(Frame, Amounts), fees \in PerToken(Frame, DueFees) :
         /\ \A t \in ToSet(Frame.tokens) : amountsIn[t] <= Frame.limit
         /\ ProcessJoin(Frame, amountsIn, fees)
    /\ UNCHANGED <<permissionVars, registryVars, flashLoanFee>>

(* _processExitPoolTransfers, and the update of the Pool's balances.       *)
ProcessExit(f, amountsOut, fees) ==
    LET sent == IF f.useInternalBalance THEN Nothing ELSE amountsOut
        remaining == Transfer(erc20, VaultAddress, f.recipient, sent)
    IN  /\ Holds(erc20, VaultAddress, sent)
        /\ Holds(remaining, VaultAddress, fees)
        /\ erc20' = Transfer(remaining, VaultAddress, Collector, fees)
        /\ internal' = IF f.useInternalBalance THEN Credit(internal, f.recipient, amountsOut) ELSE internal
        /\ StoreBalances(f, [i \in DOMAIN f.tokens |->
              ChangeCash(f.balances[i], -(amountsOut[f.tokens[i]] + fees[f.tokens[i]]), now)])

EndExit ==
    /\ Resume({"EXIT"})
    /\ \E amountsOut \in PerToken(Frame, Amounts), fees \in PerToken(Frame, DueFees) :
         /\ \A t \in ToSet(Frame.tokens) : amountsOut[t] >= Frame.limit
         /\ ProcessExit(Frame, amountsOut, fees)
    /\ UNCHANGED <<permissionVars, registryVars, flashLoanFee>>

---------------------------------------------------------------------------
(* Swaps: a single swap.  The caller may choose any deadline, so the check *)
(* of it is left out.                                                      *)

BeginSwap(caller, id, sender, recipient, kind, tokenIn, tokenOut, amount, limit, fromInternal, toInternal) ==
    LET list == IF id.specialization = "GENERAL" THEN tokens[id] ELSE <<tokenIn, tokenOut>>
    IN  /\ NonReentrant
        /\ WhenNotPaused
        /\ AuthenticateFor(caller, sender)
        /\ amount > 0
        /\ tokenIn # tokenOut
        /\ {tokenIn, tokenOut} \subseteq ToSet(tokens[id])
        /\ CallHook([op |-> "SWAP", caller |-> caller, id |-> id, sender |-> sender,
                     recipient |-> recipient, kind |-> kind, tokenIn |-> tokenIn,
                     tokenOut |-> tokenOut, amount |-> amount, limit |-> limit,
                     fromInternal |-> fromInternal, toInternal |-> toInternal,
                     tokens |-> list, balances |-> BalancesOf(id, list),
                     relayers |-> CurrentRelayers])
        /\ UNCHANGED <<permissionVars, registryVars, balances, internal, flashLoanFee, erc20>>

(* The rest of swap, once onSwap has settled both amounts.                 *)
ProcessSwap(f, amountIn, amountOut) ==
    LET in == Only(f.tokenIn, amountIn)
        out == Only(f.tokenOut, amountOut)
        pulled == Remainder(f.sender, in, f.fromInternal)
        sent == IF f.toInternal THEN Nothing ELSE out
        received == Transfer(erc20, f.sender, VaultAddress, pulled)
        spent == Debit(internal, f.sender, Deducted(f.sender, in, f.fromInternal))
        swapped == {i \in DOMAIN f.tokens : f.tokens[i] \in {f.tokenIn, f.tokenOut}}
    IN  /\ Holds(erc20, f.sender, pulled)
        /\ Holds(received, VaultAddress, sent)
        /\ erc20' = Transfer(received, VaultAddress, f.recipient, sent)
        /\ internal' = IF f.toInternal THEN Credit(spent, f.recipient, out) ELSE spent
        /\ StoreBalances(f, [i \in swapped |->
              ChangeCash(f.balances[i], in[f.tokens[i]] - out[f.tokens[i]], now)])

EndSwap ==
    /\ Resume({"SWAP"})
    /\ \E calculated \in Amounts :
         IF Frame.kind = "GIVEN_IN"
         THEN calculated >= Frame.limit /\ ProcessSwap(Frame, Frame.amount, calculated)
         ELSE calculated <= Frame.limit /\ ProcessSwap(Frame, calculated, Frame.amount)
    /\ UNCHANGED <<permissionVars, registryVars, flashLoanFee>>

---------------------------------------------------------------------------
(* FlashLoans.                                                             *)

MulUp(a, percentage) ==
    IF a * percentage = 0 THEN 0 ELSE (a * percentage - 1) \div One + 1

\* mutant: a token may appear twice
AnyOrder(loan) == TRUE

(* Strictly ascending, so that no token appears twice.                     *)
Sorted(loan) == \A i, j \in DOMAIN loan : i < j => loan[i].token < loan[j].token

(* The part of a list of amounts, one per entry of a loan, that precedes   *)
(* entry i and is of the same token.                                       *)
Before(loan, amounts, i) ==
    MapThenSumSet(LAMBDA j : amounts[j], {j \in 1 .. i - 1 : loan[j].token = loan[i].token})

LoanAmounts(loan) == [i \in DOMAIN loan |-> loan[i].amount]

Lent(loan, t) ==
    MapThenSumSet(LAMBDA i : loan[i].amount, {i \in DOMAIN loan : loan[i].token = t})

(* What the Vault has of each token when its entry is lent.                *)
PreLoan(loan) ==
    [i \in DOMAIN loan |-> erc20[VaultAddress][loan[i].token] - Before(loan, LoanAmounts(loan), i)]

BeginFlashLoan(caller, recipient, loan) ==
    /\ NonReentrant
    /\ WhenNotPaused
    /\ Sorted(loan)
    /\ \A i \in DOMAIN loan : PreLoan(loan)[i] >= loan[i].amount
    /\ erc20' = Transfer(erc20, VaultAddress, recipient, [t \in Tokens |-> Lent(loan, t)])
    /\ CallHook([op |-> "FLASH_LOAN", caller |-> caller, recipient |-> recipient,
                 loan |-> loan, preLoan |-> PreLoan(loan),
                 fees |-> [i \in DOMAIN loan |-> MulUp(loan[i].amount, flashLoanFee)]])
    /\ UNCHANGED <<permissionVars, registryVars, balances, internal, flashLoanFee>>

(* What is left for the collector when the entries before have been paid.  *)
Received(f) ==
    LET received[i \in DOMAIN f.loan] ==
          erc20[VaultAddress][f.loan[i].token] - f.preLoan[i] - Before(f.loan, received, i)
    IN  received

Repaid(f) ==
    \A i \in DOMAIN f.loan : Received(f)[i] >= 0 /\ Received(f)[i] >= f.fees[i]

Paid(f, t) ==
    MapThenSumSet(LAMBDA i : Received(f)[i], {i \in DOMAIN f.loan : f.loan[i].token = t})

(* All that came in during the loan goes to the collector, entry by entry. *)
EndFlashLoan ==
    /\ Resume({"FLASH_LOAN"})
    /\ Repaid(Frame)
    /\ erc20' = Transfer(erc20, VaultAddress, Collector, [t \in Tokens |-> Paid(Frame, t)])
    /\ UNCHANGED <<permissionVars, registryVars, balances, internal, flashLoanFee>>

---------------------------------------------------------------------------
(* AssetManagers: one operation of managePoolBalance.                      *)

\* mutant: any caller may manage
AnyManager(caller, id, token) == WithRegisteredPool(id) /\ token \in ToSet(tokens[id])

OnlyAssetManager(caller, id, token) ==
    /\ WithRegisteredPool(id)
    /\ token \in ToSet(tokens[id])
    /\ managers[id][token] = caller

SetBalance(id, token, new) ==
    IsBalance(new) /\ balances' = [balances EXCEPT ![id][token] = new]

WithdrawPoolBalance(id, caller, token, amount) ==
    /\ SetBalance(id, token, CashToManaged(balances[id][token], amount))
    /\ Holds(erc20, VaultAddress, Only(token, amount))
    /\ erc20' = Transfer(erc20, VaultAddress, caller, Only(token, amount))

DepositPoolBalance(id, caller, token, amount) ==
    /\ SetBalance(id, token, ManagedToCash(balances[id][token], amount))
    /\ Holds(erc20, caller, Only(token, amount))
    /\ erc20' = Transfer(erc20, caller, VaultAddress, Only(token, amount))

UpdateManagedBalance(id, token, amount) ==
    /\ SetBalance(id, token, SetManaged(balances[id][token], amount, now))
    /\ UNCHANGED erc20

ManagePoolBalance(caller, id, token, amount) ==
    /\ NonReentrant
    /\ WhenNotPaused
    /\ OnlyAssetManager(caller, id, token)
    /\ \/ WithdrawPoolBalance(id, caller, token, amount)
       \/ DepositPoolBalance(id, caller, token, amount)
       \/ UpdateManagedBalance(id, token, amount)
    /\ CallAndReturn(caller)
    /\ UNCHANGED <<permissionVars, registryVars, internal, flashLoanFee>>

---------------------------------------------------------------------------
(* UserBalance: one operation of manageUserBalance.                        *)

\* mutant: withdrawals stop with everything else
WithdrawInternalUnlessPaused(sender, recipient, m) ==
    /\ WhenNotPaused
    /\ Holds(internal, sender, m)
    /\ internal' = Debit(internal, sender, m)
    /\ Holds(erc20, VaultAddress, m)
    /\ erc20' = Transfer(erc20, VaultAddress, recipient, m)

WithdrawInternal(sender, recipient, m) ==
    /\ Holds(internal, sender, m)
    /\ internal' = Debit(internal, sender, m)
    /\ Holds(erc20, VaultAddress, m)
    /\ erc20' = Transfer(erc20, VaultAddress, recipient, m)

DepositInternal(sender, recipient, m) ==
    /\ WhenNotPaused
    /\ internal' = Credit(internal, recipient, m)
    /\ Holds(erc20, sender, m)
    /\ erc20' = Transfer(erc20, sender, VaultAddress, m)

TransferInternal(sender, recipient, m) ==
    /\ WhenNotPaused
    /\ Holds(internal, sender, m)
    /\ internal' = Transfer(internal, sender, recipient, m)
    /\ UNCHANGED erc20

TransferExternal(sender, recipient, m) ==
    /\ WhenNotPaused
    /\ Holds(erc20, sender, m)
    /\ erc20' = Transfer(erc20, sender, recipient, m)
    /\ UNCHANGED internal

ManageUserBalance(caller, sender, recipient, token, amount) ==
    LET m == Only(token, amount)
    IN  /\ NonReentrant
        /\ AuthenticateFor(caller, sender)
        /\ \/ WithdrawInternal(sender, recipient, m)
           \/ DepositInternal(sender, recipient, m)
           \/ TransferInternal(sender, recipient, m)
           \/ TransferExternal(sender, recipient, m)
        /\ CallAndReturn(caller)
        /\ UNCHANGED <<permissionVars, registryVars, balances, flashLoanFee>>

---------------------------------------------------------------------------
(* VaultAuthorization and the pause.                                       *)

SetRelayerApproval(caller, sender, relayer, isApproved) ==
    /\ NonReentrant
    /\ WhenNotPaused
    /\ AuthenticateFor(caller, sender)
    /\ approved' = IF isApproved THEN approved \cup {<<sender, relayer>>}
                                 ELSE approved \ {<<sender, relayer>>}
    /\ CallAndReturn(caller)
    /\ UNCHANGED <<now, paused, authorizer, permissions, registryVars, balances, internal, flashLoanFee, erc20>>

SetAuthorizer(caller, newAuthorizer) ==
    /\ NonReentrant
    /\ OnlyGovernor(caller)
    /\ authorizer' = newAuthorizer
    /\ CallAndReturn(caller)
    /\ UNCHANGED <<now, paused, approved, permissions, registryVars, balances, internal, flashLoanFee, erc20>>

\* mutant: the windows are not checked
SetPausedAnytime(caller, isPaused) ==
    /\ NonReentrant
    /\ OnlyGovernor(caller)
    /\ paused' = isPaused
    /\ CallAndReturn(caller)
    /\ UNCHANGED <<now, authorizer, approved, permissions, registryVars, balances, internal, flashLoanFee, erc20>>

SetPaused(caller, isPaused) ==
    /\ NonReentrant
    /\ OnlyGovernor(caller)
    /\ Pausable!SetPaused(isPaused)
    /\ CallAndReturn(caller)
    /\ UNCHANGED <<authorizer, approved, permissions, registryVars, balances, internal, flashLoanFee, erc20>>

---------------------------------------------------------------------------
(* ProtocolFeesCollector: a contract of its own, open during the Vault's   *)
(* hooks.  Its swap fee percentage is only handed to Pools.                *)

SetFlashLoanFeePercentage(caller, percentage) ==
    /\ OnlyGovernor(caller)
    /\ percentage <= MaxFlashLoanFee
    /\ flashLoanFee' = percentage
    /\ CallAndReturn(caller)
    /\ UNCHANGED <<permissionVars, registryVars, balances, internal, erc20>>

WithdrawCollectedFees(caller, recipient, token, amount) ==
    /\ OnlyGovernor(caller)
    /\ Holds(erc20, Collector, Only(token, amount))
    /\ erc20' = Transfer(erc20, Collector, recipient, Only(token, amount))
    /\ CallAndReturn(caller)
    /\ UNCHANGED <<permissionVars, registryVars, balances, internal, flashLoanFee>>

---------------------------------------------------------------------------
(* The world around: Authorizers, contracts of their own that grant and    *)
(* revoke at any time, in hooks too; transfers of tokens, to repay a loan  *)
(* or by mistake; and blocks.                                              *)

SetPermission(permission, isGranted) ==
    /\ permissions' = IF isGranted THEN permissions \cup {permission}
                                   ELSE permissions \ {permission}
    /\ UNCHANGED <<callVars, now, paused, authorizer, approved, registryVars, balances, internal,
                   flashLoanFee, erc20>>

Erc20Transfer(caller, recipient, token, amount) ==
    /\ Holds(erc20, caller, Only(token, amount))
    /\ erc20' = Transfer(erc20, caller, recipient, Only(token, amount))
    /\ CallAndReturn(caller)
    /\ UNCHANGED <<permissionVars, registryVars, balances, internal, flashLoanFee>>

Tick ==
    /\ frames = <<>>
    /\ Pausable!PausableTick
    /\ UNCHANGED <<callVars, authorizer, approved, permissions, registryVars, balances, internal, flashLoanFee, erc20>>

---------------------------------------------------------------------------

PoolRegistryNext ==
    \/ \E caller \in PoolContracts, s \in Specializations : RegisterPool(caller, s)
    \/ \E id \in pools, list \in TokenLists, caller \in Accounts :
          \/ \E manager \in Accounts \cup {NoAccount} : RegisterTokens(caller, id, list, manager)
          \/ DeregisterTokens(caller, id, list)

PoolBalancesNext ==
    \/ \E caller, sender \in Accounts, recipient \in Recipients, id \in pools,
          limit \in Limits, useInternalBalance \in BOOLEAN :
          \/ BeginJoin(caller, id, sender, recipient, limit, useInternalBalance)
          \/ BeginExit(caller, id, sender, recipient, limit, useInternalBalance)
    \/ EndJoin
    \/ EndExit

SwapsNext ==
    \/ \E caller, sender \in Accounts, recipient \in Recipients, id \in pools, kind \in SwapKinds,
          tokenIn, tokenOut \in Tokens, amount \in Amounts, limit \in Limits,
          fromInternal, toInternal \in BOOLEAN :
          BeginSwap(caller, id, sender, recipient, kind, tokenIn, tokenOut, amount, limit,
                    fromInternal, toInternal)
    \/ EndSwap

FlashLoansNext ==
    \/ \E caller \in Accounts, recipient \in Accounts \cap Recipients, loan \in Loans :
          BeginFlashLoan(caller, recipient, loan)
    \/ EndFlashLoan

BalanceManagementNext ==
    \E caller \in Accounts, token \in Tokens, amount \in Amounts :
      \/ \E id \in pools : ManagePoolBalance(caller, id, token, amount)
      \/ \E sender \in Accounts, recipient \in Recipients :
           ManageUserBalance(caller, sender, recipient, token, amount)

GovernanceNext ==
    \E caller \in Accounts :
      \/ \E approval \in Approvals, b \in BOOLEAN : SetRelayerApproval(caller, approval[1], approval[2], b)
      \/ \E a \in Authorizers : SetAuthorizer(caller, a)
      \/ \E b \in BOOLEAN : SetPaused(caller, b)
      \/ \E percentage \in 0 .. MaxFlashLoanFee + 1 : SetFlashLoanFeePercentage(caller, percentage)
      \/ \E recipient \in Recipients, token \in Tokens, amount \in Amounts :
           WithdrawCollectedFees(caller, recipient, token, amount)

AuthorizersNext ==
    \E permission \in PermissionInputs, b \in BOOLEAN : SetPermission(permission, b)

TokensNext ==
    \E caller \in Accounts, recipient \in Recipients \cup {VaultAddress}, token \in Tokens, amount \in Amounts :
      Erc20Transfer(caller, recipient, token, amount)

Next ==
    \/ PoolRegistryNext
    \/ PoolBalancesNext
    \/ SwapsNext
    \/ FlashLoansNext
    \/ BalanceManagementNext
    \/ GovernanceNext
    \/ AuthorizersNext
    \/ TokensNext
    \/ Tick

Spec == Init /\ [][Next]_vars

---------------------------------------------------------------------------
(* The type invariant: all amounts fit, every balance fits its word, and   *)
(* the positions of a Pool's tokens are those of distinct tokens.          *)
TypeOK ==
    /\ now \in Nat
    /\ paused \in BOOLEAN
    /\ status \in {"NOT_ENTERED", "ENTERED"}
    /\ msgSender \in Accounts \cup {NoAccount}
    /\ authorizer \in Authorizers
    /\ permissions \subseteq Authorizers \X Roles \X Accounts
    /\ approved \subseteq Accounts \X Accounts
    /\ nextPoolNonce \in Nat
    /\ pools \subseteq PoolIds
    /\ \A id \in PoolIds : tokens[id] \in Seq(Tokens) /\ IsInjective(tokens[id])
    /\ balances \in [PoolIds -> [Tokens -> Balance]]
    /\ \A id \in PoolIds, t \in Tokens : IsBalance(balances[id][t])
    /\ managers \in [PoolIds -> [Tokens -> Accounts \cup {NoAccount}]]
    /\ internal \in [Holders -> [Tokens -> Nat]]
    /\ flashLoanFee \in 0 .. MaxFlashLoanFee
    /\ erc20 \in [Holders -> [Tokens -> Nat]]

(* What the Vault owes of token t: internal balances and the cash of Pools.*)
Owed(t) ==
    MapThenSumSet(LAMBDA h : internal[h][t], Holders)
      + MapThenSumSet(LAMBDA id : balances[id][t].cash, PoolIds)

(* What the Vault has of token t, counting what it has lent as repaid.     *)
InCustody(t) ==
    LET lending == {f \in ToSet(frames) : f.op = "FLASH_LOAN" /\ \E i \in DOMAIN f.loan : f.loan[i].token = t}
        first(f) == CHOOSE i \in DOMAIN f.loan :
                      f.loan[i].token = t /\ \A j \in 1 .. i - 1 : f.loan[j].token # t
    IN  IF lending = {} THEN erc20[VaultAddress][t]
        ELSE LET f == CHOOSE f \in lending : TRUE IN f.preLoan[first(f)]

(* The Vault can pay everyone at any moment between calls and, once its    *)
(* loans are repaid, during calls: no sequence of joins, exits, swaps,     *)
(* loans, management and user operations, nested in each other's hooks,    *)
(* makes internal balances and Pool cash exceed the tokens held.           *)
Solvent == \A t \in Tokens : Owed(t) <= InCustody(t)

Excess(t) == InCustody(t) - Owed(t)

(* Every token that comes in is owed to somebody and every debt that goes  *)
(* is paid: the excess of the tokens held over the tokens owed changes     *)
(* only when tokens are sent to the Vault outside of any operation, and    *)
(* no operation takes from it.                                             *)
FundsAreConserved ==
    [][\A t \in Tokens : Excess(t)' # Excess(t) =>
         /\ erc20'[VaultAddress][t] > erc20[VaultAddress][t]
         /\ Owed(t)' = Owed(t)]_vars

(* The balances from which a hook and the code after it compute the new    *)
(* balances are still those stored, at the same positions: nothing was     *)
(* joined, exited, swapped, managed, registered or deregistered meanwhile. *)
NoLostUpdate ==
    \A n \in DOMAIN frames : frames[n].op # "FLASH_LOAN" =>
      LET f == frames[n] IN
        /\ f.balances = BalancesOf(f.id, f.tokens)
        /\ f.op \in Joins \/ f.id.specialization = "GENERAL" => f.tokens = tokens[f.id]
        /\ ToSet(f.tokens) \subseteq ToSet(tokens[f.id])

(* A token that is not registered in a Pool has neither balance nor Asset  *)
(* Manager there, so registering it again starts from nothing.             *)
DeregisteredIsEmpty ==
    \A id \in PoolIds, t \in Tokens : t \notin ToSet(tokens[id]) =>
      balances[id][t] = EmptyBalance /\ managers[id][t] = NoAccount

(* Who could relay when the call that makes this step was started.         *)
RelayersAtStart == IF Len(frames') < Len(frames) THEN Frame.relayers ELSE CurrentRelayers

(* The step spends for u on u's own call, or on that of a relayer.         *)
MayDebit(u) ==
    \/ msgSender' = u
    \/ msgSender' \in RelayersAtStart /\ <<u, msgSender'>> \in approved

(* Tokens and internal balance of an account are only spent by itself or   *)
(* by a relayer that had the Authorizer's approval when its call started   *)
(* (it may be revoked in the hook, and the call still spends) and has the  *)
(* account's approval at the very moment when it spends, after all that    *)
(* was called in the hook.                                                 *)
OnlyAuthorizedDebit ==
    [][\A u \in Accounts, t \in Tokens :
         erc20'[u][t] < erc20[u][t] \/ internal'[u][t] < internal[u][t] => MayDebit(u)]_vars

(* While paused the Vault takes on no obligations: what it owes only goes  *)
(* down, even by calls whose hooks were running when it was paused.        *)
PausedOnlyPaysOut ==
    [][~WhenNotPaused => \A t \in Tokens : Owed(t)' <= Owed(t)]_vars

(* Funds are never trapped: whenever no call is in progress, paused or not *)
(* and whatever the Authorizer, every account can withdraw all of its      *)
(* internal balance and start to exit from every Pool that has tokens.     *)
FundsAreNeverTrapped ==
    frames = <<>> =>
      \A u \in Accounts :
        /\ \A t \in Tokens : internal[u][t] > 0 =>
              ENABLED (/\ ManageUserBalance(u, u, u, t, internal[u][t])
                       /\ internal'[u][t] = 0
                       /\ erc20'[u][t] > erc20[u][t])
        /\ \A id \in pools : tokens[id] # <<>> => ENABLED BeginExit(u, id, u, u, 0, FALSE)

(* A change of a Pool's total balance is stamped with the block in which   *)
(* it happens, which is what price oracles of Pools rely on.               *)
TotalChangesAreStamped ==
    [][\A id \in PoolIds, t \in Tokens :
         /\ t \in ToSet(tokens[id]) /\ t \in ToSet(tokens'[id])
         /\ Total(balances'[id][t]) # Total(balances[id][t])
         => balances'[id][t].lastChangeBlock = now']_vars

(* The Vault's pause is a TemporarilyPausable.                             *)
PausableRefinement == Pausable!PausableSpec
==========================================================================
