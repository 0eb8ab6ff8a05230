---------------------------- MODULE VaultClient ----------------------------
(***************************************************************************)
(* The TypeScript client of the Vault (pvt/helpers/src/models/vault), with *)
(* the authorizer, the fees collector and the provider of fee percentages  *)
(* that its methods call.                                                  *)
(*                                                                         *)
(* A method is a sequence of transactions, each awaited before the next:   *)
(* first the permissions it thinks are needed, then the call they are for. *)
(* When one of them reverts the method throws, and what it did before      *)
(* stays done.  A query and the transaction it decides are one step.       *)
(***************************************************************************)
EXTENDS TimelockAuthorizerClient

CONSTANTS
    FeesCollector, FeesProvider,                            \* contracts, among the Targets
    VaultAddress,
    SetSwapFee, SetFlashLoanFee, SetFeeType, WithdrawFees,  \* action ids
    MaxFees,            \* the highest percentage of each fee type
    FeeInputs,          \* percentages
    GlobalGrantInputs   \* <<action id, account>>

Admin == InitialRoot
FeeTypes == {"SWAP", "FLASH_LOAN", "YIELD"}

ASSUME FeesAssumption ==
    /\ FeesProvider \in Accounts
    /\ MaxFees \in [FeeTypes -> Nat]
    /\ {SetSwapFee, SetFlashLoanFee, SetFeeType, WithdrawFees} \subseteq ActionIds

VARIABLES
    ownAuthorizer,      \* the Vault asks the authorizer that the client grants permissions in
    fees,               \* the percentage of each fee type, in the collector or the provider
    collected,          \* the collector's balance of a token
    todo                \* the steps left of the method in progress

vaultClientVars == <<ownAuthorizer, fees, collected, todo>>

\* IAuthentication.authenticate: an authorizer put in place later has granted nothing
Allows(a, account, where) == ownAuthorizer /\ CanPerform(a, account, where)

\* the steps of the methods; `unless` tells when a grant is skipped
Grant(unless, a, to, where) ==
    [do |-> "grant", unless |-> unless, actionId |-> a, to |-> to, where |-> where]
Call(contract, type, value, sender) ==
    [do |-> contract, type |-> type, value |-> value, sender |-> sender]

GrantGlobally(a, to) == Grant("never", a, to, Everywhere)

\* mutant: whatever it is for, the permission is given on the provider
GrantOnProvider(a, to, where) == Grant("held here", a, to, FeesProvider)

GrantIfNeeded(a, to, where) == Grant("held here", a, to, where)

---------------------------------------------------------------------------
(* What the contracts accept.                                              *)

SetterOf(type) == IF type = "SWAP" THEN SetSwapFee ELSE SetFlashLoanFee

\* ProtocolFeesCollector.setSwapFeePercentage, setFlashLoanFeePercentage
CollectorAllows(call) == Allows(SetterOf(call.type), call.sender, FeesCollector)

\* ProtocolFeePercentagesProvider.setFeeTypePercentage, which keeps the yield fee itself
ProviderAllows(call) ==
    /\ Allows(SetFeeType, call.sender, FeesProvider)
    /\ call.type # "YIELD" => Allows(SetterOf(call.type), FeesProvider, FeesCollector)

\* Vault.setAuthorizer
VaultAllows(call) == Allows(SetAuthorizer, call.sender, VaultAddress)

IsAllowed(call) ==
    CASE call.do = "collector" -> CollectorAllows(call)
      [] call.do = "provider" -> ProviderAllows(call)
      [] call.do = "vault" -> VaultAllows(call)

IsAccepted(call) == IsAllowed(call) /\ (call.do # "vault" => call.value <= MaxFees[call.type])

HoldsGlobally(step) == HasPermission(step.actionId, step.to, Everywhere)

\* grantPermissionIfNeeded wants no global permission to be there already
IsSkipped(step) ==
    \/ step.unless = "held globally" /\ HoldsGlobally(step)
    \/ /\ step.unless = "held here"
       /\ ~HoldsGlobally(step)
       /\ HasPermission(step.actionId, step.to, step.where)

IsGrantable(step) ==
    /\ ~HasPermission(step.actionId, step.to, step.where)
    /\ delay["setGrantDelay"][step.actionId] = 0
    /\ IsGranter(step.actionId, Admin, step.where)

---------------------------------------------------------------------------
(* The methods.                                                            *)

Begin(steps) ==
    /\ todo = <<>>
    /\ todo' = steps
    /\ UNCHANGED <<vars, awaited, ownAuthorizer, fees, collected>>

SenderOf(from) == IF from = NoAccount THEN Admin ELSE from

\* the admin is granted the permission, whoever sends the call
SetSwapFeePercentage(from, value) ==
    Begin(<<Grant("held globally", SetSwapFee, Admin, Everywhere),
            Call("collector", "SWAP", value, SenderOf(from))>>)

SetFlashLoanFeePercentage(from, value) ==
    Begin(<<Grant("held globally", SetFlashLoanFee, Admin, Everywhere),
            Call("collector", "FLASH_LOAN", value, SenderOf(from))>>)

SetFeeTypePercentage(type, value) ==
    Begin(<<GrantIfNeeded(SetFeeType, Admin, FeesProvider),
            GrantIfNeeded(SetSwapFee, FeesProvider, FeesCollector),
            GrantIfNeeded(SetFlashLoanFee, FeesProvider, FeesCollector),
            Call("provider", type, value, Admin)>>)

GrantPermissionGlobally(a, to) == Begin(<<GrantGlobally(a, to)>>)

GrantPermissionGloballyIfNeeded(a, to) == Begin(<<Grant("held globally", a, to, Everywhere)>>)

SetAuthorizerTo(own) ==
    Begin(<<GrantGlobally(SetAuthorizer, Admin), Call("vault", "", own, Admin)>>)

\* of this call the client does not prepare the permission
WithdrawCollectedFees(from, amount) ==
    /\ todo = <<>>
    /\ Allows(WithdrawFees, With(from), FeesCollector)
    /\ amount <= collected
    /\ collected' = collected - amount
    /\ UNCHANGED <<vars, awaited, ownAuthorizer, fees, todo>>

---------------------------------------------------------------------------
(* The steps of the method in progress.                                    *)

SkipGrant ==
    /\ todo # <<>>
    /\ Head(todo).do = "grant"
    /\ IsSkipped(Head(todo))
    /\ todo' = Tail(todo)
    /\ UNCHANGED <<vars, awaited, ownAuthorizer, fees, collected>>

SendGrant ==
    /\ todo # <<>>
    /\ Head(todo).do = "grant"
    /\ GrantDirectly(Admin, Head(todo).actionId, Head(todo).to, Head(todo).where)
    /\ todo' = Tail(todo)
    /\ UNCHANGED <<awaited, ownAuthorizer, fees, collected>>

SendCall ==
    /\ todo # <<>>
    /\ Head(todo).do # "grant"
    /\ IsAccepted(Head(todo))
    /\ todo' = <<>>
    /\ IF Head(todo).do = "vault"
       THEN ownAuthorizer' = Head(todo).value /\ UNCHANGED fees
       ELSE fees' = [fees EXCEPT ![Head(todo).type] = Head(todo).value] /\ UNCHANGED ownAuthorizer
    /\ UNCHANGED <<vars, awaited, collected>>

Throw ==
    /\ todo # <<>>
    /\ IF Head(todo).do = "grant"
       THEN ~IsSkipped(Head(todo)) /\ ~IsGrantable(Head(todo))
       ELSE ~IsAccepted(Head(todo))
    /\ todo' = <<>>
    /\ UNCHANGED <<vars, awaited, ownAuthorizer, fees, collected>>

\* VaultDeployer.deploy
VaultClientInit ==
    /\ ownAuthorizer = TRUE
    /\ fees = [type \in FeeTypes |-> 0]
    /\ collected = 1
    /\ todo = <<>>

VaultClientNext ==
    \/ SkipGrant
    \/ SendGrant
    \/ SendCall
    \/ Throw
    \/ \E own \in BOOLEAN : SetAuthorizerTo(own)
    \/ \E type \in FeeTypes, value \in FeeInputs : SetFeeTypePercentage(type, value)
    \/ \E g \in GlobalGrantInputs :
        \/ GrantPermissionGlobally(g[1], g[2])
        \/ GrantPermissionGloballyIfNeeded(g[1], g[2])
    \/ \E from \in Accounts \cup {NoAccount} :
        \/ \E value \in FeeInputs :
            \/ SetSwapFeePercentage(from, value)
            \/ SetFlashLoanFeePercentage(from, value)
        \/ \E amount \in 1 .. collected : WithdrawCollectedFees(from, amount)
        \/ ClaimRootFrom(from) /\ UNCHANGED <<awaited, vaultClientVars>>

---------------------------------------------------------------------------
(* The permissions that a method prepares are those that its call is       *)
(* checked for, in the call and in the calls it makes in turn: sent by the *)
(* admin, it is never refused for want of one as long as the Vault asks    *)
(* the authorizer that the client knows (Vault.ts and the three contracts' *)
(* authenticate).  An account of the caller's own may be refused, and a    *)
(* new authorizer refuses all.                                             *)
GrantsSuffice ==
    /\ todo # <<>>
    /\ Head(todo).do # "grant"
    /\ Head(todo).sender = Admin
    /\ ownAuthorizer
    => IsAllowed(Head(todo))
===========================================================================
