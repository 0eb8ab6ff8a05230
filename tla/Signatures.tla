---------------------------- MODULE Signatures ----------------------------
(***************************************************************************)
(* Permissions that users sign: for relayers of the Vault, spenders of a   *)
(* Pool's token and minters.  The client signs (pkg/balancer-js/src/utils, *)
(* signatures.ts and permit.ts), the contracts validate                    *)
(* (EOASignaturesValidator, ExtraCalldataEOASignaturesValidator and those  *)
(* that use them).  Between the two a signature is in anybody's hands, may *)
(* be late, and may be presented again.                                    *)
(*                                                                         *)
(* A signature stands for what was signed, which nobody else can sign: it  *)
(* is valid for a message if the message is in the set of those signed.    *)
(***************************************************************************)
EXTENDS Integers, Sequences, FiniteSets

CONSTANTS
    Users,              \* externally owned accounts, which sign
    Senders,            \* accounts that users sign permissions for
    Relayers,           \* senders that the authorizer lets call the Vault's functions
    Nobody,             \* the sender of a message that anyone may send
    PoolCalls,          \* calls of the Vault, [type : ..., id : ...]
    CallsToSign,        \* the calls that users sign
    Deadlines,          \* MAX_DEADLINE among them
    Nonces,             \* that signers ask for, 0 for the current one
    AllowanceInputs,    \* of token allowances
    MaxSignatures, LastMoment   \* bounds of a run

ActionTypes == {"JoinPool", "ExitPool", "Swap", "BatchSwap", "SetRelayerApproval"}
ApprovalCalls == [type : {"SetRelayerApproval"}, relayer : Senders, approved : BOOLEAN]
VaultCalls == PoolCalls \cup ApprovalCalls
Validators == {"Vault", "Token", "Minter"}

ASSUME SignersAssumption ==
    /\ Users \cap Senders = {}
    /\ Relayers \subseteq Senders
    /\ Nobody \notin Users \cup Senders
    /\ CallsToSign \subseteq VaultCalls
    /\ \A call \in PoolCalls : call.type \in ActionTypes \ {"SetRelayerApproval"}

VARIABLES
    moment,             \* block.timestamp
    nextNonce,          \* _nextNonce of each validator
    signed,             \* the messages that users have signed
    approvedRelayers,   \* _approvedRelayers, pairs of a user and a relayer
    allowances,         \* of the token: owner, spender, amount
    allowedMinters,     \* _allowedMinter
    uses                \* the accepted signatures: a history

signatureVars ==
    <<moment, nextNonce, signed, approvedRelayers, allowances, allowedMinters, uses>>

permissionVars == <<approvedRelayers, allowances, allowedMinters>>

---------------------------------------------------------------------------
(* Signing, in the client.  A nonce of zero, like none, is replaced by the *)
(* current one.                                                            *)

Message(validator, type, content, sender, user, nonce, deadline) ==
    [validator |-> validator, type |-> type, content |-> content, sender |-> sender,
     user |-> user, nonce |-> nonce, deadline |-> deadline]

NonceToSign(validator, user, nonce) == IF nonce = 0 THEN nextNonce[validator][user] ELSE nonce

Sign(validator, type, content, sender, user, deadline, nonce) ==
    /\ Cardinality(signed) < MaxSignatures
    /\ LET message == Message(validator, type, content, sender, user,
                              NonceToSign(validator, user, nonce), deadline)
       IN  signed' = signed \cup {message}
    /\ UNCHANGED <<moment, nextNonce, permissionVars, uses>>

SignAuthorizationFor(type, user, sender, call, deadline, nonce) ==
    Sign("Vault", type, call, sender, user, deadline, nonce)

SignJoinAuthorization(user, sender, call, deadline, nonce) ==
    SignAuthorizationFor("JoinPool", user, sender, call, deadline, nonce)

SignExitAuthorization(user, sender, call, deadline, nonce) ==
    SignAuthorizationFor("ExitPool", user, sender, call, deadline, nonce)

SignSwapAuthorization(user, sender, call, deadline, nonce) ==
    SignAuthorizationFor("Swap", user, sender, call, deadline, nonce)

SignBatchSwapAuthorization(user, sender, call, deadline, nonce) ==
    SignAuthorizationFor("BatchSwap", user, sender, call, deadline, nonce)

SignSetRelayerApprovalAuthorization(user, sender, call, deadline, nonce) ==
    SignAuthorizationFor("SetRelayerApproval", user, sender, call, deadline, nonce)

SignSetMinterApproval(user, minter, approval, deadline, nonce) ==
    Sign("Minter", "SetMinterApproval", [minter |-> minter, approval |-> approval],
         Nobody, user, deadline, nonce)

SignPermit(owner, spender, amount, deadline, nonce) ==
    Sign("Token", "Permit", [spender |-> spender, value |-> amount],
         Nobody, owner, deadline, nonce)

---------------------------------------------------------------------------
(* Validating, in the contracts.                                           *)

Accept(message, sender) ==
    /\ message \in signed
    /\ message.deadline >= moment
    /\ uses' = Append(uses, [message |-> message, sender |-> sender, at |-> moment])

\* mutant: the nonce stays
AcceptKeepingNonce(message, sender) == Accept(message, sender) /\ UNCHANGED nextNonce

\* _ensureValidSignature
EnsureValidSignature(message, sender) ==
    /\ Accept(message, sender)
    /\ nextNonce' = [nextNonce EXCEPT ![message.validator][message.user] = @ + 1]

\* the message that a contract expects carries the user's current nonce
Expected(validator, type, content, sender, user, deadline) ==
    Message(validator, type, content, sender, user, nextNonce[validator][user], deadline)

\* authenticateFor: an approved relayer needs no signature, and uses none up
AuthenticateFor(user, caller, call, deadline) ==
    /\ caller \in Relayers
    /\ IF <<user, caller>> \in approvedRelayers
       THEN UNCHANGED <<nextNonce, uses>>
       ELSE EnsureValidSignature(Expected("Vault", call.type, call, caller, user, deadline), caller)

ApproveRelayer(user, relayer, approved) ==
    approvedRelayers' = IF approved THEN approvedRelayers \cup {<<user, relayer>>}
                                    ELSE approvedRelayers \ {<<user, relayer>>}

\* a call with the deadline and the signature appended, which may be garbage
RelayPoolCall(caller, user, call, deadline) ==
    /\ AuthenticateFor(user, caller, call, deadline)
    /\ UNCHANGED <<moment, signed, permissionVars>>

RelaySetRelayerApproval(caller, user, call, deadline) ==
    /\ AuthenticateFor(user, caller, call, deadline)
    /\ ApproveRelayer(user, call.relayer, call.approved)
    /\ UNCHANGED <<moment, signed, allowances, allowedMinters>>

\* sent by the user (Vault.ts: setRelayerApproval)
SetRelayerApproval(user, relayer, approved) ==
    /\ ApproveRelayer(user, relayer, approved)
    /\ UNCHANGED <<moment, nextNonce, signed, allowances, allowedMinters, uses>>

SetAllowance(owner, spender, amount) ==
    /\ allowances' = [allowances EXCEPT ![owner][spender] = amount]
    /\ UNCHANGED <<approvedRelayers, allowedMinters>>

Permit(caller, owner, spender, amount, deadline) ==
    /\ EnsureValidSignature(Expected("Token", "Permit", [spender |-> spender, value |-> amount],
                                     Nobody, owner, deadline), caller)
    /\ SetAllowance(owner, spender, amount)
    /\ UNCHANGED <<moment, signed>>

AllowMinter(minter, user, approval) ==
    /\ allowedMinters' = IF approval THEN allowedMinters \cup {<<minter, user>>}
                                     ELSE allowedMinters \ {<<minter, user>>}
    /\ UNCHANGED <<approvedRelayers, allowances>>

SetMinterApprovalWithSignature(caller, minter, approval, user, deadline) ==
    /\ EnsureValidSignature(Expected("Minter", "SetMinterApproval",
                                     [minter |-> minter, approval |-> approval],
                                     Nobody, user, deadline), caller)
    /\ AllowMinter(minter, user, approval)
    /\ UNCHANGED <<moment, signed>>

SetMinterApproval(user, minter, approval) ==
    /\ AllowMinter(minter, user, approval)
    /\ UNCHANGED <<moment, nextNonce, signed, uses>>

ToggleApproveMint(user, minter) ==
    SetMinterApproval(user, minter, <<minter, user>> \notin allowedMinters)

Approve(owner, spender, amount) ==
    /\ SetAllowance(owner, spender, amount)
    /\ UNCHANGED <<moment, nextNonce, signed, uses>>

MomentPasses ==
    /\ moment < LastMoment
    /\ moment' = moment + 1
    /\ UNCHANGED <<nextNonce, signed, permissionVars, uses>>

---------------------------------------------------------------------------
SignatureInit ==
    /\ moment = 0
    /\ nextNonce = [v \in Validators |-> [u \in Users |-> 0]]
    /\ signed = {}
    /\ approvedRelayers = {}
    /\ allowances = [u \in Users |-> [s \in Senders |-> 0]]
    /\ allowedMinters = {}
    /\ uses = <<>>

Signing(user, sender, deadline, nonce) ==
    \/ \E call \in CallsToSign :
        \/ SignJoinAuthorization(user, sender, call, deadline, nonce)
        \/ SignExitAuthorization(user, sender, call, deadline, nonce)
        \/ SignSwapAuthorization(user, sender, call, deadline, nonce)
        \/ SignBatchSwapAuthorization(user, sender, call, deadline, nonce)
        \/ SignSetRelayerApprovalAuthorization(user, sender, call, deadline, nonce)
    \/ SignSetMinterApproval(user, sender, TRUE, deadline, nonce)
    \/ \E amount \in AllowanceInputs : SignPermit(user, sender, amount, deadline, nonce)

Presenting(caller, user, deadline) ==
    \/ \E call \in PoolCalls : RelayPoolCall(caller, user, call, deadline)
    \/ \E call \in ApprovalCalls : RelaySetRelayerApproval(caller, user, call, deadline)
    \/ \E amount \in AllowanceInputs, s \in Senders : Permit(caller, user, s, amount, deadline)
    \/ \E m \in Senders, approval \in BOOLEAN :
          SetMinterApprovalWithSignature(caller, m, approval, user, deadline)

Direct(user, other) ==
    \/ \E flag \in BOOLEAN :
        \/ SetRelayerApproval(user, other, flag)
        \/ SetMinterApproval(user, other, flag)
    \/ ToggleApproveMint(user, other)
    \/ \E amount \in AllowanceInputs : Approve(user, other, amount)

SignatureNext ==
    \/ MomentPasses
    \/ \E user \in Users, other \in Senders, deadline \in Deadlines :
        \/ \E nonce \in Nonces : Signing(user, other, deadline, nonce)
        \/ Presenting(other, user, deadline)
        \/ Direct(user, other)

---------------------------------------------------------------------------
(* A signature gives a permission once: however long it is about, and      *)
(* whoever presents it, it is accepted at most once, in the order of the   *)
(* signer's nonces, by no one but the sender it was signed for, and not    *)
(* after its deadline (EOASignaturesValidator, whose nonces the validators *)
(* do not share).                                                          *)
SignaturesAreUsedOnce ==
    \A i \in DOMAIN uses :
        /\ uses[i].at <= uses[i].message.deadline
        /\ uses[i].message.sender \in {Nobody, uses[i].sender}
        /\ \A j \in 1 .. i - 1 :
              /\ uses[j].message.validator = uses[i].message.validator
              /\ uses[j].message.user = uses[i].message.user
              => uses[j].message.nonce < uses[i].message.nonce
===========================================================================
