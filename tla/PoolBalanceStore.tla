------------------------ MODULE PoolBalanceStore -------------------------
(***************************************************************************)
(* What the three stores of Pool balances (pkg/vault/contracts/balances)   *)
(* promise to the rest of the Vault: a Pool has a set of registered tokens *)
(* and one balance for each.  The stores differ in how they lay this out   *)
(* to save storage accesses; each of them is shown to implement this       *)
(* specification of a single Pool.                                         *)
(***************************************************************************)
EXTENDS BalanceAllocation

CONSTANT Tokens

VARIABLES
    now,            \* block.number
    registered,     \* the Pool's tokens
    balance         \* [registered -> Balance]

storeVars == <<now, registered, balance>>

StoreInit ==
    /\ now \in Nat
    /\ registered = {}
    /\ balance = [t \in {} |-> EmptyBalance]

(* A token starts with no balance, whatever happened to it before.         *)
Register ==
    \E new \in SUBSET (Tokens \ registered) :
      /\ registered' = registered \cup new
      /\ balance' = [t \in registered \cup new |->
                       IF t \in registered THEN balance[t] ELSE EmptyBalance]
      /\ UNCHANGED now

(* A token leaves only with no balance, cash or managed.                   *)
Deregister ==
    \E old \in SUBSET registered :
      /\ \A t \in old : IsZero(balance[t])
      /\ registered' = registered \ old
      /\ balance' = [t \in registered \ old |-> balance[t]]
      /\ UNCHANGED now

BalancesChange ==
    /\ UNCHANGED <<now, registered>>
    /\ balance' \in [registered -> Balance]
    /\ \A t \in registered :
         /\ IsBalance(balance'[t])
         /\ balance'[t].lastChangeBlock \in {balance[t].lastChangeBlock, now}
         /\ Total(balance'[t]) # Total(balance[t]) => balance'[t].lastChangeBlock = now

(* Joins, exits and swaps do not touch what is managed.                    *)
CashChanges ==
    /\ BalancesChange
    /\ \A t \in registered : balance'[t].managed = balance[t].managed

(* Cash and managed of one token are exchanged.                            *)
CashIsManaged ==
    /\ BalancesChange
    /\ \E t \in registered : \A s \in registered :
         IF s = t THEN Total(balance'[s]) = Total(balance[s]) ELSE balance'[s] = balance[s]

(* What one token's Asset Manager holds is updated.                        *)
ManagedChanges ==
    /\ BalancesChange
    /\ \E t \in registered : \A s \in registered :
         /\ balance'[s].cash = balance[s].cash
         /\ s # t => balance'[s].managed = balance[s].managed

BlockPasses == now' > now /\ UNCHANGED <<registered, balance>>

StoreNext ==
    \/ Register
    \/ Deregister
    \/ CashChanges
    \/ CashIsManaged
    \/ ManagedChanges
    \/ BlockPasses

StoreSpec == StoreInit /\ [][StoreNext]_storeVars
==========================================================================
