------------------------- MODULE StoreParameters -------------------------
(***************************************************************************)
(* What the three stores of Pool balances (pkg/vault/contracts/balances)   *)
(* have in common: the inputs of the calls of the Vault on one Pool.       *)
(***************************************************************************)
EXTENDS BalanceAllocation, Sequences

CONSTANTS
    Tokens,             \* token addresses, as numbers
    RegisterLists,      \* arguments of registerTokens
    DeregisterLists,    \* arguments of deregisterTokens
    Amounts,            \* amounts by which balances change
    MaxTime             \* last block of a run

(* registerTokens rejects the zero address.                                *)
ASSUME StoreAssumption ==
    /\ Tokens \subseteq Nat \ {0}
    /\ RegisterLists \subseteq Seq(Tokens)
    /\ DeregisterLists \subseteq Seq(Tokens)
    /\ Amounts \subseteq Nat

Deltas == Amounts \cup {-m : m \in Amounts}
==========================================================================
