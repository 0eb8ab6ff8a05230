------------------------ MODULE BalanceAllocation ------------------------
(***************************************************************************)
(* BalanceAllocation (pkg/vault/contracts/balances): the balance of one    *)
(* token in one Pool.  `cash` is held by the Vault, `managed` by the       *)
(* token's Asset Manager, and lastChangeBlock is the last block in which   *)
(* the total may have changed.  The code packs the three fields in a word; *)
(* here they are a record.  An operation returns the new fields, and       *)
(* IsBalance says that neither a checked subtraction nor toBalance         *)
(* reverts: the guard of whoever stores the result.                        *)
(***************************************************************************)
EXTENDS Integers

CONSTANT TotalBound      \* 2^112

ASSUME BoundAssumption == TotalBound \in Nat \ {0}

Balance == [cash : Nat, managed : Nat, lastChangeBlock : Nat]

EmptyBalance == [cash |-> 0, managed |-> 0, lastChangeBlock |-> 0]

Total(b) == b.cash + b.managed

IsZero(b) == b.cash = 0 /\ b.managed = 0

\* mutant: subtractions wrap around
IsBalanceUnchecked(b) == Total(b) < TotalBound

IsBalance(b) == b.cash >= 0 /\ b.managed >= 0 /\ Total(b) < TotalBound

ChangeCash(b, delta, block) ==
    [cash |-> b.cash + delta, managed |-> b.managed, lastChangeBlock |-> block]

CashToManaged(b, amount) ==
    [cash |-> b.cash - amount, managed |-> b.managed + amount, lastChangeBlock |-> b.lastChangeBlock]

ManagedToCash(b, amount) ==
    [cash |-> b.cash + amount, managed |-> b.managed - amount, lastChangeBlock |-> b.lastChangeBlock]

\* mutant: the last change block is kept
SetManagedUnstamped(b, amount, block) == [b EXCEPT !.managed = amount]

SetManaged(b, amount, block) ==
    [cash |-> b.cash, managed |-> amount, lastChangeBlock |-> block]
==========================================================================
