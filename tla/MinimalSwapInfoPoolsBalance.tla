------------------- MODULE MinimalSwapInfoPoolsBalance --------------------
(***************************************************************************)
(* MinimalSwapInfoPoolsBalance (pkg/vault/contracts/balances): the store   *)
(* of one Minimal Swap Info Pool, the set of its tokens and a mapping from *)
(* any token to a balance.  An action is what one call of the Vault does   *)
(* to the store; a call that reverts does nothing.                         *)
(***************************************************************************)
EXTENDS StoreParameters, Functions

VARIABLES
    now,            \* block.number
    poolTokens,     \* _minimalSwapInfoPoolsTokens
    balances        \* _minimalSwapInfoPoolsBalances

vars == <<now, poolTokens, balances>>

TypeOK ==
    /\ now \in Nat
    /\ poolTokens \subseteq Tokens
    /\ balances \in [Tokens -> Balance]

Init ==
    /\ now = 0
    /\ poolTokens = {}
    /\ balances = [t \in Tokens |-> EmptyBalance]

---------------------------------------------------------------------------

(* _getMinimalSwapInfoPoolBalance reverts unless it finds a balance or the *)
(* registration.                                                           *)
HasBalance(token) == ~IsZero(balances[token]) \/ token \in poolTokens

(* One iteration per token: the second of two equal ones reverts.          *)
RegisterTokens(tokens) ==
    /\ IsInjective(tokens)
    /\ Range(tokens) \cap poolTokens = {}
    /\ poolTokens' = poolTokens \cup Range(tokens)
    /\ UNCHANGED <<now, balances>>

\* mutant: the balance is not reset
DeregisterKeepingBlock(tokens) ==
    /\ \A t \in Range(tokens) : IsZero(balances[t])
    /\ IsInjective(tokens)
    /\ Range(tokens) \subseteq poolTokens
    /\ poolTokens' = poolTokens \ Range(tokens)
    /\ UNCHANGED <<now, balances>>

DeregisterTokens(tokens) ==
    /\ \A t \in Range(tokens) : IsZero(balances[t])
    /\ IsInjective(tokens)
    /\ Range(tokens) \subseteq poolTokens
    /\ balances' = [t \in Tokens |-> IF t \in Range(tokens) THEN EmptyBalance ELSE balances[t]]
    /\ poolTokens' = poolTokens \ Range(tokens)
    /\ UNCHANGED now

(* A join or an exit: the cash of all tokens changes.                      *)
SetBalances(delta) ==
    LET changed(t) == ChangeCash(balances[t], delta[t], now)
    IN  /\ \A t \in poolTokens : IsBalance(changed(t))
        /\ balances' = [t \in Tokens |-> IF t \in poolTokens THEN changed(t) ELSE balances[t]]
        /\ UNCHANGED <<now, poolTokens>>

Swap(tokenIn, tokenOut, amountIn, amountOut) ==
    LET newIn == ChangeCash(balances[tokenIn], amountIn, now)
        newOut == ChangeCash(balances[tokenOut], -amountOut, now)
    IN  /\ tokenIn # tokenOut
        /\ HasBalance(tokenIn) /\ HasBalance(tokenOut)
        /\ IsBalance(newIn) /\ IsBalance(newOut)
        /\ balances' = [balances EXCEPT ![tokenIn] = newIn, ![tokenOut] = newOut]
        /\ UNCHANGED <<now, poolTokens>>

(* _updateMinimalSwapInfoPoolBalance with the result of a mutation.        *)
UpdateBalance(token, new) ==
    /\ HasBalance(token)
    /\ IsBalance(new)
    /\ balances' = [balances EXCEPT ![token] = new]
    /\ UNCHANGED <<now, poolTokens>>

(* The caller, managePoolBalance, has checked the registration as well.    *)
ManageBalance(token, amount) ==
    /\ token \in poolTokens
    /\ \/ UpdateBalance(token, CashToManaged(balances[token], amount))
       \/ UpdateBalance(token, ManagedToCash(balances[token], amount))
       \/ UpdateBalance(token, SetManaged(balances[token], amount, now))

Tick ==
    /\ now < MaxTime
    /\ now' = now + 1
    /\ UNCHANGED <<poolTokens, balances>>

Next ==
    \/ \E tokens \in RegisterLists : RegisterTokens(tokens)
    \/ \E tokens \in DeregisterLists : DeregisterTokens(tokens)
    \/ \E delta \in [Tokens -> Deltas] : SetBalances(delta)
    \/ \E x, y \in Tokens, m, n \in Amounts : Swap(x, y, m, n)
    \/ \E x \in Tokens, m \in Amounts : ManageBalance(x, m)
    \/ Tick

Spec == Init /\ [][Next]_vars

---------------------------------------------------------------------------
(* The refinement mapping.                                                 *)

BalanceOfToken == [t \in poolTokens |-> balances[t]]

Store == INSTANCE PoolBalanceStore WITH registered <- poolTokens, balance <- BalanceOfToken

(* The mapping, which is never cleared but at deregistration, holds the    *)
(* balances of a Pool's registered tokens as a plain map from tokens to    *)
(* balances would: in particular a token registered again starts afresh.   *)
StoreRefinement == Store!StoreSpec

(* "A non-zero balance guarantees that the token is registered", on which  *)
(* _getMinimalSwapInfoPoolBalance relies to skip the check.                *)
NonzeroIsRegistered ==
    \A t \in Tokens : ~IsZero(balances[t]) => t \in poolTokens
===========================================================================
