----------------------- MODULE GeneralPoolsBalance ------------------------
(***************************************************************************)
(* GeneralPoolsBalance (pkg/vault/contracts/balances): the store of one    *)
(* General Pool, an EnumerableMap from its tokens to their balances.       *)
(* Joins, exits and swaps read balances and write them back by position.   *)
(* An action is what one call of the Vault does to the store; a call that  *)
(* reverts does nothing.                                                   *)
(***************************************************************************)
EXTENDS StoreParameters

VARIABLES
    now,            \* block.number
    poolBalances    \* _generalPoolsBalances

vars == <<now, poolBalances>>

M == INSTANCE EnumerableMap WITH Keys <- Tokens, Values <- Balance, map <- poolBalances

TypeOK == now \in Nat /\ poolBalances \in M!Map

Init == now = 0 /\ poolBalances = M!EmptyMap

---------------------------------------------------------------------------

(* The map after each iteration of a loop over the tokens.                 *)
AfterPuts(tokens) ==
    LET after[n \in 0 .. Len(tokens)] ==
          IF n = 0 THEN poolBalances ELSE M!Put(after[n - 1], tokens[n], EmptyBalance)
    IN  after

AfterRemoves(tokens) ==
    LET after[n \in 0 .. Len(tokens)] ==
          IF n = 0 THEN poolBalances ELSE M!Remove(after[n - 1], tokens[n])
    IN  after

RegisterTokens(tokens) ==
    LET after == AfterPuts(tokens)
    IN  /\ \A n \in DOMAIN tokens : ~M!Contains(after[n - 1], tokens[n])
        /\ poolBalances' = after[Len(tokens)]
        /\ UNCHANGED now

MayRemove(m, token) == M!Contains(m, token) /\ IsZero(M!Get(m, token))

DeregisterTokens(tokens) ==
    LET after == AfterRemoves(tokens)
    IN  /\ \A n \in DOMAIN tokens : MayRemove(after[n - 1], tokens[n])
        /\ poolBalances' = after[Len(tokens)]
        /\ UNCHANGED now

(* A join or an exit: balances are read in the order of their positions,   *)
(* and all are written back.                                               *)
SetBalances(delta) ==
    LET entries == poolBalances.entries
        changed(i) == ChangeCash(entries[i].value, delta[entries[i].key], now)
        after[n \in 0 .. Len(entries)] ==
          IF n = 0 THEN poolBalances ELSE M!SetAt(after[n - 1], n, changed(n))
    IN  /\ \A i \in DOMAIN entries : IsBalance(changed(i))
        /\ poolBalances' = after[Len(entries)]
        /\ UNCHANGED now

Swap(tokenIn, tokenOut, amountIn, amountOut) ==
    LET indexIn == poolBalances.indexes[tokenIn]
        indexOut == poolBalances.indexes[tokenOut]
        newIn == ChangeCash(poolBalances.entries[indexIn].value, amountIn, now)
        newOut == ChangeCash(poolBalances.entries[indexOut].value, -amountOut, now)
    IN  /\ tokenIn # tokenOut
        /\ indexIn # 0 /\ indexOut # 0
        /\ IsBalance(newIn) /\ IsBalance(newOut)
        /\ poolBalances' = M!SetAt(M!SetAt(poolBalances, indexIn, newIn), indexOut, newOut)
        /\ UNCHANGED now

(* _updateGeneralPoolBalance with the result of a mutation.                *)
UpdateBalance(token, new) ==
    /\ IsBalance(new)
    /\ poolBalances' = M!Put(poolBalances, token, new)
    /\ UNCHANGED now

ManageBalance(token, amount) ==
    LET balance == M!Get(poolBalances, token)
    IN  /\ M!Contains(poolBalances, token)
        /\ \/ UpdateBalance(token, CashToManaged(balance, amount))
           \/ UpdateBalance(token, ManagedToCash(balance, amount))
           \/ UpdateBalance(token, SetManaged(balance, amount, now))

Tick ==
    /\ now < MaxTime
    /\ now' = now + 1
    /\ UNCHANGED poolBalances

Next ==
    \/ \E tokens \in RegisterLists : RegisterTokens(tokens)
    \/ \E tokens \in DeregisterLists : DeregisterTokens(tokens)
    \/ \E delta \in [Tokens -> Deltas] : SetBalances(delta)
    \/ \E x, y \in Tokens, m, n \in Amounts : Swap(x, y, m, n)
    \/ \E x \in Tokens, m \in Amounts : ManageBalance(x, m)
    \/ Tick

Spec == Init /\ [][Next]_vars

---------------------------------------------------------------------------
(* The refinement mapping.                                                 *)

RegisteredTokens == {t \in Tokens : M!Contains(poolBalances, t)}

BalanceOfToken == M!AsFunction(poolBalances)

Store == INSTANCE PoolBalanceStore WITH registered <- RegisteredTokens, balance <- BalanceOfToken

(* The balances of a Pool, moved around by swap-and-pop and written by     *)
(* position, are those that a plain map from tokens to balances would      *)
(* hold: no call ever writes the balance of another token.                 *)
StoreRefinement == Store!StoreSpec
===========================================================================
