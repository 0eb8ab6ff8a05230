---------------------- MODULE TwoTokenPoolsBalance -----------------------
(***************************************************************************)
(* TwoTokenPoolsBalance (pkg/vault/contracts/balances): the store of one   *)
(* Two Token Pool.  The balances of both tokens share two words, one with  *)
(* the cash of both and one with what is managed of both, found under the  *)
(* hash of the sorted pair of tokens: here, under the pair.  An action is  *)
(* what one call of the Vault does to the store; a call that reverts does  *)
(* nothing.                                                                *)
(***************************************************************************)
EXTENDS StoreParameters

NoToken == 0
TokenPairs == (Tokens \cup {NoToken}) \X (Tokens \cup {NoToken})

(* registerTokens and deregisterTokens of a Two Token Pool take two tokens. *)
Pairs(lists) == {tokens \in lists : Len(tokens) = 2}

VARIABLES
    now,            \* block.number
    tokenA, tokenB, \* TwoTokenPoolTokens
    sharedCash,     \* TwoTokenPoolBalances.sharedCash, by pair
    sharedManaged   \* TwoTokenPoolBalances.sharedManaged, by pair

vars == <<now, tokenA, tokenB, sharedCash, sharedManaged>>

Shared(a, b, block) == [a |-> a, b |-> b, lastChangeBlock |-> block]
NoShared == Shared(0, 0, 0)

TypeOK ==
    /\ now \in Nat
    /\ tokenA \in Tokens \cup {NoToken}
    /\ tokenB \in Tokens \cup {NoToken}
    /\ sharedCash \in [TokenPairs -> [a : Nat, b : Nat, lastChangeBlock : Nat]]
    /\ sharedManaged \in [TokenPairs -> [a : Nat, b : Nat, lastChangeBlock : {0}]]

Init ==
    /\ now = 0
    /\ tokenA = NoToken
    /\ tokenB = NoToken
    /\ sharedCash = [pair \in TokenPairs |-> NoShared]
    /\ sharedManaged = [pair \in TokenPairs |-> NoShared]

---------------------------------------------------------------------------

Larger(m, n) == IF m > n THEN m ELSE n

SharedIsZero(shared) == shared.a = 0 /\ shared.b = 0

BalanceA(pair) ==
    [cash |-> sharedCash[pair].a, managed |-> sharedManaged[pair].a,
     lastChangeBlock |-> sharedCash[pair].lastChangeBlock]

BalanceB(pair) ==
    [cash |-> sharedCash[pair].b, managed |-> sharedManaged[pair].b,
     lastChangeBlock |-> sharedCash[pair].lastChangeBlock]

ToSharedCash(balanceA, balanceB) ==
    Shared(balanceA.cash, balanceB.cash, Larger(balanceA.lastChangeBlock, balanceB.lastChangeBlock))

ToSharedManaged(balanceA, balanceB) == Shared(balanceA.managed, balanceB.managed, 0)

Sorted(x, y) == IF x < y THEN <<x, y>> ELSE <<y, x>>

IsRegistered(token) == token \in {tokenA, tokenB} /\ token # NoToken

(* The checks of _getTwoTokenPoolSharedBalances.                           *)
PairIsRegistered(x, y) ==
    LET pair == Sorted(x, y)
    IN  \/ ~SharedIsZero(sharedCash[pair])
        \/ ~SharedIsZero(sharedManaged[pair])
        \/ IsRegistered(x) /\ IsRegistered(y)

---------------------------------------------------------------------------

RegisterTokens(x, y) ==
    /\ x < y
    /\ tokenA = NoToken /\ tokenB = NoToken
    /\ tokenA' = x
    /\ tokenB' = y
    /\ UNCHANGED <<now, sharedCash, sharedManaged>>

DeregisterTokens(x, y) ==
    LET pair == Sorted(x, y)
    IN  /\ PairIsRegistered(x, y)
        /\ IsZero(BalanceA(pair)) /\ IsZero(BalanceB(pair))
        /\ tokenA' = NoToken
        /\ tokenB' = NoToken
        /\ sharedCash' = [sharedCash EXCEPT ![pair] = NoShared]
        /\ UNCHANGED <<now, sharedManaged>>

(* A join or an exit: the cash of both tokens changes.                     *)
SetCashBalances(deltaA, deltaB) ==
    LET pair == <<tokenA, tokenB>>
        newA == ChangeCash(BalanceA(pair), deltaA, now)
        newB == ChangeCash(BalanceB(pair), deltaB, now)
    IN  /\ tokenA # NoToken /\ tokenB # NoToken
        /\ IsBalance(newA) /\ IsBalance(newB)
        /\ sharedCash' = [sharedCash EXCEPT ![pair] = ToSharedCash(newA, newB)]
        /\ UNCHANGED <<now, tokenA, tokenB, sharedManaged>>

Swap(tokenIn, tokenOut, amountIn, amountOut) ==
    LET pair == Sorted(tokenIn, tokenOut)
        isAIn == tokenIn < tokenOut
        newIn == ChangeCash(IF isAIn THEN BalanceA(pair) ELSE BalanceB(pair), amountIn, now)
        newOut == ChangeCash(IF isAIn THEN BalanceB(pair) ELSE BalanceA(pair), -amountOut, now)
    IN  /\ tokenIn # tokenOut
        /\ PairIsRegistered(tokenIn, tokenOut)
        /\ IsBalance(newIn) /\ IsBalance(newOut)
        /\ sharedCash' = [sharedCash EXCEPT ![pair] =
                            IF isAIn THEN ToSharedCash(newIn, newOut) ELSE ToSharedCash(newOut, newIn)]
        /\ UNCHANGED <<now, tokenA, tokenB, sharedManaged>>

(* _updateTwoTokenPoolSharedBalance: token is known to be registered.      *)
UpdateBalance(token, Mutation(_)) ==
    LET pair == <<tokenA, tokenB>>
        newA == IF token = tokenA THEN Mutation(BalanceA(pair)) ELSE BalanceA(pair)
        newB == IF token = tokenA THEN BalanceB(pair) ELSE Mutation(BalanceB(pair))
    IN  /\ IsRegistered(token)
        /\ IsBalance(newA) /\ IsBalance(newB)
        /\ sharedCash' = [sharedCash EXCEPT ![pair] = ToSharedCash(newA, newB)]
        /\ sharedManaged' = [sharedManaged EXCEPT ![pair] = ToSharedManaged(newA, newB)]
        /\ UNCHANGED <<now, tokenA, tokenB>>

ManageBalance(token, amount) ==
    \/ UpdateBalance(token, LAMBDA b : CashToManaged(b, amount))
    \/ UpdateBalance(token, LAMBDA b : ManagedToCash(b, amount))
    \/ UpdateBalance(token, LAMBDA b : SetManaged(b, amount, now))

Tick ==
    /\ now < MaxTime
    /\ now' = now + 1
    /\ UNCHANGED <<tokenA, tokenB, sharedCash, sharedManaged>>

Next ==
    \/ \E tokens \in Pairs(RegisterLists) : RegisterTokens(tokens[1], tokens[2])
    \/ \E tokens \in Pairs(DeregisterLists) : DeregisterTokens(tokens[1], tokens[2])
    \/ \E m, n \in Deltas : SetCashBalances(m, n)
    \/ \E x, y \in Tokens, m, n \in Amounts : Swap(x, y, m, n)
    \/ \E x \in Tokens, m \in Amounts : ManageBalance(x, m)
    \/ Tick

Spec == Init /\ [][Next]_vars

---------------------------------------------------------------------------
(* The refinement mapping.                                                 *)

RegisteredTokens == {tokenA, tokenB} \ {NoToken}

BalanceOfToken ==
    [t \in RegisteredTokens |->
       IF t = tokenA THEN BalanceA(<<tokenA, tokenB>>) ELSE BalanceB(<<tokenA, tokenB>>)]

Store == INSTANCE PoolBalanceStore WITH registered <- RegisteredTokens, balance <- BalanceOfToken

(* The packed words hold the balances of a Pool's registered tokens as a   *)
(* plain map from tokens to balances would.                                *)
StoreRefinement == Store!StoreSpec

(* "Non-zero balances are only possible if both tokens in the pair are     *)
(* registered with the Pool", on which the getters rely to skip the check  *)
(* of the registration.                                                    *)
NonzeroIsRegistered ==
    \A pair \in TokenPairs :
      ~SharedIsZero(sharedCash[pair]) \/ ~SharedIsZero(sharedManaged[pair]) =>
        tokenA = pair[1] /\ tokenB = pair[2]

(* Deregistration requires that "both tokens must have zero balance in the *)
(* Vault": tokens never leave with a balance.                              *)
DeregisteredAreEmpty ==
    [][RegisteredTokens' # RegisteredTokens =>
         \A t \in RegisteredTokens : IsZero(BalanceOfToken[t])]_vars
==========================================================================
