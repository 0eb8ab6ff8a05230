---------------------------- MODULE PoolTokens ----------------------------
(***************************************************************************)
(* PoolTokens and the other parts of the Vault (pkg/vault/contracts) that  *)
(* choose one of the three stores of Pool balances by the specialization   *)
(* of a Pool, which is part of its id and never changes.  There is one     *)
(* Pool, with each of the three specializations in turn.                   *)
(***************************************************************************)
EXTENDS MinimalSwapInfoPoolsBalance

VARIABLES
    specialization, \* part of the Pool id
    tokenA, tokenB, sharedCash, sharedManaged,  \* of a Two Token Pool
    poolBalances                                \* of a General Pool

TwoToken == INSTANCE TwoTokenPoolsBalance
General == INSTANCE GeneralPoolsBalance

twoTokenVars == <<tokenA, tokenB, sharedCash, sharedManaged>>
minimalSwapInfoVars == <<poolTokens, balances>>

poolVars == <<now, specialization, twoTokenVars, minimalSwapInfoVars, poolBalances>>

TypesOK == TypeOK /\ TwoToken!TypeOK /\ General!TypeOK

PoolInit ==
    /\ specialization \in {"TWO_TOKEN", "MINIMAL_SWAP_INFO", "GENERAL"}
    /\ TwoToken!Init
    /\ Init
    /\ General!Init

TwoTokenCall ==
    /\ specialization = "TWO_TOKEN"
    /\ TwoToken!Next
    /\ UNCHANGED <<specialization, minimalSwapInfoVars, poolBalances>>

MinimalSwapInfoCall ==
    /\ specialization = "MINIMAL_SWAP_INFO"
    /\ Next
    /\ UNCHANGED <<specialization, twoTokenVars, poolBalances>>

GeneralCall ==
    /\ specialization = "GENERAL"
    /\ General!Next
    /\ UNCHANGED <<specialization, twoTokenVars, minimalSwapInfoVars>>

PoolNext == TwoTokenCall \/ MinimalSwapInfoCall \/ GeneralCall

PoolSpec == PoolInit /\ [][PoolNext]_poolVars

---------------------------------------------------------------------------
(* What _getPoolTokens returns is what the Pool holds.                     *)

RegisteredTokens ==
    CASE specialization = "TWO_TOKEN" -> TwoToken!RegisteredTokens
      [] specialization = "MINIMAL_SWAP_INFO" -> poolTokens
      [] specialization = "GENERAL" -> General!RegisteredTokens

BalanceOf ==
    CASE specialization = "TWO_TOKEN" -> TwoToken!BalanceOfToken
      [] specialization = "MINIMAL_SWAP_INFO" -> BalanceOfToken
      [] specialization = "GENERAL" -> General!BalanceOfToken

Pool == INSTANCE PoolBalanceStore WITH registered <- RegisteredTokens, balance <- BalanceOf

(* Whatever its specialization, a Pool's balances are those of a plain map *)
(* from its registered tokens: two tokens packed in shared words, a map    *)
(* that is never cleared and an array reordered by swap-and-pop alike give *)
(* every token its own balance, and a token that comes back a new one.     *)
PoolRefinement == Pool!StoreSpec

(* "Both tokens must have zero balance in the Vault": tokens never leave a *)
(* Two Token Pool with a balance.                                          *)
DeregisteredAreEmpty == TwoToken!DeregisteredAreEmpty
===========================================================================
