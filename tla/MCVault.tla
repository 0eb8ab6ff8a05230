----------------------------- MODULE MCVault ------------------------------
(* The Vault with a user u, a relayer r and a contract p that is a Pool,   *)
(* its Asset Manager and the governor.                                     *)
(*                                                                         *)
(* Accounting, in two topics without r: all operations on the funds of a   *)
(* Pool of one token, nested in the hooks and in flash loans; and swaps of *)
(* two tokens with the operations that move what is swapped.               *)
(*                                                                         *)
(* Permissions, under two Authorizers with different relayers: approvals,  *)
(* the pause, changes of Authorizer, and a role of r that is revoked and   *)
(* granted again, before and in hooks.                                     *)
EXTENDS Vault

CONSTANTS u, r, p, auth1, auth2

(* Governed, and with a relayer.                                           *)
MCGoverned == {<<auth1, "GOVERN", p>>}
MCRelayed == {<<auth1, "GOVERN", p>>, <<auth2, "GOVERN", p>>, <<auth1, "RELAY", r>>, <<auth2, "RELAY", p>>}
MCRevocable == {<<auth1, "RELAY", r>>}

MCApprovals == {<<u, r>>, <<u, p>>}

MCLoans == {<<[token |-> 1, amount |-> 1]>>,
            <<[token |-> 1, amount |-> 1], [token |-> 1, amount |-> 1]>>}

(* Of each token; not all of it is used in every initial state.            *)
MCSupply == [x \in Accounts |-> [t \in Tokens |-> IF x = u THEN 3 ELSE 0]]

(* A reachable state: p has registered a Pool with some tokens, u has      *)
(* joined it with one of each, and has rest of each left.                  *)
MCInitOf(id, list, rest) ==
    LET registered == {list[i] : i \in DOMAIN list}
    IN  /\ now = 0
        /\ paused = FALSE
        /\ status = "NOT_ENTERED"
        /\ frames = <<>>
        /\ msgSender = u
        /\ authorizer = auth1
        /\ permissions = InitialPermissions
        /\ approved = {}
        /\ nextPoolNonce = 1
        /\ pools = {id}
        /\ tokens = [i \in PoolIds |-> IF i = id THEN list ELSE <<>>]
        /\ balances = [i \in PoolIds |-> [t \in Tokens |->
                         IF i = id /\ t \in registered THEN [EmptyBalance EXCEPT !.cash = 1]
                         ELSE EmptyBalance]]
        /\ managers = [i \in PoolIds |-> [t \in Tokens |->
                         IF i = id /\ t \in registered THEN p ELSE NoAccount]]
        /\ internal = [h \in Holders |-> [t \in Tokens |-> 0]]
        /\ flashLoanFee = 0
        /\ erc20 = [h \in Holders |-> [t \in Tokens |->
                      IF t \notin registered THEN 0
                      ELSE IF h = u THEN rest ELSE IF h = VaultAddress THEN 1 ELSE 0]]

---------------------------------------------------------------------------
(* Accounting.                                                             *)

FundsInit == MCInitOf([pool |-> p, specialization |-> "GENERAL", nonce |-> 0], <<1>>, 2)

SwapsInit ==
    \E kind \in {"GENERAL", "MINIMAL_SWAP_INFO"} :
        MCInitOf([pool |-> p, specialization |-> kind, nonce |-> 0], <<1, 2>>, 1)

AccountingInit == FundsInit \/ SwapsInit

OneToken == \A id \in pools : Len(tokens[id]) = 1

(* One token: joins, exits, loans, management and user operations.         *)
FundsNext ==
    /\ OneToken
    /\ \/ PoolBalancesNext
       \/ FlashLoansNext
       \/ BalanceManagementNext
       \/ TokensNext
       \/ \E percentage \in 0 .. MaxFlashLoanFee : SetFlashLoanFeePercentage(p, percentage)

(* Two tokens: the user swaps one of either for the other.                 *)
SwapOne ==
    \/ \E caller, sender \in Accounts, id \in pools, kind \in SwapKinds, tokenIn, tokenOut \in Tokens,
          fromInternal, toInternal \in BOOLEAN :
          BeginSwap(caller, id, sender, u, kind, tokenIn, tokenOut, 1, 1, fromInternal, toInternal)
    \/ EndSwap

ManageOne ==
    \E caller \in Accounts, token \in Tokens :
      \/ \E id \in pools : ManagePoolBalance(caller, id, token, 1)
      \/ \E sender \in Accounts : ManageUserBalance(caller, sender, u, token, 1)

AccountingNext ==
    \/ FundsNext
    \/ ~OneToken /\ (SwapOne \/ ManageOne \/ Tick)

AccountingSpec == AccountingInit /\ [][AccountingNext]_vars

---------------------------------------------------------------------------
(* Permissions.                                                            *)

PermissionsInit == MCInitOf([pool |-> p, specialization |-> "MINIMAL_SWAP_INFO", nonce |-> 0], <<1>>, 1)

PermissionsNext ==
    \/ PoolBalancesNext
    \/ BalanceManagementNext
    \/ GovernanceNext
    \/ AuthorizersNext
    \/ Tick

PermissionsSpec == PermissionsInit /\ [][PermissionsNext]_vars
===========================================================================
