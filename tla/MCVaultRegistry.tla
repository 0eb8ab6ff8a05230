-------------------------- MODULE MCVaultRegistry ------------------------
(***************************************************************************)
(* Two parts, one at a time.  The Vault from its deployment with a         *)
(* contract p that registers Pools of both kinds, registers and            *)
(* deregisters tokens, and is the Asset Manager and the only user: the     *)
(* stores of Pool balances and the order of their tokens.  And the lists   *)
(* of tokens that clients make for Pools, from two addresses free, and the *)
(* requests they sort.                                                     *)
(***************************************************************************)
EXTENDS Vault, TokenList

CONSTANTS p, auth

VARIABLE part   \* the one that does not rest

MCSupply == [x \in {p} |-> [t \in Tokens |-> 1]]
MCTokenLists == {<<1>>, <<2>>, <<1, 2>>, <<2, 3, 1>>, <<1, 1>>}

MCDeployments ==
    {<<[symbol |-> "WETH", decimals |-> Undefined], [symbol |-> "", decimals |-> 1]>>,
     <<[symbol |-> "wstETH", decimals |-> Undefined]>>}
MCRawMints ==
    {<<[to |-> <<"lp">>, from |-> <<"owner">>, each |-> FALSE, amount |-> 1]>>,
     <<[to |-> <<"lp", "owner">>, from |-> <<"lp", "owner">>, each |-> TRUE, amount |-> Undefined]>>}
MCRawApprovals == {[to |-> <<"lp">>, from |-> <<"owner", "lp">>, amount |-> Undefined]}
MCSpends == {[from |-> "lp", to |-> "owner", amount |-> 1]}

(* ETH, WETH (2) and others, twice the same included, with amounts or with *)
(* an array that is too short.                                             *)
MCRequests ==
    ([1 .. 2 -> {ETH, 2, 3}] \X {<< <<5, 6>> >>, << <<5>> >>})
        \cup ([1 .. 3 -> {ETH, 1, 2, 3}] \X {<< <<5, 6, 7>>, <<7, 7, 5>> >>})

MCPoolParams ==
    UNION {[tokens : {ts},
            weights : {{}} \cup {{w} : w \in [DOMAIN ts -> {0, 1, 5, 12}]},
            rateProviders : {{}, {Fill(Len(ts), 9)}},
            pauseWindow : {{}, {0}, {2}}] : ts \in {<<>>, <<3>>, <<2, 3>>, <<1, 2, 3>>}}

(* Calls that are not awaited have at most four transactions left.         *)
Scope == Len(sending) <= 4

MCInit ==
    /\ Init
    /\ \/ part = "registry" /\ TokenListInitAfter(MaxTokenCalls)
       \/ part = "tokens" /\ TokenListInit

RegistryNext ==
    \/ PoolRegistryNext
    \/ PoolBalancesNext
    \/ SwapsNext
    \/ \E id \in pools, token \in Tokens, amount \in Amounts : ManagePoolBalance(p, id, token, amount)
    \/ Tick

MCNext ==
    \/ part = "registry" /\ RegistryNext /\ UNCHANGED <<part, tokenListVars>>
    \/ part = "tokens" /\ TokenListNext /\ UNCHANGED <<part, vars>>

MCSpec == MCInit /\ [][MCNext]_<<vars, tokenListVars, part>>
==========================================================================
