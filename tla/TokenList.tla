----------------------------- MODULE TokenList -----------------------------
(***************************************************************************)
(* The tokens of tests and scripts (pvt/helpers/src/models/tokens) and the *)
(* requests made of them (TypesConverter; balancer-js: AssetHelpers,       *)
(* toNormalizedWeights).                                                   *)
(*                                                                         *)
(* A TokenList wraps an array of Token objects, each of which wraps a      *)
(* deployed contract.  Its methods send one or two transactions for each   *)
(* token and each recipient, all at the same time: the transactions left   *)
(* are in `sending`, any of which may be the next to be mined, before or   *)
(* after another call.  When one of them fails the method throws, but the  *)
(* others are sent all the same.                                           *)
(***************************************************************************)
EXTENDS Integers, Sequences, FiniteSetsExt, SequencesExt, TLC

CONSTANTS
    Addresses,          \* of contracts: numbers, ordered like the hexadecimal strings
    People,             \* who signs transactions
    WethAddress,        \* the address that an AssetHelpers is made with
    WEI,                \* 10^18
    MaxWeightedTokens,
    TokenDecimals,      \* 18
    DecimalsPeriod,     \* 19
    MaxExactNumber,     \* the greatest Number that toString writes without an exponent
    MAX_UINT256

CONSTANTS               \* the arguments of the callers, and the bounds of a run
    Deployments,        \* sequences of [symbol, decimals]
    RawMints,           \* RawTokenMint: sequences of [to, from, each, amount]; who
                        \* does not name a sender sends from the deployer
    RawApprovals,       \* RawTokenApproval: [to, from, amount]
    Spends,             \* [from, to, amount] of Token.transfer and Token.burn
    Requests,           \* of AssetHelpers.sortTokens: <<tokens, others>>
    PoolParams,         \* of TypesConverter: [tokens, weights, rateProviders, pauseWindow]
    MaxTokenCalls

ETH == 0                \* ZERO_ADDRESS
Undefined == -1
NotANumber == -2        \* a string that BigNumber refuses

ASSUME TokenAssumption ==
    /\ Addresses \subseteq Nat \ {ETH} /\ {TokenDecimals, MAX_UINT256} \subseteq Nat
    /\ {WEI, MaxWeightedTokens, DecimalsPeriod} \subseteq Nat \ {0}
    /\ WEI % MaxWeightedTokens = 0

(* The callers' arguments: a mint has a sender, and a Pool's parameters    *)
(* are given for each of its tokens or not at all.                         *)
ASSUME CallerAssumption ==
    /\ Deployments \subseteq Seq([symbol : STRING, decimals : Nat \cup {Undefined}])
    /\ RawMints \subseteq Seq([to : Seq(People), from : Seq(People) \ {<<>>}, each : BOOLEAN, amount : Int])
    /\ RawApprovals \subseteq [to : Seq(People), from : Seq(People), amount : Int]
    /\ Spends \subseteq [from : People, to : People, amount : Int]
    /\ \A r \in Requests : r[1] \in Seq(Nat) /\ r[2] \in Seq(Seq(Nat))
    /\ \A q \in PoolParams :
        /\ q.tokens \in Seq(Nat)
        /\ \A given \in q.weights \cup q.rateProviders :
            given \in Seq(Nat) /\ Len(given) = Len(q.tokens)

VARIABLES
    contracts,      \* address -> [symbol, decimals] of the deployed contract
    arrays,         \* the arrays of Token objects [address, symbol, decimals]
    lists,          \* each TokenList's array
    held,           \* balances: held[address][person]
    approvedFor,       \* approvedFor[address][person][spender]
    sending,        \* the transactions not yet mined
    rejected,       \* some transaction failed
    owed,           \* what the calls so far promised each person
    answer,         \* to the last request
    tokenCalls

deployedTokens == <<contracts, arrays, lists>>
transactions == <<held, approvedFor, sending, rejected, owed>>
tokenListVars == <<deployedTokens, transactions, answer, tokenCalls>>

\* the element of `given`, a set of at most one, or the default
OrElse(given, default) == IF given = {} THEN default ELSE CHOOSE x \in given : TRUE
Fill(n, x) == [i \in 1 .. n |-> x]
SumOfSeq(s) == FoldFunction(LAMBDA x, sum : x + sum, 0, s)

\* a call of the caller's, which may be one of several not awaited
TokenCall == tokenCalls < MaxTokenCalls /\ tokenCalls' = tokenCalls + 1

---------------------------------------------------------------------------
(* Deployment.                                                             *)

ComputeDecimalsFromIndex(i) == i % DecimalsPeriod

ToTokenDeployments(params, varyDecimals) ==
    [i \in DOMAIN params |->
        [symbol |-> IF params[i].symbol = "" THEN "TK" \o ToString(i - 1) ELSE params[i].symbol,
         decimals |-> IF params[i].decimals # Undefined THEN params[i].decimals
                      ELSE IF varyDecimals THEN ComputeDecimalsFromIndex(i - 1) ELSE TokenDecimals]]

TrimParamsForSortedDeploy(params) == Fill(Len(params), [symbol |-> "", decimals |-> Undefined])

\* a TestWETH has the decimals it likes
DeployToken(asked) ==
    IF asked.symbol = "WETH" THEN [asked EXCEPT !.decimals = TokenDecimals] ELSE asked

Orders(n) == {p \in [1 .. n -> 1 .. n] : IsInjective(p)}

IsAscending(s) == \A i, j \in DOMAIN s : i < j => s[i] <= s[j]

ByAddress(tokens) ==
    LET order == CHOOSE q \in Orders(Len(tokens)) :
                     IsAscending([i \in DOMAIN tokens |-> tokens[q[i]].address])
    IN  [i \in DOMAIN tokens |-> tokens[order[i]]]

\* the objects are renamed, not the contracts
SortTokensDeployment(tokens, params) ==
    LET sorted == ByAddress(tokens)
        labels == ToTokenDeployments(params, FALSE)
    IN  [i \in DOMAIN params |-> [sorted[i] EXCEPT !.symbol = labels[i].symbol]]

Object(address, token) == [address |-> address, symbol |-> token.symbol, decimals |-> token.decimals]

AddList(array) ==
    /\ arrays' = Append(arrays, array)
    /\ lists' = Append(lists, Len(arrays) + 1)

\* the addresses are those that the blocks give
Create(params, sorted, varyDecimals) ==
    /\ TokenCall
    /\ \E at \in [DOMAIN params -> Addresses \ DOMAIN contracts] :
        LET asked == ToTokenDeployments(IF sorted THEN TrimParamsForSortedDeploy(params) ELSE params,
                                        varyDecimals)
            new == [i \in DOMAIN params |-> Object(at[i], asked[i])]
        IN  /\ IsInjective(at)
            /\ contracts' = [a \in DOMAIN contracts \cup Range(at) |->
                                IF a \in DOMAIN contracts THEN contracts[a]
                                ELSE DeployToken(asked[CHOOSE i \in DOMAIN at : at[i] = a])]
            /\ AddList(IF sorted THEN SortTokensDeployment(new, params) ELSE new)
    /\ UNCHANGED <<transactions, answer>>

\* Token.deployedAt, in a list of its own
DeployedAt(address) ==
    /\ TokenCall
    /\ address \in DOMAIN contracts
    /\ AddList(<< Object(address, contracts[address]) >>)
    /\ UNCHANGED <<contracts, transactions, answer>>

---------------------------------------------------------------------------
(* Lists.                                                                  *)

TokensOf(l) == arrays[lists[l]]

Get(l, i) == TokensOf(l)[i + 1]

FindIndexBySymbol(l, symbol) ==
    SelectInSeq(TokensOf(l), LAMBDA t : t.symbol = symbol) - 1

\* in place: the list itself and those that share its array are sorted with the new one
Sort(l) ==
    /\ TokenCall
    /\ arrays' = [arrays EXCEPT ![lists[l]] = ByAddress(@)]
    /\ lists' = Append(lists, lists[l])
    /\ UNCHANGED <<contracts, transactions, answer>>

\* of a copy
Subset(l, length, offset) ==
    /\ TokenCall
    /\ AddList(SubSeq(TokensOf(l), offset + 1, Min({offset + length, Len(TokensOf(l))})))
    /\ UNCHANGED <<contracts, transactions, answer>>

---------------------------------------------------------------------------
(* Transactions.                                                           *)

\* the parameters of each transaction, or an error
IsConsistent(raw) == raw.each => Len(raw.to) = Len(raw.from)

ToTokenMints(raws) ==
    FlattenSeq([k \in DOMAIN raws |->
        [i \in DOMAIN raws[k].to |->
            [to |-> raws[k].to[i], from |-> raws[k].from[IF raws[k].each THEN i ELSE 1],
             amount |-> raws[k].amount]]])

ToTokenApprovals(raw) ==
    FlattenSeq([i \in DOMAIN raw.to |->
        [j \in DOMAIN raw.from |-> [to |-> raw.to[i], from |-> raw.from[j], amount |-> raw.amount]]])

Tx(do, token, p, amount) ==
    [do |-> do, address |-> token.address, amount |-> amount, to |-> p.to, from |-> p.from]
OrMax(amount) == IF amount = Undefined THEN MAX_UINT256 ELSE amount

\* Token.mint; wstETH and wampl are minted by tests of their own
MintTxs(token, p) ==
    CASE token.symbol = "WETH" -> << Tx("deposit", token, p, p.amount) >>
      [] token.symbol \in {"wstETH", "wampl"} -> <<>>
      [] OTHER -> << Tx("mint", token, p, OrMax(p.amount)) >>

\* a Number becomes a string, with an exponent when it is great
Scaled(amount, decimals) ==
    CASE amount \in {Undefined, 0} -> 0
      [] amount * 10 ^ decimals > MaxExactNumber -> NotANumber
      [] OTHER -> amount * 10 ^ decimals

ScaledMintTxs(token, p) == MintTxs(token, [p EXCEPT !.amount = Scaled(@, token.decimals)])
ApproveTxs(token, p) == << Tx("approve", token, p, OrMax(p.amount)) >>

ForEach(l, params, Txs(_, _)) ==
    FlattenSeq([k \in DOMAIN params |->
        FlattenSeq([i \in DOMAIN TokensOf(l) |-> Txs(TokensOf(l)[i], params[k])])])

Plus(balances, tx, person, amount) == [balances EXCEPT ![tx.address][person] = @ + amount]
Moved(balances, tx) == Plus(Plus(balances, tx, tx.from, -tx.amount), tx, tx.to, tx.amount)

Promised(tx, balances) ==
    CASE tx.do \in {"deposit", "mint"} -> Plus(balances, tx, tx.to, tx.amount)
      [] tx.do = "transfer" -> Moved(balances, tx)
      [] tx.do = "burn" -> Plus(balances, tx, tx.from, -tx.amount)
      [] tx.do = "approve" -> balances

Send(txs) ==
    /\ TokenCall
    /\ sending' = sending \o txs
    /\ owed' = FoldSeq(Promised, owed, txs)
    /\ UNCHANGED <<deployedTokens, held, approvedFor, rejected, answer>>

MintTokens(l, raws) ==
    /\ \A raw \in Range(raws) : IsConsistent(raw)
    /\ Send(ForEach(l, ToTokenMints(raws), MintTxs))

MintScaled(l, raws) ==
    /\ \A raw \in Range(raws) : IsConsistent(raw)
    /\ Send(ForEach(l, ToTokenMints(raws), ScaledMintTxs))

ApproveTokens(l, raw) == Send(ForEach(l, ToTokenApprovals(raw), ApproveTxs))

\* Token.transfer and Token.burn, of a token that the list has
Spend(do, l, i, p) ==
    /\ i \in 0 .. Len(TokensOf(l)) - 1
    /\ Send(<< Tx(do, Get(l, i), p, p.amount) >>)

IsWeth(tx) == contracts[tx.address].symbol = "WETH"

\* by the contract, and by the encoding of its arguments
Succeeds(tx) ==
    /\ tx.amount >= 0
    /\ CASE tx.do = "deposit" -> IsWeth(tx)
         [] tx.do = "mint" ->
                SumOfSeq([x \in People |-> held[tx.address][x]]) <= MAX_UINT256 - tx.amount
         [] tx.do = "burn" -> ~IsWeth(tx) /\ held[tx.address][tx.from] >= tx.amount
         [] tx.do = "transfer" -> held[tx.address][tx.from] >= tx.amount
         [] tx.do = "approve" -> TRUE

Mine(i, do, balances, next) ==
    /\ sending[i].do = do
    /\ Succeeds(sending[i])
    /\ held' = balances
    /\ sending' = RemoveAt(sending, i) \o next
    /\ UNCHANGED <<deployedTokens, approvedFor, rejected, owed, answer, tokenCalls>>

Deposited(tx) == Plus(held, tx, tx.from, tx.amount)

\* mutant: the WETH stays with the sender who deposited it
DepositAlone(i) == Mine(i, "deposit", Deposited(sending[i]), <<>>)

Deposit(i) == Mine(i, "deposit", Deposited(sending[i]), << [sending[i] EXCEPT !.do = "transfer"] >>)
MineMint(i) == Mine(i, "mint", Plus(held, sending[i], sending[i].to, sending[i].amount), <<>>)
MineTransfer(i) == Mine(i, "transfer", Moved(held, sending[i]), <<>>)
MineBurn(i) == Mine(i, "burn", Plus(held, sending[i], sending[i].from, -sending[i].amount), <<>>)

MineApproval(i) ==
    LET tx == sending[i]
    IN  /\ tx.do = "approve"
        /\ approvedFor' = [approvedFor EXCEPT ![tx.address][tx.from][tx.to] = tx.amount]
        /\ sending' = RemoveAt(sending, i)
        /\ UNCHANGED <<deployedTokens, held, rejected, owed, answer, tokenCalls>>

\* Promise.all rejects; the other promises go on
Reject(i) ==
    /\ ~Succeeds(sending[i])
    /\ rejected' = TRUE
    /\ sending' = RemoveAt(sending, i)
    /\ UNCHANGED <<deployedTokens, held, approvedFor, owed, answer, tokenCalls>>

---------------------------------------------------------------------------
(* Requests.                                                               *)

TranslateToERC20(token) == IF token = ETH THEN WethAddress ELSE token

\* mutant: WETH is taken for ETH, which nobody asked for
BackToETHAlways(tokens, token) == IF token = WethAddress THEN ETH ELSE token

BackToETH(tokens, token) ==
    IF ETH \in Range(tokens) /\ token = WethAddress THEN ETH ELSE token

\* cmpTokens never answers that two are equal: which comes first is up to the engine
SortTokens(tokens, others) ==
    /\ Len(tokens) > 0
    /\ \A other \in Range(others) : Len(other) = Len(tokens)
    /\ \E p \in Orders(Len(tokens)) :
        LET erc20Tokens == [i \in DOMAIN tokens |-> TranslateToERC20(tokens[p[i]])]
        IN  /\ IsAscending(erc20Tokens)
            /\ answer' =
                [of |-> "order", tokens |-> tokens, others |-> others,
                 sorted |-> [i \in DOMAIN tokens |-> BackToETH(tokens, erc20Tokens[i])],
                 sortedOthers |-> [k \in DOMAIN others |-> [i \in DOMAIN tokens |-> others[k][p[i]]]]]

IsNormalizedWeights(weights) == SumOfSeq(weights) = WEI

ToNormalizedWeights(weights) ==
    LET n == Len(weights)
        share == [i \in 1 .. n - 1 |-> (weights[i] * WEI) \div SumOfSeq(weights)]
    IN  IF n = MaxWeightedTokens THEN Fill(n, WEI \div n)
        ELSE IF n = 0 \/ IsNormalizedWeights(weights) THEN weights
        ELSE Append(share, WEI - SumOfSeq(share))

\* a window of zero is taken for none given
Window(given, default) == IF given \in {{}, {0}} THEN default ELSE OrElse(given, default)

WeightsOf(p) == OrElse(p.weights, Fill(Len(p.tokens), WEI))

Deployment(kind, p, arraysOf, longest) ==
    [of |-> "deployment", kind |-> kind, asked |-> p, tokens |-> p.tokens, arrays |-> arraysOf,
     pauseWindow |-> Window(p.pauseWindow, longest), bufferPeriod |-> Window({}, 1)]

RateProvidersOf(p) == OrElse(p.rateProviders, Fill(Len(p.tokens), ETH))
AssetManagersOf(p) == Fill(Len(p.tokens), ETH)

ToWeightedPoolDeployment(p) ==
    Deployment("Weighted", p,
        << ToNormalizedWeights(WeightsOf(p)), RateProvidersOf(p), AssetManagersOf(p) >>, 3)

ToLiquidityBootstrappingPoolDeployment(p) ==
    Deployment("LBP", p, << ToNormalizedWeights(WeightsOf(p)) >>, 3)

ToManagedPoolDeployment(p) ==
    Deployment("Managed", p,
        << ToNormalizedWeights(WeightsOf(p)), RateProvidersOf(p), AssetManagersOf(p) >>, 9)

\* the rate cache durations of a day, the flags that exempt from yield fees
ToStablePoolDeployment(p) ==
    Deployment("Stable", p,
        << RateProvidersOf(p), Fill(Len(p.tokens), 1), Fill(Len(p.tokens), FALSE) >>, 3)

\* of the main token and the wrapped one
ToLinearPoolDeployment(p) == Deployment("Linear", p, << AssetManagersOf(p) >>, 3)

\* normalizing divides by the sum of the weights
Convert(p, deployment) ==
    /\ Len(p.tokens) > 1 => SumOfSeq(WeightsOf(p)) > 0
    /\ answer' = deployment

MakeRequest ==
    /\ tokenCalls = 0 /\ tokenCalls' = MaxTokenCalls
    /\ UNCHANGED <<deployedTokens, transactions>>

---------------------------------------------------------------------------
\* of the calls that a run allows, n are spent
TokenListInitAfter(n) ==
    /\ contracts = [a \in {} |-> 0]
    /\ arrays = <<>>
    /\ lists = <<>>
    /\ held = [a \in Addresses |-> [x \in People |-> 0]]
    /\ approvedFor = [a \in Addresses |-> [x \in People |-> [y \in People |-> 0]]]
    /\ sending = <<>>
    /\ rejected = FALSE
    /\ owed = [a \in Addresses |-> [x \in People |-> 0]]
    /\ answer = [of |-> "nothing"]
    /\ tokenCalls = n

TokenListInit == TokenListInitAfter(0)

TokenListNext ==
    \/ \E i \in DOMAIN sending :
        \/ Deposit(i) \/ MineMint(i) \/ MineTransfer(i) \/ MineBurn(i) \/ MineApproval(i)
        \/ Reject(i)
    \/ \E params \in Deployments, sorted, varyDecimals \in BOOLEAN : Create(params, sorted, varyDecimals)
    \/ \E a \in Addresses : DeployedAt(a)
    \/ \E l \in DOMAIN lists :
        \/ Sort(l)
        \/ Subset(l, 1, 1)
        \/ \E raws \in RawMints : MintTokens(l, raws) \/ MintScaled(l, raws)
        \/ \E raw \in RawApprovals : ApproveTokens(l, raw)
        \/ \E p \in Spends :
            \/ Spend("transfer", l, FindIndexBySymbol(l, "WETH"), p)
            \/ Spend("burn", l, 1, p)
    \/ MakeRequest /\ \E r \in Requests : SortTokens(r[1], r[2])
    \/ MakeRequest /\ \E p \in PoolParams : Convert(p, ToWeightedPoolDeployment(p))
    \/ MakeRequest /\ \E p \in PoolParams : Convert(p, ToLiquidityBootstrappingPoolDeployment(p))
    \/ MakeRequest /\ \E p \in PoolParams : Convert(p, ToManagedPoolDeployment(p))
    \/ MakeRequest /\ \E p \in PoolParams : Convert(p, ToStablePoolDeployment(p))
    \/ /\ MakeRequest
       /\ \E p \in {q \in PoolParams : Len(q.tokens) = 2} : Convert(p, ToLinearPoolDeployment(p))

---------------------------------------------------------------------------
(* What an asset or a token is asked with stays with it.  The assets come  *)
(* in the order that the Vault expects, each with its own element of every *)
(* other array (assetHelpers.ts sortTokens); of ETH and WETH in one        *)
(* request both come back as ETH.  A Pool is deployed with one element of  *)
(* every array for each token, and with weights that add up to one and are *)
(* in the proportion asked, up to a unit for each token                    *)
(* (TypesConverter.ts, normalizedWeights.ts); but as many weights as there *)
(* can be are made equal, whatever was asked.                              *)
SortedTogether(order) ==
    LET erc20(token) == IF token = ETH THEN WethAddress ELSE token
        both == {ETH, WethAddress} \subseteq Range(order.tokens)
    IN  /\ IsAscending([i \in DOMAIN order.sorted |-> erc20(order.sorted[i])])
        /\ \E p \in Orders(Len(order.tokens)) : \A i \in DOMAIN order.sorted :
            /\ erc20(order.sorted[i]) = erc20(order.tokens[p[i]])
            /\ ~both => order.sorted[i] = order.tokens[p[i]]
            /\ \A k \in DOMAIN order.others : order.sortedOthers[k][i] = order.others[k][p[i]]

InProportion(weights, asked) ==
    \A i, j \in DOMAIN weights :
        weights[i] * asked[j] - weights[j] * asked[i] <= Len(weights) * (asked[i] + asked[j])

WellDeployed(pool) ==
    LET n == Len(pool.tokens)
        asked == OrElse(pool.asked.weights, Fill(n, 1))
    IN  /\ \A k \in DOMAIN pool.arrays : Len(pool.arrays[k]) = n
        /\ pool.kind \in {"Weighted", "LBP", "Managed"} /\ n > 0 =>
            /\ IsNormalizedWeights(pool.arrays[1])
            /\ n < MaxWeightedTokens => InProportion(pool.arrays[1], asked)

RequestsStayAligned ==
    /\ answer.of = "order" => SortedTogether(answer)
    /\ answer.of = "deployment" => WellDeployed(answer)

(* The transactions of all calls, mined in any order, leave every person   *)
(* with what the calls promised, unless one of them failed (TokenList.mint,*)
(* mintScaled; Token.mint, transfer, burn): a WETH is deposited for the    *)
(* sender and arrives by a second transaction, before which a concurrent   *)
(* call may spend it.                                                      *)
MintsArrive == sending = <<>> /\ ~rejected => held = owed
===========================================================================
