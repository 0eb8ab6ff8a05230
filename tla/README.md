# Balancer V2 in TLA+

This directory holds TLA+ models of the contracts in `src/pkg`: the Vault that
keeps the tokens of all Pools, the Weighted and Stable Pools, the authorizer
that governs the Vault, the veBAL system that distributes fees and votes on
rewards, and the TypeScript clients in `src/pvt/helpers` and `src/pkg/balancer-js`
that sign, encode and send what these contracts execute. TLC checks the models
on small instances; TLAPS proves most of what they claim for every instance.

Contents: 1 the system, 2 the modules, 3 the runs, 4 fairness, 5 the proofs,
6 disagreements between code and comments, 7 what is only model-checked,
8 what is not modelled, 9 the plan.

How to run one check or one proof:

    tlc -workers 2 -config MCVaultAccounting.cfg MCVault.tla
    tlapm VaultProofs.tla

## 1. The system

Everything runs on a blockchain, so a **transaction is atomic**: one call of a
contract, with all calls it makes, happens without another transaction in
between, and undoes all its effects if it reverts. A call that reverts is
therefore not a step of the models, except where a client is told of it and
gives up half way. Concurrency comes from five sources:

- **hooks**: a contract that calls foreign code in the middle of an operation
  (the Vault calls Pools and borrowers of flash loans) may be called again;
- **the order of transactions**, which nobody controls, in particular the order
  of calls that anybody may make (checkpoints, claims, executions);
- **time**: block numbers and timestamps that grow between any two
  transactions, against which delays, windows, locks and weeks are measured;
- **several owners**: users, relayers, Pools, Asset Managers, governance;
- **clients**: a TypeScript method is several transactions, with other people's
  in between, or transactions that are sent together and mined in any order;
  and a signature stays in somebody's hands until it is presented.

There is no network, no crash and no message loss inside of the repository (the
bridges that some gauges use are outside of it).

| Part | State | Operations | What makes it hard | What makes it correct |
|---|---|---|---|---|
| **Vault** `pkg/vault/contracts`: PoolRegistry, PoolTokens, PoolBalances, Swaps, FlashLoans, UserBalance, AssetManagers | pools, their tokens, balances and Asset Managers; internal balances; the reentrancy status | register and deregister; join, exit, swap; flash loan; manage Pool and user balances | balances and positions are read before a hook and used after it; a loan is measured before and after foreign code | tokens held cover what is owed; no token is created or lost; no update is lost |
| **VaultAuthorization, TemporarilyPausable** | authorizer, relayer approvals, pause | approve, pause, change the authorizer | checked when a call starts, used after its hooks, while the authorizer is another contract that may change its answer | only authorised debits; a paused Vault only pays out; funds are never trapped; no pause is for good |
| **ProtocolFeesCollector** | flash loan fee, the fees | set the fee, withdraw | open during the Vault's hooks | part of the Vault's properties |
| **Balance stores** `vault/contracts/balances`, EnumerableMap | three layouts of the balances of a Pool; BalanceAllocation's cash, managed and last block | register, deregister, set, move between cash and managed | shared words, stale map entries, swap-and-pop | each behaves as a map from tokens to balances |
| **TimelockAuthorizer** with its execution helper | root, granters, revokers, cancelers, permissions, delays, the log of scheduled executions | schedule, execute, cancel; grant, revoke, renounce; change delays and root | executions act under other delays and roles than those they were scheduled under | no notice is ever shortened; root changes are announced; removals are effective |
| **VotingEscrow** (veBAL) | locks; histories of points per user and in total; scheduled slope changes | create, extend, add to and withdraw a lock; checkpoint | the total is extrapolated from scheduled changes that are edited | the supply is the sum of the balances at every moment |
| **FeeDistributor** | week cursors of supply, users and tokens; tokens per week | deposit, checkpoint (supply, user, token), claim | lazily copied histories, bounded loops that resume, four calls in any order | everyone is paid exactly the share of every week, and there is enough for all |
| **GaugeController** | curves of gauges and types by week; type weights; totals; votes | vote; add and change gauges and types; checkpoint | weeks are filled late and by different calls; votes are replaced before and after they run out | a gauge weighs what its votes do; the total is the weighted sum; past weights are final |
| **DistributionScheduler** | a linked list of weeks with amounts for each gauge and reward token | schedule, start one or all distributions of a gauge | the head moves while others insert before, at and behind it; old nodes stay in storage | nothing scheduled is lost, repeated or early |
| **Pools** `pkg/pool-weighted`, `pkg/pool-stable`, `pkg/pool-utils` | Pool tokens, swap fee, last invariant, cached protocol fee, amplification parameter, pause and Recovery Mode | the hooks of joins, exits and swaps; settings | everything rounds; growth is measured against a remembered invariant while fees, modes and parameters change | a Pool token never loses value; the protocol is paid once for each swap |
| **Pool clients and reference mathematics** (TypeScript) | the swap fee and parameter read when the object was made | build and send joins, exits and swaps; estimate; query | the copy is stale when governance acts; decimals against rounded integers | the estimate is what the Pool does, up to fees and rounding |
| **Authorizer and Vault clients** (TypeScript) | the steps of the method in progress | schedule and execute with the clock moved; grant what is needed and act | every method is several transactions between those of others; any may be refused | the permissions a method grants are enough for what it does next |
| **Tokens and requests** (TypeScript: TokenList, TypesConverter, AssetHelpers) | arrays of tokens that lists share; transactions sent and not mined | deploy, sort, take subsets, mint, approve, transfer; sort assets, convert Pool parameters | two transactions for one WETH; sorting in place; parallel arrays | people hold what was promised; what was asked with a token stays with it |
| **Signed permissions** (signatures.ts, permit.ts; EOASignaturesValidator, ERC20Permit, BalancerMinter) | nonces, approvals, what has been signed | sign; present with a call | whoever holds a signature chooses when and how often to present it | accepted once at most, in order and in time |
| Other gauges, minters, adaptor, boosts | rewards per week, minted amounts, boosts | checkpoint, mint, boost | as above | planned, see 9 |
| Linear, Managed and Liquidity Bootstrapping Pools | gradual changes, targets, circuit breakers | hooks of the Vault, settings | settings in the middle of a gradual change | planned, see 9 |
| Relayers and standalone utilities | chained references; fee splits | multicall, collect | values left over between calls | planned, see 9 |

Interactions: users and relayers call the **Vault**, which asks the
**authorizer** whether a relayer or a governor may act, and calls **Pools** and
borrowers back. Replacing the Vault's authorizer (`setAuthorizer`) is an action that the
authorizer may delay like others. No other delay can be set above the one that this action has at
the time (TimelockAuthorizer.sol:474-475), though it may end up there when that one is lowered later. **Fees** flow from the Vault to the ProtocolFeesCollector
and from there, through helper contracts, to the **FeeDistributor**, which reads
the history of **VotingEscrow**. The **GaugeController** reads the slope and end
of a user's lock from VotingEscrow, and gauges read relative weights from it to
mint tokens. The **clients** call all of these, with data that they keep a copy of:
a Pool's client computes with its own decimals what the Pool will compute with
integers, and the Vault's client grants permissions through the authorizer's client.
`PROJECT.json` lists every component with its sources and every hazard at
its line.

## 2. The modules

Names follow the code. `PROJECT.json` maps each definition to the lines it stands for.
A definition preceded by `\* mutant:` is a wrong variant of the one that follows
it, kept to show that the properties notice it; no specification uses it.

**BalanceAllocation** – operators for one balance: cash, managed and last change
block. The word's 112-bit limit is `TotalBound`; an operation whose result does not
fit reverts.

**Vault** (EXTENDS BalanceAllocation) – all entry points with ERC20 tokens. A
transaction without foreign code is one action. `joinPool`, `exitPool`, `swap` and
`flashLoan` are a `Begin` action up to the hook, which pushes the local variables
that the code uses afterwards on the stack `frames`, and an `End` action, which chooses
what the hook answers and does the rest. In between every action of the
module may happen, so that nested calls, refused or not by the reentrancy guard
`status`, are all there. `internal`, `balances`, `erc20` are in whole tokens;
`Holders` includes the Vault and the collector. `Pausable == INSTANCE
TemporarilyPausable` supplies the pause. Authorizers are external: each answers who
may relay and who governs (`permissions`), and grants and revokes at any time, in hooks too
(`SetPermission`). The code asks once, when a call starts; what it was told then is the
ghost field `relayers` of the frame.

**TemporarilyPausable** – the pause with its two windows, on its own.

**PoolBalanceStore** – the abstract specification: a Pool has registered tokens
with one balance each. **TwoTokenPoolsBalance**, **MinimalSwapInfoPoolsBalance**
and **GeneralPoolsBalance** (with **EnumerableMap**) are the three layouts, sharing
**StoreParameters**. **PoolTokens** composes them by the Pool's specialization and
states that each implements PoolBalanceStore, with what `_getPoolTokens` answers as
the refinement mapping. Vault uses the abstract view: token lists and one balance per token.

**TimelockAuthorizer** – TimelockAuthorizer, TimelockAuthorizerManagement and
TimelockExecutionHelper. `scheduled` is the log of executions; the data of a call is
a record, and the calls that executions carry back into the authorizer are part of
the same action `Execute`. `reigns` (who was root since when, by which execution) and
`announcement` (which execution set the pending root) are history variables that no guard reads.

**VotingEscrow** and **FeeDistributor** (EXTENDS VotingEscrow) – both histories and
their consumer. The loops over weeks are recursive functions over the weeks, bounded
by the same counts as in the code. `received` is a ghost variable: what each user was paid.

**GaugeController** – a curve is a record of points, scheduled changes and the time
it is filled to, for gauges and for types alike; `Filled` is the fill of
missed weeks that every call starts with. Locks are an environment that keeps
VotingEscrow's rules: they only grow until they expire. `base` is a ghost variable: the
part of a gauge's weight that administration gave it.

**DistributionScheduler** – the linked lists node by node, in storage that is
never cleared, as in the code; the gauge is an environment that says who may
distribute a token and takes the deposits. `promised` (what was scheduled and not
passed on, by week) is a ghost variable, which `ScheduleIsKept` compares the list with.

**FixedPoint**, **WeightedMath**, **StableMath** – the
contracts' arithmetic with the direction that each operation rounds in. `One` is a
constant instead of 10^18. `MulDiv` multiplies and divides without exceeding the
checker's 32-bit integers. LogExpMath's powers, which approximate to an error that the
library adds or subtracts, are exact roots rounded with the same margin.

**BasePool**, **WeightedPool** and **StablePool** (both EXTEND BasePool) – the hooks
that the Vault calls. Each action is a whole hook with the Vault's part in it:
protocol fees due since the last join or exit are minted first, then the request's kind is computed
and its limits checked, balances and Pool tokens change, and the invariant is remembered. Where the code
reverts the hook answers `Failure`: more leaves than there is (`Available`), an invariant is zero where the code divides by it (`Positive`,
`Measurable`), or Newton's iteration does not converge (`Converged`). StablePool's supply is what of the
preminted tokens is outside of the Vault; swaps with the Pool token are joins and exits.

**Decimals**, **WeightedMathReference**, **StableMathReference** – the TypeScript
mathematics (`weighted/math.ts`, `stable/math.ts`): decimals that do not favour anybody.
**BasePoolClient**, **WeightedPoolClient**, **StablePoolClient** (EXTENDS the Pool) – the client
objects. A request is a record in which fields may be missing; `Field` gives them the
code's defaults; `build...Params` and the encoder make of it the `data` that the Pool's hook decodes;
`answer` records for the last call what the Pool did and two estimates: the client's `own`, from the
swap fee and parameter of the deployment and a supply without what is due to the protocol, and that of somebody
`informed` of what the Pool computes with. `Current` says whether the client's formula is the Pool's at all: the parameter has
not moved and its supply is not too large. A query computes what the call would do and changes nothing.

**TimelockAuthorizerClient** (EXTENDS TimelockAuthorizer) and **VaultClient** (EXTENDS it) – the
methods as sequences of transactions, with the steps of other accounts in between. A method waits for
each of its transactions; one that reverts ends the method and leaves what was done before.

**TokenList** – the objects and the transactions of lists of tokens. `arrays` are the JavaScript
arrays, which several lists may share; `sending` are the transactions sent and not mined; `owed`
is a ghost variable: what the calls promised everybody. Requests (sorting of assets, normalized weights,
parameters of Pool deployments) are functions of their input, recorded in `answer`.

**Signatures** – signing and presenting, in one module for the client and the contracts. A signature
is valid for a message that is in the set of those signed; hashing and recovery are
abstracted to that. `accepted` is a ghost variable.

Modules named `MC...` give the constants values and choose initial states; `MCVault` and `MCTimelock` have two specifications each, one per
constraint on what happens, with configurations of their own. The proofs are in

| Module | EXTENDS | Proves about |
|---|---|---|
| **SumTheorems** | the library | sums over finite sets as `MapThenSumSet` computes them, and functions computed iteration by iteration, the two forms of recursion that loops are modelled with |
| **VaultProofs** | Vault | the Vault's accounting, authorization and pause |
| **VaultPartsProofs** | PoolTokens, EnumerableMap, TemporarilyPausable, Signatures | the stores, the map, the pause and the signatures |
| **TimelockAuthorizerProofs** | VaultClient, TokenList | the authorizer, and the permissions that the Vault's client grants in it; tokens and requests |
| **GaugeProofs** | GaugeController | the curves, sums and totals of weights |
| **FeeDistributorProofs** | FeeDistributor | the supply of veBAL and the distribution of fees |
| **SchedulerProofs** | DistributionScheduler | the scheduler's lists and deposits |
| **PoolsProofs** | MCPools | the Pools' arithmetic, the types of what they keep and the payment of protocol fees, for both Pools |

## 3. The runs

Where a run starts from a state other than deployment, that state is reachable (its
comment says how), and where two questions need different depth the run has
several initial states, each explored in a scope of its own (`Scope`, a state
constraint). A scope cuts behaviours only after checking the state it cuts at.

| Run | Distinct states | What it shows |
|---|---|---|
| `timelock_delays` | 1,004,000 | Up to three pending delay changes and executions of one action in any order cannot be combined into a shorter notice; nothing acts before a notice is over; the root may announce and claim the role for itself. |
| `timelock_roles` | 286,500 | Grants, revocations and renunciations with global and local entries, direct and scheduled; root transfers between three accounts, announced by present and former roots, with replaced roots that come back; cancelers. Removed privileges are gone; every transfer of the root has an announcement of its own, by somebody who was root, and only the constructor's needs none. The clients of the authorizer and of the Vault, whose methods are interrupted by the transactions of others: the grants that they make suffice for the calls that follow, when nobody takes them back. |
| `timelock_reduction` | – | A comment that does not hold, see 6. |
| `vault_accounting` | 229,000 | One token: joins, exits, loans, asset management and user balances in each other's hooks. Two tokens: swaps through both kinds of Pool with internal balances. Solvency, conservation, no lost update, stamped totals. |
| `vault_permissions` | 463,000 | Relayers under two authorizers, a role revoked and granted again; roles, approvals, pause and managed balances changed during hooks: only authorised debits, a paused Vault only pays out, withdrawals are always enabled, and the Vault refines TemporarilyPausable. |
| `vault_registry` | 492,000 | From deployment: Pools of both kinds register and deregister three tokens, also during joins, exits and swaps. On its own: lists of tokens, their transactions mined in any order, and requests of every shape. |
| `pool_tokens` | 41,000 | The three stores implement PoolBalanceStore; the EnumerableMap with four keys; the pause with its liveness; signatures presented late, again, out of order and by others. |
| `two_token_deregister` | – | A comment that does not hold, see 6. |
| `fee_distribution` | 97,500 | VotingEscrow and FeeDistributor: supply is the sum of balances, claims pay exactly the share of each week, everyone can be paid. |
| `gauge_votes` | 50,700 | Votes repeated, replaced and expired, gauges and types changed between weeks that are filled late. On its own: distributions scheduled and started in any order. |
| `gauge_override` | – | A comment that does not hold, see 6. |
| `pools` | 22,900 | A Weighted and a Composable Stable Pool under every order of four (three) calls of their clients, swaps, joins and exits of all kinds, with governance in between: a Pool token never loses value, the protocol is paid once, contracts and reference mathematics agree. Estimates are right within fee and rounding for who knows the Pool's fee, supply and parameter, and err to the known side for a client whose copies are old. |

### Bounds, and why they are enough

- **timelock_delays**: one action id besides `setAuthorizer`, delays 0..3, a
  minimum wait of 1, times 0..5. Shortening a notice takes a raise and a
  reduction pending together with an execution of the action, three executions;
  five fit. Delays of 3 leave room for a wait, a difference and a remainder to differ. The history of the
  root is left out of the `VIEW`; nothing in this run depends on it.
- **timelock_roles**: four topics. For permissions and root transfers two action ids, one target and everywhere,
  root, next root and one user, each of whom may become root, a root transfer delay of 1 and times up to 2: a global and a
  local entry of one account, a root transfer by a former root, and the return of a replaced root are reached. For the clients one method at a time with the transactions of others
  at each of its steps, the ids of the Vault's four operations, and fee percentages on both sides of the maxima.
- **vault_accounting**: three units, two nested calls, a loan of one token and of the
  same token twice, a fee of half a unit that rounds up, blocks 0..1. The guard
  admits one guarded call at a time, so depth 2 has one call with the fees collector, token
  transfers and refused calls inside. Balance limits of 4 are reached, so
  operations that must revert do.
- **vault_permissions**: a user, a relayer and a contract that is Pool, Asset Manager and governor, two authorizers with different
  relayers, one relayer's role that is revoked and granted again, and times up to 3, past both windows (1 and 2).
- **vault_registry**: three tokens, since swap-and-pop of the middle token moves a third one.
  For token lists: two addresses, three calls that are not awaited, at most four transactions not mined, so that
  a deposit, its transfer and somebody else's transfer are there together; WEI is 12 and 18 decimals are 2, and
  MaxExactNumber 150 of 200 lets a scaled amount become a Number with an exponent; requests of two or three assets with ETH, WETH and repetitions,
  Pools of none to three tokens with every weight of 0, 1, 5 and 12, where three is the most there can be.
- **pool_tokens**: three tokens, so that a Two Token Pool can be registered with
  either of three pairs, deregistered and registered again; lists that repeat a token; amounts 0 and 1
  with a bound of 3; two blocks. Windows end at 2 and 4 of 6.
  For signatures: one who signs, two who may present, two nonces and two deadlines, at most two signatures.
- **fee_distribution**: two users; a week is 2 time units, so that its first second and the rest
  differ; locks of at most 5 (two weeks and a half); times 1..6. The loop counts are
  scaled to the few weeks there are: two weeks of supply and one of claims per call, three steps
  of the walk through a user's points, so that loops stop before they are done and resume. The 20 weeks of
  the token loop and the 255 of VotingEscrow keep their values and are not exhausted. Amounts of 5 do not divide
  evenly by the supplies, so rounding matters.
- **gauge_votes**: two gauges, two users, two types; weeks of 2 and a vote delay of 3, so
  that votes are replaced in the same week, a later one, and after their end; voting powers 0, 1 and 2
  of 2; locks that end in week 8 or 12; times 4..8. The 500 weeks of the loops are kept and never exhausted.
  For the scheduler: two gauges of which one has two rewards, a reward in common, weeks of 2 and a limit of 4
  instead of a year ahead, so that two weeks can be pending while the head moves; three units scheduled, nodes of at most two.
- **pools**: `One` is 10,000, that is four digits; weights of a fifth and four fifths, two tokens besides the Pool token, protocol fees of a half
  and a fifth, swap fees of 5% and 10%; four calls of the Weighted Pool's client and three of the other, the first of which
  initializes. Errors are compared with bounds of a few units and a thousandth of the amount; the reductions of the limits by
  the smaller unit are those of the code. A growth that is paid for twice, or a rounding in the caller's
  favour, is larger than these.

`CHECK_DEADLOCK FALSE` stands where the clock is bounded: at the last time of a
run there may be nothing left to do.

## 4. Fairness

The contracts guarantee nothing about who calls them, so nothing is
fair except time: `MCPoolTokens` assumes weak fairness of `PausableTick`, since blocks are
produced whatever anybody does. Nobody is obliged to unpause; `UnpausedForGood` holds because the
pause expires (`_isNotPaused` looks at the time first). All other liveness
questions are stated as safety: `FundsAreNeverTrapped` says that withdrawing is enabled, and
`CheckpointNeverReverts` that a checkpoint is.

## 5. The proofs

Each theorem holds for all values of the constants that satisfy the named
assumptions (`AddressAssumption`, `InputAssumption`, `FiniteAssumption`, `StoreAssumption`,
`WindowAssumption`, `TimeAssumption`, `SchedulerAssumption`, `TokenAssumption`, `CallerAssumption`, `BasePoolAssumption`, ...), which say that addresses differ, amounts are natural numbers,
windows are ordered and users, gauges and weeks are finitely many. Where a theorem needs more than that, its statement says so: a
condition on the constants after ASSUME (`DistinctPairs`, `RunsInTime`, `EndsInTime`), or a condition on the behaviour on
the left of the implication (`[]FillsInTime`, `[]InTime`). The bounds that end a run (times, epochs, executions) are
constants like others.

- **TypeCorrect** (TimelockAuthorizerProofs): `Spec => []TypeOK`. TypeOK is inductive; one
  lemma per action. It contains that root is never the zero address: `claimRoot` needs a sender.
- **NoticeHolds**: `Spec => NoticeIsNeverShortened`. For each kind of delay and each
  action, `Feasible` is the set of moments at which something of the kind could
  first happen: asked for now, after a pending delay change, or already scheduled. The
  property says no step adds a moment earlier than all there were. The proof takes
  TypeOK as invariant and has one lemma per action; the case that matters is a delay change that
  executes: the delay it sets plus the present time was already in the set as a pending change. The
  case of scheduling a reduction rests on `_getDelayChangeExecutionDelay`: waiting for the difference
  makes new wait plus new delay at least the old delay. The model of the bounds of a run
  (three executions) plays no part.
- **NothingEarly**: `Spec => NothingHappensEarly`. A direct grant finds its delay at zero; every other
  grant and call comes from an execution, which is itself one of the feasible ways once it may be executed.
- **RemovalHolds**: `Spec => RemovalIsEffective`, without an invariant: the code refuses to take a local entry while a
  global one exists.
- **RootIsAnnounced**: `Spec => []RootChangeIsAnnounced`: every reign but the first, and that of the pending root if it claimed now,
  has an execution that named the account, that whoever was root when it was scheduled has scheduled, that waited
  `RootTransferDelay`, and that made nobody else root; only the constructor's `nextRoot` has none, and only as
  the second. Not inductive by itself, for it does not say when an
  execution that changes the root may be executed, or who scheduled it. `AnnouncedInv` adds that every such execution, pending or
  not, was scheduled by a root and made executable `RootTransferDelay` later and was not executed before (`LogOK`), and that reigns are
  in the past (`ReignsOK`). Executed entries are never rewritten and an execution is executed once, so that neither does an
  announcement change nor serve again.
- **GrantsAlwaysSuffice**: the permissions that a method of the Vault's client grants are those its call is checked for:
  `GrantsSuffice` in every behaviour that starts from the deployment, whose steps are the client's (VaultClientNext) or
  steps of anyone in the authorizer, or of the clock, that take no permission back and set no delay (`Kindly`). TLC's run has the client and claims of the root
  only. The invariant `Prepared` says of the steps left of the method in progress that whatever the call needs is held or
  is given by a grant before it.
- **NoUpdateIsLost** (VaultProofs): `Spec => []NoLostUpdate`. NoLostUpdate alone is not
  inductive: it does not say why nothing changes a balance while a call is in
  progress. The invariant `IInv` says that the guard is free and no call is in progress, or it
  is entered, exactly one call is, and what this call has read is current. Steps outside of the guard
  (fees collector, transfers of tokens) do not touch balances or token lists.
- **IsPausable**: `Spec => PausableRefinement`. Only `setPaused` changes `paused`, only `Tick` the time.
- **IsSolvent**: `Spec => []Solvent`, and **ConservesFunds**: `Spec => FundsAreConserved`. Both say what
  `Excess` does, custody minus debts. The inductive invariant `LedgerInv` adds to IInv that amounts are whole and not
  negative (a debit below zero would create debts elsewhere), what the local variables of a call in progress are (a swap
  settles the two tokens that it read before its hook), and that tokens a Pool has not registered have no balance there (registering one
  would otherwise change what is owed). Each operation has a lemma that it is `Balanced`: it moves in custody what it
  moves in Internal Balances and cash. The debts are sums over accounts and Pools; that a sum changes by what
  its one changed summand does is proved by well-founded induction over subsets of finite sets, for which `FiniteAssumption`
  makes accounts and Pools finitely many. During a loan custody includes what is lent; the check at its end is what makes that true.
- **ForgetsDeregistered**: `Spec => []DeregisteredIsEmpty`, part of LedgerInv. The loop of swap-and-pops that takes a list out of a
  Pool's tokens is shown to leave the others, each once.
- **TypeCorrect** (VaultProofs), **DebitsAreAuthorized**, **PausedPaysOut**, **ChangesAreStamped**: the Vault's TypeOK,
  OnlyAuthorizedDebit, PausedOnlyPaysOut and TotalChangesAreStamped. The difficulty is that joins, exits and swaps check the
  caller and the pause before the hook and move tokens after it. `TypeInv` adds to LedgerInv what is still true of these checks while a call
  is in progress (`CallerOK`): the sender's approval and the pause are as they were, because they change under the same guard as the
  calls. The Authorizer's approval need not be: its permissions change in hooks, outside of the Vault, and a relayer whose
  role is revoked there still spends. The property and the theorem therefore compare with the relayers of when the call
  started, and with the approvals of when it spends.
  That nobody ends with less than nothing, however transfers overlap (a recipient may be the collector or the sender),
  needs that each of the two transfers of a call is of what its sender then has. A paused Vault's debts go
  down because custody does and the excess stays, by ConservesFunds' lemmas.
- **CannotBePausedLate** (VaultPartsProofs): `PausableSpec => NoLatePause`.
- **SignaturesAreAlwaysUsedOnce**: `SignaturesAreUsedOnce`, whoever presents which signatures in which order. The invariant
  adds that the nonces of what has been accepted are below the next nonce of the signer, and that a nonce was accepted with one message.
- **IndexesAlwaysAgree**, **IsAFunction**: entries and
  indexes of the EnumerableMap agree, and each operation updates or removes exactly one key of the
  function the map stands for. The invariant `Sound` is well-typedness and agreement; `RemoveIsUpdate` is
  the lemma about swap-and-pop, with the removed entry last or not.
- **StoresAreWellTyped**, **StoresImplementPlainStore**: `PoolSpec => []TypesOK` and `PoolSpec => PoolRefinement`, for a Pool of
  any specialization; each step of each store is a step, or none, of PoolBalanceStore. The General store rests on
  the EnumerableMap theorems. The Minimal Swap Info and Two Token stores need an invariant stronger than what their getters rely
  on (**NonzeroIsAlwaysRegistered**, **NonzeroPairIsRegistered**): a token that is not registered has not even a last change
  block, for it would be registered with it. The hypothesis `DistinctPairs` says that no caller deregisters a pair [A, A]; it is needed, as
  the run `two_token_deregister` shows (see 6).
- **GaugesAreWellTyped**, **PowerIsAlwaysDivided** (GaugeProofs): `GaugeSpec => []GaugeTypeOK`, that is no slope, sum or total
  ever falls below zero although calls subtract from them, and `[]PowerIsDivided`. The invariant is `WellFormed`: types and
  locks (Settled), curves that are well typed and empty until something is in them (CurvesOK), nothing of gauges and types that do not
  exist yet (Linked), and votes and used power (VotesOK).
- **PastWeightsAreAlwaysFinal**, **VotesAreAlwaysCounted**, **CheckpointsNeverRevert**, **TotalIsAlwaysWeightedSum**:
  the other four properties of GaugeController. The difficulty is that a curve is stored as the point of the week it is filled to and
  the changes of its slope after it, and that votes edit these changes one by one, before and after they run out. The proof compares
  each curve with a closed form: `Runs(b, s)` says of a table of weights and a table of slopes that each week takes off what the slope says,
  and `Fits` that a curve is on its way to them. The tables that the curve of a gauge must fit are sums over
  the users of what is left of their votes, those of a type sums over its gauges (`Counted`); that each vote changes both sides alike is a lemma about each edit. `SumsAgree`
  says the same of the weeks that have begun, where nothing fits any more but nothing changes either. Their
  hypothesis `[]InTime` says that the loops over weeks, of 500 weeks in the code, get from what was filled last to the next week;
  **AlwaysInTimeAtFirst** shows that it holds without any call in the first 500 weeks after deployment (`EndsInTime`).
- **EscrowAgreesIfFilledInTime** (FeeDistributorProofs): `EscrowSpec /\ []FillsInTime => []SupplyIsSumOfBalances`, and
  **SupplyAgreesIfFilledInTime** the same with FeeDistributor. The inductive
  invariant `Escrow`: the last point of the history has the sums of what is left of the locks and of their slopes, the
  planned changes are those of the locks that end after it (Recorded), each user's last point is that of the lock (UsersRecorded),
  and in past weeks the answers of the queries agree (PastAgrees). A step replaces one user's share of the sums and appends points; `SameAnswers` shows that
  appended points change no answer about weeks that have begun. The hypothesis says that the loop of `_checkpoint`,
  which makes 255 rounds, gets to the present. A comment in the code expects the same: "Hopefully it won't happen
  that this won't get used in 5 years! If it does, users will be able to withdraw but vote weight will be broken"
  (VotingEscrow.vy:269-270). **AlwaysFillsInTime** shows that it holds without any call in the first 255 weeks (`RunsInTime`).
- **PaidInFullIfFilledInTime**, **EveryoneCanBePaidIfFilledInTime**, **DepositsAreForThisWeekIfFilledInTime**: the
  three properties of FeeDistributor, under the same hypothesis on VotingEscrow and none on the loops of
  FeeDistributor itself, whose bounds (20 weeks, 50 points) are constants and may end any of them early. The invariant `Distribution` adds to Escrow that
  points are in the order of time and that copies are right before their cursors: the supply (SupplyGood), each user's balances, with
  the point where the walk through his points resumes (UserGood), the tokens (TokenGood) and what he was
  paid (ClaimGood). `Funded` says that the tokens of all weeks have been paid or are still there; that the dues of all users in a
  week are together not more than its tokens, although each is rounded, is the lemma `SharesFit`, and that the parts into which a checkpoint
  splits what has come overlap nowhere is `OverlapsFit`.
- **ScheduleIsAlwaysKept** (SchedulerProofs): `SchedulerSpec => []ScheduleIsKept`. The invariant `Kept` says that every reward's
  list is `Good` for what is promised: it has the promised weeks in order with their amounts, and no node in storage, even one that
  an earlier start of distributions left out of the list, has an earlier one as its next (`Forward`). The latter is why the walks of
  `pendingRewards` and of the insertion end wherever they begin. A schedule for a week that is on the
  list adds to its node, one between two nodes is linked between them (`InsertKeepsOrder`), and a start takes off the head exactly what has
  come due (`StartKeepsOrder`, `DueSplits`). The deposits are the sums of what is promised, so that each payment is covered.
- **PoolAmountsAreNeverNegative** (PoolsProofs): `MCSpec => []PoolTypesOK`, for Weighted and Stable Pools with any weights,
  accounts, requests and precision. Balances, Pool tokens and the remembered invariant are subtracted from in many places, with amounts that roots and iterations
  compute. The proof uses nothing of what these compute: it shows that every hook reverts or answers with amounts
  (`WeightedAnswers`, `StableAnswers`), because each is a product or quotient of amounts, a difference that is guarded, or is compared with
  what there is before it is taken. That fees due are amounts needs that governance's percentage is at most one half
  (ProtocolFeesCollector.sol:37, `BasePoolAssumption`), so that the protocol's share of the Pool is below one (`UpToHalf`, `ShareIsWorth`). The amplification parameter is
  between its two ends while it moves (`MovedIsBetween`), so within its bounds even when an update starts from where a stopped one was (`ParameterOK`).
- **ProtocolIsAlwaysPaidOnce** (PoolsProofs): `MCSpec => []ProtocolIsPaidOnce`, under the same assumptions and with the same invariant `PoolsInv`. In
  a state whose invariant is zero there is no growth to measure and the code reverts (`ZERO_INVARIANT`, WeightedMath.sol:73), so the property asks
  nothing of it; `RateNeverDecreases` checks that there is none. Every
  step of a client is a `PoolStep`: it leaves alone what fees depend on, swaps, settles, leaves in Recovery Mode,
  or opens the Pool. The part `Paid` of the invariant says that an opened Pool remembers its present invariant (at the last amplification
  parameter for Stable Pools) unless there were swaps or it is in Recovery Mode, and then the fees, which are a share of the growth, are
  zero after rounding too (`WeightedDue`, `StableDue`); and that an opened Weighted Pool, which divides by the invariant that it remembers, never remembers zero. A Pool that has been opened never counts as new again: `MinimumBpt` Pool tokens are locked at the zero address, for which
  nobody signs (`ClientAssumption`).
- **RoundsAsItSays**, **ProportionalIsFair**: `mulDown`, `mulUp`, `divDown` and `divUp` round in the direction of their names and by less than
  a unit, for any `One`; and proportional joins take at least, proportional exits (Recovery Mode too) give at most, the share of every
  balance that their Pool tokens are of the supply, in spite of two roundings each. They rest on `MulDivIsExact`: the recursion
  that multiplies and divides by halves, as TLC's integers need it, computes the quotient of the product.
- **MintsAlwaysArrive** (TimelockAuthorizerProofs): `TokenListInit /\ [][TokenListNext]_tokenListVars => []MintsArrive`, for any
  tokens, people, lists and amounts. The invariant `Promises` says what is true while transactions are on the way: what a person holds of a
  token, plus what the transactions not mined will change it by (`Coming`; a deposit counts with the transfer that it
  sends), is what was promised, unless one of them failed. It does not depend on their order, so neither
  does the outcome. A call on a list sends its transactions for every token, recipient and sender and promises the
  sum of their effects (`FoldPromises`). It also keeps the types of lists and contracts; that sorting tokens by
  address has a result is `SortExists`. `CallerAssumption` says of the callers' arguments what the TypeScript types say,
  that a list of senders is not empty (who names none sends as the deployer), and that the parameters of a Pool
  have an element for each of its tokens where they are given.
- **RequestsAlwaysAligned** (TimelockAuthorizerProofs): the same for RequestsStayAligned. Sorting puts the other arrays in the order of the
  assets, whichever of two equal assets the engine puts first (`SortedIs`). Normalized weights lose less
  than a unit each by rounding down, and the last takes what the others lost (`SharesRound`, `DividedWeights`), so that the sum is exact
  and any two weights are in the proportion asked up to a unit for each token (`SharesInProportion`). That as many weights as there can be,
  which are made equal, add up to one needs that their number divides one: 100 and 10^18 in the code (`TokenAssumption`).

Loops over weeks and steps are recursive functions in the models, and a recursive function is the one chosen among those that satisfy its
equation. That there is one is part of what has to be proved: SumTheorems does it for sums (`SumIs`) and for functions that are computed from 0 to a number of
iterations (`LoopExists`, `Iterates`), by well-founded induction over the subsets of a finite set, with functions where one would
like to have operators as parameters. What a loop returns is then proved by an induction of the same kind (`UpTo`).
The scheduler's recursions follow a list instead of counting; `WalkExists` and `WalkInduction` do the same for them, by the rank of a node.

## 6. Where code and comments disagree

Each is a run that ends with a counterexample.

- `two_token_deregister`: "both tokens must have zero balance in the Vault" to be
  deregistered from a Two Token Pool (TwoTokenPoolsBalance.sol:107-109). Deregistering the pair [A, A]
  passes: the balances of the pair (A, A) are zero. `pool_tokens` leaves such calls out.
- `timelock_reduction`: a reduction of a delay "must first wait for the difference
  between the two delays" (TimelockAuthorizer.sol:437-440). The difference is to the delay
  at the time of scheduling; the delay may be raised meanwhile. What does hold, and is proved, is NoticeIsNeverShortened.
- `gauge_override`: a relative weight is "not more than 1.0" (GaugeController.vy:342).
  `change_gauge_weight` keeps the slopes of the votes, so that the sum of a type falls faster than its gauges. The
  properties of `gauge_votes` other than the type invariant, PowerIsDivided and PastWeightsAreFinal therefore exclude gauges overridden this way, and so do their theorems.

## 7. What is only model-checked

- **FundsAreNeverTrapped** (ENABLED) and **UnpausedForGood** (liveness): out of reach of the prover.
- Of Pools and the clients' mathematics everything but PoolTypesOK, ProtocolIsPaidOnce, the rounding of products and quotients, and
  proportional shares: `RateNeverDecreases`, `FollowsReference` and `ReferencesAgree` are about iterations, roots and
  powers, whose values for all inputs need an analysis of errors. That swaps and exits in Recovery Mode leave an
  invariant above zero, a part of `RateNeverDecreases`, needs it too. `RateNeverDecreases` allows the roundings of the
  invariant itself, a few units; `FollowsReference` bounds the estimates of a client with an old swap fee or supply to one side only, and
  says nothing of those that it makes after the amplification parameter has moved; how wrong the old copies make it
  depends on how far the values have moved, and nothing in the code limits that.

## 8. What is not modelled

- In the Vault: ETH and its wrapping, batch swaps and queries,
  tokens that take fees or call back. Signatures are checked on their own, not in front of every call of the Vault. Overflow beyond the 112 bits of balances is left to
  `TotalBound`; other amounts are unbounded.
- In VotingEscrow: block numbers and queries by block, the wallet checker.
- Of the Pools: token rates and yield fees, scaling of tokens with other than 18 decimals, Linear, Managed and Liquidity
  Bootstrapping Pools. Four digits stand for eighteen: that every operation rounds the right way is checked,
  the size of the errors of LogExpMath is not.
- Other gauges, the minters' emission, boosts and bridges, the authorizer's adaptor, relayers and standalone
  utilities: planned, see 9.
- Encoding, events, names and messages; of the TypeScript packages the deployment of the Vault, the plugins and
  build tools, and helpers that only read; governance scripts that run once. A client's
  stable joins and exits also write the shortened list of amounts back into the caller's request
  (StablePool.ts:337, 346, 397, 405), so that a request must not be used twice; requests are values in the model.

## 9. The plan

Done: the Vault's accounting, stores, authorization, pause and signatures; TimelockAuthorizer and its client; VotingEscrow
with FeeDistributor; GaugeController; DistributionScheduler; Weighted and Composable Stable Pools with protocol swap fees and
their clients; the clients of the Vault's administration, tokens and requests.

Next modules, in this order:

1. **BalancerTokenAdmin and the minters** with **StakelessGauge** and its checkpointer – emission by epochs against the amount
   minted, on top of GaugeController's relative weights.
2. **LiquidityGaugeV5** and the child chain gauges – the rewards integral: nobody receives more than was emitted.
3. **VeBoostV2** and the remapper on top of VotingEscrow.
4. **PriceRateCache** and yield fees in StablePool and WeightedPool.
5. **Gradual changes**: weights and fees of bootstrapping and managed Pools.
6. **AuthorizerAdaptor**, the relayer's chained references, **ProtocolFeeSplitter**.
7. Extensions of Vault: batch swaps, ETH with transfers that call back (views read during an exit).

Abstract specifications worth stating: an emission account "minted is at most emitted" (1, 2), a linear
interpolation between two moments for gradual changes (5).

Runs: modules that share nothing are checked as parts of one run, as in `MCPoolTokens`, each part with constants that make its own hazards happen.

Theorems: that a Pool token keeps its value in proportional joins and exits, from ProportionalIsFair.
