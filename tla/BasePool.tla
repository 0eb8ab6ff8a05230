------------------------------ MODULE BasePool ------------------------------
(***************************************************************************)
(* What the hooks of every Pool do when the Vault calls them, whatever its *)
(* mathematics: BasePool, with Recovery Mode, the cache of the protocol    *)
(* fee percentage and the payment of protocol fees in Pool tokens.  The    *)
(* Vault is the caller: it keeps the balances and moves the tokens.        *)
(* Tokens have 18 decimals and no rate providers, so that scaling is the   *)
(* identity and there is no yield to pay fees on.                          *)
(***************************************************************************)
EXTENDS FixedPoint, Functions

CONSTANTS Accounts,           \* those that may hold Pool tokens
          Zero,               \* address(0)
          Collector,          \* the ProtocolFeesCollector
          MinimumBpt,         \* locked at initialization
          MinSwapFee,
          MaxSwapFee,
          ProtocolFees        \* protocol swap fee percentages of governance: at most a half

ASSUME BasePoolAssumption ==
    /\ IsFiniteSet(Accounts) /\ Zero \in Accounts /\ Collector \in Accounts \ {Zero}
    /\ MinimumBpt \in Nat \ {0} /\ MinSwapFee \in 1..MaxSwapFee /\ MaxSwapFee < One
    /\ ProtocolFees \subseteq 0..One \div 2

VARIABLES balances,           \* the Vault's record of the Pool's tokens
          bpt,                \* Pool tokens held by each account
          swapFee,            \* getSwapFeePercentage
          lastInvariant,      \* the invariant after the last join or exit
          feeCache,           \* the protocol swap fee percentage in the cache
          provided,           \* ... and at the ProtocolFeePercentagesProvider
          recovery,           \* inRecoveryMode
          paused,
          traded              \* history: a swap since the protocol was paid

baseVars == <<balances, bpt, swapFee, lastInvariant, feeCache, provided,
              recovery, paused, traded>>
settings == <<swapFee, feeCache, provided, recovery, paused>>

Tokens == DOMAIN balances
circulating == FoldFunction(+, 0, bpt)
Initialized == circulating > 0

Plus(a, b) == [i \in DOMAIN a |-> a[i] + b[i]]
Minus(a, b) == [i \in DOMAIN a |-> a[i] - b[i]]
OnlyToken(index, amount) == [i \in Tokens |-> IF i = index THEN amount ELSE 0]
NoTokens == [i \in Tokens |-> 0]

BaseTypeOK ==
    /\ balances \in [Tokens -> Nat] /\ bpt \in [Accounts -> Nat]
    /\ swapFee \in MinSwapFee..MaxSwapFee
    /\ lastInvariant \in Nat
    /\ {feeCache, provided} \subseteq ProtocolFees
    /\ {recovery, paused, traded} \subseteq BOOLEAN

BaseInit(count, fee) ==
    /\ balances = [i \in 1..count |-> 0] /\ bpt = [a \in Accounts |-> 0]
    /\ swapFee = fee
    /\ lastInvariant = 0
    /\ feeCache \in ProtocolFees /\ provided = feeCache
    /\ recovery = FALSE /\ paused = FALSE /\ traded = FALSE

getProtocolFeePercentageCache == IF recovery THEN 0 ELSE feeCache

(* The Pool tokens to mint so that their owner has this part of the Pool.  *)
bptForPoolOwnershipPercentage(supply, percentage) ==
    MulDiv(supply, percentage, complement(percentage))

Minted(holdings, account, amount) == [holdings EXCEPT ![account] = @ + amount]
Burned(holdings, account, amount) == [holdings EXCEPT ![account] = @ - amount]

MaxUint256 == 2147483647

(* What a hook answers: Pool tokens to mint or burn, and token amounts;    *)
(* with the protocol fees to mint and the invariant to remember.           *)
Reverted == -1
Failure == [bpt |-> Reverted, amounts |-> NoTokens]
Result(bptAmount, amounts) ==
    IF bptAmount \in Nat /\ \A i \in Tokens : amounts[i] \in Nat
    THEN [bpt |-> bptAmount, amounts |-> amounts] ELSE Failure
WithFees(result, fees, invariant) ==
    [bpt |-> result.bpt, amounts |-> result.amounts, fees |-> fees, invariant |-> invariant]

(* What leaves the Pool is subtracted from its balances.                   *)
Available(amounts) == \A i \in Tokens : amounts[i] <= balances[i]

ProportionalAmountsIn(bptOut, supply) ==
    [i \in Tokens |-> mulUp(balances[i], divUp(bptOut, supply))]
ProportionalAmountsOut(bptIn, supply) ==
    [i \in Tokens |-> mulDown(balances[i], divDown(bptIn, supply))]

(* onJoinPool: the first join initializes the Pool and locks MinimumBpt.   *)
Initialize(recipient, amountsIn, bptOut, invariant) ==
    /\ ~paused /\ ~Initialized
    /\ bptOut >= MinimumBpt
    /\ balances' = Plus(balances, amountsIn)
    /\ bpt' = Minted(Minted(bpt, Zero, MinimumBpt), recipient, bptOut - MinimumBpt)
    /\ lastInvariant' = invariant
    /\ traded' = FALSE
    /\ UNCHANGED settings

Join(recipient, result) ==
    /\ ~paused /\ Initialized
    /\ result # Failure
    /\ balances' = Plus(balances, result.amounts)
    /\ bpt' = Minted(Minted(bpt, Collector, result.fees), recipient, result.bpt)
    /\ lastInvariant' = result.invariant
    /\ traded' = FALSE
    /\ UNCHANGED settings

(* Mutant of Exit: Pool tokens that the sender does not have.               *)
ExitOfAnyAmount(sender, recipient, result) ==
    /\ ~paused /\ Initialized /\ recipient # Zero
    /\ result # Failure
    /\ balances' = Minus(balances, result.amounts)
    /\ bpt' = Minted(Burned(bpt, sender, result.bpt), Collector, result.fees)
    /\ lastInvariant' = result.invariant
    /\ traded' = FALSE
    /\ UNCHANGED settings

(* onExitPool.  The Vault cannot send tokens to the zero address.          *)
Exit(sender, recipient, result) ==
    /\ ~paused /\ Initialized /\ recipient # Zero
    /\ result # Failure
    /\ result.bpt <= bpt[sender]
    /\ balances' = Minus(balances, result.amounts)
    /\ bpt' = Minted(Burned(bpt, sender, result.bpt), Collector, result.fees)
    /\ lastInvariant' = result.invariant
    /\ traded' = FALSE
    /\ UNCHANGED settings

(* In Recovery Mode, even a paused Pool can be left.                       *)
RecoveryModeExit(sender, recipient, data) ==
    /\ data.kind = "RECOVERY_MODE" /\ recovery /\ Initialized
    /\ recipient # Zero /\ data.bptIn <= bpt[sender]
    /\ balances' = Minus(balances, ProportionalAmountsOut(data.bptIn, circulating))
    /\ bpt' = Burned(bpt, sender, data.bptIn)
    /\ UNCHANGED <<lastInvariant, traded, settings>>

(* onSwap: swap fees come out of the amount in, or go on top of it.  The   *)
(* Vault does not send what it does not hold for the Pool.                 *)
subtractSwapFeeAmount(amount) == amount - mulUp(amount, swapFee)
addSwapFeeAmount(amount) ==
    IF amount < 0 THEN Reverted ELSE divUp(amount, complement(swapFee))

Swap(in, out, amountIn, amountOut) ==
    /\ ~paused /\ Initialized /\ in # out
    /\ {amountIn, amountOut} \subseteq Nat /\ amountOut <= balances[out]
    /\ balances' = [balances EXCEPT ![in] = @ + amountIn, ![out] = @ - amountOut]
    /\ traded' = TRUE
    /\ UNCHANGED <<bpt, lastInvariant, settings>>

(* What is due at the old percentage is paid before the new one applies.   *)
UpdateFeeCache(due, invariant) ==
    /\ ~paused /\ Initialized
    /\ bpt' = Minted(bpt, Collector, due)
    /\ lastInvariant' = invariant
    /\ feeCache' = provided
    /\ traded' = FALSE
    /\ UNCHANGED <<balances, swapFee, provided, recovery, paused>>

setFeeTypePercentage(percentage) ==
    /\ provided' = percentage
    /\ UNCHANGED <<balances, bpt, swapFee, lastInvariant, feeCache, recovery, paused, traded>>

setSwapFeePercentage(percentage) ==
    /\ ~paused /\ percentage \in MinSwapFee..MaxSwapFee
    /\ swapFee' = percentage
    /\ UNCHANGED <<balances, bpt, lastInvariant, feeCache, provided, recovery, paused, traded>>

SetPaused(value) ==
    /\ paused' = value
    /\ UNCHANGED <<balances, bpt, swapFee, lastInvariant, feeCache, provided, recovery, traded>>

enableRecoveryMode ==
    /\ ~recovery /\ recovery' = TRUE
    /\ UNCHANGED <<balances, bpt, swapFee, lastInvariant, feeCache, provided, paused, traded>>

(* Mutant of DisableRecoveryMode: fees of Recovery Mode are charged later.  *)
DisableRecoveryModeOnly(invariant) ==
    /\ recovery /\ recovery' = FALSE
    /\ traded' = FALSE
    /\ UNCHANGED <<balances, bpt, swapFee, lastInvariant, feeCache, provided, paused>>

(* The protocol forgoes the fees of the swaps made in Recovery Mode.       *)
DisableRecoveryMode(invariant) ==
    /\ recovery /\ recovery' = FALSE
    /\ lastInvariant' = invariant
    /\ traded' = FALSE
    /\ UNCHANGED <<balances, bpt, swapFee, feeCache, provided, paused>>
=============================================================================
