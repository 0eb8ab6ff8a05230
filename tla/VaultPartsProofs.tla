-------------------------- MODULE VaultPartsProofs --------------------------
(***************************************************************************)
(* Proofs about four parts of the Vault, for any tokens, lists of tokens,  *)
(* amounts, bound of a balance, keys, windows, users and permissions.      *)
(*                                                                         *)
(* The stores of Pool balances: whatever the specialization of a Pool, its *)
(* balances are those of a plain map from its registered tokens            *)
(* (PoolBalanceStore).  EnumerableMap, which General Pools are stored in:  *)
(* its indexes agree with its entries, and it behaves as a function.       *)
(* TemporarilyPausable: a pause is never started late.  Signatures: each   *)
(* is accepted once.                                                       *)
(***************************************************************************)
EXTENDS PoolTokens, EnumerableMap, TemporarilyPausable, Signatures,
        SumTheorems, SequenceTheorems, TLAPS

---------------------------------------------------------------------------
(* BalanceAllocation.                                                      *)

(* The empty balance is a balance.                                         *)
LEMMA EmptyIsBalance == EmptyBalance \in Balance /\ IsBalance(EmptyBalance)
  BY BoundAssumption DEF EmptyBalance, Balance, IsBalance, Total

(* What the mutations return for a balance, once toBalance accepts it.     *)
LEMMA MutationTypes ==
  ASSUME NEW b \in Balance, NEW m \in Int, NEW block \in Nat
  PROVE  /\ IsBalance(ChangeCash(b, m, block)) => ChangeCash(b, m, block) \in Balance
         /\ IsBalance(CashToManaged(b, m)) => CashToManaged(b, m) \in Balance
         /\ IsBalance(ManagedToCash(b, m)) => ManagedToCash(b, m) \in Balance
         /\ IsBalance(SetManaged(b, m, block)) => SetManaged(b, m, block) \in Balance
<1>1. IsBalance(ChangeCash(b, m, block)) => ChangeCash(b, m, block) \in Balance
  BY DEF Balance, IsBalance, ChangeCash
<1>2. IsBalance(CashToManaged(b, m)) => CashToManaged(b, m) \in Balance
  BY DEF Balance, IsBalance, CashToManaged
<1>3. IsBalance(ManagedToCash(b, m)) => ManagedToCash(b, m) \in Balance
  BY DEF Balance, IsBalance, ManagedToCash
<1>4. IsBalance(SetManaged(b, m, block)) => SetManaged(b, m, block) \in Balance
  BY DEF Balance, IsBalance, SetManaged
<1> QED
  BY <1>1, <1>2, <1>3, <1>4

(* Which parts of a balance the mutations change.                          *)
LEMMA MutationEffects ==
  ASSUME NEW b \in Balance, NEW m \in Int, NEW block \in Nat
  PROVE  /\ ChangeCash(b, m, block).managed = b.managed
         /\ ChangeCash(b, m, block).lastChangeBlock = block
         /\ Total(CashToManaged(b, m)) = Total(b)
         /\ CashToManaged(b, m).lastChangeBlock = b.lastChangeBlock
         /\ Total(ManagedToCash(b, m)) = Total(b)
         /\ ManagedToCash(b, m).lastChangeBlock = b.lastChangeBlock
         /\ SetManaged(b, m, block).cash = b.cash
         /\ SetManaged(b, m, block).lastChangeBlock = block
<1>1. ChangeCash(b, m, block).managed = b.managed /\ ChangeCash(b, m, block).lastChangeBlock = block
  BY DEF ChangeCash
<1>2. Total(CashToManaged(b, m)) = Total(b) /\ CashToManaged(b, m).lastChangeBlock = b.lastChangeBlock
  BY DEF CashToManaged, Total, Balance
<1>3. Total(ManagedToCash(b, m)) = Total(b) /\ ManagedToCash(b, m).lastChangeBlock = b.lastChangeBlock
  BY DEF ManagedToCash, Total, Balance
<1>4. SetManaged(b, m, block).cash = b.cash /\ SetManaged(b, m, block).lastChangeBlock = block
  BY DEF SetManaged, Balance
<1> QED
  BY <1>1, <1>2, <1>3, <1>4

(* What the inputs are.                                                    *)
LEMMA AmountTypes == Amounts \subseteq Nat /\ Deltas \subseteq Int /\ Amounts \subseteq Int
<1>1. Amounts \subseteq Nat /\ Amounts \subseteq Int
  BY StoreAssumption
<1>2. ASSUME NEW d \in Deltas
      PROVE  d \in Int
  <2>1. CASE d \in Amounts
    BY <2>1, <1>1
  <2>2. ASSUME NEW m \in Amounts, d = -m
        PROVE  d \in Int
    BY <2>2, <1>1
  <2> QED
    BY <1>2, <2>1, <2>2 DEF Deltas
<1> QED
  BY <1>1, <1>2

(* What the lists of tokens are.                                           *)
LEMMA ListTypes ==
  ASSUME NEW tokens \in RegisterLists \cup DeregisterLists
  PROVE  Range(tokens) \subseteq Tokens
<1>1. tokens \in Seq(Tokens)
  BY StoreAssumption
<1> QED
  BY <1>1 DEF Range

---------------------------------------------------------------------------
(* The operators on balances are the same in every store and in the plain  *)
(* one.                                                                    *)
LEMMA SameInTwoToken ==
  /\ TwoToken!NoToken = 0
  /\ \A b : TwoToken!IsZero(b) = IsZero(b)
  /\ \A b : TwoToken!IsBalance(b) = IsBalance(b)
  /\ \A b, m, block : TwoToken!ChangeCash(b, m, block) = ChangeCash(b, m, block)
  /\ \A b, m : TwoToken!CashToManaged(b, m) = CashToManaged(b, m)
  /\ \A b, m : TwoToken!ManagedToCash(b, m) = ManagedToCash(b, m)
  /\ \A b, m, block : TwoToken!SetManaged(b, m, block) = SetManaged(b, m, block)
  /\ TwoToken!Deltas = Deltas
<1>1. \A b : TwoToken!IsZero(b) = IsZero(b)
  BY DEF TwoToken!IsZero, IsZero
<1>2. \A b : TwoToken!IsBalance(b) = IsBalance(b)
  BY DEF TwoToken!IsBalance, IsBalance, TwoToken!Total, Total
<1>3. /\ \A b, m, block : TwoToken!ChangeCash(b, m, block) = ChangeCash(b, m, block)
      /\ \A b, m, block : TwoToken!SetManaged(b, m, block) = SetManaged(b, m, block)
  BY DEF TwoToken!ChangeCash, ChangeCash, TwoToken!SetManaged, SetManaged
<1>4. /\ \A b, m : TwoToken!CashToManaged(b, m) = CashToManaged(b, m)
      /\ \A b, m : TwoToken!ManagedToCash(b, m) = ManagedToCash(b, m)
  BY DEF TwoToken!CashToManaged, CashToManaged, TwoToken!ManagedToCash, ManagedToCash
<1>5. TwoToken!Deltas = Deltas /\ TwoToken!NoToken = 0
  BY DEF TwoToken!Deltas, Deltas, TwoToken!NoToken
<1> QED
  BY <1>1, <1>2, <1>3, <1>4, <1>5

(* And in a General Pool's.                                                *)
LEMMA SameInGeneral ==
  /\ General!EmptyBalance = EmptyBalance
  /\ General!Balance = Balance
  /\ \A b : General!IsZero(b) = IsZero(b)
  /\ \A b : General!IsBalance(b) = IsBalance(b)
  /\ \A b, m, block : General!ChangeCash(b, m, block) = ChangeCash(b, m, block)
  /\ \A b, m : General!CashToManaged(b, m) = CashToManaged(b, m)
  /\ \A b, m : General!ManagedToCash(b, m) = ManagedToCash(b, m)
  /\ \A b, m, block : General!SetManaged(b, m, block) = SetManaged(b, m, block)
  /\ General!Deltas = Deltas
<1>1. \A b : General!IsZero(b) = IsZero(b)
  BY DEF General!IsZero, IsZero
<1>2. \A b : General!IsBalance(b) = IsBalance(b)
  BY DEF General!IsBalance, IsBalance, General!Total, Total
<1>3. /\ \A b, m, block : General!ChangeCash(b, m, block) = ChangeCash(b, m, block)
      /\ \A b, m, block : General!SetManaged(b, m, block) = SetManaged(b, m, block)
  BY DEF General!ChangeCash, ChangeCash, General!SetManaged, SetManaged
<1>4. /\ \A b, m : General!CashToManaged(b, m) = CashToManaged(b, m)
      /\ \A b, m : General!ManagedToCash(b, m) = ManagedToCash(b, m)
  BY DEF General!CashToManaged, CashToManaged, General!ManagedToCash, ManagedToCash
<1>5. General!Deltas = Deltas /\ General!EmptyBalance = EmptyBalance /\ General!Balance = Balance
  BY DEF General!Deltas, Deltas, General!EmptyBalance, EmptyBalance, General!Balance, Balance
<1> QED
  BY <1>1, <1>2, <1>3, <1>4, <1>5

(* And in the plain store, which the Pool's shall implement.               *)
LEMMA SameInPlain ==
  /\ Pool!Balance = Balance
  /\ Pool!EmptyBalance = EmptyBalance
  /\ \A b : Pool!Total(b) = Total(b)
  /\ \A b : Pool!IsZero(b) = IsZero(b)
  /\ \A b : Pool!IsBalance(b) = IsBalance(b)
<1>1. Pool!Balance = Balance /\ Pool!EmptyBalance = EmptyBalance
  BY DEF Pool!Balance, Balance, Pool!EmptyBalance, EmptyBalance
<1>2. \A b : Pool!Total(b) = Total(b)
  BY DEF Pool!Total, Total
<1>3. \A b : Pool!IsZero(b) = IsZero(b)
  BY DEF Pool!IsZero, IsZero
<1>4. \A b : Pool!IsBalance(b) = IsBalance(b)
  BY <1>2 DEF Pool!IsBalance, IsBalance
<1> QED
  BY <1>1, <1>2, <1>3, <1>4

---------------------------------------------------------------------------
(* The steps of the plain store, for a Pool of any specialization, from    *)
(* what happens to its registered tokens and to the balance of each.       *)

(* Tokens are registered.                                                  *)
LEMMA IsRegister ==
  ASSUME NEW new \in SUBSET (Tokens \ RegisteredTokens), UNCHANGED now,
         RegisteredTokens' = RegisteredTokens \cup new,
         BalanceOf' = [t \in RegisteredTokens \cup new |->
                         IF t \in RegisteredTokens THEN BalanceOf[t] ELSE EmptyBalance]
  PROVE  Pool!StoreNext
  BY SameInPlain DEF Pool!StoreNext, Pool!Register

(* Tokens with no balance leave.                                           *)
LEMMA IsDeregister ==
  ASSUME NEW old \in SUBSET RegisteredTokens, UNCHANGED now,
         \A t \in old : IsZero(BalanceOf[t]),
         RegisteredTokens' = RegisteredTokens \ old,
         BalanceOf' = [t \in RegisteredTokens \ old |-> BalanceOf[t]]
  PROVE  Pool!StoreNext
  BY SameInPlain DEF Pool!StoreNext, Pool!Deregister

(* Balances are written, with the block of the change.                     *)
Writing ==
  /\ UNCHANGED <<now, RegisteredTokens>>
  /\ BalanceOf' \in [RegisteredTokens -> Balance]
  /\ \A t \in RegisteredTokens :
       /\ IsBalance(BalanceOf'[t])
       /\ BalanceOf'[t].lastChangeBlock \in {BalanceOf[t].lastChangeBlock, now}
       /\ Total(BalanceOf'[t]) # Total(BalanceOf[t]) => BalanceOf'[t].lastChangeBlock = now

(* Such a step is one of the plain store.                                  *)
LEMMA WritingIsChange == Writing => Pool!BalancesChange
  BY SameInPlain DEF Writing, Pool!BalancesChange

(* Balances are written and what is managed stays.                         *)
LEMMA IsCashChanges ==
  ASSUME Writing, \A t \in RegisteredTokens : BalanceOf'[t].managed = BalanceOf[t].managed
  PROVE  Pool!StoreNext
  BY WritingIsChange DEF Pool!StoreNext, Pool!CashChanges

(* One balance is written, and its total stays.                            *)
LEMMA IsCashIsManaged ==
  ASSUME Writing, NEW t \in RegisteredTokens, Total(BalanceOf'[t]) = Total(BalanceOf[t]),
         \A s \in RegisteredTokens : s # t => BalanceOf'[s] = BalanceOf[s]
  PROVE  Pool!StoreNext
  BY WritingIsChange, SameInPlain DEF Pool!StoreNext, Pool!CashIsManaged

(* What is managed of one balance is written.                              *)
LEMMA IsManagedChanges ==
  ASSUME Writing, NEW t \in RegisteredTokens,
         \A s \in RegisteredTokens : BalanceOf'[s].cash = BalanceOf[s].cash,
         \A s \in RegisteredTokens : s # t => BalanceOf'[s].managed = BalanceOf[s].managed
  PROVE  Pool!StoreNext
  BY WritingIsChange DEF Pool!StoreNext, Pool!ManagedChanges

(* A block passes.                                                         *)
LEMMA IsBlockPasses ==
  ASSUME now' > now, UNCHANGED <<RegisteredTokens, BalanceOf>>
  PROVE  Pool!StoreNext
  BY DEF Pool!StoreNext, Pool!BlockPasses

---------------------------------------------------------------------------
(* TwoTokenPoolsBalance.                                                   *)

(* No call deregisters the same token twice as if it were a pair: one that *)
(* does leaves the other token's cash behind (TwoTokenDeregister.cfg), and *)
(* what follows would be false.                                            *)
DistinctPairs == \A tokens \in TwoToken!Pairs(DeregisterLists) : tokens[1] # tokens[2]

CashWords == [a : Nat, b : Nat, lastChangeBlock : Nat]
ManagedWords == [a : Nat, b : Nat, lastChangeBlock : {0}]

(* The tokens are registered together, in order.                           *)
PairRegistered == tokenA \in Tokens /\ tokenB \in Tokens /\ tokenA < tokenB
NoneRegistered == tokenA = 0 /\ tokenB = 0

(* The words of every other pair are as they were in the beginning, even   *)
(* the block, which the pair would be registered with.                     *)
OthersAreEmpty ==
  \A pair \in TwoToken!TokenPairs :
    pair # <<tokenA, tokenB>> \/ NoneRegistered =>
      sharedCash[pair] = TwoToken!NoShared /\ sharedManaged[pair] = TwoToken!NoShared

(* Both balances fit and none has changed in a block yet to come, which    *)
(* would hide a later change of the other: they share the block.           *)
PairFits ==
  PairRegistered =>
    /\ IsBalance(TwoToken!BalanceA(<<tokenA, tokenB>>))
    /\ IsBalance(TwoToken!BalanceB(<<tokenA, tokenB>>))
    /\ sharedCash[<<tokenA, tokenB>>].lastChangeBlock <= now

(* The inductive invariant.                                                *)
TwoTokenInv ==
  /\ TwoToken!TypeOK
  /\ PairRegistered \/ NoneRegistered
  /\ OthersAreEmpty
  /\ PairFits

(* What a registered pair of tokens has.                                   *)
LEMMA PairFacts ==
  ASSUME TwoTokenInv, PairRegistered
  PROVE  LET pair == <<tokenA, tokenB>>
             A == TwoToken!BalanceA(pair)
             B == TwoToken!BalanceB(pair)
         IN  /\ pair \in TwoToken!TokenPairs
             /\ tokenA # 0 /\ tokenB # 0 /\ tokenA # tokenB
             /\ tokenA \in Nat /\ tokenB \in Nat /\ now \in Nat
             /\ sharedCash \in [TwoToken!TokenPairs -> CashWords]
             /\ sharedManaged \in [TwoToken!TokenPairs -> ManagedWords]
             /\ A \in Balance /\ B \in Balance
             /\ A.lastChangeBlock = sharedCash[pair].lastChangeBlock
             /\ B.lastChangeBlock = sharedCash[pair].lastChangeBlock
             /\ sharedCash[pair].lastChangeBlock <= now
             /\ IsBalance(A) /\ IsBalance(B)
<1> DEFINE pair == <<tokenA, tokenB>>
<1>1. pair \in TwoToken!TokenPairs
  BY DEF PairRegistered, TwoToken!TokenPairs
<1>2. tokenA # 0 /\ tokenB # 0 /\ tokenA # tokenB /\ tokenA \in Nat /\ tokenB \in Nat
  BY StoreAssumption DEF PairRegistered
<1>3. /\ now \in Nat
      /\ sharedCash \in [TwoToken!TokenPairs -> CashWords]
      /\ sharedManaged \in [TwoToken!TokenPairs -> ManagedWords]
  BY DEF TwoTokenInv, TwoToken!TypeOK, CashWords, ManagedWords
<1> HIDE DEF pair
<1>4. sharedCash[pair] \in CashWords /\ sharedManaged[pair] \in ManagedWords
  BY <1>1, <1>3 DEF pair
<1>5. /\ TwoToken!BalanceA(pair) \in Balance
      /\ TwoToken!BalanceB(pair) \in Balance
      /\ TwoToken!BalanceA(pair).lastChangeBlock = sharedCash[pair].lastChangeBlock
      /\ TwoToken!BalanceB(pair).lastChangeBlock = sharedCash[pair].lastChangeBlock
  BY <1>4 DEF TwoToken!BalanceA, TwoToken!BalanceB, Balance, CashWords, ManagedWords
<1>6. /\ sharedCash[pair].lastChangeBlock <= now
      /\ IsBalance(TwoToken!BalanceA(pair)) /\ IsBalance(TwoToken!BalanceB(pair))
  BY DEF TwoTokenInv, PairFits, pair
<1> QED
  BY <1>1, <1>2, <1>3, <1>5, <1>6 DEF pair

(* The store sees a registration of two different tokens only when the     *)
(* pair is the registered one.                                             *)
LEMMA OnlyTheRegisteredPair ==
  ASSUME TwoTokenInv, NEW x \in Tokens, NEW y \in Tokens, x # y, TwoToken!PairIsRegistered(x, y)
  PROVE  /\ PairRegistered
         /\ TwoToken!Sorted(x, y) = <<tokenA, tokenB>>
         /\ IF x < y THEN x = tokenA /\ y = tokenB ELSE y = tokenA /\ x = tokenB
<1> DEFINE pair == TwoToken!Sorted(x, y)
<1>1. x \in Nat /\ y \in Nat /\ x # 0 /\ y # 0
  BY StoreAssumption
<1>2. /\ pair \in TwoToken!TokenPairs
      /\ pair = IF x < y THEN <<x, y>> ELSE <<y, x>>
  BY DEF TwoToken!Sorted, TwoToken!TokenPairs
<1>3. CASE ~TwoToken!SharedIsZero(sharedCash[pair]) \/ ~TwoToken!SharedIsZero(sharedManaged[pair])
  <2>1. ~(sharedCash[pair] = TwoToken!NoShared /\ sharedManaged[pair] = TwoToken!NoShared)
    BY <1>3 DEF TwoToken!NoShared, TwoToken!Shared, TwoToken!SharedIsZero
  <2>2. pair = <<tokenA, tokenB>> /\ ~NoneRegistered
    BY <1>2, <2>1 DEF TwoTokenInv, OthersAreEmpty
  <2> QED
    BY <1>2, <2>2 DEF TwoTokenInv
<1>4. CASE TwoToken!IsRegistered(x) /\ TwoToken!IsRegistered(y)
  <2>1. x \in {tokenA, tokenB} /\ y \in {tokenA, tokenB}
    BY <1>4 DEF TwoToken!IsRegistered
  <2>2. PairRegistered
    BY <2>1, <1>1 DEF TwoTokenInv, NoneRegistered
  <2>3. tokenA < tokenB /\ tokenA \in Nat /\ tokenB \in Nat
    BY <2>2, StoreAssumption DEF PairRegistered
  <2>4. CASE x = tokenA /\ y = tokenB
    BY <2>2, <2>3, <2>4, <1>2
  <2>5. CASE x = tokenB /\ y = tokenA
    BY <2>2, <2>3, <2>5, <1>2
  <2> QED
    BY <2>1, <2>4, <2>5
<1> QED
  BY <1>3, <1>4 DEF TwoToken!PairIsRegistered

(* New balances of the registered pair, as they are written back to the    *)
(* two words.                                                              *)
Rewritten(newA, newB) ==
  /\ sharedCash' = [sharedCash EXCEPT ![<<tokenA, tokenB>>] =
                      [a |-> newA.cash, b |-> newB.cash,
                       lastChangeBlock |-> IF newA.lastChangeBlock > newB.lastChangeBlock
                                           THEN newA.lastChangeBlock ELSE newB.lastChangeBlock]]
  /\ sharedManaged' = [sharedManaged EXCEPT ![<<tokenA, tokenB>>] =
                         [a |-> newA.managed, b |-> newB.managed, lastChangeBlock |-> 0]]
  /\ UNCHANGED <<now, tokenA, tokenB>>

(* Rewriting them, when the blocks have come, keeps the invariant, and     *)
(* each token has its new balance, both with the later block.              *)
LEMMA RewrittenPair ==
  ASSUME TwoTokenInv, PairRegistered,
         NEW newA \in Balance, NEW newB \in Balance, IsBalance(newA), IsBalance(newB),
         newA.lastChangeBlock <= now, newB.lastChangeBlock <= now, Rewritten(newA, newB)
  PROVE  LET pair == <<tokenA, tokenB>>
             block == IF newA.lastChangeBlock > newB.lastChangeBlock
                      THEN newA.lastChangeBlock ELSE newB.lastChangeBlock
         IN  /\ TwoTokenInv'
             /\ TwoToken!BalanceA(pair)' = [newA EXCEPT !.lastChangeBlock = block]
             /\ TwoToken!BalanceB(pair)' = [newB EXCEPT !.lastChangeBlock = block]
<1> DEFINE pair == <<tokenA, tokenB>>
           block == IF newA.lastChangeBlock > newB.lastChangeBlock
                    THEN newA.lastChangeBlock ELSE newB.lastChangeBlock
           cash == [a |-> newA.cash, b |-> newB.cash, lastChangeBlock |-> block]
           managed == [a |-> newA.managed, b |-> newB.managed, lastChangeBlock |-> 0]
<1>1. /\ pair \in TwoToken!TokenPairs /\ now \in Nat
      /\ sharedCash \in [TwoToken!TokenPairs -> CashWords]
      /\ sharedManaged \in [TwoToken!TokenPairs -> ManagedWords]
  BY PairFacts
<1>2. /\ block \in Nat /\ block <= now
      /\ cash \in CashWords /\ managed \in ManagedWords
      /\ cash.a = newA.cash /\ cash.b = newB.cash /\ cash.lastChangeBlock = block
      /\ managed.a = newA.managed /\ managed.b = newB.managed
  BY <1>1 DEF Balance, CashWords, ManagedWords
<1>3. /\ sharedCash' = [sharedCash EXCEPT ![pair] = cash]
      /\ sharedManaged' = [sharedManaged EXCEPT ![pair] = managed]
      /\ tokenA' = tokenA /\ tokenB' = tokenB /\ now' = now
  BY DEF Rewritten
<1>4. pair' = pair
  BY <1>3
<1> HIDE DEF pair, cash, managed, block
<1>5. /\ sharedCash' \in [TwoToken!TokenPairs -> CashWords]
      /\ sharedManaged' \in [TwoToken!TokenPairs -> ManagedWords]
      /\ sharedCash'[pair] = cash /\ sharedManaged'[pair] = managed
      /\ \A p \in TwoToken!TokenPairs : p # pair =>
           sharedCash'[p] = sharedCash[p] /\ sharedManaged'[p] = sharedManaged[p]
  BY <1>1, <1>2, <1>3
<1>6. /\ TwoToken!BalanceA(pair)' = [newA EXCEPT !.lastChangeBlock = block]
      /\ TwoToken!BalanceB(pair)' = [newB EXCEPT !.lastChangeBlock = block]
  BY <1>2, <1>4, <1>5 DEF TwoToken!BalanceA, TwoToken!BalanceB, Balance
<1>7. TwoToken!TypeOK'
  BY <1>3, <1>5 DEF TwoTokenInv, TwoToken!TypeOK, CashWords, ManagedWords
<1>8. (PairRegistered \/ NoneRegistered)'
  BY <1>3 DEF PairRegistered
<1>9. OthersAreEmpty'
  BY <1>3, <1>5, PairFacts DEF OthersAreEmpty, TwoTokenInv, NoneRegistered, pair
<1>10. PairFits'
  <2>1. /\ IsBalance([newA EXCEPT !.lastChangeBlock = block])
        /\ IsBalance([newB EXCEPT !.lastChangeBlock = block])
    BY DEF IsBalance, Total, Balance
  <2>2. sharedCash'[pair'].lastChangeBlock <= now'
    BY <1>2, <1>3, <1>4, <1>5
  <2> QED
    BY <1>4, <1>6, <2>1, <2>2 DEF PairFits, pair
<1> QED
  BY <1>6, <1>7, <1>8, <1>9, <1>10 DEF TwoTokenInv, pair, block

(* The registered tokens and the balances of a Two Token Pool.             *)
PairView ==
  /\ PairRegistered =>
       /\ RegisteredTokens = {tokenA, tokenB}
       /\ BalanceOf = [t \in {tokenA, tokenB} |->
                         IF t = tokenA THEN TwoToken!BalanceA(<<tokenA, tokenB>>)
                         ELSE TwoToken!BalanceB(<<tokenA, tokenB>>)]
  /\ NoneRegistered =>
       /\ RegisteredTokens = {}
       /\ BalanceOf = [t \in {} |-> EmptyBalance]

(* The pair seen as a plain store: one balance for each token.             *)
LEMMA TwoTokenView == TwoTokenInv /\ specialization = "TWO_TOKEN" => PairView
<1> SUFFICES ASSUME TwoTokenInv, specialization = "TWO_TOKEN"
             PROVE  PairView
  OBVIOUS
<1>1. RegisteredTokens = {tokenA, tokenB} \ {0} /\ BalanceOf = TwoToken!BalanceOfToken
  BY DEF RegisteredTokens, BalanceOf, TwoToken!RegisteredTokens, TwoToken!NoToken
<1>2. CASE PairRegistered
  <2>1. tokenA # 0 /\ tokenB # 0 /\ ~NoneRegistered
    BY <1>2, PairFacts DEF NoneRegistered
  <2> QED
    BY <1>1, <2>1 DEF TwoToken!BalanceOfToken, PairView, TwoToken!RegisteredTokens, TwoToken!NoToken
<1>3. CASE NoneRegistered
  <2>1. ~PairRegistered
    BY <1>3, StoreAssumption DEF PairRegistered, NoneRegistered
  <2>2. TwoToken!RegisteredTokens = {}
    BY <1>3 DEF TwoToken!RegisteredTokens, TwoToken!NoToken, NoneRegistered
  <2> QED
    BY <1>1, <2>1, <2>2, <1>3 DEF PairView, TwoToken!BalanceOfToken, NoneRegistered
<1> QED
  BY <1>2, <1>3 DEF TwoTokenInv

(* And in the next state.                                                  *)
LEMMA NextTwoTokenView == TwoTokenInv' /\ specialization' = "TWO_TOKEN" => PairView'
<1>1. (TwoTokenInv /\ specialization = "TWO_TOKEN" => PairView)'
  BY TwoTokenView, PTL
<1> QED
  BY <1>1

(* A Pool that stays a Two Token Pool, which all of its calls leave it.    *)
StaysTwoToken == specialization = "TWO_TOKEN" /\ specialization' = "TWO_TOKEN"

(* Rewriting the pair writes balances of the plain store, if the block     *)
(* that both then have is an old one or this one, as it must be for each.  *)
LEMMA RewrittenIsWriting ==
  ASSUME TwoTokenInv, PairRegistered, StaysTwoToken,
         NEW newA \in Balance, NEW newB \in Balance, IsBalance(newA), IsBalance(newB),
         newA.lastChangeBlock <= now, newB.lastChangeBlock <= now, Rewritten(newA, newB),
         NEW block \in Nat,
         block = IF newA.lastChangeBlock > newB.lastChangeBlock
                 THEN newA.lastChangeBlock ELSE newB.lastChangeBlock,
         \/ block = now
         \/ /\ block = sharedCash[<<tokenA, tokenB>>].lastChangeBlock
            /\ Total(newA) = Total(TwoToken!BalanceA(<<tokenA, tokenB>>))
            /\ Total(newB) = Total(TwoToken!BalanceB(<<tokenA, tokenB>>))
  PROVE  /\ TwoTokenInv'
         /\ Writing
         /\ RegisteredTokens = {tokenA, tokenB}
         /\ BalanceOf[tokenA] = TwoToken!BalanceA(<<tokenA, tokenB>>)
         /\ BalanceOf[tokenB] = TwoToken!BalanceB(<<tokenA, tokenB>>)
         /\ BalanceOf'[tokenA] = [newA EXCEPT !.lastChangeBlock = block]
         /\ BalanceOf'[tokenB] = [newB EXCEPT !.lastChangeBlock = block]
<1> DEFINE pair == <<tokenA, tokenB>>
           A == TwoToken!BalanceA(pair)
           B == TwoToken!BalanceB(pair)
           nA == [newA EXCEPT !.lastChangeBlock = block]
           nB == [newB EXCEPT !.lastChangeBlock = block]
<1>1. TwoTokenInv' /\ TwoToken!BalanceA(pair)' = nA /\ TwoToken!BalanceB(pair)' = nB
  BY RewrittenPair
<1>2. /\ RegisteredTokens = {tokenA, tokenB}
      /\ BalanceOf = [t \in {tokenA, tokenB} |-> IF t = tokenA THEN A ELSE B]
  BY TwoTokenView DEF PairView, StaysTwoToken
<1>3. tokenA' = tokenA /\ tokenB' = tokenB /\ now' = now
  BY DEF Rewritten
<1>4. PairRegistered'
  BY <1>3 DEF PairRegistered
<1>5. /\ RegisteredTokens' = {tokenA', tokenB'}
      /\ BalanceOf' = [t \in {tokenA', tokenB'} |->
                         IF t = tokenA' THEN TwoToken!BalanceA(pair)' ELSE TwoToken!BalanceB(pair)']
  BY <1>1, <1>4, NextTwoTokenView DEF PairView, StaysTwoToken
<1>6. tokenA # tokenB /\ A.lastChangeBlock = sharedCash[pair].lastChangeBlock
      /\ B.lastChangeBlock = sharedCash[pair].lastChangeBlock
  BY PairFacts
<1>7. /\ nA \in Balance /\ nB \in Balance /\ IsBalance(nA) /\ IsBalance(nB)
      /\ Total(nA) = Total(newA) /\ Total(nB) = Total(newB)
      /\ nA.lastChangeBlock = block /\ nB.lastChangeBlock = block
  BY DEF Balance, IsBalance, Total
<1> HIDE DEF A, B, nA, nB, pair
<1>8. /\ RegisteredTokens' = RegisteredTokens
      /\ BalanceOf' = [t \in {tokenA, tokenB} |-> IF t = tokenA THEN nA ELSE nB]
  BY <1>1, <1>2, <1>3, <1>5
<1>9. /\ BalanceOf[tokenA] = A /\ BalanceOf[tokenB] = B
      /\ BalanceOf'[tokenA] = nA /\ BalanceOf'[tokenB] = nB
  BY <1>2, <1>6, <1>8
<1>10. /\ block = now \/ (block = A.lastChangeBlock /\ Total(nA) = Total(A))
       /\ block = now \/ (block = B.lastChangeBlock /\ Total(nB) = Total(B))
  BY <1>6, <1>7 DEF A, B, pair
<1>11. BalanceOf' \in [RegisteredTokens -> Balance]
  BY <1>2, <1>7, <1>8
<1>12. Writing
  BY <1>2, <1>3, <1>7, <1>8, <1>9, <1>10, <1>11 DEF Writing
<1> QED
  BY <1>1, <1>2, <1>9, <1>12 DEF A, B, nA, nB, pair

(* A join, an exit or a swap: the cash of both tokens.                     *)
LEMMA CashOfPair ==
  ASSUME TwoTokenInv, PairRegistered, StaysTwoToken, NEW m \in Int, NEW n \in Int,
         NEW newA, NEW newB,
         newA = ChangeCash(TwoToken!BalanceA(<<tokenA, tokenB>>), m, now),
         newB = ChangeCash(TwoToken!BalanceB(<<tokenA, tokenB>>), n, now),
         IsBalance(newA), IsBalance(newB),
         sharedCash' = [sharedCash EXCEPT ![<<tokenA, tokenB>>] = TwoToken!ToSharedCash(newA, newB)],
         UNCHANGED <<now, tokenA, tokenB, sharedManaged>>
  PROVE  TwoTokenInv' /\ Pool!StoreNext
<1> DEFINE pair == <<tokenA, tokenB>>
           A == TwoToken!BalanceA(pair)
           B == TwoToken!BalanceB(pair)
<1>1. /\ A \in Balance /\ B \in Balance /\ now \in Nat /\ pair \in TwoToken!TokenPairs
      /\ sharedManaged \in [TwoToken!TokenPairs -> ManagedWords]
      /\ tokenA # tokenB
  BY PairFacts
<1>2. /\ newA \in Balance /\ newB \in Balance
      /\ newA.managed = A.managed /\ newB.managed = B.managed
      /\ newA.lastChangeBlock = now /\ newB.lastChangeBlock = now
  BY <1>1, MutationTypes, MutationEffects
<1>3. A.managed = sharedManaged[pair].a /\ B.managed = sharedManaged[pair].b
  BY DEF TwoToken!BalanceA, TwoToken!BalanceB
<1>4. sharedManaged[pair] \in ManagedWords
  BY <1>1
<1>5. sharedManaged[pair] = [a |-> newA.managed, b |-> newB.managed, lastChangeBlock |-> 0]
  BY <1>2, <1>3, <1>4 DEF ManagedWords
<1> HIDE DEF A, B
<1>6. Rewritten(newA, newB)
  <2>1. sharedManaged' = [sharedManaged EXCEPT ![pair] = sharedManaged[pair]]
    BY <1>1
  <2> QED
    BY <1>2, <1>5, <2>1 DEF Rewritten, TwoToken!ToSharedCash, TwoToken!Larger, TwoToken!Shared
<1>7. /\ TwoTokenInv' /\ Writing /\ RegisteredTokens = {tokenA, tokenB}
      /\ BalanceOf[tokenA] = A /\ BalanceOf[tokenB] = B
      /\ BalanceOf'[tokenA] = [newA EXCEPT !.lastChangeBlock = now]
      /\ BalanceOf'[tokenB] = [newB EXCEPT !.lastChangeBlock = now]
  <2>1. now = IF newA.lastChangeBlock > newB.lastChangeBlock
              THEN newA.lastChangeBlock ELSE newB.lastChangeBlock
    BY <1>2
  <2>2. newA.lastChangeBlock <= now /\ newB.lastChangeBlock <= now
    BY <1>1, <1>2
  <2> QED
    BY <1>1, <1>2, <1>6, <2>1, <2>2, RewrittenIsWriting DEF A, B
<1>8. /\ [newA EXCEPT !.lastChangeBlock = now].managed = A.managed
      /\ [newB EXCEPT !.lastChangeBlock = now].managed = B.managed
  BY <1>2 DEF Balance
<1> QED
  BY <1>7, <1>8, IsCashChanges

(* A call of an Asset Manager: one of the tokens, tokenA or tokenB.        *)
LEMMA ManagedOfPair ==
  ASSUME TwoTokenInv, PairRegistered, StaysTwoToken, NEW newA, NEW newB,
         NEW m \in Nat, NEW A, NEW B, NEW new,
         A = TwoToken!BalanceA(<<tokenA, tokenB>>), B = TwoToken!BalanceB(<<tokenA, tokenB>>),
         NEW old, 
         \/ newA = new /\ newB = B /\ old = A
         \/ newA = A /\ newB = new /\ old = B,
         new \in {CashToManaged(old, m), ManagedToCash(old, m), SetManaged(old, m, now)},
         IsBalance(newA), IsBalance(newB),
         sharedCash' = [sharedCash EXCEPT ![<<tokenA, tokenB>>] = TwoToken!ToSharedCash(newA, newB)],
         sharedManaged' = [sharedManaged EXCEPT ![<<tokenA, tokenB>>] = TwoToken!ToSharedManaged(newA, newB)],
         UNCHANGED <<now, tokenA, tokenB>>
  PROVE  TwoTokenInv' /\ Pool!StoreNext
<1>1. /\ A \in Balance /\ B \in Balance /\ now \in Nat /\ old \in Balance
      /\ tokenA # tokenB
      /\ A.lastChangeBlock = B.lastChangeBlock
      /\ A.lastChangeBlock = sharedCash[<<tokenA, tokenB>>].lastChangeBlock
      /\ A.lastChangeBlock <= now
      /\ old.lastChangeBlock = A.lastChangeBlock
  BY PairFacts
<1>2. IsBalance(new) /\ new \in Balance
  BY <1>1, MutationTypes
<1>3. /\ newA \in Balance /\ newB \in Balance
      /\ Rewritten(newA, newB)
  BY <1>1, <1>2 DEF Rewritten, TwoToken!ToSharedCash, TwoToken!ToSharedManaged, TwoToken!Larger,
                      TwoToken!Shared
<1>4. CASE new \in {CashToManaged(old, m), ManagedToCash(old, m)}
  <2>1. Total(new) = Total(old) /\ new.lastChangeBlock = old.lastChangeBlock
    <3>1. m \in Int
      OBVIOUS
    <3>2. CASE new = CashToManaged(old, m)
      BY <1>1, <3>1, <3>2, MutationEffects
    <3>3. CASE new = ManagedToCash(old, m)
      BY <1>1, <3>1, <3>3, MutationEffects
    <3> QED
      BY <1>4, <3>2, <3>3
  <2> DEFINE block == A.lastChangeBlock
  <2>2. /\ block \in Nat
        /\ newA.lastChangeBlock = block /\ newB.lastChangeBlock = block
        /\ Total(newA) = Total(A) /\ Total(newB) = Total(B)
    BY <1>1, <2>1 DEF Balance
  <2>3. /\ block = IF newA.lastChangeBlock > newB.lastChangeBlock
                   THEN newA.lastChangeBlock ELSE newB.lastChangeBlock
        /\ newA.lastChangeBlock <= now /\ newB.lastChangeBlock <= now
    BY <1>1, <2>2
  <2> HIDE DEF block
  <2>4. /\ TwoTokenInv' /\ Writing /\ RegisteredTokens = {tokenA, tokenB}
        /\ BalanceOf[tokenA] = A /\ BalanceOf[tokenB] = B
        /\ BalanceOf'[tokenA] = [newA EXCEPT !.lastChangeBlock = block]
        /\ BalanceOf'[tokenB] = [newB EXCEPT !.lastChangeBlock = block]
    <3>1. block = sharedCash[<<tokenA, tokenB>>].lastChangeBlock
      BY <1>1 DEF block
    <3> QED
      BY <1>3, <2>2, <2>3, <3>1, RewrittenIsWriting
  <2>5. [newA EXCEPT !.lastChangeBlock = block] = newA /\ [newB EXCEPT !.lastChangeBlock = block] = newB
    BY <1>3, <2>2 DEF Balance
  <2>6. CASE newB = B
    BY <1>1, <2>2, <2>4, <2>5, <2>6, IsCashIsManaged
  <2>7. CASE newA = A
    BY <1>1, <2>2, <2>4, <2>5, <2>7, IsCashIsManaged
  <2> QED
    BY <2>4, <2>6, <2>7
<1>5. CASE new = SetManaged(old, m, now)
  <2>1. new.cash = old.cash /\ new.lastChangeBlock = now
    BY <1>1, <1>5, MutationEffects
  <2>2. /\ now = IF newA.lastChangeBlock > newB.lastChangeBlock
                 THEN newA.lastChangeBlock ELSE newB.lastChangeBlock
        /\ newA.lastChangeBlock <= now /\ newB.lastChangeBlock <= now
    BY <1>1, <2>1 DEF Balance
  <2>3. /\ TwoTokenInv' /\ Writing /\ RegisteredTokens = {tokenA, tokenB}
        /\ BalanceOf[tokenA] = A /\ BalanceOf[tokenB] = B
        /\ BalanceOf'[tokenA] = [newA EXCEPT !.lastChangeBlock = now]
        /\ BalanceOf'[tokenB] = [newB EXCEPT !.lastChangeBlock = now]
    BY <1>1, <1>3, <2>2, RewrittenIsWriting
  <2>4. /\ BalanceOf'[tokenA].cash = newA.cash /\ BalanceOf'[tokenB].cash = newB.cash
        /\ BalanceOf'[tokenA].managed = newA.managed /\ BalanceOf'[tokenB].managed = newB.managed
    BY <1>3, <2>3 DEF Balance
  <2>5. newA.cash = A.cash /\ newB.cash = B.cash
    BY <2>1
  <2>6. \A s \in RegisteredTokens : BalanceOf'[s].cash = BalanceOf[s].cash
    BY <2>3, <2>4, <2>5
  <2>7. CASE newB = B
    <3>1. \A s \in RegisteredTokens : s # tokenA => BalanceOf'[s].managed = BalanceOf[s].managed
      BY <2>3, <2>4, <2>7
    <3> QED
      BY <2>3, <2>6, <3>1, IsManagedChanges
  <2>8. CASE newA = A
    <3>1. \A s \in RegisteredTokens : s # tokenB => BalanceOf'[s].managed = BalanceOf[s].managed
      BY <2>3, <2>4, <2>8
    <3> QED
      BY <2>3, <2>6, <3>1, IsManagedChanges
  <2> QED
    BY <2>3, <2>7, <2>8
<1> QED
  BY <1>4, <1>5

(* A pair is registered.                                                   *)
LEMMA RegisterPair ==
  ASSUME TwoTokenInv, StaysTwoToken, NEW x \in Tokens, NEW y \in Tokens, TwoToken!RegisterTokens(x, y)
  PROVE  TwoTokenInv' /\ Pool!StoreNext
<1>1. /\ x < y /\ x \in Nat /\ y \in Nat /\ x # 0 /\ y # 0
      /\ NoneRegistered
      /\ tokenA' = x /\ tokenB' = y
      /\ UNCHANGED <<now, sharedCash, sharedManaged>>
  BY StoreAssumption DEF TwoToken!RegisterTokens, TwoToken!NoToken, NoneRegistered
<1> DEFINE pair == <<x, y>>
<1>2. /\ pair \in TwoToken!TokenPairs
      /\ \A p \in TwoToken!TokenPairs :
           sharedCash[p] = TwoToken!NoShared /\ sharedManaged[p] = TwoToken!NoShared
  BY <1>1 DEF TwoToken!TokenPairs, TwoTokenInv, OthersAreEmpty
<1>3. PairRegistered' /\ <<tokenA, tokenB>>' = pair
  BY <1>1 DEF PairRegistered
<1> HIDE DEF pair
<1>4. TwoToken!BalanceA(pair)' = EmptyBalance /\ TwoToken!BalanceB(pair)' = EmptyBalance
  BY <1>1, <1>2 DEF TwoToken!BalanceA, TwoToken!BalanceB, TwoToken!NoShared, TwoToken!Shared,
                      EmptyBalance, pair
<1>5. TwoToken!TypeOK'
  BY <1>1 DEF TwoTokenInv, TwoToken!TypeOK
<1>6. OthersAreEmpty'
  BY <1>1, <1>2 DEF OthersAreEmpty
<1>7. PairFits'
  <2>1. sharedCash'[pair].lastChangeBlock <= now'
    BY <1>1, <1>2 DEF TwoToken!NoShared, TwoToken!Shared, TwoTokenInv, TwoToken!TypeOK
  <2> QED
    BY <1>3, <1>4, <2>1, EmptyIsBalance DEF PairFits
<1>8. TwoTokenInv'
  BY <1>3, <1>5, <1>6, <1>7 DEF TwoTokenInv
<1>9. RegisteredTokens = {}
  BY <1>1, TwoTokenView DEF PairView, StaysTwoToken
<1>10. /\ RegisteredTokens' = {x, y}
       /\ BalanceOf' = [t \in {x, y} |-> EmptyBalance]
  <2>1. /\ RegisteredTokens' = {tokenA', tokenB'}
        /\ BalanceOf' = [t \in {tokenA', tokenB'} |->
                           IF t = tokenA' THEN TwoToken!BalanceA(<<tokenA, tokenB>>)'
                           ELSE TwoToken!BalanceB(<<tokenA, tokenB>>)']
    BY <1>3, <1>8, NextTwoTokenView DEF PairView, StaysTwoToken
  <2> QED
    BY <1>1, <1>3, <1>4, <2>1
<1>11. Pool!StoreNext
  <2> DEFINE new == {x, y}
  <2>1. new \in SUBSET (Tokens \ RegisteredTokens) /\ RegisteredTokens' = RegisteredTokens \cup new
    BY <1>9, <1>10
  <2>2. BalanceOf' = [t \in RegisteredTokens \cup new |->
                        IF t \in RegisteredTokens THEN BalanceOf[t] ELSE EmptyBalance]
    BY <1>9, <1>10
  <2> HIDE DEF new
  <2> QED
    BY <1>1, <2>1, <2>2, IsRegister
<1> QED
  BY <1>8, <1>11

(* The pair leaves.  Its managed word is not cleared: it is zero already.  *)
LEMMA DeregisterPair ==
  ASSUME TwoTokenInv, StaysTwoToken, NEW x \in Tokens, NEW y \in Tokens, x # y,
         TwoToken!DeregisterTokens(x, y)
  PROVE  TwoTokenInv' /\ Pool!StoreNext
<1> DEFINE pair == <<tokenA, tokenB>>
           A == TwoToken!BalanceA(pair)
           B == TwoToken!BalanceB(pair)
<1>1. PairRegistered /\ TwoToken!Sorted(x, y) = pair
  BY OnlyTheRegisteredPair DEF TwoToken!DeregisterTokens
<1>2. /\ IsZero(A) /\ IsZero(B)
      /\ tokenA' = 0 /\ tokenB' = 0
      /\ sharedCash' = [sharedCash EXCEPT ![pair] = TwoToken!NoShared]
      /\ UNCHANGED <<now, sharedManaged>>
  BY <1>1, SameInTwoToken DEF TwoToken!DeregisterTokens
<1>3. /\ pair \in TwoToken!TokenPairs
      /\ sharedCash \in [TwoToken!TokenPairs -> CashWords]
      /\ sharedManaged \in [TwoToken!TokenPairs -> ManagedWords]
      /\ now \in Nat
  BY <1>1, PairFacts
<1>4. sharedManaged[pair] = TwoToken!NoShared
  <2>1. sharedManaged[pair] \in ManagedWords /\ sharedManaged[pair].a = 0 /\ sharedManaged[pair].b = 0
    BY <1>2, <1>3 DEF IsZero, TwoToken!BalanceA, TwoToken!BalanceB
  <2> QED
    BY <2>1 DEF ManagedWords, TwoToken!NoShared, TwoToken!Shared
<1>5. /\ RegisteredTokens = {tokenA, tokenB}
      /\ BalanceOf = [t \in {tokenA, tokenB} |-> IF t = tokenA THEN A ELSE B]
  BY <1>1, TwoTokenView DEF PairView, StaysTwoToken
<1>6. ~NoneRegistered
  BY <1>1, PairFacts DEF NoneRegistered
<1>7. \A p \in TwoToken!TokenPairs :
        sharedCash'[p] = TwoToken!NoShared /\ sharedManaged'[p] = TwoToken!NoShared
  BY <1>2, <1>3, <1>4, <1>6 DEF TwoTokenInv, OthersAreEmpty
<1>8. NoneRegistered' /\ ~PairRegistered'
  BY <1>2, StoreAssumption DEF NoneRegistered, PairRegistered
<1>9. TwoToken!TypeOK'
  <2>1. TwoToken!NoShared \in CashWords
    BY DEF TwoToken!NoShared, TwoToken!Shared, CashWords
  <2> QED
    BY <1>2, <1>3, <2>1 DEF TwoToken!TypeOK, TwoToken!NoToken, CashWords, ManagedWords
<1>10. TwoTokenInv'
  BY <1>7, <1>8, <1>9 DEF TwoTokenInv, OthersAreEmpty, PairFits
<1>11. RegisteredTokens' = {} /\ BalanceOf' = [t \in {} |-> EmptyBalance]
  BY <1>8, <1>10, NextTwoTokenView DEF PairView, StaysTwoToken
<1>12. Pool!StoreNext
  <2>1. \A t \in RegisteredTokens : IsZero(BalanceOf[t])
    BY <1>2, <1>5
  <2>2. RegisteredTokens' = RegisteredTokens \ RegisteredTokens
    BY <1>11
  <2>3. BalanceOf' = [t \in RegisteredTokens \ RegisteredTokens |-> BalanceOf[t]]
    BY <1>11
  <2> QED
    BY <1>2, <2>1, <2>2, <2>3, IsDeregister
<1> QED
  BY <1>10, <1>12

(* A call on a Two Token Pool is a step of the plain store and keeps the   *)
(* invariant.                                                              *)
LEMMA TwoTokenStep ==
  ASSUME DistinctPairs, TwoTokenInv, StaysTwoToken, TwoToken!Next
  PROVE  TwoTokenInv' /\ Pool!StoreNext
<1> DEFINE pair == <<tokenA, tokenB>>
           A == TwoToken!BalanceA(pair)
           B == TwoToken!BalanceB(pair)
<1>1. ASSUME NEW tokens \in TwoToken!Pairs(RegisterLists), TwoToken!RegisterTokens(tokens[1], tokens[2])
      PROVE  TwoTokenInv' /\ Pool!StoreNext
  <2>1. tokens[1] \in Tokens /\ tokens[2] \in Tokens
    BY StoreAssumption DEF TwoToken!Pairs
  <2> QED
    BY <1>1, <2>1, RegisterPair
<1>2. ASSUME NEW tokens \in TwoToken!Pairs(DeregisterLists), TwoToken!DeregisterTokens(tokens[1], tokens[2])
      PROVE  TwoTokenInv' /\ Pool!StoreNext
  <2>1. tokens[1] \in Tokens /\ tokens[2] \in Tokens /\ tokens[1] # tokens[2]
    BY StoreAssumption DEF TwoToken!Pairs, DistinctPairs
  <2> QED
    BY <1>2, <2>1, DeregisterPair
<1>3. ASSUME NEW m \in Deltas, NEW n \in Deltas, TwoToken!SetCashBalances(m, n)
      PROVE  TwoTokenInv' /\ Pool!StoreNext
  <2> DEFINE newA == ChangeCash(A, m, now)
             newB == ChangeCash(B, n, now)
  <2>1. /\ tokenA # 0
        /\ IsBalance(newA) /\ IsBalance(newB)
        /\ sharedCash' = [sharedCash EXCEPT ![pair] = TwoToken!ToSharedCash(newA, newB)]
        /\ UNCHANGED <<now, tokenA, tokenB, sharedManaged>>
    BY <1>3, SameInTwoToken DEF TwoToken!SetCashBalances
  <2>2. PairRegistered /\ m \in Int /\ n \in Int
    BY <2>1, AmountTypes DEF TwoTokenInv, NoneRegistered
  <2> QED
    BY <2>1, <2>2, CashOfPair
<1>4. ASSUME NEW x \in Tokens, NEW y \in Tokens, NEW m \in Amounts, NEW n \in Amounts,
             TwoToken!Swap(x, y, m, n)
      PROVE  TwoTokenInv' /\ Pool!StoreNext
  <2>1. x # y /\ TwoToken!PairIsRegistered(x, y)
    BY <1>4 DEF TwoToken!Swap
  <2>2. /\ PairRegistered /\ TwoToken!Sorted(x, y) = pair
        /\ m \in Int /\ -n \in Int /\ -m \in Int /\ n \in Int
    BY <2>1, OnlyTheRegisteredPair, AmountTypes
  <2>3. CASE x < y
    <3> DEFINE newA == ChangeCash(A, m, now)
               newB == ChangeCash(B, -n, now)
    <3>1. /\ IsBalance(newA) /\ IsBalance(newB)
          /\ sharedCash' = [sharedCash EXCEPT ![pair] = TwoToken!ToSharedCash(newA, newB)]
          /\ UNCHANGED <<now, tokenA, tokenB, sharedManaged>>
      BY <1>4, <2>2, <2>3, SameInTwoToken DEF TwoToken!Swap
    <3> QED
      BY <2>2, <3>1, CashOfPair
  <2>4. CASE ~(x < y)
    <3> DEFINE newA == ChangeCash(A, -n, now)
               newB == ChangeCash(B, m, now)
    <3>1. /\ IsBalance(newA) /\ IsBalance(newB)
          /\ sharedCash' = [sharedCash EXCEPT ![pair] = TwoToken!ToSharedCash(newA, newB)]
          /\ UNCHANGED <<now, tokenA, tokenB, sharedManaged>>
      BY <1>4, <2>2, <2>4, SameInTwoToken DEF TwoToken!Swap
    <3> QED
      BY <2>2, <3>1, CashOfPair
  <2> QED
    BY <2>3, <2>4
<1>5. ASSUME NEW x \in Tokens, NEW m \in Amounts, TwoToken!ManageBalance(x, m)
      PROVE  TwoTokenInv' /\ Pool!StoreNext
  <2> DEFINE old == IF x = tokenA THEN A ELSE B
  <2>1. PICK new \in {CashToManaged(old, m), ManagedToCash(old, m), SetManaged(old, m, now)} :
          LET newA == IF x = tokenA THEN new ELSE A
              newB == IF x = tokenA THEN B ELSE new
          IN  /\ x \in {tokenA, tokenB} /\ x # 0
              /\ IsBalance(newA) /\ IsBalance(newB)
              /\ sharedCash' = [sharedCash EXCEPT ![pair] = TwoToken!ToSharedCash(newA, newB)]
              /\ sharedManaged' = [sharedManaged EXCEPT ![pair] = TwoToken!ToSharedManaged(newA, newB)]
              /\ UNCHANGED <<now, tokenA, tokenB>>
    <3>1. CASE TwoToken!UpdateBalance(x, LAMBDA b : TwoToken!CashToManaged(b, m))
      BY <3>1, SameInTwoToken DEF TwoToken!UpdateBalance, TwoToken!IsRegistered
    <3>2. CASE TwoToken!UpdateBalance(x, LAMBDA b : TwoToken!ManagedToCash(b, m))
      BY <3>2, SameInTwoToken DEF TwoToken!UpdateBalance, TwoToken!IsRegistered
    <3>3. CASE TwoToken!UpdateBalance(x, LAMBDA b : TwoToken!SetManaged(b, m, now))
      BY <3>3, SameInTwoToken DEF TwoToken!UpdateBalance, TwoToken!IsRegistered
    <3> QED
      BY <1>5, <3>1, <3>2, <3>3 DEF TwoToken!ManageBalance
  <2>2. PairRegistered /\ m \in Nat
    BY <2>1, AmountTypes DEF TwoTokenInv, NoneRegistered
  <2> DEFINE newA == IF x = tokenA THEN new ELSE A
             newB == IF x = tokenA THEN B ELSE new
  <2>3. \/ newA = new /\ newB = B /\ old = A
        \/ newA = A /\ newB = new /\ old = B
    OBVIOUS
  <2> HIDE DEF A, B, old, newA, newB
  <2>4. /\ IsBalance(newA) /\ IsBalance(newB)
        /\ sharedCash' = [sharedCash EXCEPT ![pair] = TwoToken!ToSharedCash(newA, newB)]
        /\ sharedManaged' = [sharedManaged EXCEPT ![pair] = TwoToken!ToSharedManaged(newA, newB)]
        /\ UNCHANGED <<now, tokenA, tokenB>>
    BY <2>1 DEF newA, newB
  <2>5. A = TwoToken!BalanceA(<<tokenA, tokenB>>) /\ B = TwoToken!BalanceB(<<tokenA, tokenB>>)
    BY DEF A, B
  <2> QED
    BY <2>1, <2>2, <2>3, <2>4, <2>5, ManagedOfPair
<1>6. CASE TwoToken!Tick
  <2>1. now' = now + 1 /\ UNCHANGED <<tokenA, tokenB, sharedCash, sharedManaged>>
    BY <1>6 DEF TwoToken!Tick
  <2>2. now \in Nat
    BY DEF TwoTokenInv, TwoToken!TypeOK
  <2>3. TwoTokenInv'
    <3>1. TwoToken!TypeOK'
      BY <2>1, <2>2 DEF TwoTokenInv, TwoToken!TypeOK
    <3>2. (PairRegistered \/ NoneRegistered)' /\ OthersAreEmpty'
      BY <2>1 DEF TwoTokenInv, PairRegistered, NoneRegistered, OthersAreEmpty
    <3>3. PairFits'
      <4> SUFFICES ASSUME PairRegistered'
                   PROVE  /\ IsBalance(A)' /\ IsBalance(B)'
                          /\ sharedCash'[pair'].lastChangeBlock <= now'
        BY DEF PairFits
      <4>1. PairRegistered
        BY <2>1 DEF PairRegistered
      <4>2. /\ pair \in TwoToken!TokenPairs /\ sharedCash[pair] \in CashWords
            /\ sharedCash[pair].lastChangeBlock <= now /\ IsBalance(A) /\ IsBalance(B)
        BY <4>1, PairFacts
      <4> QED
        BY <2>1, <2>2, <4>2 DEF CashWords, TwoToken!BalanceA, TwoToken!BalanceB
    <3> QED
      BY <3>1, <3>2, <3>3 DEF TwoTokenInv
  <2>4. UNCHANGED <<RegisteredTokens, BalanceOf>>
    BY <2>1 DEF StaysTwoToken, RegisteredTokens, BalanceOf, TwoToken!RegisteredTokens, TwoToken!BalanceOfToken,
         TwoToken!BalanceA, TwoToken!BalanceB
  <2>5. now' > now
    BY <2>1, <2>2
  <2> QED
    BY <2>3, <2>4, <2>5, IsBlockPasses
<1> QED
  BY <1>1, <1>2, <1>3, <1>4, <1>5, <1>6, SameInTwoToken DEF TwoToken!Next

---------------------------------------------------------------------------
(* MinimalSwapInfoPoolsBalance.                                            *)

(* The inductive invariant.  That unregistered tokens have no balance is   *)
(* not enough for the refinement: they must not even have a last change    *)
(* block, for they would be registered with it.                            *)
Unregistered == \A t \in Tokens \ poolTokens : balances[t] = EmptyBalance

(* Every balance fits in the word it is packed in.                         *)
Fitting == \A t \in Tokens : IsBalance(balances[t])

MinimalInv == TypeOK /\ Unregistered /\ Fitting

(* What the getter relies on, from the invariant.                          *)
LEMMA OnlyRegistered ==
  ASSUME MinimalInv, NEW t \in Tokens, HasBalance(t)
  PROVE  t \in poolTokens
  BY DEF MinimalInv, Unregistered, HasBalance, IsZero, EmptyBalance

(* One token's balance is mutated.                                         *)
LEMMA UpdateKeepsMinimalInv ==
  ASSUME MinimalInv, NEW t \in Tokens, NEW new, UpdateBalance(t, new), IsBalance(new) => new \in Balance
  PROVE  MinimalInv' /\ t \in poolTokens
<1>1. t \in poolTokens
  BY OnlyRegistered DEF UpdateBalance
<1> QED
  BY <1>1 DEF MinimalInv, TypeOK, Unregistered, Fitting, UpdateBalance

(* A store begins with no token registered and no balance.                 *)
LEMMA MinimalInvInitially == Init => MinimalInv
  BY EmptyIsBalance DEF Init, MinimalInv, TypeOK, Unregistered, Fitting

(* Every call keeps it so.                                                 *)
LEMMA MinimalInvAlways == MinimalInv /\ [Next]_vars => MinimalInv'
<1> SUFFICES ASSUME MinimalInv, [Next]_vars
             PROVE  MinimalInv'
  OBVIOUS
<1>t. /\ now \in Nat /\ poolTokens \subseteq Tokens /\ balances \in [Tokens -> Balance]
      /\ \A t \in Tokens : balances[t] \in Balance
      /\ \A t \in Tokens \ poolTokens : balances[t] = EmptyBalance
      /\ \A t \in Tokens : IsBalance(balances[t])
  BY DEF MinimalInv, TypeOK, Unregistered, Fitting
<1>1. ASSUME NEW tokens \in RegisterLists, RegisterTokens(tokens)
      PROVE  MinimalInv'
  BY <1>1, <1>t, ListTypes DEF RegisterTokens, MinimalInv, TypeOK, Unregistered, Fitting
<1>2. ASSUME NEW tokens \in DeregisterLists, DeregisterTokens(tokens)
      PROVE  MinimalInv'
  <2>1. TypeOK'
    BY <1>2, <1>t, EmptyIsBalance DEF DeregisterTokens, TypeOK
  <2>2. Unregistered'
    BY <1>2, <1>t DEF DeregisterTokens, Unregistered
  <2>3. Fitting'
    BY <1>2, <1>t, EmptyIsBalance DEF DeregisterTokens, Fitting
  <2> QED
    BY <2>1, <2>2, <2>3 DEF MinimalInv
<1>3. ASSUME NEW delta \in [Tokens -> Deltas], SetBalances(delta)
      PROVE  MinimalInv'
  <2>1. \A t \in poolTokens : ChangeCash(balances[t], delta[t], now) \in Balance
    BY <1>3, <1>t, AmountTypes, MutationTypes DEF SetBalances
  <2>2. TypeOK'
    BY <1>3, <1>t, <2>1 DEF SetBalances, TypeOK
  <2>3. Unregistered'
    BY <1>3, <1>t DEF SetBalances, Unregistered
  <2>4. Fitting'
    BY <1>3, <1>t DEF SetBalances, Fitting
  <2> QED
    BY <2>2, <2>3, <2>4 DEF MinimalInv
<1>4. ASSUME NEW x \in Tokens, NEW y \in Tokens, NEW m \in Amounts, NEW n \in Amounts, Swap(x, y, m, n)
      PROVE  MinimalInv'
  <2>1. x \in poolTokens /\ y \in poolTokens
    BY <1>4, OnlyRegistered DEF Swap
  <2>2. m \in Int /\ -n \in Int
    BY AmountTypes
  <2>3. ChangeCash(balances[x], m, now) \in Balance /\ ChangeCash(balances[y], -n, now) \in Balance
    BY <1>4, <1>t, <2>2, MutationTypes DEF Swap
  <2>4. TypeOK'
    BY <1>4, <1>t, <2>3 DEF Swap, TypeOK
  <2>5. Unregistered'
    BY <1>4, <1>t, <2>1 DEF Swap, Unregistered
  <2>6. Fitting'
    BY <1>4, <1>t DEF Swap, Fitting
  <2> QED
    BY <2>4, <2>5, <2>6 DEF MinimalInv
<1>5. ASSUME NEW x \in Tokens, NEW m \in Amounts, ManageBalance(x, m)
      PROVE  MinimalInv'
  <2>1. m \in Int
    BY AmountTypes
  <2>2. CASE UpdateBalance(x, CashToManaged(balances[x], m))
    BY <2>1, <2>2, <1>t, MutationTypes, UpdateKeepsMinimalInv
  <2>3. CASE UpdateBalance(x, ManagedToCash(balances[x], m))
    BY <2>1, <2>3, <1>t, MutationTypes, UpdateKeepsMinimalInv
  <2>4. CASE UpdateBalance(x, SetManaged(balances[x], m, now))
    BY <2>1, <2>4, <1>t, MutationTypes, UpdateKeepsMinimalInv
  <2> QED
    BY <1>5, <2>2, <2>3, <2>4 DEF ManageBalance
<1>6. CASE Tick
  BY <1>6, <1>t DEF Tick, MinimalInv, TypeOK, Unregistered, Fitting
<1>7. CASE UNCHANGED vars
  BY <1>7 DEF vars, MinimalInv, TypeOK, Unregistered, Fitting
<1> QED
  BY <1>1, <1>2, <1>3, <1>4, <1>5, <1>6, <1>7 DEF Next

(* A token with a balance is registered, whatever lists of tokens are      *)
(* registered and deregistered: the getter may skip the check of the set.  *)
THEOREM NonzeroIsAlwaysRegistered == Spec => []NonzeroIsRegistered
<1>1. MinimalInv => NonzeroIsRegistered
  BY DEF MinimalInv, Unregistered, NonzeroIsRegistered, IsZero, EmptyBalance
<1> QED
  BY MinimalInvInitially, MinimalInvAlways, <1>1, PTL DEF Spec

(* The registered tokens and the balances of a Minimal Swap Info Pool.     *)
MinimalView == RegisteredTokens = poolTokens /\ BalanceOf = [t \in poolTokens |-> balances[t]]

IsMinimal == specialization = "MINIMAL_SWAP_INFO"

(* The registered tokens and the balances are those in its variables.      *)
LEMMA MinimalSwapInfoView == IsMinimal => MinimalView
  BY DEF IsMinimal, MinimalView, RegisteredTokens, BalanceOf, BalanceOfToken

(* And in the next state.                                                  *)
LEMMA NextMinimalView == IsMinimal' => MinimalView'
  BY MinimalSwapInfoView, PTL

(* A step that only writes balances, with the block of the change, writes  *)
(* those of the plain store.                                               *)
LEMMA MinimalWriting ==
  ASSUME MinimalInv, MinimalInv', IsMinimal, IsMinimal', UNCHANGED <<now, poolTokens>>,
         \A t \in poolTokens :
           /\ balances'[t].lastChangeBlock \in {balances[t].lastChangeBlock, now}
           /\ Total(balances'[t]) # Total(balances[t]) => balances'[t].lastChangeBlock = now
  PROVE  /\ Writing
         /\ RegisteredTokens = poolTokens
         /\ \A t \in poolTokens : BalanceOf[t] = balances[t] /\ BalanceOf'[t] = balances'[t]
<1>1. /\ RegisteredTokens = poolTokens /\ RegisteredTokens' = poolTokens
      /\ BalanceOf = [t \in poolTokens |-> balances[t]]
      /\ BalanceOf' = [t \in poolTokens |-> balances'[t]]
  BY MinimalSwapInfoView, NextMinimalView DEF MinimalView
<1>2. \A t \in poolTokens : balances'[t] \in Balance /\ IsBalance(balances'[t])
  BY DEF MinimalInv, TypeOK, Fitting
<1> QED
  BY <1>1, <1>2 DEF Writing

(* When only the balance of t is written, with one of the mutations.       *)
LEMMA MinimalUpdate ==
  ASSUME MinimalInv, MinimalInv', IsMinimal, IsMinimal',
         NEW t \in poolTokens, NEW new, UpdateBalance(t, new),
         \/ /\ Total(new) = Total(balances[t])
            /\ new.lastChangeBlock = balances[t].lastChangeBlock
         \/ /\ new.cash = balances[t].cash
            /\ new.lastChangeBlock = now
  PROVE  Pool!StoreNext
<1>1. /\ t \in Tokens /\ poolTokens \subseteq Tokens
      /\ balances' = [balances EXCEPT ![t] = new]
      /\ UNCHANGED <<now, poolTokens>>
      /\ balances'[t] = new
      /\ \A s \in poolTokens : s # t => balances'[s] = balances[s]
  BY DEF MinimalInv, TypeOK, UpdateBalance
<1>2. /\ Writing
      /\ RegisteredTokens = poolTokens
      /\ \A s \in poolTokens : BalanceOf[s] = balances[s] /\ BalanceOf'[s] = balances'[s]
  BY <1>1, MinimalWriting
<1>3. CASE Total(new) = Total(balances[t])
  BY <1>1, <1>2, <1>3, IsCashIsManaged
<1>4. CASE new.cash = balances[t].cash
  <2>1. \A s \in RegisteredTokens : BalanceOf'[s].cash = BalanceOf[s].cash
    BY <1>1, <1>2, <1>4
  <2>2. \A s \in RegisteredTokens : s # t => BalanceOf'[s].managed = BalanceOf[s].managed
    BY <1>1, <1>2
  <2> QED
    BY <1>2, <2>1, <2>2, IsManagedChanges
<1> QED
  BY <1>3, <1>4

(* A call on a Minimal Swap Info Pool is a step of the plain store.        *)
LEMMA MinimalStep ==
  ASSUME MinimalInv, MinimalInv', IsMinimal, IsMinimal', Next
  PROVE  Pool!StoreNext
<1>t. /\ now \in Nat /\ poolTokens \subseteq Tokens /\ balances \in [Tokens -> Balance]
      /\ \A t \in Tokens : balances[t] \in Balance
      /\ \A t \in Tokens \ poolTokens : balances[t] = EmptyBalance
  BY DEF MinimalInv, TypeOK, Unregistered
<1>v. /\ RegisteredTokens = poolTokens /\ RegisteredTokens' = poolTokens'
      /\ BalanceOf = [t \in poolTokens |-> balances[t]]
      /\ BalanceOf' = [t \in poolTokens' |-> balances'[t]]
  BY MinimalSwapInfoView, NextMinimalView DEF MinimalView
<1>1. ASSUME NEW tokens \in RegisterLists, RegisterTokens(tokens)
      PROVE  Pool!StoreNext
  <2> DEFINE new == Range(tokens)
  <2>1. new \in SUBSET (Tokens \ RegisteredTokens)
    BY <1>1, <1>v, ListTypes DEF RegisterTokens
  <2>2. /\ UNCHANGED <<now, balances>> /\ poolTokens' = poolTokens \cup new
        /\ \A t \in new : t \notin poolTokens /\ balances[t] = EmptyBalance
    BY <1>1, <2>1, <1>t, <1>v DEF RegisterTokens
  <2> HIDE DEF new
  <2>3. BalanceOf' = [t \in RegisteredTokens \cup new |->
                        IF t \in RegisteredTokens THEN BalanceOf[t] ELSE EmptyBalance]
    BY <1>v, <2>2
  <2> QED
    BY <1>v, <2>1, <2>2, <2>3, IsRegister
<1>2. ASSUME NEW tokens \in DeregisterLists, DeregisterTokens(tokens)
      PROVE  Pool!StoreNext
  <2> DEFINE old == Range(tokens)
  <2>1. /\ old \in SUBSET RegisteredTokens
        /\ \A t \in old : IsZero(BalanceOf[t])
        /\ UNCHANGED now
        /\ poolTokens' = poolTokens \ old
        /\ \A t \in poolTokens \ old : balances'[t] = balances[t]
    BY <1>2, <1>t, <1>v DEF DeregisterTokens
  <2> HIDE DEF old
  <2>2. BalanceOf' = [t \in RegisteredTokens \ old |-> BalanceOf[t]]
    BY <1>v, <2>1
  <2> QED
    BY <1>v, <2>1, <2>2, IsDeregister
<1>3. ASSUME NEW delta \in [Tokens -> Deltas], SetBalances(delta)
      PROVE  Pool!StoreNext
  <2>1. UNCHANGED <<now, poolTokens>>
    BY <1>3 DEF SetBalances
  <2>2. \A t \in poolTokens : delta[t] \in Int /\ balances[t] \in Balance
    BY <1>t, AmountTypes
  <2>3. \A t \in poolTokens : balances'[t] = ChangeCash(balances[t], delta[t], now)
    BY <1>3, <1>t DEF SetBalances
  <2>4. \A t \in poolTokens : balances'[t].managed = balances[t].managed /\ balances'[t].lastChangeBlock = now
    BY <1>t, <2>2, <2>3, MutationEffects
  <2> QED
    BY <2>1, <2>4, MinimalWriting, IsCashChanges
<1>4. ASSUME NEW x \in Tokens, NEW y \in Tokens, NEW m \in Amounts, NEW n \in Amounts, Swap(x, y, m, n)
      PROVE  Pool!StoreNext
  <2>1. x \in poolTokens /\ y \in poolTokens /\ UNCHANGED <<now, poolTokens>> /\ x # y
    BY <1>4, OnlyRegistered DEF Swap
  <2>2. m \in Int /\ -n \in Int
    BY AmountTypes
  <2>3. /\ balances'[x] = ChangeCash(balances[x], m, now)
        /\ balances'[y] = ChangeCash(balances[y], -n, now)
        /\ \A t \in poolTokens : t # x /\ t # y => balances'[t] = balances[t]
    BY <1>4, <1>t DEF Swap
  <2>4. \A t \in poolTokens :
          /\ balances'[t].managed = balances[t].managed
          /\ balances'[t].lastChangeBlock = now \/ balances'[t] = balances[t]
    BY <1>t, <2>2, <2>3, MutationEffects
  <2> QED
    BY <2>1, <2>4, MinimalWriting, IsCashChanges
<1>5. ASSUME NEW x \in Tokens, NEW m \in Amounts, ManageBalance(x, m)
      PROVE  Pool!StoreNext
  <2>1. m \in Int /\ x \in poolTokens /\ balances[x] \in Balance
    BY <1>5, <1>t, AmountTypes DEF ManageBalance
  <2>2. CASE UpdateBalance(x, CashToManaged(balances[x], m))
    BY <2>1, <2>2, <1>t, MutationEffects, MinimalUpdate
  <2>3. CASE UpdateBalance(x, ManagedToCash(balances[x], m))
    BY <2>1, <2>3, <1>t, MutationEffects, MinimalUpdate
  <2>4. CASE UpdateBalance(x, SetManaged(balances[x], m, now))
    BY <2>1, <2>4, <1>t, MutationEffects, MinimalUpdate
  <2> QED
    BY <1>5, <2>2, <2>3, <2>4 DEF ManageBalance
<1>6. CASE Tick
  BY <1>6, <1>t, <1>v, IsBlockPasses DEF Tick
<1> QED
  BY <1>1, <1>2, <1>3, <1>4, <1>5, <1>6 DEF Next

---------------------------------------------------------------------------
(* EnumerableMap.                                                          *)

(* The same map serves two users, with keys and values of their own.       *)
EntryOf(K, V) == [key : K, value : V]

MapOf(K, V) == [entries : Seq(EntryOf(K, V)), indexes : [K -> Nat]]

EmptyOf(K) == [entries |-> <<>>, indexes |-> [k \in K |-> 0]]

Agreeing(m, K) ==
    /\ \A i \in DOMAIN m.entries : m.indexes[m.entries[i].key] = i
    /\ \A k \in K : Contains(m, k) =>
         m.indexes[k] \in DOMAIN m.entries /\ m.entries[m.indexes[k]].key = k

FunctionOf(m, K) == [k \in {x \in K : Contains(m, x)} |-> Get(m, k)]

(* What both rely on: a well-typed map whose indexes agree with its        *)
(* entries.                                                                *)
Sound(m, K, V) == m \in MapOf(K, V) /\ Agreeing(m, K)

(* The empty map is sound.                                                 *)
LEMMA EmptyIsSound == ASSUME NEW K, NEW V PROVE Sound(EmptyOf(K), K, V)
<1>1. EmptyOf(K).entries = <<>> /\ DOMAIN EmptyOf(K).entries = {}
  BY DEF EmptyOf
<1>2. \A k \in K : ~Contains(EmptyOf(K), k)
  BY DEF EmptyOf, Contains
<1>3. EmptyOf(K) \in MapOf(K, V)
  BY DEF EmptyOf, MapOf
<1> QED
  BY <1>1, <1>2, <1>3 DEF Sound, Agreeing

(* In a sound map every index is that of an entry, and different entries   *)
(* have different keys.                                                    *)
LEMMA SoundFacts ==
  ASSUME NEW K, NEW V, NEW m, Sound(m, K, V)
  PROVE  /\ m.entries \in Seq(EntryOf(K, V))
         /\ m.indexes \in [K -> Nat]
         /\ Len(m.entries) \in Nat
         /\ DOMAIN m.entries = 1 .. Len(m.entries)
         /\ \A i \in 1 .. Len(m.entries) :
              /\ m.entries[i] \in EntryOf(K, V)
              /\ m.entries[i].key \in K
              /\ m.entries[i].value \in V
              /\ m.indexes[m.entries[i].key] = i
         /\ \A k \in K : m.indexes[k] # 0 =>
              m.indexes[k] \in 1 .. Len(m.entries) /\ m.entries[m.indexes[k]].key = k
         /\ m = [entries |-> m.entries, indexes |-> m.indexes]
<1>1. m.entries \in Seq(EntryOf(K, V)) /\ m.indexes \in [K -> Nat]
      /\ m = [entries |-> m.entries, indexes |-> m.indexes]
  BY DEF Sound, MapOf
<1>2. Len(m.entries) \in Nat /\ DOMAIN m.entries = 1 .. Len(m.entries)
  BY <1>1, LenProperties
<1>3. \A i \in 1 .. Len(m.entries) :
        m.entries[i] \in EntryOf(K, V) /\ m.entries[i].key \in K /\ m.entries[i].value \in V
  <2> TAKE i \in 1 .. Len(m.entries)
  <2>1. m.entries[i] \in EntryOf(K, V)
    BY <1>1, ElementOfSeq
  <2> QED
    BY <2>1 DEF EntryOf
<1> QED
  BY <1>1, <1>2, <1>3 DEF Sound, Agreeing, Contains

(* Writing the value of entry i keeps the map sound and changes the value  *)
(* of that entry's key only.                                               *)
LEMMA SetAtIsUpdate ==
  ASSUME NEW K, NEW V, NEW m, Sound(m, K, V), NEW i \in DOMAIN m.entries, NEW v \in V
  PROVE  /\ Sound(SetAt(m, i, v), K, V)
         /\ m.entries[i].key \in DOMAIN FunctionOf(m, K)
         /\ FunctionOf(SetAt(m, i, v), K) = Updated(FunctionOf(m, K), m.entries[i].key, v)
<1> DEFINE e == [m.entries[i] EXCEPT !.value = v]
           es == [m.entries EXCEPT ![i] = e]
           n == SetAt(m, i, v)
<1>1. i \in 1 .. Len(m.entries) /\ m.entries[i] \in EntryOf(K, V)
  BY SoundFacts
<1>2. e \in EntryOf(K, V) /\ e.key = m.entries[i].key /\ e.value = v
  BY <1>1 DEF EntryOf
<1>3. n = [entries |-> es, indexes |-> m.indexes]
  BY SoundFacts DEF SetAt
<1> HIDE DEF e
<1>4. /\ es \in Seq(EntryOf(K, V))
      /\ Len(es) = Len(m.entries)
      /\ DOMAIN es = 1 .. Len(m.entries)
      /\ \A j \in 1 .. Len(m.entries) : es[j] = IF j = i THEN e ELSE m.entries[j]
  BY <1>1, <1>2, SoundFacts, ExceptSeq
<1>5. \A j \in 1 .. Len(m.entries) : es[j].key = m.entries[j].key
  BY <1>2, <1>4
<1> HIDE DEF es, n
<1>6. n \in MapOf(K, V)
  BY <1>3, <1>4, SoundFacts DEF MapOf
<1>7. Agreeing(n, K)
  <2>1. n.entries = es /\ n.indexes = m.indexes
    BY <1>3
  <2>2. ASSUME NEW j \in DOMAIN es
        PROVE  m.indexes[es[j].key] = j
    <3>1. m.indexes[m.entries[j].key] = j
      BY <1>4, SoundFacts
    <3> QED
      BY <3>1, <1>4, <1>5
  <2>3. ASSUME NEW k \in K, m.indexes[k] # 0
        PROVE  m.indexes[k] \in DOMAIN es /\ es[m.indexes[k]].key = k
    <3>1. m.indexes[k] \in 1 .. Len(m.entries) /\ m.entries[m.indexes[k]].key = k
      BY <2>3, SoundFacts
    <3> QED
      BY <3>1, <1>4, <1>5
  <2> QED
    BY <2>1, <2>2, <2>3 DEF Agreeing, Contains
<1>8. m.entries[i].key \in DOMAIN FunctionOf(m, K)
  BY <1>1, SoundFacts DEF FunctionOf, Contains
<1>9. \A k \in K : Contains(n, k) <=> Contains(m, k)
  BY <1>3 DEF Contains
<1>10. ASSUME NEW k \in K, Contains(m, k)
       PROVE  Get(n, k) = IF k = m.entries[i].key THEN v ELSE Get(m, k)
  <2>1. m.indexes[k] \in 1 .. Len(m.entries) /\ m.entries[m.indexes[k]].key = k
    BY <1>10, SoundFacts DEF Contains
  <2>2. m.indexes[k] = i <=> k = m.entries[i].key
    BY <2>1, <1>1, SoundFacts
  <2> QED
    BY <1>2, <1>3, <1>4, <2>1, <2>2 DEF Get
<1>11. FunctionOf(n, K) = Updated(FunctionOf(m, K), m.entries[i].key, v)
  BY <1>8, <1>9, <1>10 DEF FunctionOf, Updated
<1> QED
  BY <1>6, <1>7, <1>8, <1>11 DEF Sound, n

(* Putting a value under a key keeps the map sound and changes the value   *)
(* of that key only, be it present or not.                                 *)
LEMMA PutIsUpdate ==
  ASSUME NEW K, NEW V, NEW m, Sound(m, K, V), NEW k \in K, NEW v \in V
  PROVE  /\ Sound(Put(m, k, v), K, V)
         /\ FunctionOf(Put(m, k, v), K) = Updated(FunctionOf(m, K), k, v)
<1>1. CASE Contains(m, k)
  <2>1. m.indexes[k] \in DOMAIN m.entries /\ m.entries[m.indexes[k]].key = k
    BY <1>1, SoundFacts DEF Contains
  <2>2. Put(m, k, v) = SetAt(m, m.indexes[k], v)
    BY <1>1 DEF Put
  <2> DEFINE i == m.indexes[k]
  <2> HIDE DEF i
  <2>3. i \in DOMAIN m.entries /\ m.entries[i].key = k /\ Put(m, k, v) = SetAt(m, i, v)
    BY <2>1, <2>2 DEF i
  <2>4. /\ Sound(SetAt(m, i, v), K, V)
        /\ FunctionOf(SetAt(m, i, v), K) = Updated(FunctionOf(m, K), m.entries[i].key, v)
    BY <2>3, SetAtIsUpdate
  <2> QED
    BY <2>3, <2>4
<1>2. CASE ~Contains(m, k)
  <2> DEFINE len == Len(m.entries)
             e == [key |-> k, value |-> v]
             es == Append(m.entries, e)
             is == [m.indexes EXCEPT ![k] = len + 1]
             n == Put(m, k, v)
  <2>1. n = [entries |-> es, indexes |-> is]
    BY <1>2 DEF Put
  <2>2. e \in EntryOf(K, V)
    BY DEF EntryOf
  <2>3. len \in Nat /\ m.indexes \in [K -> Nat] /\ m.entries \in Seq(EntryOf(K, V))
    BY SoundFacts
  <2> HIDE DEF e
  <2>4. /\ es \in Seq(EntryOf(K, V))
        /\ Len(es) = len + 1
        /\ \A i \in 1 .. len : es[i] = m.entries[i]
        /\ es[len + 1] = e
    BY <2>2, <2>3, AppendProperties
  <2>5. DOMAIN es = 1 .. len + 1
    BY <2>4, LenProperties
  <2>6. is \in [K -> Nat] /\ \A x \in K : is[x] = IF x = k THEN len + 1 ELSE m.indexes[x]
    BY <2>3
  <2>7. e.key = k /\ e.value = v
    BY DEF e
  <2> HIDE DEF es, is, len, n
  <2>8. n \in MapOf(K, V)
    BY <2>1, <2>4, <2>6 DEF MapOf
  <2>9. ASSUME NEW i \in DOMAIN es
        PROVE  is[es[i].key] = i
    <3>1. CASE i = len + 1
      BY <3>1, <2>4, <2>6, <2>7
    <3>2. CASE i \in 1 .. len
      <4>1. m.entries[i].key \in K /\ m.indexes[m.entries[i].key] = i
        BY <3>2, SoundFacts DEF len
      <4>2. m.entries[i].key # k
        BY <4>1, <3>2, <1>2, <2>3 DEF Contains
      <4> QED
        BY <3>2, <4>1, <4>2, <2>4, <2>6
    <3> QED
      BY <2>5, <2>3, <3>1, <3>2
  <2>10. ASSUME NEW x \in K, is[x] # 0
         PROVE  is[x] \in DOMAIN es /\ es[is[x]].key = x
    <3>1. CASE x = k
      BY <3>1, <2>3, <2>4, <2>5, <2>6, <2>7
    <3>2. CASE x # k
      <4>1. is[x] = m.indexes[x] /\ m.indexes[x] \in 1 .. len /\ m.entries[m.indexes[x]].key = x
        BY <3>2, <2>6, <2>10, SoundFacts DEF len
      <4> QED
        BY <4>1, <2>3, <2>4, <2>5
    <3> QED
      BY <3>1, <3>2
  <2>11. Agreeing(n, K)
    BY <2>1, <2>9, <2>10 DEF Agreeing, Contains
  <2>12. ASSUME NEW x \in K
         PROVE  Contains(n, x) <=> x = k \/ Contains(m, x)
    BY <2>1, <2>3, <2>6 DEF Contains
  <2>13. ASSUME NEW x \in K, Contains(n, x)
         PROVE  Get(n, x) = IF x = k THEN v ELSE Get(m, x)
    <3>1. CASE x = k
      BY <3>1, <2>1, <2>4, <2>6, <2>7 DEF Get
    <3>2. CASE x # k
      <4>1. is[x] = m.indexes[x] /\ m.indexes[x] \in 1 .. len
        BY <3>2, <2>1, <2>6, <2>13, SoundFacts DEF len, Contains
      <4> QED
        BY <3>2, <4>1, <2>1, <2>4 DEF Get
    <3> QED
      BY <3>1, <3>2
  <2>14. FunctionOf(n, K) = Updated(FunctionOf(m, K), k, v)
    BY <2>12, <2>13 DEF FunctionOf, Updated
  <2> QED
    BY <2>8, <2>11, <2>14 DEF Sound, n
<1> QED
  BY <1>1, <1>2

(* Removing a key keeps the map sound, with the moved entry at its new     *)
(* index, and leaves the values of all other keys.                         *)
LEMMA RemoveIsUpdate ==
  ASSUME NEW K, NEW V, NEW m, Sound(m, K, V), NEW k \in K
  PROVE  /\ Sound(Remove(m, k), K, V)
         /\ FunctionOf(Remove(m, k), K) = Without(FunctionOf(m, K), k)
<1>1. CASE ~Contains(m, k)
  <2>1. Remove(m, k) = m
    BY <1>1 DEF Remove
  <2>2. FunctionOf(m, K) = Without(FunctionOf(m, K), k)
    BY <1>1 DEF FunctionOf, Without
  <2> QED
    BY <2>1, <2>2
<1>2. CASE Contains(m, k)
  <2> DEFINE len == Len(m.entries)
             i == m.indexes[k]
             last == m.entries[len]
             swapped == [m.entries EXCEPT ![i] = last]
             es == SubSeq(swapped, 1, len - 1)
             is == [m.indexes EXCEPT ![last.key] = i, ![k] = 0]
             n == Remove(m, k)
  <2>1. n = [entries |-> es, indexes |-> is]
    BY <1>2 DEF Remove
  <2>2. i \in 1 .. len /\ m.entries[i].key = k /\ len \in Nat \ {0}
    BY <1>2, SoundFacts DEF Contains
  <2>3. last \in EntryOf(K, V) /\ last.key \in K /\ m.indexes[last.key] = len
    BY <2>2, SoundFacts
  <2>4. \A j \in 1 .. len - 1 : swapped[j] = IF j = i THEN last ELSE m.entries[j]
    BY <2>2, SoundFacts
  <2>5. \A j \in 1 .. len - 1 : swapped[j] \in EntryOf(K, V)
    BY <2>2, <2>3, <2>4, SoundFacts
  <2> HIDE DEF swapped, last
  <2>6. /\ es \in Seq(EntryOf(K, V))
        /\ Len(es) = len - 1
        /\ \A j \in 1 .. len - 1 : es[j] = swapped[j]
    BY <2>2, <2>5, SubSeqProperties
  <2>7. DOMAIN es = 1 .. len - 1
    BY <2>6, LenProperties
  <2>8. \A j \in 1 .. len - 1 : es[j] = IF j = i THEN last ELSE m.entries[j]
    BY <2>4, <2>6
  <2>9. /\ is \in [K -> Nat]
        /\ \A x \in K : is[x] = IF x = k THEN 0 ELSE IF x = last.key THEN i ELSE m.indexes[x]
    BY <2>2, <2>3, SoundFacts
  <2>10. last.key = k <=> i = len
    BY <2>2, <2>3 DEF last
  <2> HIDE DEF es, is, i, n
  <2>11. n \in MapOf(K, V)
    BY <2>1, <2>6, <2>9 DEF MapOf
  <2>12. ASSUME NEW j \in 1 .. len - 1
         PROVE  is[es[j].key] = j
    <3>1. CASE j = i
      BY <3>1, <2>2, <2>3, <2>8, <2>9, <2>10
    <3>2. CASE j # i
      <4>1. m.entries[j].key \in K /\ m.indexes[m.entries[j].key] = j
        BY SoundFacts, <2>2
      <4>2. m.entries[j].key # k /\ m.entries[j].key # last.key
        BY <4>1, <3>2, <2>2, <2>3 DEF i
      <4> QED
        BY <3>2, <4>1, <4>2, <2>8, <2>9
    <3> QED
      BY <3>1, <3>2
  <2>13. ASSUME NEW x \in K, x # k, m.indexes[x] # 0
         PROVE  is[x] \in 1 .. len - 1 /\ es[is[x]].key = x /\ es[is[x]].value = Get(m, x)
    <3>1. m.indexes[x] \in 1 .. len /\ m.entries[m.indexes[x]].key = x
      BY <2>13, SoundFacts
    <3>2. m.indexes[x] # i
      BY <3>1, <2>2, <2>13
    <3>3. CASE x = last.key
      <4>1. m.indexes[x] = len /\ is[x] = i
        BY <3>3, <2>3, <2>9, <2>13
      <4>2. i \in 1 .. len - 1
        BY <4>1, <3>2, <2>2
      <4>3. es[is[x]] = last /\ last = m.entries[m.indexes[x]]
        BY <4>1, <4>2, <2>8 DEF last
      <4> QED
        BY <4>1, <4>2, <4>3, <3>1 DEF Get
    <3>4. CASE x # last.key
      <4>1. is[x] = m.indexes[x]
        BY <3>4, <2>9, <2>13
      <4>2. m.indexes[x] # len
        BY <3>1, <3>4 DEF last
      <4>3. is[x] \in 1 .. len - 1
        BY <4>1, <4>2, <3>1, <2>2
      <4>4. es[is[x]] = m.entries[m.indexes[x]]
        BY <4>1, <4>3, <3>2, <2>8
      <4> QED
        BY <4>3, <4>4, <3>1 DEF Get
    <3> QED
      BY <3>3, <3>4
  <2>14. ASSUME NEW x \in K
         PROVE  is[x] # 0 <=> x # k /\ m.indexes[x] # 0
    <3>1. CASE x = k
      BY <3>1, <2>9
    <3>2. CASE x # k /\ m.indexes[x] # 0
      BY <3>2, <2>13
    <3>3. CASE x # k /\ m.indexes[x] = 0
      BY <3>3, <2>2, <2>3, <2>9
    <3> QED
      BY <3>1, <3>2, <3>3
  <2>15. Agreeing(n, K)
    BY <2>1, <2>7, <2>12, <2>13, <2>14 DEF Agreeing, Contains
  <2>16. ASSUME NEW x \in K
         PROVE  Contains(n, x) <=> x # k /\ Contains(m, x)
    BY <2>1, <2>14 DEF Contains
  <2>17. ASSUME NEW x \in K, x # k, Contains(m, x)
         PROVE  Get(n, x) = Get(m, x)
    <3>1. es[is[x]].value = Get(m, x)
      BY <2>13, <2>17 DEF Contains
    <3> QED
      BY <3>1, <2>1 DEF Get
  <2>18. FunctionOf(n, K) = Without(FunctionOf(m, K), k)
    <3> HIDE DEF len
    <3> QED
      BY <2>16, <2>17 DEF FunctionOf, Without
  <2> QED
    BY <2>11, <2>15, <2>18 DEF Sound, n
<1> QED
  BY <1>1, <1>2

---------------------------------------------------------------------------
(* The invariant: the map is sound, whatever is done with it.              *)
MapInv == Sound(map, Keys, Values)

(* The map of the module is the one above, of its keys and values.         *)
LEMMA OwnMap ==
  /\ EmptyMap = EmptyOf(Keys)
  /\ \A m : Consistent(m) <=> Agreeing(m, Keys)
  /\ \A m : AsFunction(m) = FunctionOf(m, Keys)
  BY DEF EmptyMap, EmptyOf, Consistent, Agreeing, AsFunction, FunctionOf

(* A map begins empty.                                                     *)
LEMMA MapInvInitially == MapInit => MapInv
  BY EmptyIsSound, OwnMap DEF MapInit, MapInv

(* Every operation on a sound map leaves a sound map.                      *)
LEMMA MapInvAlways == MapInv /\ [MapNext]_map => MapInv'
<1> SUFFICES ASSUME MapInv, [MapNext]_map
             PROVE  Sound(map', Keys, Values)
  BY DEF MapInv, Sound, Agreeing, Contains, MapOf, EntryOf
<1>1. ASSUME NEW k \in Keys, NEW v \in Values, map' = Put(map, k, v)
      PROVE  Sound(map', Keys, Values)
  BY <1>1, PutIsUpdate DEF MapInv
<1>2. ASSUME NEW k \in Keys, map' = Remove(map, k)
      PROVE  Sound(map', Keys, Values)
  BY <1>2, RemoveIsUpdate DEF MapInv
<1>3. ASSUME NEW i \in DOMAIN map.entries, NEW v \in Values, map' = SetAt(map, i, v)
      PROVE  Sound(map', Keys, Values)
  BY <1>3, SetAtIsUpdate DEF MapInv
<1>4. CASE UNCHANGED map
  BY <1>4 DEF MapInv
<1> QED
  BY <1>1, <1>2, <1>3, <1>4 DEF MapNext

(* In every reachable map the indexes and the entries agree: a key has one *)
(* entry, found at its index, after any sequence of set, remove and        *)
(* unchecked_setAt.                                                        *)
THEOREM IndexesAlwaysAgree == MapSpec => []IndexesAgree
<1>1. MapInv => IndexesAgree
  BY OwnMap DEF MapInv, Sound, IndexesAgree
<1> QED
  BY MapInvInitially, MapInvAlways, <1>1, PTL DEF MapSpec

(* One step of the map changes or removes the value of one key.            *)
LEMMA StepIsUpdate ==
  ASSUME MapInv, MapNext
  PROVE  \E k \in Keys :
           \/ \E v \in Values : AsFunction(map') = Updated(AsFunction(map), k, v)
           \/ AsFunction(map') = Without(AsFunction(map), k)
<1>1. ASSUME NEW k \in Keys, NEW v \in Values, map' = Put(map, k, v)
      PROVE  AsFunction(map') = Updated(AsFunction(map), k, v)
  BY <1>1, PutIsUpdate, OwnMap DEF MapInv
<1>2. ASSUME NEW k \in Keys, map' = Remove(map, k)
      PROVE  AsFunction(map') = Without(AsFunction(map), k)
  BY <1>2, RemoveIsUpdate, OwnMap DEF MapInv
<1>3. ASSUME NEW i \in DOMAIN map.entries, NEW v \in Values, map' = SetAt(map, i, v)
      PROVE  \E k \in Keys : AsFunction(map') = Updated(AsFunction(map), k, v)
  <2> DEFINE k == map.entries[i].key
  <2>1. k \in Keys
    BY SoundFacts DEF MapInv
  <2>2. AsFunction(map') = Updated(AsFunction(map), k, v)
    BY <1>3, SetAtIsUpdate, OwnMap DEF MapInv
  <2> HIDE DEF k
  <2> QED
    BY <2>1, <2>2
<1> QED
  BY <1>1, <1>2, <1>3 DEF MapNext

(* The pseudo-array with its indexes implements a function from keys to    *)
(* values: every operation updates or removes exactly one key.             *)
THEOREM IsAFunction == MapSpec => BehavesAsFunction
<1>1. MapInv /\ [MapNext]_map =>
        [\E k \in Keys :
           \/ \E v \in Values : AsFunction(map') = Updated(AsFunction(map), k, v)
           \/ AsFunction(map') = Without(AsFunction(map), k)]_map
  BY StepIsUpdate
<1> QED
  BY MapInvInitially, MapInvAlways, <1>1, PTL DEF MapSpec, BehavesAsFunction

---------------------------------------------------------------------------
(* GeneralPoolsBalance.                                                    *)

(* Its map is the one above, of tokens and balances.                       *)
LEMMA GeneralMap ==
  /\ \A m, k : General!M!Contains(m, k) <=> Contains(m, k)
  /\ \A m, k : General!M!Get(m, k) = Get(m, k)
  /\ \A m, i, v : General!M!SetAt(m, i, v) = SetAt(m, i, v)
  /\ \A m, k, v : General!M!Put(m, k, v) = Put(m, k, v)
  /\ \A m, k : General!M!Remove(m, k) = Remove(m, k)
  /\ General!M!EmptyMap = EmptyOf(Tokens)
  /\ \A m : General!M!AsFunction(m) = FunctionOf(m, Tokens)
  /\ General!M!Map = MapOf(Tokens, Balance)
<1>1. \A m, k : General!M!Contains(m, k) <=> Contains(m, k)
  BY DEF General!M!Contains, Contains
<1>2. \A m, k : General!M!Get(m, k) = Get(m, k)
  BY DEF General!M!Get, Get
<1>3. \A m, i, v : General!M!SetAt(m, i, v) = SetAt(m, i, v)
  BY DEF General!M!SetAt, SetAt
<1>4. \A m, k, v : General!M!Put(m, k, v) = Put(m, k, v)
  BY <1>1, <1>3 DEF General!M!Put, Put
<1>5. \A m, k : General!M!Remove(m, k) = Remove(m, k)
  BY <1>1 DEF General!M!Remove, Remove
<1>6. General!M!EmptyMap = EmptyOf(Tokens)
  BY DEF General!M!EmptyMap, EmptyOf
<1>7. \A m : General!M!AsFunction(m) = FunctionOf(m, Tokens)
  BY <1>1, <1>2 DEF General!M!AsFunction, FunctionOf
<1>8. General!M!Map = MapOf(Tokens, Balance)
  BY SameInGeneral DEF General!M!Map, General!M!Entry, MapOf, EntryOf
<1> QED
  BY <1>1, <1>2, <1>3, <1>4, <1>5, <1>6, <1>7, <1>8

SoundPool(m) == Sound(m, Tokens, Balance)
BalancesIn(m) == FunctionOf(m, Tokens)
TokensIn(m) == {t \in Tokens : Contains(m, t)}

(* The inductive invariant.                                                *)
GeneralInv ==
  /\ now \in Nat
  /\ SoundPool(poolBalances)
  /\ \A t \in TokensIn(poolBalances) : IsBalance(BalancesIn(poolBalances)[t])

(* The registered tokens and the balances of a General Pool.               *)
IsGeneral == specialization = "GENERAL"
ViewedAs(m) == RegisteredTokens = TokensIn(m) /\ BalanceOf = BalancesIn(m)
GeneralView == ViewedAs(poolBalances)

(* They are those in its map.                                              *)
LEMMA GeneralPoolView == IsGeneral => GeneralView
  BY GeneralMap DEF IsGeneral, GeneralView, ViewedAs, RegisteredTokens, BalanceOf,
     General!RegisteredTokens, General!BalanceOfToken, TokensIn, BalancesIn

(* And in the next state.                                                  *)
LEMMA NextGeneralView == IsGeneral' => GeneralView'
  BY GeneralPoolView, PTL

(* The balances in a sound map.                                            *)
LEMMA BalancesInMap ==
  ASSUME NEW m, SoundPool(m)
  PROVE  /\ BalancesIn(m) \in [TokensIn(m) -> Balance]
         /\ DOMAIN BalancesIn(m) = TokensIn(m)
         /\ TokensIn(m) \subseteq Tokens
         /\ \A t \in TokensIn(m) :
              /\ BalancesIn(m)[t] = m.entries[m.indexes[t]].value
              /\ m.indexes[t] \in 1 .. Len(m.entries)
              /\ m.entries[m.indexes[t]].key = t
              /\ BalancesIn(m)[t] \in Balance
<1>1. ASSUME NEW t \in TokensIn(m)
      PROVE  /\ BalancesIn(m)[t] = m.entries[m.indexes[t]].value
             /\ m.indexes[t] \in 1 .. Len(m.entries)
             /\ m.entries[m.indexes[t]].key = t
             /\ m.entries[m.indexes[t]].value \in Balance
  BY SoundFacts DEF SoundPool, TokensIn, BalancesIn, FunctionOf, Get, Contains
<1> QED
  BY <1>1 DEF TokensIn, BalancesIn, FunctionOf

(* The map after a call determines the invariant and the view after it.    *)
LEMMA NextGeneral ==
  ASSUME IsGeneral, IsGeneral', NEW m, poolBalances' = m, SoundPool(m), now' \in Nat,
         \A t \in TokensIn(m) : IsBalance(BalancesIn(m)[t])
  PROVE  /\ GeneralInv'
         /\ RegisteredTokens = TokensIn(poolBalances) /\ BalanceOf = BalancesIn(poolBalances)
         /\ RegisteredTokens' = TokensIn(m) /\ BalanceOf' = BalancesIn(m)
<1>1. RegisteredTokens' = TokensIn(m) /\ BalanceOf' = BalancesIn(m)
  BY NextGeneralView DEF GeneralView, ViewedAs, TokensIn, BalancesIn, FunctionOf, Contains, Get
<1>2. RegisteredTokens = TokensIn(poolBalances) /\ BalanceOf = BalancesIn(poolBalances)
  BY GeneralPoolView DEF GeneralView, ViewedAs
<1>3. GeneralInv'
  BY DEF GeneralInv, SoundPool, TokensIn, BalancesIn, FunctionOf, Contains, Get, Sound, Agreeing
<1> QED
  BY <1>1, <1>2, <1>3

(* Writing balances of the tokens that are there.                          *)
LEMMA GeneralWriting ==
  ASSUME GeneralInv, IsGeneral, IsGeneral', NEW m, poolBalances' = m, UNCHANGED now,
         SoundPool(m), NEW f, BalancesIn(m) = f, DOMAIN f = TokensIn(poolBalances),
         \A t \in TokensIn(poolBalances) :
           /\ IsBalance(f[t])
           /\ f[t].lastChangeBlock \in {BalancesIn(poolBalances)[t].lastChangeBlock, now}
           /\ Total(f[t]) # Total(BalancesIn(poolBalances)[t]) => f[t].lastChangeBlock = now
  PROVE  /\ GeneralInv'
         /\ Writing
         /\ RegisteredTokens = TokensIn(poolBalances)
         /\ BalanceOf = BalancesIn(poolBalances)
         /\ BalanceOf' = f
<1>1. /\ TokensIn(m) = TokensIn(poolBalances)
      /\ f \in [TokensIn(m) -> Balance]
  BY BalancesInMap
<1>2. /\ GeneralInv'
      /\ RegisteredTokens = TokensIn(poolBalances) /\ BalanceOf = BalancesIn(poolBalances)
      /\ RegisteredTokens' = TokensIn(m) /\ BalanceOf' = BalancesIn(m)
  BY <1>1, NextGeneral DEF GeneralInv
<1> QED
  BY <1>1, <1>2 DEF Writing

---------------------------------------------------------------------------
(* The loop of registerTokens.                                             *)
LEMMA PutsLoop ==
  ASSUME SoundPool(poolBalances), NEW tokens \in Seq(Tokens)
  PROVE  LET after == General!AfterPuts(tokens)
         IN  /\ after[0] = poolBalances
             /\ \A n \in 1 .. Len(tokens) : after[n] = Put(after[n - 1], tokens[n], EmptyBalance)
<1> DEFINE L == Len(tokens)
           S == {m \in MapOf(Tokens, Balance) : SoundPool(m)}
           g == [n \in 1 .. L |-> [m \in S |-> Put(m, tokens[n], EmptyBalance)]]
           IsLoop(f) == f = [n \in 0 .. L |-> IF n = 0 THEN poolBalances
                                              ELSE Put(f[n - 1], tokens[n], EmptyBalance)]
<1>1. L \in Nat /\ \A n \in 1 .. L : tokens[n] \in Tokens
  BY ElementOfSeq, LenProperties
<1>2. ASSUME NEW n \in 1 .. L, NEW m \in S
      PROVE  Put(m, tokens[n], EmptyBalance) \in S
  <2>1. tokens[n] \in Tokens /\ Sound(m, Tokens, Balance)
    BY <1>1 DEF SoundPool
  <2>2. Sound(Put(m, tokens[n], EmptyBalance), Tokens, Balance)
    BY <2>1, EmptyIsBalance, PutIsUpdate
  <2> QED
    BY <2>2 DEF Sound, SoundPool
<1>3. poolBalances \in S
  BY DEF SoundPool, Sound
<1> HIDE DEF S, L
<1>4. \A n \in 1 .. L : g[n] \in [S -> S]
  BY <1>2
<1> HIDE DEF g
<1>5. PICK f \in [0 .. L -> S] : Iterates(f, g, poolBalances, L)
  BY <1>1, <1>3, <1>4, LoopExists
<1>6. ASSUME NEW n \in 0 .. L, n # 0
      PROVE  g[n][f[n - 1]] = Put(f[n - 1], tokens[n], EmptyBalance)
  <2>1. n \in 1 .. L /\ n - 1 \in 0 .. L
    BY <1>1, <1>6 DEF L
  <2>2. f[n - 1] \in S
    BY <1>5, <2>1
  <2> QED
    BY <2>1, <2>2 DEF g
<1>7. IsLoop(f)
  BY <1>5, <1>6 DEF Iterates
<1>8. General!AfterPuts(tokens) = CHOOSE after : IsLoop(after)
  BY GeneralMap, SameInGeneral DEF General!AfterPuts, L
<1> DEFINE after == General!AfterPuts(tokens)
<1>9. IsLoop(after)
  BY <1>7, <1>8
<1> HIDE DEF after
<1>10. after[0] = poolBalances
  BY <1>1, <1>9 DEF L
<1>11. ASSUME NEW n \in 1 .. L
       PROVE  after[n] = Put(after[n - 1], tokens[n], EmptyBalance)
  <2>1. n \in 0 .. L /\ n # 0
    BY <1>1 DEF L
  <2> QED
    BY <1>9, <2>1
<1> QED
  BY <1>10, <1>11 DEF after, L

(* Registering tokens one after the other, none of which is there before   *)
(* its turn, adds those tokens with no balance.                            *)
LEMMA RegisterGeneral ==
  ASSUME GeneralInv, IsGeneral, IsGeneral', NEW tokens \in RegisterLists, General!RegisterTokens(tokens)
  PROVE  GeneralInv' /\ Pool!StoreNext
<1> DEFINE after == General!AfterPuts(tokens)
           L == Len(tokens)
           old == TokensIn(poolBalances)
           bal == BalancesIn(poolBalances)
           first(n) == {tokens[i] : i \in 1 .. n}
<1>1. /\ tokens \in Seq(Tokens) /\ L \in Nat /\ DOMAIN tokens = 1 .. L
      /\ \A n \in 1 .. L : tokens[n] \in Tokens
  BY StoreAssumption, ElementOfSeq, LenProperties
<1>2. /\ after[0] = poolBalances
      /\ \A n \in 1 .. L : after[n] = Put(after[n - 1], tokens[n], EmptyBalance)
  BY <1>1, PutsLoop DEF GeneralInv
<1>3. /\ \A n \in 1 .. L : ~Contains(after[n - 1], tokens[n])
      /\ poolBalances' = after[L] /\ now' = now
  BY <1>1, GeneralMap DEF General!RegisterTokens
<1> HIDE DEF after, L
<1>4. bal \in [old -> Balance] /\ old \subseteq Tokens
  BY BalancesInMap DEF GeneralInv
<1> DEFINE Done(n) ==
             /\ SoundPool(after[n])
             /\ first(n) \cap old = {}
             /\ BalancesIn(after[n]) = [t \in old \cup first(n) |-> IF t \in old THEN bal[t] ELSE EmptyBalance]
           T == {n \in 0 .. L : Done(n)}
<1>5. 0 \in T
  <2>1. first(0) = {}
    OBVIOUS
  <2>2. bal = [t \in old \cup first(0) |-> IF t \in old THEN bal[t] ELSE EmptyBalance]
    BY <1>4, <2>1
  <2> QED
    BY <1>1, <1>2, <2>1, <2>2 DEF GeneralInv
<1>6. ASSUME NEW n \in 0 .. L, n + 1 \in 0 .. L, n \in T
      PROVE  n + 1 \in T
  <2> DEFINE t0 == tokens[n + 1]
             f == BalancesIn(after[n])
  <2>1. n + 1 \in 1 .. L /\ (n + 1) - 1 = n
    BY <1>6
  <2>2. after[n + 1] = Put(after[n], t0, EmptyBalance) /\ ~Contains(after[n], t0) /\ t0 \in Tokens
    BY <1>1, <1>2, <1>3, <2>1
  <2>3. Done(n)
    BY <1>6
  <2>4. Sound(after[n], Tokens, Balance) /\ EmptyBalance \in Balance
    BY <2>3, EmptyIsBalance DEF SoundPool
  <2>5. /\ Sound(after[n + 1], Tokens, Balance)
        /\ FunctionOf(after[n + 1], Tokens) = Updated(FunctionOf(after[n], Tokens), t0, EmptyBalance)
    BY <2>2, <2>4, PutIsUpdate
  <2>6. DOMAIN f = old \cup first(n) /\ DOMAIN f = TokensIn(after[n])
    BY <2>3, BalancesInMap
  <2>7. t0 \notin old \cup first(n)
    BY <2>2, <2>6 DEF TokensIn
  <2>8. first(n + 1) = first(n) \cup {t0}
    <3>1. \A i : i \in 1 .. n + 1 <=> i \in 1 .. n \/ i = n + 1
      BY <1>6
    <3> QED
      BY <3>1
  <2> HIDE DEF first, t0
  <2>9. BalancesIn(after[n + 1]) =
          [t \in old \cup first(n + 1) |-> IF t \in old THEN bal[t] ELSE EmptyBalance]
    <3>1. BalancesIn(after[n + 1]) = [t \in DOMAIN f \cup {t0} |-> IF t = t0 THEN EmptyBalance ELSE f[t]]
      BY <2>5 DEF BalancesIn, Updated
    <3>2. f = [t \in old \cup first(n) |-> IF t \in old THEN bal[t] ELSE EmptyBalance]
      BY <2>3
    <3>3. DOMAIN f \cup {t0} = old \cup first(n + 1)
      BY <2>6, <2>8
    <3> HIDE DEF f
    <3>4. \A t \in old \cup first(n + 1) :
            (IF t = t0 THEN EmptyBalance ELSE f[t]) = (IF t \in old THEN bal[t] ELSE EmptyBalance)
      BY <2>7, <2>8, <3>2
    <3> QED
      BY <3>1, <3>3, <3>4
  <2>10. first(n + 1) \cap old = {}
    BY <2>3, <2>7, <2>8
  <2>11. SoundPool(after[n + 1])
    BY <2>5 DEF SoundPool
  <2> QED
    BY <1>6, <2>9, <2>10, <2>11
<1> HIDE DEF T
<1>7. \A n \in 0 .. L : n + 1 \in 0 .. L /\ n \in T => n + 1 \in T
  BY <1>6
<1>8. 0 .. L \subseteq T
  BY <1>1, <1>5, <1>7, UpTo DEF L
<1>9. Done(L)
  <2>1. L \in T
    BY <1>1, <1>8
  <2> QED
    BY <2>1 DEF T
<1> DEFINE new == first(L)
<1> HIDE DEF first
<1>10. DOMAIN BalancesIn(after[L]) = TokensIn(after[L])
  BY <1>9, BalancesInMap
<1>11. TokensIn(after[L]) = old \cup new
  BY <1>9, <1>10
<1>12. \A t \in TokensIn(after[L]) : IsBalance(BalancesIn(after[L])[t])
  BY <1>9, <1>11, EmptyIsBalance DEF GeneralInv
<1>13. now' \in Nat
  BY <1>3 DEF GeneralInv
<1> HIDE DEF new, old, bal
<1>14. /\ GeneralInv'
       /\ RegisteredTokens = old /\ BalanceOf = bal
       /\ RegisteredTokens' = old \cup new /\ BalanceOf' = BalancesIn(after[L])
  BY <1>3, <1>9, <1>11, <1>12, <1>13, NextGeneral DEF old, bal
<1>15. new \in SUBSET (Tokens \ RegisteredTokens)
  BY <1>1, <1>9, <1>14 DEF new, first, L
<1> QED
  BY <1>3, <1>9, <1>14, <1>15, IsRegister DEF new

---------------------------------------------------------------------------
(* The loop of deregisterTokens.                                           *)
LEMMA RemovesLoop ==
  ASSUME SoundPool(poolBalances), NEW tokens \in Seq(Tokens)
  PROVE  LET after == General!AfterRemoves(tokens)
         IN  /\ after[0] = poolBalances
             /\ \A n \in 1 .. Len(tokens) : after[n] = Remove(after[n - 1], tokens[n])
<1> DEFINE L == Len(tokens)
           S == {m \in MapOf(Tokens, Balance) : SoundPool(m)}
           g == [n \in 1 .. L |-> [m \in S |-> Remove(m, tokens[n])]]
           IsLoop(f) == f = [n \in 0 .. L |-> IF n = 0 THEN poolBalances
                                              ELSE Remove(f[n - 1], tokens[n])]
<1>1. L \in Nat /\ \A n \in 1 .. L : tokens[n] \in Tokens
  BY ElementOfSeq, LenProperties
<1>2. ASSUME NEW n \in 1 .. L, NEW m \in S
      PROVE  Remove(m, tokens[n]) \in S
  <2>1. tokens[n] \in Tokens /\ Sound(m, Tokens, Balance)
    BY <1>1 DEF SoundPool
  <2>2. Sound(Remove(m, tokens[n]), Tokens, Balance)
    BY <2>1, RemoveIsUpdate
  <2> QED
    BY <2>2 DEF Sound, SoundPool
<1>3. poolBalances \in S
  BY DEF SoundPool, Sound
<1> HIDE DEF S, L
<1>4. \A n \in 1 .. L : g[n] \in [S -> S]
  BY <1>2
<1> HIDE DEF g
<1>5. PICK f \in [0 .. L -> S] : Iterates(f, g, poolBalances, L)
  BY <1>1, <1>3, <1>4, LoopExists
<1>6. ASSUME NEW n \in 0 .. L, n # 0
      PROVE  g[n][f[n - 1]] = Remove(f[n - 1], tokens[n])
  <2>1. n \in 1 .. L /\ n - 1 \in 0 .. L
    BY <1>1, <1>6 DEF L
  <2>2. f[n - 1] \in S
    BY <1>5, <2>1
  <2> QED
    BY <2>1, <2>2 DEF g
<1>7. IsLoop(f)
  BY <1>5, <1>6 DEF Iterates
<1>8. General!AfterRemoves(tokens) = CHOOSE after : IsLoop(after)
  BY GeneralMap DEF General!AfterRemoves, L
<1> DEFINE after == General!AfterRemoves(tokens)
<1>9. IsLoop(after)
  BY <1>7, <1>8
<1> HIDE DEF after
<1>10. after[0] = poolBalances
  BY <1>1, <1>9 DEF L
<1>11. ASSUME NEW n \in 1 .. L
       PROVE  after[n] = Remove(after[n - 1], tokens[n])
  <2>1. n \in 0 .. L /\ n # 0
    BY <1>1 DEF L
  <2> QED
    BY <1>9, <2>1
<1> QED
  BY <1>10, <1>11 DEF after, L

(* Removing tokens one after the other, each of which is there and has no  *)
(* balance, leaves the balances of all others, wherever they move.         *)
LEMMA DeregisterGeneral ==
  ASSUME GeneralInv, IsGeneral, IsGeneral', NEW tokens \in DeregisterLists, General!DeregisterTokens(tokens)
  PROVE  GeneralInv' /\ Pool!StoreNext
<1> DEFINE after == General!AfterRemoves(tokens)
           L == Len(tokens)
           old == TokensIn(poolBalances)
           bal == BalancesIn(poolBalances)
           first(n) == {tokens[i] : i \in 1 .. n}
<1>1. /\ tokens \in Seq(Tokens) /\ L \in Nat /\ DOMAIN tokens = 1 .. L
      /\ \A n \in 1 .. L : tokens[n] \in Tokens
  BY StoreAssumption, ElementOfSeq, LenProperties
<1>2. /\ after[0] = poolBalances
      /\ \A n \in 1 .. L : after[n] = Remove(after[n - 1], tokens[n])
  BY <1>1, RemovesLoop DEF GeneralInv
<1>3. /\ \A n \in 1 .. L : Contains(after[n - 1], tokens[n]) /\ IsZero(Get(after[n - 1], tokens[n]))
      /\ poolBalances' = after[L] /\ now' = now
  BY <1>1, GeneralMap, SameInGeneral DEF General!DeregisterTokens, General!MayRemove
<1> HIDE DEF after, L
<1>4. bal \in [old -> Balance] /\ old \subseteq Tokens
  BY BalancesInMap DEF GeneralInv
<1> DEFINE Done(n) ==
             /\ SoundPool(after[n])
             /\ first(n) \subseteq old
             /\ \A t \in first(n) : IsZero(bal[t])
             /\ BalancesIn(after[n]) = [t \in old \ first(n) |-> bal[t]]
           T == {n \in 0 .. L : Done(n)}
<1>5. 0 \in T
  <2>1. first(0) = {}
    OBVIOUS
  <2>2. bal = [t \in old \ first(0) |-> bal[t]]
    BY <1>4, <2>1
  <2> QED
    BY <1>1, <1>2, <2>1, <2>2 DEF GeneralInv
<1>6. ASSUME NEW n \in 0 .. L, n + 1 \in 0 .. L, n \in T
      PROVE  n + 1 \in T
  <2> DEFINE t0 == tokens[n + 1]
             f == BalancesIn(after[n])
  <2>1. n + 1 \in 1 .. L /\ (n + 1) - 1 = n
    BY <1>6
  <2>2. /\ after[n + 1] = Remove(after[n], t0)
        /\ Contains(after[n], t0) /\ t0 \in Tokens
        /\ IsZero(Get(after[n], t0))
    BY <1>1, <1>2, <1>3, <2>1
  <2>3. Done(n)
    BY <1>6
  <2>4. Sound(after[n], Tokens, Balance)
    BY <2>3 DEF SoundPool
  <2>5. /\ Sound(after[n + 1], Tokens, Balance)
        /\ FunctionOf(after[n + 1], Tokens) = Without(FunctionOf(after[n], Tokens), t0)
    BY <2>2, <2>4, RemoveIsUpdate
  <2>6. /\ DOMAIN f = old \ first(n) /\ DOMAIN f = TokensIn(after[n])
        /\ f = [t \in old \ first(n) |-> bal[t]]
    BY <2>3, BalancesInMap
  <2>7. t0 \in old \ first(n) /\ f[t0] = Get(after[n], t0) /\ IsZero(bal[t0])
    <3>1. t0 \in old \ first(n)
      BY <2>2, <2>6 DEF TokensIn
    <3>2. f[t0] = Get(after[n], t0)
      BY <2>2 DEF BalancesIn, FunctionOf
    <3> QED
      BY <3>1, <3>2, <2>2, <2>6
  <2>8. first(n + 1) = first(n) \cup {t0}
    <3>1. \A i : i \in 1 .. n + 1 <=> i \in 1 .. n \/ i = n + 1
      BY <1>6
    <3> QED
      BY <3>1
  <2> HIDE DEF first, t0
  <2>9. BalancesIn(after[n + 1]) = [t \in old \ first(n + 1) |-> bal[t]]
    <3>1. BalancesIn(after[n + 1]) = [t \in DOMAIN f \ {t0} |-> f[t]]
      BY <2>5 DEF BalancesIn, Without
    <3> HIDE DEF f
    <3>2. DOMAIN f \ {t0} = old \ first(n + 1)
      BY <2>6, <2>8
    <3>3. \A t \in old \ first(n + 1) : f[t] = bal[t]
      BY <2>6, <2>8
    <3> QED
      BY <3>1, <3>2, <3>3
  <2>10. first(n + 1) \subseteq old /\ \A t \in first(n + 1) : IsZero(bal[t])
    BY <2>3, <2>7, <2>8
  <2>11. SoundPool(after[n + 1])
    BY <2>5 DEF SoundPool
  <2> QED
    BY <1>6, <2>9, <2>10, <2>11
<1> HIDE DEF T
<1>7. \A n \in 0 .. L : n + 1 \in 0 .. L /\ n \in T => n + 1 \in T
  BY <1>6
<1>8. 0 .. L \subseteq T
  BY <1>1, <1>5, <1>7, UpTo DEF L
<1>9. Done(L)
  <2>1. L \in T
    BY <1>1, <1>8
  <2> QED
    BY <2>1 DEF T
<1> DEFINE gone == first(L)
<1> HIDE DEF first
<1>10. DOMAIN BalancesIn(after[L]) = TokensIn(after[L])
  BY <1>9, BalancesInMap
<1>11. TokensIn(after[L]) = old \ gone
  BY <1>9, <1>10
<1>12. \A t \in TokensIn(after[L]) : IsBalance(BalancesIn(after[L])[t])
  BY <1>9, <1>11 DEF GeneralInv
<1>13. now' \in Nat
  BY <1>3 DEF GeneralInv
<1> HIDE DEF gone, old, bal
<1>14. /\ GeneralInv'
       /\ RegisteredTokens = old /\ BalanceOf = bal
       /\ RegisteredTokens' = old \ gone /\ BalanceOf' = BalancesIn(after[L])
  BY <1>3, <1>9, <1>11, <1>12, <1>13, NextGeneral DEF old, bal
<1>15. gone \in SUBSET RegisteredTokens
  BY <1>9, <1>14 DEF gone
<1> QED
  BY <1>3, <1>9, <1>14, <1>15, IsDeregister DEF gone

---------------------------------------------------------------------------
(* The loop of joins and exits, which writes the entries by position.      *)
IsChangesLoop(after, changed) ==
  /\ after[0] = poolBalances
  /\ \A n \in 1 .. Len(poolBalances.entries) : after[n] = SetAt(after[n - 1], n, changed[n])
  /\ poolBalances' = after[Len(poolBalances.entries)]

(* It exists, if what it writes are balances.                              *)
LEMMA ChangesLoop ==
  ASSUME SoundPool(poolBalances), NEW delta, General!SetBalances(delta),
         NEW changed,
         changed = [i \in 1 .. Len(poolBalances.entries) |->
                      ChangeCash(poolBalances.entries[i].value, delta[poolBalances.entries[i].key], now)],
         \A i \in 1 .. Len(poolBalances.entries) : changed[i] \in Balance
  PROVE  \E after : IsChangesLoop(after, changed)
<1> DEFINE entries == poolBalances.entries
           L == Len(entries)
           S == {m \in MapOf(Tokens, Balance) : SoundPool(m) /\ Len(m.entries) = L}
           g == [n \in 1 .. L |-> [m \in S |-> SetAt(m, n, changed[n])]]
           IsLoop(f) == f = [n \in 0 .. L |-> IF n = 0 THEN poolBalances
                                              ELSE SetAt(f[n - 1], n, changed[n])]
           Body(f) == f = [n \in 0 .. L |->
                             IF n = 0 THEN poolBalances
                             ELSE General!M!SetAt(f[n - 1], n,
                                    General!ChangeCash(entries[n].value, delta[entries[n].key], now))]
<1>1. L \in Nat
  BY SoundFacts DEF SoundPool
<1>2. ASSUME NEW n \in 1 .. L, NEW m \in S
      PROVE  SetAt(m, n, changed[n]) \in S
  <2>1. Sound(m, Tokens, Balance) /\ n \in DOMAIN m.entries /\ changed[n] \in Balance
    <3>1. Sound(m, Tokens, Balance) /\ Len(m.entries) = L
      BY DEF SoundPool
    <3>2. DOMAIN m.entries = 1 .. L
      BY <3>1, SoundFacts
    <3> QED
      BY <3>1, <3>2
  <2>2. Sound(SetAt(m, n, changed[n]), Tokens, Balance)
    BY <2>1, SetAtIsUpdate
  <2>3. Len(SetAt(m, n, changed[n]).entries) = L
    <3>1. m.entries \in Seq(EntryOf(Tokens, Balance)) /\ Len(m.entries) = L
      BY <2>1, SoundFacts
    <3>2. SetAt(m, n, changed[n]).entries = [m.entries EXCEPT ![n].value = changed[n]]
      BY DEF SetAt
    <3>3. DOMAIN SetAt(m, n, changed[n]).entries = 1 .. L
      <4>1. DOMAIN m.entries = 1 .. L
        BY <3>1, LenProperties
      <4> HIDE DEF L
      <4> QED
        BY <4>1, <3>2
    <3>4. SetAt(m, n, changed[n]).entries \in Seq(EntryOf(Tokens, Balance))
      BY <2>2, SoundFacts
    <3> DEFINE e == SetAt(m, n, changed[n]).entries
    <3>5. e \in Seq(EntryOf(Tokens, Balance)) /\ DOMAIN e = 1 .. L
      BY <3>3, <3>4
    <3> HIDE DEF e, L
    <3>6. Len(e) = L
      BY <1>1, <3>5, LenProperties
    <3> QED
      BY <3>6 DEF e
  <2> QED
    BY <2>2, <2>3 DEF Sound, SoundPool
<1>3. poolBalances \in S
  BY DEF SoundPool, Sound
<1> HIDE DEF S
<1>4. \A n \in 1 .. L : g[n] \in [S -> S]
  BY <1>2
<1> HIDE DEF L, g
<1>5. PICK f \in [0 .. L -> S] : Iterates(f, g, poolBalances, L)
  BY <1>1, <1>3, <1>4, LoopExists
<1>6. ASSUME NEW n \in 0 .. L, n # 0
      PROVE  g[n][f[n - 1]] = SetAt(f[n - 1], n, changed[n])
  <2>1. n \in 1 .. L /\ n - 1 \in 0 .. L
    BY <1>1, <1>6
  <2>2. f[n - 1] \in S
    BY <1>5, <2>1
  <2> QED
    BY <2>1, <2>2 DEF g
<1>7. IsLoop(f)
  BY <1>5, <1>6 DEF Iterates
<1>8. \A n \in 1 .. L : changed[n] = General!ChangeCash(entries[n].value, delta[entries[n].key], now)
  BY SameInGeneral DEF L
<1>9. ASSUME NEW h
      PROVE  IsLoop(h) <=> Body(h)
  <2>1. \A n \in 0 .. L : n # 0 => n \in 1 .. L
    BY <1>1
  <2>2. \A n \in 0 .. L : n # 0 =>
          SetAt(h[n - 1], n, changed[n]) =
          General!M!SetAt(h[n - 1], n, General!ChangeCash(entries[n].value, delta[entries[n].key], now))
    BY <2>1, <1>8, GeneralMap
  <2> QED
    BY <2>2
<1> DEFINE after == CHOOSE h : Body(h)
<1>10. poolBalances' = after[L]
  BY DEF General!SetBalances, L
<1>11. Body(f)
  BY <1>7, <1>9
<1> HIDE DEF Body
<1>12. Body(after)
  BY <1>11
<1> HIDE DEF after
<1>13. IsLoop(after)
  BY <1>9, <1>12
<1>14. after[0] = poolBalances
  BY <1>1, <1>13
<1>15. ASSUME NEW n \in 1 .. L
       PROVE  after[n] = SetAt(after[n - 1], n, changed[n])
  <2>1. n \in 0 .. L /\ n # 0
    BY <1>1
  <2> QED
    BY <1>13, <2>1
<1> QED
  BY <1>10, <1>14, <1>15 DEF L, IsChangesLoop

(* A join or an exit changes the cash of every token, each by its own      *)
(* amount, at whatever position it is.                                     *)
LEMMA SetBalancesGeneral ==
  ASSUME GeneralInv, IsGeneral, IsGeneral', NEW delta \in [Tokens -> Deltas], General!SetBalances(delta)
  PROVE  GeneralInv' /\ Pool!StoreNext
<1> DEFINE m0 == poolBalances
           entries == m0.entries
           L == Len(entries)
           old == TokensIn(m0)
           bal == BalancesIn(m0)
           changed == [i \in 1 .. L |-> ChangeCash(entries[i].value, delta[entries[i].key], now)]
           new(t) == ChangeCash(bal[t], delta[t], now)
<1>1. /\ Sound(m0, Tokens, Balance) /\ L \in Nat /\ now \in Nat
      /\ DOMAIN entries = 1 .. L
      /\ \A i \in 1 .. L : /\ entries[i].key \in Tokens /\ entries[i].value \in Balance
                           /\ m0.indexes[entries[i].key] = i
  BY SoundFacts DEF GeneralInv, SoundPool
<1>2. /\ \A i \in 1 .. L : IsBalance(changed[i])
      /\ now' = now
  BY <1>1, SameInGeneral DEF General!SetBalances
<1>3. ASSUME NEW i \in 1 .. L
      PROVE  /\ changed[i] \in Balance
             /\ changed[i].managed = entries[i].value.managed
             /\ changed[i].lastChangeBlock = now
  <2>1. delta[entries[i].key] \in Int /\ entries[i].value \in Balance /\ now \in Nat
    BY <1>1, AmountTypes
  <2> DEFINE c == ChangeCash(entries[i].value, delta[entries[i].key], now)
  <2>2. /\ IsBalance(c) => c \in Balance
        /\ c.managed = entries[i].value.managed /\ c.lastChangeBlock = now
    BY <2>1, MutationTypes, MutationEffects
  <2>3. changed[i] = c
    OBVIOUS
  <2> HIDE DEF c
  <2> QED
    BY <1>2, <2>2, <2>3
<1>s. PICK after : IsChangesLoop(after, changed)
  <2>1. SoundPool(poolBalances)
    BY <1>1 DEF SoundPool
  <2>2. \A i \in 1 .. L : changed[i] \in Balance
    BY <1>3
  <2> QED
    BY <2>1, <2>2, ChangesLoop
<1>4. /\ after[0] = m0
      /\ \A n \in 1 .. L : after[n] = SetAt(after[n - 1], n, changed[n])
      /\ poolBalances' = after[L]
  BY <1>s DEF IsChangesLoop
<1>5. /\ bal \in [old -> Balance] /\ DOMAIN bal = old /\ old \subseteq Tokens
      /\ \A t \in old :
           /\ m0.indexes[t] \in 1 .. L
           /\ entries[m0.indexes[t]].key = t
           /\ entries[m0.indexes[t]].value = bal[t]
  BY <1>1, BalancesInMap DEF SoundPool
<1>6. \A t \in old : changed[m0.indexes[t]] = new(t)
  BY <1>5
<1> HIDE DEF L, entries, changed, old, bal, m0
<1> DEFINE Done(n) ==
             /\ Sound(after[n], Tokens, Balance)
             /\ DOMAIN after[n].entries = 1 .. L
             /\ \A i \in 1 .. L : after[n].entries[i].key = entries[i].key
             /\ BalancesIn(after[n]) = [t \in old |-> IF m0.indexes[t] <= n THEN new(t) ELSE bal[t]]
           T == {n \in 0 .. L : Done(n)}
<1>7. 0 \in T
  <2>1. bal = [t \in old |-> IF m0.indexes[t] <= 0 THEN new(t) ELSE bal[t]]
    <3>1. \A t \in old : ~(m0.indexes[t] <= 0)
      BY <1>1, <1>5
    <3> QED
      BY <1>5, <3>1
  <2>2. after[0] = m0 /\ BalancesIn(after[0]) = bal /\ DOMAIN m0.entries = 1 .. L
    BY <1>1, <1>4 DEF bal, entries
  <2> QED
    BY <1>1, <2>1, <2>2 DEF entries
<1>8. ASSUME NEW n \in 0 .. L, n + 1 \in 0 .. L, n \in T
      PROVE  n + 1 \in T
  <2> DEFINE k == entries[n + 1].key
             f == BalancesIn(after[n])
             m == after[n + 1]
             a == after[n]
             j == n + 1
             v == changed[n + 1]
  <2>1. n + 1 \in 1 .. L /\ (n + 1) - 1 = n /\ n \in Nat
    BY <1>1, <1>8
  <2>2. Done(n)
    BY <1>8
  <2>3. /\ m = SetAt(after[n], n + 1, changed[n + 1])
        /\ n + 1 \in DOMAIN after[n].entries
        /\ after[n].entries[n + 1].key = k
        /\ changed[n + 1] \in Balance
    BY <1>3, <1>4, <2>1, <2>2
  <2>4. /\ Sound(m, Tokens, Balance)
        /\ FunctionOf(m, Tokens) = Updated(FunctionOf(after[n], Tokens), k, changed[n + 1])
        /\ k \in DOMAIN FunctionOf(after[n], Tokens)
    <3>1. /\ Sound(a, Tokens, Balance) /\ j \in DOMAIN a.entries /\ v \in Balance
          /\ m = SetAt(a, j, v) /\ a.entries[j].key = k
      BY <2>2, <2>3
    <3> HIDE DEF a, j, v, m, k
    <3>2. /\ Sound(m, Tokens, Balance)
          /\ FunctionOf(m, Tokens) = Updated(FunctionOf(a, Tokens), k, v)
          /\ k \in DOMAIN FunctionOf(a, Tokens)
      BY <3>1, SetAtIsUpdate
    <3> QED
      BY <3>2 DEF a, v
  <2>5. /\ DOMAIN m.entries = 1 .. L
        /\ \A i \in 1 .. L : m.entries[i].key = entries[i].key
    <3>1. m.entries = [after[n].entries EXCEPT ![n + 1].value = changed[n + 1]]
      BY <2>3 DEF SetAt
    <3>2. after[n].entries[n + 1] \in EntryOf(Tokens, Balance)
      <4>1. Sound(a, Tokens, Balance) /\ j \in DOMAIN a.entries
        BY <2>2, <2>3
      <4> HIDE DEF a, j
      <4>2. a.entries[j] \in EntryOf(Tokens, Balance)
        BY <4>1, SoundFacts
      <4> QED
        BY <4>2 DEF a, j
    <3>3. [after[n].entries[n + 1] EXCEPT !.value = changed[n + 1]].key = k
      BY <2>3, <3>2 DEF EntryOf
    <3> QED
      BY <2>1, <2>2, <3>1, <3>3
  <2>6. f = [t \in old |-> IF m0.indexes[t] <= n THEN new(t) ELSE bal[t]]
    BY <2>2
  <2>7. BalancesIn(m) = [t \in DOMAIN f \cup {k} |-> IF t = k THEN changed[n + 1] ELSE f[t]]
    BY <2>4 DEF BalancesIn, Updated
  <2>8. k \in old /\ DOMAIN f = old
    BY <2>4, <2>6 DEF BalancesIn
  <2>9. m0.indexes[k] = n + 1 /\ changed[n + 1] = new(k)
    <3>1. m0.indexes[k] = n + 1
      BY <1>1, <2>1 DEF entries
    <3> QED
      BY <1>6, <2>8, <3>1
  <2> HIDE DEF f, m, k
  <2>10. \A t \in old : t # k => m0.indexes[t] # n + 1
    BY <1>5 DEF entries, m0, k
  <2>11. \A t \in old :
           (IF t = k THEN changed[n + 1] ELSE f[t]) =
           (IF m0.indexes[t] <= n + 1 THEN new(t) ELSE bal[t])
    <3> SUFFICES ASSUME NEW t \in old
                 PROVE  (IF t = k THEN changed[n + 1] ELSE f[t]) =
                        (IF m0.indexes[t] <= n + 1 THEN new(t) ELSE bal[t])
      OBVIOUS
    <3>1. CASE t = k
      BY <2>1, <2>9, <3>1
    <3>2. CASE t # k
      <4>1. m0.indexes[t] \in Nat /\ m0.indexes[t] # n + 1
        BY <1>1, <1>5, <2>10, <3>2
      <4>2. m0.indexes[t] <= n + 1 <=> m0.indexes[t] <= n
        BY <2>1, <4>1
      <4>3. f[t] = IF m0.indexes[t] <= n THEN new(t) ELSE bal[t]
        BY <2>6
      <4> QED
        BY <3>2, <4>2, <4>3
    <3> QED
      BY <3>1, <3>2
  <2>12. DOMAIN f \cup {k} = old
    BY <2>8
  <2>13. BalancesIn(m) = [t \in old |-> IF m0.indexes[t] <= n + 1 THEN new(t) ELSE bal[t]]
    BY <2>7, <2>11, <2>12
  <2> QED
    BY <1>8, <2>4, <2>5, <2>13 DEF m
<1> HIDE DEF T
<1>9. \A n \in 0 .. L : n + 1 \in 0 .. L /\ n \in T => n + 1 \in T
  BY <1>8
<1>10. 0 .. L \subseteq T
  BY <1>1, <1>7, <1>9, UpTo
<1>11. L \in T
  BY <1>1, <1>10
<1>12. Done(L)
  BY <1>11 DEF T
<1> DEFINE f == [t \in old |-> new(t)]
<1>13. BalancesIn(after[L]) = f
  <2>1. \A t \in old : m0.indexes[t] <= L
    BY <1>1, <1>5
  <2> QED
    BY <1>12, <2>1
<1>14. \A t \in old :
         /\ IsBalance(f[t])
         /\ f[t].lastChangeBlock = now
         /\ f[t].managed = bal[t].managed
  <2> TAKE t \in old
  <2>1. f[t] = changed[m0.indexes[t]] /\ m0.indexes[t] \in 1 .. L
    BY <1>5, <1>6
  <2> QED
    BY <1>2, <1>3, <1>5, <2>1
<1>15. SoundPool(after[L])
  BY <1>12 DEF SoundPool
<1> HIDE DEF f
<1>16. DOMAIN f = old
  BY DEF f
<1>17. /\ GeneralInv' /\ Writing
       /\ RegisteredTokens = old /\ BalanceOf = bal /\ BalanceOf' = f
  BY <1>2, <1>4, <1>13, <1>14, <1>15, <1>16, GeneralWriting DEF old, bal, m0
<1> QED
  BY <1>14, <1>17, IsCashChanges

---------------------------------------------------------------------------
(* A swap writes two entries by their positions, read before.              *)
LEMMA SwapGeneral ==
  ASSUME GeneralInv, IsGeneral, IsGeneral', NEW x \in Tokens, NEW y \in Tokens,
         NEW p \in Amounts, NEW q \in Amounts, General!Swap(x, y, p, q)
  PROVE  GeneralInv' /\ Pool!StoreNext
<1> DEFINE m0 == poolBalances
           i == m0.indexes[x]
           j == m0.indexes[y]
           old == TokensIn(m0)
           bal == BalancesIn(m0)
           newX == ChangeCash(bal[x], p, now)
           newY == ChangeCash(bal[y], -q, now)
           m1 == SetAt(m0, i, newX)
           m2 == SetAt(m1, j, newY)
           f == [t \in old |-> IF t = y THEN newY ELSE IF t = x THEN newX ELSE bal[t]]
<1>1. Sound(m0, Tokens, Balance) /\ now \in Nat /\ p \in Int /\ -q \in Int
  BY AmountTypes DEF GeneralInv, SoundPool
<1>2. /\ x # y /\ x \in old /\ y \in old /\ now' = now
      /\ General!IsBalance(General!ChangeCash(m0.entries[i].value, p, now))
      /\ General!IsBalance(General!ChangeCash(m0.entries[j].value, -q, now))
      /\ poolBalances' =
           General!M!SetAt(General!M!SetAt(m0, i, General!ChangeCash(m0.entries[i].value, p, now)),
                           j, General!ChangeCash(m0.entries[j].value, -q, now))
  BY DEF General!Swap, TokensIn, Contains
<1>3. /\ bal[x] = m0.entries[i].value /\ bal[y] = m0.entries[j].value
      /\ i \in 1 .. Len(m0.entries) /\ j \in 1 .. Len(m0.entries)
      /\ m0.entries[i].key = x /\ m0.entries[j].key = y
      /\ DOMAIN m0.entries = 1 .. Len(m0.entries)
      /\ DOMAIN bal = old
      /\ \A t \in old : bal[t] \in Balance
  <2>1. SoundPool(m0)
    BY <1>1 DEF SoundPool
  <2>2. DOMAIN m0.entries = 1 .. Len(m0.entries)
    BY <1>1, SoundFacts
  <2>3. /\ DOMAIN bal = old
        /\ \A t \in old : /\ bal[t] = m0.entries[m0.indexes[t]].value
                          /\ m0.indexes[t] \in 1 .. Len(m0.entries)
                          /\ m0.entries[m0.indexes[t]].key = t
                          /\ bal[t] \in Balance
    BY <2>1, BalancesInMap
  <2> QED
    BY <1>2, <2>2, <2>3
<1>4. IsBalance(newX) /\ IsBalance(newY) /\ poolBalances' = m2
  BY <1>2, <1>3, SameInGeneral, GeneralMap
<1>5. /\ newX \in Balance /\ newY \in Balance
      /\ newX.managed = bal[x].managed /\ newY.managed = bal[y].managed
      /\ newX.lastChangeBlock = now /\ newY.lastChangeBlock = now
  <2>1. bal[x] \in Balance /\ bal[y] \in Balance
    BY <1>2, <1>3
  <2>2. /\ IsBalance(newX) => newX \in Balance
        /\ newX.managed = bal[x].managed /\ newX.lastChangeBlock = now
    BY <1>1, <2>1, MutationTypes, MutationEffects
  <2>3. /\ IsBalance(newY) => newY \in Balance
        /\ newY.managed = bal[y].managed /\ newY.lastChangeBlock = now
    BY <1>1, <2>1, MutationTypes, MutationEffects
  <2> QED
    BY <1>4, <2>2, <2>3
<1> HIDE DEF newX, newY, i, j
<1>6. /\ Sound(m1, Tokens, Balance)
      /\ FunctionOf(m1, Tokens) = Updated(FunctionOf(m0, Tokens), x, newX)
  BY <1>1, <1>3, <1>5, SetAtIsUpdate
<1>7. j \in DOMAIN m1.entries /\ m1.entries[j].key = y
  <2>1. m1.entries = [m0.entries EXCEPT ![i].value = newX]
    BY DEF SetAt
  <2>2. i # j
    BY <1>2, <1>3
  <2> QED
    BY <1>3, <2>1, <2>2
<1> HIDE DEF m1
<1>8. /\ Sound(m2, Tokens, Balance)
      /\ FunctionOf(m2, Tokens) = Updated(FunctionOf(m1, Tokens), y, newY)
  BY <1>5, <1>6, <1>7, SetAtIsUpdate
<1> HIDE DEF m2, old, bal, m0
<1>9. BalancesIn(m2) = f
  <2>1. BalancesIn(m1) = [t \in old \cup {x} |-> IF t = x THEN newX ELSE bal[t]]
    BY <1>3, <1>6 DEF BalancesIn, Updated, bal
  <2>2. BalancesIn(m2) = [t \in DOMAIN BalancesIn(m1) \cup {y} |-> IF t = y THEN newY ELSE BalancesIn(m1)[t]]
    BY <1>8 DEF BalancesIn, Updated
  <2>3. old \cup {x} = old /\ old \cup {y} = old
    BY <1>2
  <2> QED
    BY <2>1, <2>2, <2>3
<1>10. /\ DOMAIN f = old
       /\ \A t \in old :
            /\ IsBalance(f[t])
            /\ f[t].managed = bal[t].managed
            /\ f[t].lastChangeBlock = now \/ f[t] = bal[t]
  BY <1>4, <1>5 DEF GeneralInv, old, bal, m0
<1> HIDE DEF f
<1>11. \A t \in old :
         /\ f[t].lastChangeBlock \in {bal[t].lastChangeBlock, now}
         /\ Total(f[t]) # Total(bal[t]) => f[t].lastChangeBlock = now
  BY <1>10
<1>12. SoundPool(m2)
  BY <1>8 DEF SoundPool
<1>13. /\ GeneralInv' /\ Writing
       /\ RegisteredTokens = old /\ BalanceOf = bal /\ BalanceOf' = f
  BY <1>2, <1>4, <1>9, <1>10, <1>11, <1>12, GeneralWriting DEF old, bal, m0
<1> QED
  BY <1>10, <1>13, IsCashChanges

(* A call of an Asset Manager writes the balance of its token.             *)
LEMMA ManageGeneral ==
  ASSUME GeneralInv, IsGeneral, IsGeneral', NEW x \in Tokens, NEW p \in Amounts, General!ManageBalance(x, p)
  PROVE  GeneralInv' /\ Pool!StoreNext
<1> DEFINE m0 == poolBalances
           old == TokensIn(m0)
           bal == BalancesIn(m0)
<1>1. Sound(m0, Tokens, Balance) /\ now \in Nat /\ p \in Int /\ p \in Nat
  BY AmountTypes DEF GeneralInv, SoundPool
<1>2. Contains(m0, x) /\ bal[x] = Get(m0, x) /\ x \in old /\ bal[x] \in Balance
  <2>1. Contains(m0, x)
    BY GeneralMap DEF General!ManageBalance
  <2> QED
    BY <1>1, <2>1, BalancesInMap DEF TokensIn, BalancesIn, FunctionOf, SoundPool
<1>3. PICK new \in {CashToManaged(bal[x], p), ManagedToCash(bal[x], p), SetManaged(bal[x], p, now)} :
        General!UpdateBalance(x, new)
  BY <1>2, GeneralMap, SameInGeneral DEF General!ManageBalance
<1>4. IsBalance(new) /\ poolBalances' = Put(m0, x, new) /\ now' = now
  BY <1>3, GeneralMap, SameInGeneral DEF General!UpdateBalance
<1>5. new \in Balance
  BY <1>1, <1>2, <1>3, <1>4, MutationTypes
<1>6. \/ Total(new) = Total(bal[x]) /\ new.lastChangeBlock = bal[x].lastChangeBlock
      \/ new.cash = bal[x].cash /\ new.lastChangeBlock = now
  <2>1. CASE new = CashToManaged(bal[x], p)
    BY <1>1, <1>2, <2>1, MutationEffects
  <2>2. CASE new = ManagedToCash(bal[x], p)
    BY <1>1, <1>2, <2>2, MutationEffects
  <2>3. CASE new = SetManaged(bal[x], p, now)
    BY <1>1, <1>2, <2>3, MutationEffects
  <2> QED
    BY <1>3, <2>1, <2>2, <2>3
<1> DEFINE m == Put(m0, x, new)
           f == [t \in old |-> IF t = x THEN new ELSE bal[t]]
<1>7. /\ Sound(m, Tokens, Balance)
      /\ FunctionOf(m, Tokens) = Updated(FunctionOf(m0, Tokens), x, new)
  BY <1>1, <1>5, PutIsUpdate
<1>8. DOMAIN bal = old
  BY <1>1, BalancesInMap DEF SoundPool
<1> HIDE DEF m
<1>9. BalancesIn(m) = f
  BY <1>2, <1>7, <1>8 DEF BalancesIn, Updated
<1> HIDE DEF old, bal, m0
<1>10. /\ DOMAIN f = old /\ f[x] = new
       /\ \A t \in old : IsBalance(f[t]) /\ (t # x => f[t] = bal[t])
  BY <1>2, <1>4 DEF GeneralInv, old, bal, m0
<1> HIDE DEF f
<1>11. \A t \in old :
         /\ f[t].lastChangeBlock \in {bal[t].lastChangeBlock, now}
         /\ Total(f[t]) # Total(bal[t]) => f[t].lastChangeBlock = now
  BY <1>6, <1>10
<1>12. SoundPool(m)
  BY <1>7 DEF SoundPool
<1>13. /\ GeneralInv' /\ Writing
       /\ RegisteredTokens = old /\ BalanceOf = bal /\ BalanceOf' = f
  BY <1>4, <1>9, <1>10, <1>11, <1>12, GeneralWriting DEF old, bal, m0, m
<1>14. CASE Total(new) = Total(bal[x])
  BY <1>2, <1>10, <1>13, <1>14, IsCashIsManaged
<1>15. CASE new.cash = bal[x].cash
  <2>1. \A s \in RegisteredTokens : BalanceOf'[s].cash = BalanceOf[s].cash
    BY <1>10, <1>13, <1>15
  <2>2. \A s \in RegisteredTokens : s # x => BalanceOf'[s].managed = BalanceOf[s].managed
    BY <1>10, <1>13
  <2>3. x \in RegisteredTokens
    BY <1>2, <1>13
  <2> QED
    BY <1>13, <2>1, <2>2, <2>3, IsManagedChanges
<1> QED
  BY <1>6, <1>14, <1>15

(* A call on a General Pool is a step of the plain store and keeps the     *)
(* invariant.                                                              *)
LEMMA GeneralStep ==
  ASSUME GeneralInv, IsGeneral, IsGeneral', General!Next
  PROVE  GeneralInv' /\ Pool!StoreNext
<1>1. CASE General!Tick
  <2>1. now' = now + 1 /\ poolBalances' = poolBalances /\ now \in Nat
    BY <1>1 DEF General!Tick, GeneralInv
  <2>2. /\ GeneralInv'
        /\ RegisteredTokens = TokensIn(poolBalances) /\ BalanceOf = BalancesIn(poolBalances)
        /\ RegisteredTokens' = TokensIn(poolBalances) /\ BalanceOf' = BalancesIn(poolBalances)
    BY <2>1, NextGeneral DEF GeneralInv
  <2>3. now' > now
    BY <2>1
  <2> QED
    BY <2>2, <2>3, IsBlockPasses
<1> QED
  BY <1>1, RegisterGeneral, DeregisterGeneral, SetBalancesGeneral, SwapGeneral, ManageGeneral, SameInGeneral
  DEF General!Next

---------------------------------------------------------------------------
(* PoolTokens: a Pool of any of the three specializations.                 *)

(* The inductive invariant: of each store its own, the two that the Pool   *)
(* does not use being empty, which the block that passes leaves them.      *)
StoresInv ==
  /\ specialization \in {"TWO_TOKEN", "MINIMAL_SWAP_INFO", "GENERAL"}
  /\ TwoTokenInv
  /\ MinimalInv
  /\ GeneralInv

(* The stores begin empty, as an empty plain store.                        *)
LEMMA StoresInitially == PoolInit => StoresInv /\ Pool!StoreInit
<1> SUFFICES ASSUME PoolInit
             PROVE  StoresInv /\ Pool!StoreInit
  OBVIOUS
<1>1. /\ now = 0 /\ tokenA = 0 /\ tokenB = 0
      /\ sharedCash = [pair \in TwoToken!TokenPairs |-> TwoToken!NoShared]
      /\ sharedManaged = [pair \in TwoToken!TokenPairs |-> TwoToken!NoShared]
      /\ poolBalances = EmptyOf(Tokens)
      /\ Init
      /\ specialization \in {"TWO_TOKEN", "MINIMAL_SWAP_INFO", "GENERAL"}
  BY GeneralMap, SameInTwoToken DEF PoolInit, TwoToken!Init, General!Init
<1>2. TwoTokenInv
  <2>1. TwoToken!NoShared \in CashWords /\ TwoToken!NoShared \in ManagedWords
    BY DEF TwoToken!NoShared, TwoToken!Shared, CashWords, ManagedWords
  <2>2. TwoToken!TypeOK
    BY <1>1, <2>1, SameInTwoToken DEF TwoToken!TypeOK, CashWords, ManagedWords
  <2>3. NoneRegistered /\ ~PairRegistered
    BY <1>1, StoreAssumption DEF NoneRegistered, PairRegistered
  <2> QED
    BY <1>1, <2>2, <2>3 DEF TwoTokenInv, OthersAreEmpty, PairFits
<1>3. MinimalInv
  BY <1>1, MinimalInvInitially
<1>4. TokensIn(poolBalances) = {} /\ SoundPool(poolBalances)
  <2>1. \A t \in Tokens : ~Contains(EmptyOf(Tokens), t)
    BY DEF Contains, EmptyOf
  <2> QED
    BY <1>1, <2>1, EmptyIsSound DEF TokensIn, SoundPool
<1>5. GeneralInv
  BY <1>1, <1>4 DEF GeneralInv
<1>6. RegisteredTokens = {} /\ BalanceOf = [t \in {} |-> EmptyBalance]
  <2>1. CASE specialization = "TWO_TOKEN"
    BY <1>1, <1>2, <2>1, TwoTokenView DEF PairView, NoneRegistered
  <2>2. CASE specialization = "MINIMAL_SWAP_INFO"
    BY <1>1, <2>2, MinimalSwapInfoView DEF MinimalView, IsMinimal, Init
  <2>3. CASE specialization = "GENERAL"
    <3>1. RegisteredTokens = {} /\ BalanceOf = BalancesIn(poolBalances)
      BY <1>4, <2>3, GeneralPoolView DEF GeneralView, ViewedAs, IsGeneral
    <3>2. BalancesIn(poolBalances) = [t \in {} |-> EmptyBalance]
      BY <1>4 DEF BalancesIn, TokensIn, FunctionOf
    <3> QED
      BY <3>1, <3>2
  <2> QED
    BY <1>1, <2>1, <2>2, <2>3
<1>7. Pool!StoreInit
  BY <1>1, <1>6, SameInPlain DEF Pool!StoreInit
<1> QED
  BY <1>1, <1>2, <1>3, <1>5, <1>7 DEF StoresInv

(* A store that is not called is left alone, but for the block.            *)
LEMMA TwoTokenRests ==
  ASSUME TwoTokenInv, UNCHANGED twoTokenVars, now' \in Nat, now' >= now
  PROVE  TwoTokenInv'
<1>1. UNCHANGED <<tokenA, tokenB, sharedCash, sharedManaged>> /\ now \in Nat
  BY DEF twoTokenVars, TwoTokenInv, TwoToken!TypeOK
<1>2. TwoToken!TypeOK'
  BY <1>1 DEF TwoTokenInv, TwoToken!TypeOK
<1>3. (PairRegistered \/ NoneRegistered)' /\ OthersAreEmpty'
  BY <1>1 DEF TwoTokenInv, PairRegistered, NoneRegistered, OthersAreEmpty
<1>4. PairFits'
  <2> DEFINE pair == <<tokenA, tokenB>>
  <2> SUFFICES ASSUME PairRegistered'
               PROVE  /\ IsBalance(TwoToken!BalanceA(pair))' /\ IsBalance(TwoToken!BalanceB(pair))'
                      /\ sharedCash'[pair'].lastChangeBlock <= now'
    BY DEF PairFits
  <2>1. PairRegistered
    BY <1>1 DEF PairRegistered
  <2>2. /\ pair \in TwoToken!TokenPairs /\ sharedCash[pair] \in CashWords
        /\ sharedCash[pair].lastChangeBlock <= now
        /\ IsBalance(TwoToken!BalanceA(pair)) /\ IsBalance(TwoToken!BalanceB(pair))
    BY <2>1, PairFacts
  <2> QED
    BY <1>1, <2>2 DEF CashWords, TwoToken!BalanceA, TwoToken!BalanceB
<1> QED
  BY <1>2, <1>3, <1>4 DEF TwoTokenInv

(* A Minimal Swap Info Pool of which nothing changes keeps its invariant.  *)
LEMMA MinimalRests ==
  ASSUME MinimalInv, UNCHANGED minimalSwapInfoVars, now' \in Nat
  PROVE  MinimalInv'
  BY DEF MinimalInv, minimalSwapInfoVars, TypeOK, Unregistered, Fitting

(* A General Pool of which nothing changes keeps its invariant.            *)
LEMMA GeneralRests ==
  ASSUME GeneralInv, UNCHANGED poolBalances, now' \in Nat
  PROVE  GeneralInv'
  BY DEF GeneralInv, SoundPool, TokensIn, BalancesIn, FunctionOf, Contains, Get, Sound, Agreeing

(* Blocks pass, and never return.                                          *)
LEMMA BlocksPass ==
  ASSUME StoresInv, PoolNext
  PROVE  now' \in Nat /\ now' >= now
<1>1. now \in Nat
  BY DEF StoresInv, GeneralInv
<1>2. now' = now \/ now' = now + 1
  <2>1. CASE TwoTokenCall
    BY <2>1 DEF TwoTokenCall, TwoToken!Next, TwoToken!RegisterTokens, TwoToken!DeregisterTokens,
       TwoToken!SetCashBalances, TwoToken!Swap, TwoToken!ManageBalance, TwoToken!UpdateBalance, TwoToken!Tick
  <2>2. CASE MinimalSwapInfoCall
    BY <2>2 DEF MinimalSwapInfoCall, Next, RegisterTokens, DeregisterTokens,
       SetBalances, Swap, ManageBalance, UpdateBalance, Tick
  <2>3. CASE GeneralCall
    BY <2>3 DEF GeneralCall, General!Next, General!RegisterTokens, General!DeregisterTokens,
       General!SetBalances, General!Swap, General!ManageBalance, General!UpdateBalance, General!Tick
  <2> QED
    BY <2>1, <2>2, <2>3 DEF PoolNext
<1> QED
  BY <1>1, <1>2

(* Every call keeps the invariant and is a step of the plain store.        *)
LEMMA StoresStep ==
  ASSUME DistinctPairs, StoresInv, PoolNext
  PROVE  StoresInv' /\ Pool!StoreNext
<1>1. now' \in Nat /\ now' >= now
  BY BlocksPass
<1>2. CASE TwoTokenCall
  <2>1. TwoTokenInv' /\ Pool!StoreNext
    BY <1>2, TwoTokenStep DEF TwoTokenCall, StaysTwoToken, StoresInv
  <2> QED
    BY <1>1, <1>2, <2>1, MinimalRests, GeneralRests DEF TwoTokenCall, StoresInv
<1>3. CASE MinimalSwapInfoCall
  <2>1. MinimalInv'
    BY <1>3, MinimalInvAlways DEF MinimalSwapInfoCall, StoresInv
  <2>2. Pool!StoreNext
    BY <1>3, <2>1, MinimalStep DEF MinimalSwapInfoCall, IsMinimal, StoresInv
  <2> QED
    BY <1>1, <1>3, <2>1, <2>2, TwoTokenRests, GeneralRests DEF MinimalSwapInfoCall, StoresInv
<1>4. CASE GeneralCall
  <2>1. GeneralInv' /\ Pool!StoreNext
    BY <1>4, GeneralStep DEF GeneralCall, IsGeneral, StoresInv
  <2> QED
    BY <1>1, <1>4, <2>1, TwoTokenRests, MinimalRests DEF GeneralCall, StoresInv
<1> QED
  BY <1>2, <1>3, <1>4 DEF PoolNext

(* A step that changes nothing changes nothing of what is seen.            *)
LEMMA StoresStutter ==
  ASSUME StoresInv, UNCHANGED poolVars
  PROVE  StoresInv' /\ UNCHANGED Pool!storeVars
<1>1. /\ UNCHANGED <<now, specialization, tokenA, tokenB, sharedCash, sharedManaged, poolTokens, balances>>
      /\ UNCHANGED poolBalances /\ UNCHANGED twoTokenVars /\ UNCHANGED minimalSwapInfoVars
  BY DEF poolVars, twoTokenVars, minimalSwapInfoVars
<1>2. now \in Nat /\ now' = now
  BY <1>1 DEF StoresInv, GeneralInv
<1>3. StoresInv'
  BY <1>1, <1>2, TwoTokenRests, MinimalRests, GeneralRests DEF StoresInv
<1>4. UNCHANGED <<TwoToken!RegisteredTokens, TwoToken!BalanceOfToken, BalanceOfToken,
                  General!RegisteredTokens, General!BalanceOfToken>>
  BY <1>1 DEF TwoToken!RegisteredTokens, TwoToken!BalanceOfToken, TwoToken!BalanceA, TwoToken!BalanceB,
     BalanceOfToken, General!RegisteredTokens, General!BalanceOfToken
<1>5. UNCHANGED <<RegisteredTokens, BalanceOf>>
  BY <1>1, <1>4 DEF RegisteredTokens, BalanceOf
<1> QED
  BY <1>1, <1>3, <1>5 DEF Pool!storeVars

(* The stores are always well typed: what they hold fits, in the words it  *)
(* is packed in.                                                           *)
THEOREM StoresAreWellTyped ==
  ASSUME DistinctPairs
  PROVE  PoolSpec => []TypesOK
<1>1. StoresInv => TypesOK
  <2> SUFFICES ASSUME StoresInv
               PROVE  TypesOK
    OBVIOUS
  <2>1. TypeOK /\ TwoToken!TypeOK
    BY DEF StoresInv, MinimalInv, TwoTokenInv
  <2>2. General!TypeOK
    BY GeneralMap DEF StoresInv, GeneralInv, SoundPool, Sound, General!TypeOK
  <2> QED
    BY <2>1, <2>2 DEF TypesOK
<1>2. StoresInv /\ [PoolNext]_poolVars => StoresInv'
  BY StoresStep, StoresStutter
<1> QED
  BY StoresInitially, <1>1, <1>2, PTL DEF PoolSpec

(* Whatever its specialization, a Pool's balances are those of a plain map *)
(* from its registered tokens.                                             *)
THEOREM StoresImplementPlainStore ==
  ASSUME DistinctPairs
  PROVE  PoolSpec => PoolRefinement
<1>1. StoresInv /\ [PoolNext]_poolVars => StoresInv'
  BY StoresStep, StoresStutter
<1>2. StoresInv /\ [PoolNext]_poolVars => [Pool!StoreNext]_(Pool!storeVars)
  BY StoresStep, StoresStutter
<1> QED
  BY StoresInitially, <1>1, <1>2, PTL DEF PoolSpec, PoolRefinement, Pool!StoreSpec

(* The getters of a Two Token Pool may rely on "Non-zero balances are only *)
(* possible if both tokens in the pair are registered with the Pool".      *)
THEOREM NonzeroPairIsRegistered ==
  ASSUME DistinctPairs
  PROVE  PoolSpec => []TwoToken!NonzeroIsRegistered
<1>1. StoresInv => TwoToken!NonzeroIsRegistered
  <2> SUFFICES ASSUME TwoTokenInv, NEW pair \in TwoToken!TokenPairs,
                      ~(tokenA = pair[1] /\ tokenB = pair[2])
               PROVE  TwoToken!SharedIsZero(sharedCash[pair]) /\ TwoToken!SharedIsZero(sharedManaged[pair])
    BY DEF StoresInv, TwoToken!NonzeroIsRegistered
  <2>1. sharedCash[pair] = TwoToken!NoShared /\ sharedManaged[pair] = TwoToken!NoShared
    BY DEF TwoTokenInv, OthersAreEmpty
  <2> QED
    BY <2>1 DEF TwoToken!NoShared, TwoToken!Shared, TwoToken!SharedIsZero
<1>2. StoresInv /\ [PoolNext]_poolVars => StoresInv'
  BY StoresStep, StoresStutter
<1> QED
  BY StoresInitially, <1>1, <1>2, PTL DEF PoolSpec

---------------------------------------------------------------------------
(* TemporarilyPausable, for windows of any length.                         *)

(* The clock is a number.                                                  *)
LEMMA ClockType == PausableSpec => [](timestamp \in Nat)
<1>1. PausableInit => timestamp \in Nat
  BY DEF PausableInit
<1>2. timestamp \in Nat /\ [PausableNext]_pausableVars => (timestamp \in Nat)'
  BY DEF PausableNext, pausableVars, PausableTick, SetPaused
<1> QED
  BY <1>1, <1>2, PTL DEF PausableSpec

(* Once the pause window is over, a contract that works can never be       *)
(* stopped again: the owner can only unpause, and the pause of one that is *)
(* stopped expires.                                                        *)
THEOREM CannotBePausedLate == PausableSpec => NoLatePause
<1>1. timestamp \in Nat /\ [PausableNext]_pausableVars =>
        [timestamp >= PauseWindowEnd /\ NotPaused => NotPaused']_pausableVars
  <2> SUFFICES ASSUME timestamp \in Nat, PausableNext, timestamp >= PauseWindowEnd, NotPaused
               PROVE  NotPaused'
    OBVIOUS
  <2>1. CASE PausableTick
    BY <2>1, WindowAssumption DEF PausableTick, NotPaused
  <2>2. ASSUME NEW p \in BOOLEAN, SetPaused(p)
        PROVE  NotPaused'
    BY <2>2, WindowAssumption DEF SetPaused, NotPaused
  <2> QED
    BY <2>1, <2>2 DEF PausableNext
<1> QED
  BY <1>1, ClockType, PTL DEF PausableSpec, NoLatePause


---------------------------------------------------------------------------
(* Signatures.                                                             *)

(* The messages that a contract may expect.                                *)
Types == ActionTypes \cup {"Permit", "SetMinterApproval"}

Contents ==
    VaultCalls \cup [minter : Senders, approval : BOOLEAN]
               \cup [spender : Senders, value : AllowanceInputs]

Messages ==
    [validator : Validators, type : Types, content : Contents,
     sender : Senders \cup {Nobody}, user : Users, nonce : Nat, deadline : Deadlines]

Uses == [message : Messages, sender : Senders, at : Nat]

(* The inductive invariant: that a nonce is used once and in order because *)
(* the nonces used are those below the next one, which only grows.         *)
UsesAreBelow ==
    \A i \in DOMAIN uses :
      uses[i].message.nonce < nextNonce[uses[i].message.validator][uses[i].message.user]

SignatureInv ==
    /\ moment \in Nat
    /\ nextNonce \in [Validators -> [Users -> Nat]]
    /\ uses \in Seq(Uses)
    /\ UsesAreBelow
    /\ SignaturesAreUsedOnce

(* Whatever message a contract expects from a user, accepting the user's   *)
(* signature of it keeps the invariant.                                    *)
LEMMA AcceptKeepsInv ==
  ASSUME SignatureInv, NEW message \in Messages, NEW caller \in Senders,
         message.sender \in {Nobody, caller},
         message.nonce = nextNonce[message.validator][message.user],
         EnsureValidSignature(message, caller), UNCHANGED moment
  PROVE  SignatureInv'
<1> DEFINE v == message.validator
           u == message.user
           use == [message |-> message, sender |-> caller, at |-> moment]
<1>1. /\ v \in Validators /\ u \in Users /\ use \in Uses
      /\ use.message = message /\ use.sender = caller /\ use.at = moment
  BY DEF Messages, Uses, SignatureInv
<1>2. /\ uses' = Append(uses, use)
      /\ message.deadline >= moment
      /\ nextNonce' = [nextNonce EXCEPT ![v][u] = @ + 1]
      /\ message.nonce \in Nat
  BY DEF EnsureValidSignature, Accept, Messages
<1> HIDE DEF use
<1>3. /\ uses' \in Seq(Uses)
      /\ Len(uses) \in Nat
      /\ DOMAIN uses = 1 .. Len(uses)
      /\ Len(uses') = Len(uses) + 1
      /\ DOMAIN uses' = 1 .. Len(uses) + 1
      /\ uses'[Len(uses) + 1] = use
      /\ \A i \in 1 .. Len(uses) : uses'[i] = uses[i]
  BY <1>1, <1>2, AppendProperties, LenProperties DEF SignatureInv
<1>4. /\ nextNonce' \in [Validators -> [Users -> Nat]]
      /\ nextNonce'[v][u] = nextNonce[v][u] + 1
      /\ \A w \in Validators, x \in Users :
           nextNonce'[w][x] = IF w = v /\ x = u THEN nextNonce[v][u] + 1 ELSE nextNonce[w][x]
  BY <1>1, <1>2 DEF SignatureInv
<1>5. \A i \in 1 .. Len(uses) :
        /\ uses[i].message.validator \in Validators /\ uses[i].message.user \in Users
        /\ uses[i].message.nonce \in Nat
        /\ uses[i].message.nonce < nextNonce[uses[i].message.validator][uses[i].message.user]
  <2> TAKE i \in 1 .. Len(uses)
  <2>1. uses[i] \in Uses
    BY <1>3, ElementOfSeq DEF SignatureInv
  <2>2. uses[i].message \in Messages
    BY <2>1 DEF Uses
  <2>3. /\ uses[i].message.validator \in Validators /\ uses[i].message.user \in Users
        /\ uses[i].message.nonce \in Nat
    BY <2>2 DEF Messages
  <2> QED
    BY <2>3, <1>3 DEF SignatureInv, UsesAreBelow
<1>6. UsesAreBelow'
  <2> SUFFICES ASSUME NEW i \in 1 .. Len(uses) + 1
               PROVE  uses'[i].message.nonce < nextNonce'[uses'[i].message.validator][uses'[i].message.user]
    BY <1>3 DEF UsesAreBelow
  <2>1. CASE i = Len(uses) + 1
    BY <2>1, <1>1, <1>2, <1>3, <1>4 DEF SignatureInv
  <2>2. CASE i \in 1 .. Len(uses)
    <3>1. nextNonce[v][u] \in Nat
      BY <1>1 DEF SignatureInv
    <3> DEFINE w == uses[i].message.validator
               x == uses[i].message.user
               n == uses[i].message.nonce
    <3>2. w \in Validators /\ x \in Users /\ n \in Nat /\ n < nextNonce[w][x]
      BY <2>2, <1>5
    <3>3. uses'[i] = uses[i]
      BY <2>2, <1>3
    <3> HIDE DEF w, x, n
    <3>4. n < nextNonce'[w][x]
      BY <3>1, <3>2, <1>4
    <3> QED
      BY <3>3, <3>4 DEF w, x, n
  <2> QED
    BY <2>1, <2>2, <1>3
<1>7. SignaturesAreUsedOnce'
  <2> SUFFICES ASSUME NEW i \in 1 .. Len(uses) + 1
               PROVE  /\ uses'[i].at <= uses'[i].message.deadline
                      /\ uses'[i].message.sender \in {Nobody, uses'[i].sender}
                      /\ \A j \in 1 .. i - 1 :
                           /\ uses'[j].message.validator = uses'[i].message.validator
                           /\ uses'[j].message.user = uses'[i].message.user
                           => uses'[j].message.nonce < uses'[i].message.nonce
    BY <1>3 DEF SignaturesAreUsedOnce
  <2>1. CASE i = Len(uses) + 1
    <3>1. uses'[i].at <= uses'[i].message.deadline /\ uses'[i].message.sender \in {Nobody, uses'[i].sender}
      BY <2>1, <1>1, <1>2, <1>3
    <3>2. ASSUME NEW j \in 1 .. i - 1, uses'[j].message.validator = v, uses'[j].message.user = u
          PROVE  uses'[j].message.nonce < message.nonce
      <4>1. j \in 1 .. Len(uses)
        BY <2>1, <1>3
      <4> QED
        BY <3>2, <4>1, <1>3, <1>5
    <3> QED
      BY <3>1, <3>2, <2>1, <1>1, <1>3
  <2>2. CASE i \in 1 .. Len(uses)
    <3>1. \A j \in 1 .. i - 1 : j \in 1 .. Len(uses)
      BY <2>2, <1>3
    <3> QED
      BY <2>2, <3>1, <1>3 DEF SignatureInv, SignaturesAreUsedOnce
  <2> QED
    BY <2>1, <2>2, <1>3
<1> QED
  BY <1>3, <1>4, <1>6, <1>7 DEF SignatureInv

(* The messages that the three kinds of contracts expect.                  *)
LEMMA ExpectedMessages ==
  ASSUME SignatureInv, NEW validator \in Validators,
         NEW type \in Types, NEW content \in Contents,
         NEW sender \in Senders \cup {Nobody}, NEW user \in Users, NEW deadline \in Deadlines
  PROVE  LET message == Expected(validator, type, content, sender, user, deadline)
         IN  /\ message \in Messages
             /\ message.sender = sender
             /\ message.nonce = nextNonce[message.validator][message.user]
  BY DEF SignatureInv, Expected, Message, Messages

(* What leaves nonces and accepted signatures alone keeps the invariant.   *)
LEMMA OthersKeepInv ==
  ASSUME SignatureInv, UNCHANGED <<nextNonce, uses>>, moment' \in Nat
  PROVE  SignatureInv'
  BY DEF SignatureInv, UsesAreBelow, SignaturesAreUsedOnce

(* A call of a relayer, with its signature or the user's approval.         *)
LEMMA AuthenticateKeepsInv ==
  ASSUME SignatureInv, NEW user \in Users, NEW caller \in Senders, NEW call \in VaultCalls,
         NEW deadline \in Deadlines, AuthenticateFor(user, caller, call, deadline), UNCHANGED moment
  PROVE  SignatureInv'
<1>1. call.type \in ActionTypes
  BY SignersAssumption DEF VaultCalls, ApprovalCalls, ActionTypes
<1>2. CASE UNCHANGED <<nextNonce, uses>>
  BY <1>2, OthersKeepInv DEF SignatureInv
<1> DEFINE message == Expected("Vault", call.type, call, caller, user, deadline)
<1>3. CASE EnsureValidSignature(message, caller)
  <2>1. "Vault" \in Validators /\ call.type \in Types /\ call \in Contents
    BY <1>1 DEF Validators, Types, Contents
  <2>2. /\ message \in Messages /\ message.sender = caller
        /\ message.nonce = nextNonce[message.validator][message.user]
    BY <2>1, ExpectedMessages
  <2> HIDE DEF message
  <2> QED
    BY <1>3, <2>2, AcceptKeepsInv
<1> QED
  BY <1>2, <1>3 DEF AuthenticateFor

(* No signature has been accepted in the beginning.                        *)
LEMMA SignatureInvInitially == SignatureInit => SignatureInv
<1> SUFFICES ASSUME SignatureInit
             PROVE  SignatureInv
  OBVIOUS
<1>1. uses \in Seq(Uses) /\ DOMAIN uses = {}
  BY DEF SignatureInit
<1> QED
  BY <1>1 DEF SignatureInit, SignatureInv, UsesAreBelow, SignaturesAreUsedOnce

(* Signing, presenting a signature, acting directly and the passing of     *)
(* time keep the invariant.                                                *)
LEMMA SignatureInvAlways == SignatureInv /\ [SignatureNext]_signatureVars => SignatureInv'
<1> SUFFICES ASSUME SignatureInv, [SignatureNext]_signatureVars
             PROVE  SignatureInv'
  OBVIOUS
<1>m. moment \in Nat
  BY DEF SignatureInv
<1>1. CASE MomentPasses
  BY <1>1, <1>m, OthersKeepInv DEF MomentPasses
<1>2. CASE UNCHANGED signatureVars
  BY <1>2, <1>m, OthersKeepInv DEF signatureVars
<1>3. ASSUME NEW user \in Users, NEW other \in Senders, NEW deadline \in Deadlines, NEW nonce \in Nonces,
             Signing(user, other, deadline, nonce)
      PROVE  SignatureInv'
  <2>1. ASSUME NEW validator, NEW type, NEW content, NEW sender,
               Sign(validator, type, content, sender, user, deadline, nonce)
        PROVE  SignatureInv'
    BY <2>1, <1>m, OthersKeepInv DEF Sign
  <2> QED
    BY <1>3, <2>1 DEF Signing, SignJoinAuthorization, SignExitAuthorization, SignSwapAuthorization,
         SignBatchSwapAuthorization, SignSetRelayerApprovalAuthorization, SignAuthorizationFor,
         SignSetMinterApproval, SignPermit
<1>4. ASSUME NEW user \in Users, NEW other \in Senders, NEW deadline \in Deadlines,
             Presenting(other, user, deadline)
      PROVE  SignatureInv'
  <2>1. ASSUME NEW call \in PoolCalls, RelayPoolCall(other, user, call, deadline)
        PROVE  SignatureInv'
    BY <2>1, AuthenticateKeepsInv DEF RelayPoolCall, VaultCalls
  <2>2. ASSUME NEW call \in ApprovalCalls, RelaySetRelayerApproval(other, user, call, deadline)
        PROVE  SignatureInv'
    BY <2>2, AuthenticateKeepsInv DEF RelaySetRelayerApproval, VaultCalls
  <2>3. ASSUME NEW amount \in AllowanceInputs, NEW s \in Senders, Permit(other, user, s, amount, deadline)
        PROVE  SignatureInv'
    <3> DEFINE content == [spender |-> s, value |-> amount]
               message == Expected("Token", "Permit", content, Nobody, user, deadline)
    <3>1. content \in Contents
      BY DEF Contents
    <3> HIDE DEF content
    <3>2. "Token" \in Validators /\ "Permit" \in Types /\ Nobody \in Senders \cup {Nobody}
      BY DEF Validators, Types
    <3>3. /\ message \in Messages /\ message.sender = Nobody
          /\ message.nonce = nextNonce[message.validator][message.user]
      BY <3>1, <3>2, ExpectedMessages
    <3>4. EnsureValidSignature(message, other) /\ UNCHANGED moment
      BY <2>3 DEF Permit, content
    <3> HIDE DEF message
    <3> QED
      BY <3>3, <3>4, AcceptKeepsInv
  <2>4. ASSUME NEW m \in Senders, NEW approval \in BOOLEAN,
               SetMinterApprovalWithSignature(other, m, approval, user, deadline)
        PROVE  SignatureInv'
    <3> DEFINE content == [minter |-> m, approval |-> approval]
               message == Expected("Minter", "SetMinterApproval", content, Nobody, user, deadline)
    <3>1. content \in Contents
      BY DEF Contents
    <3> HIDE DEF content
    <3>2. "Minter" \in Validators /\ "SetMinterApproval" \in Types /\ Nobody \in Senders \cup {Nobody}
      BY DEF Validators, Types
    <3>3. /\ message \in Messages /\ message.sender = Nobody
          /\ message.nonce = nextNonce[message.validator][message.user]
      BY <3>1, <3>2, ExpectedMessages
    <3>4. EnsureValidSignature(message, other) /\ UNCHANGED moment
      BY <2>4 DEF SetMinterApprovalWithSignature, content
    <3> HIDE DEF message
    <3> QED
      BY <3>3, <3>4, AcceptKeepsInv
  <2> QED
    BY <1>4, <2>1, <2>2, <2>3, <2>4 DEF Presenting
<1>5. ASSUME NEW user \in Users, NEW other \in Senders, Direct(user, other)
      PROVE  SignatureInv'
  <2>1. UNCHANGED <<moment, nextNonce, uses>>
    BY <1>5 DEF Direct, SetRelayerApproval, SetMinterApproval, ToggleApproveMint, Approve
  <2> QED
    BY <2>1, <1>m, OthersKeepInv
<1> QED
  BY <1>1, <1>2, <1>3, <1>4, <1>5 DEF SignatureNext

(* However many permissions are signed, and whoever presents them in which *)
(* order: a signature is accepted once, by the sender it is for, in time.  *)
THEOREM SignaturesAreAlwaysUsedOnce ==
  SignatureInit /\ [][SignatureNext]_signatureVars => []SignaturesAreUsedOnce
<1>1. SignatureInv => SignaturesAreUsedOnce
  BY DEF SignatureInv
<1> QED
  BY SignatureInvInitially, SignatureInvAlways, <1>1, PTL
=============================================================================
