---------------------------- MODULE PipelineProofs ----------------------------
(***************************************************************************)
(* Proofs about the receiving side as a whole, for every delivery count,   *)
(* every MaxAttempts and every number of tokens: the composition           *)
(* implements each of its parts, so what is proved of a part holds of the  *)
(* whole; the parts stay in step with each other; and a token covers the   *)
(* whole chain of middlewares.                                             *)
(***************************************************************************)
EXTENDS Pipeline, SettlementProofs, FiniteSetTheorems

(***************************************************************************)
(* The inductive invariant.  TokensCoverChain alone does not rule out that *)
(* a delivery begins twice, or that the settlement middleware returns into *)
(* a renewal middleware that is not running: InStep ties the goroutine as  *)
(* module Settlement sees it (pc) to the same goroutine as LockKeeper sees *)
(* it (chain).                                                             *)
(***************************************************************************)
\* A delivery occupies a token from its reception until its goroutine has come
\* back through all the middlewares, and only then; there are never more such
\* goroutines than tokens, whatever the number of deliveries of the message.
TokensCoverChain ==
  /\ Cardinality(active) <= MaxConcurrency
  /\ \A n \in Delivery :
       /\ n \in active => chain[n] # "none"
       /\ chain[n] \notin {"none", "returned", "panicked"} => n \in active
       /\ n \in finished => chain[n] \in {"returned", "panicked"}

PipelineTypes ==
  /\ chain \in [Delivery -> Keeper!Chain]
  /\ active \subseteq Delivery /\ finished \subseteq Delivery
  /\ IsFiniteSet(active)
  /\ active \cap finished = {}

InStep ==
  \A n \in Delivery :
    /\ pc[n] = "none" <=> chain[n] = "none"
    /\ pc[n] \notin {"none", "done"} <=> chain[n] = "running"

PipelineInv == PipelineTypes /\ InStep /\ TokensCoverChain

-----------------------------------------------------------------------------
LEMMA PipelineInitInv == PipelineInit => PipelineInv
  <1> SUFFICES ASSUME PipelineInit PROVE PipelineInv
    OBVIOUS
  <1>1. /\ active = {} /\ finished = {} /\ chain = [n \in Delivery |-> "none"]
        /\ pc = [n \in Delivery |-> "none"]
    BY DEF PipelineInit, Init, Pool!PoolInit
  <1>2. IsFiniteSet(active) /\ Cardinality(active) = 0
    BY <1>1, FS_EmptySet
  <1> QED
    BY <1>1, <1>2, PipelineAssumption
    DEF PipelineInv, PipelineTypes, InStep, TokensCoverChain, Keeper!Chain

\* A reception: the delivery is new to all three parts.
LEMMA ReceiveInv ==
  ASSUME Inv, PipelineInv, Receive
  PROVE  PipelineInv'
  <1> DEFINE n == count + 1
  <1>1. /\ n \in Delivery /\ count' = n /\ pc[n] = "none"
        /\ pc' = [pc EXCEPT ![n] = "handling"]
    BY SettlementAssumption
    DEF Inv, TypeOK, Settled, Receive, Deliver, Delivery
  <1>2. /\ chain' = [chain EXCEPT ![n] = "running"]
        /\ n \notin active /\ n \notin finished
        /\ Pool!Cardinality(active) < MaxConcurrency
        /\ active' = active \cup {n} /\ finished' = finished
    BY <1>1 DEF Receive, Keeper!Begin, Pool!Admit
  <1>3. Cardinality(active) < MaxConcurrency
    <2>1. Pool!Cardinality(active) = Cardinality(active)
      BY Zenon DEF Pool!Cardinality, Cardinality
    <2> QED
      BY <1>2, <2>1
  <1>4. IsFiniteSet(active') /\ Cardinality(active') = Cardinality(active) + 1
        /\ Cardinality(active) \in Nat
    BY <1>2, FS_AddElement, FS_CardinalityType DEF PipelineInv, PipelineTypes
  <1> HIDE DEF n
  <1>5. PipelineTypes'
    BY <1>1, <1>2, <1>4 DEF PipelineInv, PipelineTypes, Keeper!Chain
  <1>6. InStep'
    BY <1>1, <1>2 DEF PipelineInv, PipelineTypes, InStep, Inv, TypeOK
  <1>7. TokensCoverChain'
    BY <1>1, <1>2, <1>3, <1>4, PipelineAssumption
    DEF PipelineInv, PipelineTypes, TokensCoverChain
  <1> QED
    BY <1>5, <1>6, <1>7 DEF PipelineInv

\* The goroutine of a delivery in the settlement middleware: it moves within that
\* middleware, or leaves it.
LEMMA SettlingInv ==
  ASSUME Inv, PipelineInv, NEW n \in Delivery, Handling(n) \/ Settle(n)
  PROVE  PipelineInv'
  <1>1. /\ pc[n] \notin {"none", "done"}
        /\ \E p \in {"delay", "done"} \cup Settlements : pc' = [pc EXCEPT ![n] = p]
    BY DEF Handling, Settle, Settling, HandlerPanics, ManagedReturnsNil,
           ManagedReturnsError, SettlementReturned, HandlerGave, DelayOver,
           SettleTakesEffect, SettleFails, SettleDone, Settlements
  <1>2. UNCHANGED <<active, finished>>
    BY DEF Handling, Settle, Settling, pool
  <1>3. \/ pc'[n] = "done" /\ \E c \in {"panicked", "stopping"} :
              chain' = [chain EXCEPT ![n] = c]
        \/ pc'[n] # "done" /\ chain' = chain
    BY DEF Handling, Settle, Settling, Keeper!HandlerEnds, keeper
  <1>4. chain[n] = "running" /\ n \in active /\ n \notin finished
    BY <1>1 DEF PipelineInv, InStep, TokensCoverChain
  <1>5. PipelineTypes'
    BY <1>2, <1>3 DEF PipelineInv, PipelineTypes, Keeper!Chain
  <1>6. InStep'
    BY <1>1, <1>3, <1>4
    DEF PipelineInv, PipelineTypes, InStep, Inv, TypeOK, Settlements
  <1>7. TokensCoverChain'
    BY <1>2, <1>3, <1>4 DEF PipelineInv, PipelineTypes, TokensCoverChain
  <1> QED
    BY <1>5, <1>6, <1>7 DEF PipelineInv

\* The renewer, and the handler's goroutine in stop.
LEMMA RenewingInv ==
  ASSUME PipelineInv, NEW n \in Delivery, Renewing(n)
  PROVE  PipelineInv'
  <1>1. UNCHANGED <<pc, active, finished>>
    BY DEF Renewing, vars, pool
  <1>2. \/ chain' = chain
        \/ chain[n] = "stopping" /\ \E c \in {"returned", "blocked"} :
             chain' = [chain EXCEPT ![n] = c]
    BY DEF Renewing, Keeper!RenewalStops, Keeper!GiveUp, Keeper!RenewalEnds,
           Keeper!GiveUpStep, Keeper!GiveUpReturns, Keeper!GiveUpBlocks,
           Keeper!StopStep, Keeper!StopReturns, Keeper!StopBlocks
  <1>3. PipelineTypes'
    BY <1>1, <1>2 DEF PipelineInv, PipelineTypes, Keeper!Chain
  <1>4. InStep'
    BY <1>1, <1>2 DEF PipelineInv, PipelineTypes, InStep
  <1>5. TokensCoverChain'
    BY <1>1, <1>2 DEF PipelineInv, PipelineTypes, TokensCoverChain
  <1> QED
    BY <1>3, <1>4, <1>5 DEF PipelineInv

\* The deferred functions of Processor.process.
LEMMA ReleaseInv ==
  ASSUME PipelineInv, NEW n \in Delivery, Release(n)
  PROVE  PipelineInv'
  <1>1. /\ chain[n] \in {"returned", "panicked"} /\ n \in active
        /\ active' = active \ {n} /\ finished' = finished \cup {n}
        /\ UNCHANGED <<pc, chain>>
    BY DEF Release, ChainEnded, Pool!Retire, vars, keeper
  <1>2. /\ IsFiniteSet(active') /\ Cardinality(active') = Cardinality(active) - 1
        /\ Cardinality(active) \in Nat
    BY <1>1, FS_RemoveElement, FS_CardinalityType DEF PipelineInv, PipelineTypes
  <1> QED
    BY <1>1, <1>2, PipelineAssumption
    DEF PipelineInv, PipelineTypes, InStep, TokensCoverChain

LEMMA PipelineNextInv ==
  Inv /\ PipelineInv /\ [PipelineNext]_allVars => PipelineInv'
  <1> SUFFICES ASSUME Inv, PipelineInv, [PipelineNext]_allVars PROVE PipelineInv'
    OBVIOUS
  <1>1. CASE UNCHANGED <<pc, chain, active, finished>>
    BY <1>1 DEF PipelineInv, PipelineTypes, InStep, TokensCoverChain
  <1>2. CASE Broker
    BY <1>1, <1>2 DEF Broker, LockExpires, BrokerDeadLetters, pool, keeper
  <1>3. ASSUME NEW n \in Delivery, CancelContext(n) PROVE PipelineInv'
    BY <1>1, <1>3 DEF CancelContext, Keeper!ContextEnds, vars, pool
  <1>4. CASE UNCHANGED allVars
    BY <1>1, <1>4 DEF allVars, vars, pool, keeper
  <1> QED
    BY <1>2, <1>3, <1>4, ReceiveInv, SettlingInv, RenewingInv, ReleaseInv
    DEF PipelineNext

-----------------------------------------------------------------------------
(* Each part of the composition takes its own steps only. *)

LEMMA StepOfSettlement == [PipelineNext]_allVars => [Next]_vars
  <1> SUFFICES ASSUME [PipelineNext]_allVars PROVE Next \/ UNCHANGED vars
    OBVIOUS
  <1>1. CASE Receive \/ Broker
    BY <1>1 DEF Receive, Broker, Next
  <1>2. ASSUME NEW n \in Delivery, Handling(n) \/ Settle(n) PROVE Next
    BY <1>2 DEF Handling, Settle, Settling, Next
  <1>3. ASSUME NEW n \in Delivery, Renewing(n) \/ Release(n) \/ CancelContext(n)
        PROVE  UNCHANGED vars
    BY <1>3 DEF Renewing, Release, CancelContext
  <1>4. CASE UNCHANGED allVars
    BY <1>4 DEF allVars
  <1> QED
    BY <1>1, <1>2, <1>3, <1>4 DEF PipelineNext

LEMMA StepOfPool ==
  Inv /\ [PipelineNext]_allVars => [Pool!PoolNext]_(Pool!poolVars)
  <1> SUFFICES ASSUME Inv, [PipelineNext]_allVars
               PROVE  Pool!PoolNext \/ UNCHANGED <<active, finished>>
    BY DEF Pool!poolVars
  <1>1. CASE Receive
    <2>1. count' \in Delivery
      BY <1>1, SettlementAssumption DEF Receive, Deliver, Inv, TypeOK, Delivery
    <2> QED
      BY <1>1, <2>1 DEF Receive, Pool!PoolNext
  <1>2. ASSUME NEW n \in Delivery, Release(n) PROVE Pool!PoolNext
    BY <1>2 DEF Release, Pool!PoolNext
  <1>3. ASSUME NEW n \in Delivery,
               Handling(n) \/ Settle(n) \/ Renewing(n) \/ CancelContext(n)
        PROVE  UNCHANGED <<active, finished>>
    BY <1>3 DEF Handling, Settle, Settling, Renewing, CancelContext, pool
  <1>4. CASE Broker \/ UNCHANGED allVars
    BY <1>4 DEF Broker, allVars, pool
  <1> QED
    BY <1>1, <1>2, <1>3, <1>4 DEF PipelineNext

LEMMA StepOfKeeper ==
  Inv /\ [PipelineNext]_allVars => [Keeper!KeeperNext]_(Keeper!keeper)
  <1> SUFFICES ASSUME Inv, [PipelineNext]_allVars
               PROVE  Keeper!KeeperNext \/ UNCHANGED keeper
    BY DEF Keeper!keeper, keeper
  <1>1. CASE Receive
    <2>1. count' \in Delivery
      BY <1>1, SettlementAssumption DEF Receive, Deliver, Inv, TypeOK, Delivery
    <2> QED
      BY <1>1, <2>1 DEF Receive, Keeper!KeeperNext
  <1>2. ASSUME NEW n \in Delivery, Handling(n) \/ Settle(n)
        PROVE  Keeper!KeeperNext \/ UNCHANGED keeper
    <2>1. \/ Keeper!HandlerEnds(n, "panicked") \/ Keeper!HandlerEnds(n, "stopping")
          \/ UNCHANGED keeper
      BY <1>2 DEF Handling, Settle, Settling
    <2> QED
      BY <2>1 DEF Keeper!KeeperNext
  <1>3. ASSUME NEW n \in Delivery, Renewing(n) \/ CancelContext(n)
        PROVE  Keeper!KeeperNext
    BY <1>3 DEF Renewing, CancelContext, Keeper!KeeperNext
  <1>4. ASSUME NEW n \in Delivery, Release(n) PROVE UNCHANGED keeper
    BY <1>4 DEF Release
  <1>5. CASE Broker \/ UNCHANGED allVars
    BY <1>5 DEF Broker, allVars
  <1> QED
    BY <1>1, <1>2, <1>3, <1>4, <1>5 DEF PipelineNext

\* The receiving side is still the settlement specification, so that what is
\* proved of the middlewares holds with the pool and the renewal around them.
THEOREM ImplementsSettlement == PipelineSpec => Spec
  <1>1. PipelineInit => Init
    BY DEF PipelineInit
  <1> QED
    BY <1>1, StepOfSettlement, PTL DEF PipelineSpec, Spec

\* Pipeline and settlement invariants together.
THEOREM PipelineInvariance == PipelineSpec => [](Inv /\ PipelineInv)
  BY PipelineInitInv, PipelineNextInv, ImplementsSettlement, Invariance, PTL
  DEF PipelineSpec

-----------------------------------------------------------------------------
\* Lifted to the whole: no message is lost, the retry budget is kept, OnCompleted
\* tells the truth and a settlement is final, with pool, renewal and broker
\* interleaved.
THEOREM SettlementHolds ==
  PipelineSpec => /\ [](NoMessageLost /\ RetryBudget /\ CompletedHookIsTrue)
                  /\ [][SettledForGood]_vars
  BY ImplementsSettlement, MessageNotLost, RetriesBounded, HookIsTrue, SettlementIsFinal,
     PTL

\* A delivery occupies a token until its goroutine is back from all middlewares.
THEOREM TokensCover == PipelineSpec => []TokensCoverChain
  <1>1. PipelineInv => TokensCoverChain
    BY DEF PipelineInv
  <1> QED
    BY <1>1, PipelineInvariance, PTL

\* The settlement middleware runs exactly while the renewal middleware has its
\* handler running, so neither waits for the other where the code has a call.
THEOREM MiddlewaresInStep == PipelineSpec => []InStep
  <1>1. PipelineInv => InStep
    BY DEF PipelineInv
  <1> QED
    BY <1>1, PipelineInvariance, PTL

\* The receiving side uses the tokens as the abstract pool says, and the renewal
\* as LockKeeper says (its liveness apart).
THEOREM ImplementsParts ==
  PipelineSpec => /\ Pool!PoolSpec
                  /\ Keeper!KeeperInit /\ [][Keeper!KeeperNext]_(Keeper!keeper)
  <1>1. PipelineInit => Pool!PoolInit /\ Keeper!KeeperInit
    BY DEF PipelineInit
  <1> QED
    BY <1>1, StepOfPool, StepOfKeeper, ImplementsSettlement, Invariance, PTL
    DEF PipelineSpec, Pool!PoolSpec

=============================================================================
