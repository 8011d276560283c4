--------------------------- MODULE ProcessorProofs ---------------------------
(***************************************************************************)
(* Proofs about the message pump, for every set of deliveries and every    *)
(* value of the options: the type invariant, the token accounting, the     *)
(* bound on concurrent handlers, the absence of starved batches in the     *)
(* first attempt, the refinement of WorkerPool, and that each delivery is  *)
(* handled once and none is dropped.                                       *)
(***************************************************************************)
EXTENDS Processor, FiniteSetTheorems, TLAPS

(***************************************************************************)
(* The inductive invariant.  The bound on starved batches is not inductive *)
(* by itself: it needs the bound passed to the receive call in progress    *)
(* (ReceiveFits), that no batch is left over when a receive call starts    *)
(* (BatchOnlyWhileDispatching) and that the pool is empty before Start.    *)
(***************************************************************************)
Accounting == IsFiniteSet(Holding) /\ TokenAccounting /\ tokens <= MaxConcurrency

BatchOnlyWhileDispatching ==
  /\ IsFiniteSet(Batch)
  /\ pump \notin {"dispatching", "crashed"} => Batch = {}

ReceiveFits ==
  attempt = 0 /\ pump = "receiving" => tokens + maxMessages <= MaxConcurrency

Control ==
  /\ pump = "idle" => tokens = 0
  /\ pump = "backoff" => attempt + 1 < StartMaxAttempt

Inv ==
  /\ TypeOK
  /\ Accounting
  /\ BatchOnlyWhileDispatching
  /\ ReceiveFits
  /\ Control
  /\ NoStarvedBatch

-----------------------------------------------------------------------------
\* applyProcessorOptions always yields usable options.
LEMMA OptionsInRange ==
  /\ MaxConcurrency \in Nat \ {0}
  /\ MaxReceiveCount \in 1 .. MaxConcurrency
  /\ StartMaxAttempt \in Nat \ {0}
  BY OptionsAssumption DEF MaxConcurrency, MaxReceiveCount, StartMaxAttempt

\* Moving one delivery to another phase changes the sets of deliveries that own
\* a token, are in the batch or gave their token back by that delivery only.
LEMMA OneDeliveryMoves ==
  ASSUME TypeOK, NEW d \in Delivery, NEW p \in Phase,
         phase' = [phase EXCEPT ![d] = p]
  PROVE  /\ phase' \in [Delivery -> Phase]
         /\ Holding' = IF p \in {"spawned", "handling", "unwound"}
                       THEN Holding \cup {d} ELSE Holding \ {d}
         /\ Batch' = IF p = "batched" THEN Batch \cup {d} ELSE Batch \ {d}
         /\ Released' = IF p \in {"released", "done"}
                        THEN Released \cup {d} ELSE Released \ {d}
  BY DEF TypeOK, Holding, Batch, Released, InPhase, Phase

\* With the phases, the derived sets stay as they are.
LEMMA NoDeliveryMoves ==
  ASSUME phase' = phase
  PROVE  Holding' = Holding /\ Batch' = Batch /\ Released' = Released
  BY DEF Holding, Batch, Released, InPhase

LEMMA InitInv == Init => Inv
  <1> SUFFICES ASSUME Init PROVE Inv
    OBVIOUS
  <1>1. Holding = {} /\ Batch = {}
    BY DEF Init, Holding, Batch, InPhase
  <1>2. TypeOK
    <2>1. ctxDone \in BOOLEAN
      BY Zenon DEF Init
    <2> QED
      BY <2>1, OptionsInRange DEF Init, TypeOK, PumpState, Phase
  <1> QED
    BY <1>1, <1>2, OptionsInRange, FS_EmptySet
    DEF Init, Inv, Accounting, TokenAccounting, BatchOnlyWhileDispatching,
        ReceiveFits, Control, NoStarvedBatch

\* The steps of the pump that move no delivery.
LEMMA PumpStepInv ==
  ASSUME Inv, \/ Start \/ Cancel \/ ReceiveError \/ ReceivePanic \/ EndOfBatch
              \/ Tick \/ ContextExit \/ RetryTick \/ RetryCancelled
  PROVE  Inv'
  <1>1. phase' = phase /\ tokens' = tokens /\ gauge' = gauge /\ unwinding' = unwinding
    BY DEF Start, Cancel, ReceiveError, ReceivePanic, EndOfBatch, Tick,
           ContextExit, RetryTick, RetryCancelled, AttemptFails
  <1>2. Holding' = Holding /\ Batch' = Batch
    BY <1>1, NoDeliveryMoves
  <1>3. Accounting' /\ IsFiniteSet(Batch)'
    BY <1>1, <1>2 DEF Inv, Accounting, TokenAccounting, BatchOnlyWhileDispatching
  <1>4. Cardinality(Batch) \in Nat /\ (Batch = {} => Cardinality(Batch) = 0)
    BY FS_CardinalityType, FS_EmptySet DEF Inv, BatchOnlyWhileDispatching
  <1>5. TypeOK'
    <2>1. ctxDone' \in BOOLEAN
      BY Zenon DEF Inv, TypeOK, Start, Cancel, ReceiveError, ReceivePanic,
          EndOfBatch, Tick, ContextExit, RetryTick, RetryCancelled, AttemptFails
    <2>2. attempt' \in 0 .. StartMaxAttempt - 1
      BY OptionsInRange
      DEF Inv, TypeOK, Control, Start, Cancel, ReceiveError, ReceivePanic,
          EndOfBatch, Tick, ContextExit, RetryTick, RetryCancelled, AttemptFails
    <2>3. maxMessages' \in 0 .. MaxReceiveCount
      BY OptionsInRange
      DEF Inv, TypeOK, Accounting, Start, Cancel, ReceiveError, ReceivePanic,
          EndOfBatch, Tick, ContextExit, RetryTick, RetryCancelled, AttemptFails,
          ReceiveLimit
    <2>4. pump' \in PumpState
      BY DEF Inv, TypeOK, PumpState, Start, Cancel, ReceiveError, ReceivePanic,
          EndOfBatch, Tick, ContextExit, RetryTick, RetryCancelled, AttemptFails
    <2> QED
      BY <1>1, <2>1, <2>2, <2>3, <2>4 DEF Inv, TypeOK
  <1>6. (pump' \notin {"dispatching", "crashed"} => Batch' = {})
    BY <1>2
    DEF Inv, BatchOnlyWhileDispatching, Start, Cancel, ReceiveError, ReceivePanic,
        EndOfBatch, Tick, ContextExit, RetryTick, RetryCancelled, AttemptFails,
        BatchDispatched
  <1>7. ReceiveFits' /\ Control'
    BY <1>1, OptionsInRange
    DEF Inv, TypeOK, ReceiveFits, Control, Start, Cancel, ReceiveError,
        ReceivePanic, EndOfBatch, Tick, ContextExit, RetryTick, RetryCancelled,
        AttemptFails, ReceiveLimit, Accounting
  <1>8. NoStarvedBatch'
    BY <1>1, <1>2
    DEF Inv, TypeOK, NoStarvedBatch, Start, Cancel, ReceiveError,
        ReceivePanic, EndOfBatch, Tick, ContextExit, RetryTick, RetryCancelled,
        AttemptFails
  <1> QED
    BY <1>3, <1>5, <1>6, <1>7, <1>8 DEF Inv, BatchOnlyWhileDispatching

\* A receive call that returns at most maxMessages messages fits the free tokens.
LEMMA ReceiveInv ==
  ASSUME Inv, NEW S \in SUBSET InPhase({"unreceived"}), ReceiveMessages(S)
  PROVE  Inv'
  <1>1. S \subseteq Delivery /\ IsFiniteSet(S) /\ Cardinality(S) <= maxMessages
    BY DEF ReceiveMessages, InPhase
  <1>2. /\ pump = "receiving" /\ pump' = "dispatching"
        /\ attempt' = attempt /\ maxMessages' = maxMessages /\ tokens' = tokens
        /\ ctxDone' = ctxDone /\ gauge' = gauge /\ unwinding' = unwinding
        /\ phase' = [d \in Delivery |-> IF d \in S THEN "batched" ELSE phase[d]]
    BY DEF ReceiveMessages
  <1>3. Batch = {}
    BY <1>2 DEF Inv, BatchOnlyWhileDispatching
  <1>4. Holding' = Holding
    BY <1>2 DEF Holding, InPhase
  <1>5. Batch' = S
    BY <1>1, <1>2, <1>3 DEF Batch, InPhase
  <1>6. TypeOK'
    BY <1>1, <1>2 DEF Inv, TypeOK, PumpState, Phase
  <1>7. Accounting' /\ BatchOnlyWhileDispatching' /\ ReceiveFits' /\ Control'
    BY <1>1, <1>2, <1>4, <1>5
    DEF Inv, Accounting, TokenAccounting, BatchOnlyWhileDispatching, ReceiveFits, Control
  <1>8. Cardinality(S) \in Nat
    BY <1>1, FS_CardinalityType
  <1>9. NoStarvedBatch'
    BY <1>1, <1>2, <1>5, <1>8, OptionsInRange
    DEF Inv, TypeOK, ReceiveFits, NoStarvedBatch
  <1> QED
    BY <1>6, <1>7, <1>9 DEF Inv

\* process moves a delivery from the batch to the token holders.
LEMMA ProcessInv ==
  ASSUME Inv, NEW d \in Delivery, Process(d)
  PROVE  Inv'
  <1>1. /\ pump = "dispatching" /\ phase[d] = "batched" /\ tokens < MaxConcurrency
        /\ tokens' = tokens + 1 /\ phase' = [phase EXCEPT ![d] = "spawned"]
        /\ pump' = pump /\ attempt' = attempt /\ maxMessages' = maxMessages
        /\ ctxDone' = ctxDone /\ gauge' = gauge /\ unwinding' = unwinding
    BY DEF Process, TokenFree
  <1>2. /\ phase' \in [Delivery -> Phase]
        /\ Holding' = Holding \cup {d} /\ Batch' = Batch \ {d}
    <2>1. TypeOK /\ "spawned" \in Phase
      BY DEF Inv, Phase
    <2> QED
      BY <1>1, <2>1, OneDeliveryMoves
  <1>3. d \notin Holding /\ d \in Batch
    BY <1>1 DEF Holding, Batch, InPhase
  <1>4. /\ IsFiniteSet(Holding') /\ Cardinality(Holding') = Cardinality(Holding) + 1
        /\ IsFiniteSet(Batch') /\ Cardinality(Batch') = Cardinality(Batch) - 1
    BY <1>2, <1>3, FS_AddElement, FS_RemoveElement
    DEF Inv, Accounting, BatchOnlyWhileDispatching
  <1>5. Cardinality(Batch) \in Nat /\ Cardinality(Holding) \in Nat
    BY FS_CardinalityType DEF Inv, Accounting, BatchOnlyWhileDispatching
  <1>6. TypeOK'
    BY <1>1, <1>2 DEF Inv, TypeOK
  <1>7. Accounting'
    BY <1>1, <1>4, <1>5, OptionsInRange DEF Inv, TypeOK, Accounting, TokenAccounting
  <1>8. BatchOnlyWhileDispatching' /\ ReceiveFits' /\ Control'
    BY <1>1, <1>4 DEF Inv, BatchOnlyWhileDispatching, ReceiveFits, Control
  <1>9. NoStarvedBatch'
    BY <1>1, <1>4, <1>5, OptionsInRange DEF Inv, TypeOK, NoStarvedBatch
  <1> QED
    BY <1>6, <1>7, <1>8, <1>9 DEF Inv

\* The goroutine of a delivery, up to the release of its token.
LEMMA HandlerInv ==
  ASSUME Inv, NEW d \in Delivery, Begin(d) \/ HandlerEnds(d)
  PROVE  Inv'
  <1>1. /\ phase[d] \in {"spawned", "handling"}
        /\ \E p \in {"handling", "unwound"} : phase' = [phase EXCEPT ![d] = p]
        /\ pump' = pump /\ attempt' = attempt /\ maxMessages' = maxMessages
        /\ ctxDone' = ctxDone /\ tokens' = tokens
    BY DEF Begin, HandlerEnds, HandlerReturns, HandlerPanics
  <1>2. gauge' \in Int /\ unwinding' \subseteq Delivery
    BY DEF Inv, TypeOK, Begin, HandlerEnds, HandlerReturns, HandlerPanics
  <1>3. d \in Holding /\ d \notin Batch
    BY <1>1 DEF Holding, Batch, InPhase
  <1>4. phase' \in [Delivery -> Phase] /\ Holding' = Holding /\ Batch' = Batch
    <2>1. PICK p \in {"handling", "unwound"} : phase' = [phase EXCEPT ![d] = p]
      BY <1>1
    <2>2. TypeOK /\ p \in Phase
      BY DEF Inv, Phase
    <2>3. /\ phase' \in [Delivery -> Phase]
          /\ Holding' = Holding \cup {d} /\ Batch' = Batch \ {d}
      BY <2>1, <2>2, OneDeliveryMoves
    <2> QED
      BY <1>3, <2>3
  <1>5. TypeOK'
    BY <1>1, <1>2, <1>4 DEF Inv, TypeOK
  <1>6. /\ Accounting' /\ BatchOnlyWhileDispatching' /\ ReceiveFits' /\ Control'
        /\ NoStarvedBatch'
    BY <1>1, <1>4 DEF Inv, Accounting, TokenAccounting, BatchOnlyWhileDispatching,
                      ReceiveFits, Control, NoStarvedBatch
  <1> QED
    BY <1>5, <1>6 DEF Inv

\* The deferred release gives back the token of the delivery.
LEMMA ReleaseInv ==
  ASSUME Inv, NEW d \in Delivery, Release(d)
  PROVE  Inv'
  <1>1. /\ phase[d] = "unwound" /\ phase' = [phase EXCEPT ![d] = "released"]
        /\ tokens' = tokens - 1
        /\ pump' = pump /\ attempt' = attempt /\ maxMessages' = maxMessages
        /\ ctxDone' = ctxDone /\ gauge' = gauge /\ unwinding' = unwinding
    BY DEF Release, TokensAfter
  <1>2. d \in Holding /\ d \notin Batch
    BY <1>1 DEF Holding, Batch, InPhase
  <1>3. /\ phase' \in [Delivery -> Phase]
        /\ Holding' = Holding \ {d} /\ Batch' = Batch
    <2>1. TypeOK /\ "released" \in Phase
      BY DEF Inv, Phase
    <2>2. /\ phase' \in [Delivery -> Phase]
          /\ Holding' = Holding \ {d} /\ Batch' = Batch \ {d}
      BY <1>1, <2>1, OneDeliveryMoves
    <2> QED
      BY <1>2, <2>2
  <1>4. /\ IsFiniteSet(Holding') /\ Cardinality(Holding') = Cardinality(Holding) - 1
        /\ Cardinality(Holding') \in Nat
    BY <1>2, <1>3, FS_RemoveElement, FS_CardinalityType DEF Inv, Accounting
  <1>5. tokens' \in Nat /\ tokens' = Cardinality(Holding')
    BY <1>1, <1>4 DEF Inv, Accounting, TokenAccounting
  <1>6. TypeOK'
    BY <1>1, <1>3, <1>5 DEF Inv, TypeOK
  <1>7. Accounting'
    BY <1>1, <1>4, <1>5, OptionsInRange DEF Inv, TypeOK, Accounting, TokenAccounting
  <1>8. BatchOnlyWhileDispatching'
    BY <1>1, <1>3 DEF Inv, BatchOnlyWhileDispatching
  <1>9. ReceiveFits'
    BY <1>1, <1>5, OptionsInRange DEF Inv, TypeOK, ReceiveFits
  <1>10. Control'
    BY <1>1, <1>5 DEF Inv, TypeOK, Control
  <1>11. Cardinality(Batch) \in Nat
    BY FS_CardinalityType DEF Inv, BatchOnlyWhileDispatching
  <1>12. NoStarvedBatch'
    BY <1>1, <1>3, <1>5, <1>11, OptionsInRange DEF Inv, TypeOK, NoStarvedBatch
  <1> QED
    BY <1>6, <1>7, <1>8, <1>9, <1>10, <1>12 DEF Inv

\* The end of a goroutine, which may be the end of the process.
LEMMA FinishInv ==
  ASSUME Inv, NEW d \in Delivery, Finish(d)
  PROVE  Inv'
  <1>1. /\ phase[d] = "released" /\ phase' = [phase EXCEPT ![d] = "done"]
        /\ pump' \in {pump, "crashed"} /\ gauge' = gauge - 1
        /\ attempt' = attempt /\ maxMessages' = maxMessages
        /\ ctxDone' = ctxDone /\ tokens' = tokens /\ unwinding' = unwinding
    BY DEF Finish, GaugeAfter
  <1>2. d \notin Holding /\ d \notin Batch
    BY <1>1 DEF Holding, Batch, InPhase
  <1>3. phase' \in [Delivery -> Phase] /\ Holding' = Holding /\ Batch' = Batch
    <2>1. TypeOK /\ "done" \in Phase
      BY DEF Inv, Phase
    <2>2. /\ phase' \in [Delivery -> Phase]
          /\ Holding' = Holding \ {d} /\ Batch' = Batch \ {d}
      BY <1>1, <2>1, OneDeliveryMoves
    <2> QED
      BY <1>2, <2>2
  <1>4. TypeOK'
    BY <1>1, <1>3 DEF Inv, TypeOK, PumpState
  <1>5. /\ Accounting' /\ BatchOnlyWhileDispatching' /\ ReceiveFits' /\ Control'
        /\ NoStarvedBatch'
    BY <1>1, <1>3 DEF Inv, Accounting, TokenAccounting, BatchOnlyWhileDispatching,
                      ReceiveFits, Control, NoStarvedBatch
  <1> QED
    BY <1>4, <1>5 DEF Inv

LEMMA StutterInv == Inv /\ UNCHANGED vars => Inv'
  <1> SUFFICES ASSUME Inv, UNCHANGED vars PROVE Inv'
    OBVIOUS
  <1>1. Holding' = Holding /\ Batch' = Batch
    BY NoDeliveryMoves DEF vars
  <1> QED
    BY <1>1 DEF vars, Inv, TypeOK, Accounting, TokenAccounting,
        BatchOnlyWhileDispatching, ReceiveFits, Control, NoStarvedBatch

\* Every step of the pump, of a worker or of the environment preserves Inv.
LEMMA NextInv == Inv /\ [Next]_vars => Inv'
  <1> SUFFICES ASSUME Inv, [Next]_vars PROVE Inv'
    OBVIOUS
  <1>1. CASE \/ Start \/ Cancel \/ ReceiveError \/ ReceivePanic \/ EndOfBatch
             \/ Tick \/ ContextExit \/ RetryTick \/ RetryCancelled
    BY <1>1, PumpStepInv
  <1>2. CASE Receive
    BY <1>2, ReceiveInv DEF Receive
  <1>3. ASSUME NEW d \in Delivery, Process(d) PROVE Inv'
    BY <1>3, ProcessInv
  <1>4. CASE WorkerNext
    BY <1>4, HandlerInv, ReleaseInv, FinishInv DEF WorkerNext
  <1>5. CASE UNCHANGED vars
    BY <1>5, StutterInv
  <1> QED
    BY <1>1, <1>2, <1>3, <1>4, <1>5 DEF Next, PumpNext

\* Whatever the pump and the handlers do, tokens, batch and receive call stay in
\* step, restarts and panics included.
THEOREM Invariance == Spec => []Inv
  BY InitInv, NextInv, PTL DEF Spec

-----------------------------------------------------------------------------
\* The variables of the pump keep their types.
THEOREM TypeCorrect == Spec => []TypeOK
  <1>1. Inv => TypeOK
    BY DEF Inv
  <1> QED
    BY <1>1, Invariance, PTL

\* The token channel counts the goroutines that own a token, on every path
\* through process and across restarts of the pump.
THEOREM TokensAccountedFor == Spec => []TokenAccounting
  <1>1. Inv => TokenAccounting
    BY DEF Inv, Accounting
  <1> QED
    BY <1>1, Invariance, PTL

\* No more than MaxConcurrency handlers run at a time.
THEOREM ConcurrencyBounded == Spec => []ConcurrencyBound
  <1>1. Inv => ConcurrencyBound
    <2> SUFFICES ASSUME Inv PROVE ConcurrencyBound
      OBVIOUS
    <2>1. Handling \in SUBSET Holding
      BY DEF Handling, Holding, InPhase
    <2>2. /\ IsFiniteSet(Holding) /\ Cardinality(Holding) \in Nat
          /\ Cardinality(Holding) <= MaxConcurrency
      BY FS_CardinalityType DEF Inv, Accounting, TokenAccounting
    <2>3. /\ IsFiniteSet(Handling) /\ Cardinality(Handling) \in Nat
          /\ Cardinality(Handling) <= Cardinality(Holding)
      BY <2>1, <2>2, FS_Subset, FS_CardinalityType
    <2> QED
      BY <2>2, <2>3, OptionsInRange DEF ConcurrencyBound
  <1> QED
    BY <1>1, Invariance, PTL

\* The first attempt never receives a message it has no token for.
THEOREM NoBatchStarves == Spec => []NoStarvedBatch
  <1>1. Inv => NoStarvedBatch
    BY DEF Inv
  <1> QED
    BY <1>1, Invariance, PTL

-----------------------------------------------------------------------------
(***************************************************************************)
(* The gauge.  Inductive on top of Inv: Begin adds the delivery to the set *)
(* that is counted, Finish takes it out, and no step in between does,      *)
(* whichever way the handler ends.                                         *)
(***************************************************************************)
Counted == InPhase({"handling", "unwound", "released"})

Gauge == IsFiniteSet(Counted) /\ GaugeAccounting

LEMMA InitGauge == Init => Gauge
  <1> SUFFICES ASSUME Init PROVE Gauge
    OBVIOUS
  <1>1. Counted = {}
    BY DEF Init, Counted, InPhase
  <1> QED
    BY <1>1, FS_EmptySet DEF Init, Gauge, GaugeAccounting, Counted

LEMMA NextGauge == Inv /\ Gauge /\ [Next]_vars => Gauge'
  <1> SUFFICES ASSUME Inv, Gauge, [Next]_vars PROVE Gauge'
    OBVIOUS
  <1>1. CASE Counted' = Counted /\ gauge' = gauge
    BY <1>1 DEF Gauge, GaugeAccounting, Counted
  <1>2. ASSUME NEW d \in Delivery, Begin(d) PROVE Gauge'
    <2>1. phase[d] = "spawned" /\ phase' = [phase EXCEPT ![d] = "handling"]
          /\ gauge' = gauge + 1
      BY <1>2 DEF Begin
    <2>2. d \notin Counted /\ Counted' = Counted \cup {d}
      BY <2>1 DEF Inv, TypeOK, Counted, InPhase
    <2>3. IsFiniteSet(Counted') /\ Cardinality(Counted') = Cardinality(Counted) + 1
      BY <2>2, FS_AddElement DEF Gauge
    <2> QED
      BY <2>1, <2>3 DEF Gauge, GaugeAccounting, Counted
  <1>3. ASSUME NEW d \in Delivery, Finish(d) PROVE Gauge'
    <2>1. phase[d] = "released" /\ phase' = [phase EXCEPT ![d] = "done"]
          /\ gauge' = gauge - 1
      BY <1>3 DEF Finish, GaugeAfter
    <2>2. d \in Counted /\ Counted' = Counted \ {d}
      BY <2>1 DEF Inv, TypeOK, Counted, InPhase
    <2>3. IsFiniteSet(Counted') /\ Cardinality(Counted') = Cardinality(Counted) - 1
      BY <2>2, FS_RemoveElement DEF Gauge
    <2> QED
      BY <2>1, <2>3 DEF Gauge, GaugeAccounting, Counted
  <1>4. ASSUME NEW d \in Delivery, Process(d) \/ HandlerEnds(d) \/ Release(d)
        PROVE  Gauge'
    BY <1>1, <1>4 DEF Inv, TypeOK, Counted, InPhase, Process, HandlerEnds,
                      HandlerReturns, HandlerPanics, Release
  <1>5. CASE Receive
    BY <1>1, <1>5 DEF Receive, ReceiveMessages, Counted, InPhase
  <1>6. CASE \/ Start \/ Cancel \/ ReceiveError \/ ReceivePanic \/ EndOfBatch
             \/ Tick \/ ContextExit \/ RetryTick \/ RetryCancelled
    BY <1>1, <1>6 DEF Counted, InPhase, Start, Cancel, ReceiveError, ReceivePanic,
         EndOfBatch, Tick, ContextExit, RetryTick, RetryCancelled, AttemptFails
  <1>7. CASE UNCHANGED vars
    BY <1>1, <1>7 DEF vars, Counted, InPhase
  <1> QED
    BY <1>2, <1>3, <1>4, <1>5, <1>6, <1>7 DEF Next, PumpNext, WorkerNext

\* The concurrency gauge is exact on every path, panics and restarts included.
THEOREM GaugeIsExact == Spec => []GaugeAccounting
  <1>1. Gauge => GaugeAccounting
    BY DEF Gauge
  <1> QED
    BY <1>1, InitGauge, NextGauge, Invariance, PTL DEF Spec

-----------------------------------------------------------------------------
(***************************************************************************)
(* Refinement: process takes a slot of the pool, the deferred release      *)
(* frees it, and every other step leaves the pool alone.                   *)
(***************************************************************************)

LEMMA InitRefines == Init => Pool!PoolInit
  BY DEF Init, Pool!PoolInit, Holding, Released, InPhase

LEMMA NextRefines == Inv /\ [Next]_vars => [Pool!PoolNext]_(Pool!poolVars)
  <1> SUFFICES ASSUME Inv, [Next]_vars
               PROVE  Pool!PoolNext \/ (Holding' = Holding /\ Released' = Released)
    BY DEF Pool!poolVars
  <1>1. TypeOK /\ {"spawned", "handling", "unwound", "released", "done"} \subseteq Phase
    BY DEF Inv, Phase
  <1>2. CASE phase' = phase
    BY <1>2, NoDeliveryMoves
  <1>3. CASE Receive
    BY <1>3 DEF Receive, ReceiveMessages, Holding, Released, InPhase
  <1>4. ASSUME NEW d \in Delivery, Process(d) PROVE Pool!PoolNext
    <2>1. phase[d] = "batched" /\ phase' = [phase EXCEPT ![d] = "spawned"]
          /\ tokens < MaxConcurrency
      BY <1>4 DEF Process, TokenFree
    <2>2. Holding' = Holding \cup {d} /\ Released' = Released \ {d}
      BY <1>1, <2>1, OneDeliveryMoves
    <2>3. d \notin Holding /\ d \notin Released
      BY <2>1 DEF Holding, Released, InPhase
    <2>4. Cardinality(Holding) < MaxConcurrency
      BY <2>1 DEF Inv, Accounting, TokenAccounting
    <2>5. Released' = Released
      BY <2>2, <2>3
    <2>6. Pool!Cardinality(Holding) = Cardinality(Holding)
      BY Zenon DEF Pool!Cardinality, Cardinality
    <2>7. Pool!Admit(d)
      BY <2>2, <2>3, <2>4, <2>5, <2>6 DEF Pool!Admit
    <2> QED
      BY <2>7 DEF Pool!PoolNext
  <1>5. ASSUME NEW d \in Delivery, Begin(d) \/ HandlerEnds(d)
        PROVE  Holding' = Holding /\ Released' = Released
    <2>1. PICK p \in {"handling", "unwound"} : phase' = [phase EXCEPT ![d] = p]
      BY <1>5 DEF Begin, HandlerEnds, HandlerReturns, HandlerPanics
    <2>2. Holding' = Holding \cup {d} /\ Released' = Released \ {d}
      BY <1>1, <2>1, OneDeliveryMoves
    <2>3. d \in Holding /\ d \notin Released
      BY <1>5 DEF Begin, HandlerEnds, HandlerReturns, HandlerPanics,
                  Holding, Released, InPhase
    <2> QED
      BY <2>2, <2>3
  <1>6. ASSUME NEW d \in Delivery, Release(d) PROVE Pool!PoolNext
    <2>1. phase[d] = "unwound" /\ phase' = [phase EXCEPT ![d] = "released"]
      BY <1>6 DEF Release, TokensAfter
    <2>2. Holding' = Holding \ {d} /\ Released' = Released \cup {d}
      BY <1>1, <2>1, OneDeliveryMoves
    <2>3. d \in Holding
      BY <2>1 DEF Holding, InPhase
    <2>4. Pool!Retire(d)
      BY <2>2, <2>3 DEF Pool!Retire
    <2> QED
      BY <2>4 DEF Pool!PoolNext
  <1>7. ASSUME NEW d \in Delivery, Finish(d)
        PROVE  Holding' = Holding /\ Released' = Released
    <2>1. phase[d] = "released" /\ phase' = [phase EXCEPT ![d] = "done"]
      BY <1>7 DEF Finish, GaugeAfter
    <2>2. Holding' = Holding \ {d} /\ Released' = Released \cup {d}
      BY <1>1, <2>1, OneDeliveryMoves
    <2>3. d \notin Holding /\ d \in Released
      BY <2>1 DEF Holding, Released, InPhase
    <2> QED
      BY <2>2, <2>3
  <1>8. CASE WorkerNext
    BY <1>5, <1>6, <1>7, <1>8 DEF WorkerNext
  <1>9. CASE \/ Start \/ Cancel \/ ReceiveError \/ ReceivePanic \/ EndOfBatch
             \/ Tick \/ ContextExit \/ RetryTick \/ RetryCancelled
    BY <1>2, <1>9 DEF Start, Cancel, ReceiveError, ReceivePanic, EndOfBatch, Tick,
                      ContextExit, RetryTick, RetryCancelled, AttemptFails
  <1>10. CASE UNCHANGED vars
    BY <1>2, <1>10 DEF vars
  <1> QED
    BY <1>3, <1>4, <1>8, <1>9, <1>10 DEF Next, PumpNext

\* The message pump implements the abstract pool of MaxConcurrency slots.
THEOREM Refinement == Spec => ImplementsPool
  BY InitRefines, NextRefines, Invariance, PTL DEF Spec, ImplementsPool, Pool!PoolSpec

-----------------------------------------------------------------------------
\* The course of one delivery.
Course == {<<"unreceived", "batched">>, <<"batched", "spawned">>, <<"spawned", "handling">>,
           <<"handling", "unwound">>, <<"unwound", "released">>, <<"released", "done">>}

\* What a step may never do: handle a delivery twice, or out of order; receive when
\* the pump is not receiving; call ReceiveMessages again, or return from Start, with
\* a received message that has no goroutine yet; bring back a pump that has returned;
\* move anything in a process that has crashed.
HandledOnce ==
  /\ \A d \in Delivery : phase'[d] # phase[d] => <<phase[d], phase'[d]>> \in Course
  /\ \A d \in Delivery : phase[d] = "unreceived" /\ phase'[d] # "unreceived"
                            => pump = "receiving" /\ Batch = {}
  /\ pump' \in {"receiving", "backoff", "returned"} => Batch' = {}
  /\ pump = "returned" => pump' \in {"returned", "crashed"}
  /\ pump # "crashed"

\* Across cancellation, failed attempts and panics of the receiver, every message
\* that was received is handed to exactly one goroutine before the pump receives
\* again or Start returns, and the goroutines outlive Start.
THEOREM NoneDropped == Spec => [][HandledOnce]_vars
  <1>1. ASSUME Inv, [Next]_vars
        PROVE  [HandledOnce]_vars
    <2>1. /\ phase \in [Delivery -> Phase]
          /\ pump \notin {"dispatching", "crashed"} => Batch = {}
      BY <1>1 DEF Inv, TypeOK, BatchOnlyWhileDispatching
    <2>2. pump' \notin {"dispatching", "crashed"} => Batch' = {}
      BY <1>1, NextInv DEF Inv, BatchOnlyWhileDispatching
    <2>3. CASE \/ Start \/ Cancel \/ ReceiveError \/ ReceivePanic \/ EndOfBatch
               \/ Tick \/ ContextExit \/ RetryTick \/ RetryCancelled
      <3>1. /\ phase' = phase /\ pump # "crashed"
            /\ pump = "returned" => pump' = "returned"
        BY <2>3
        DEF Start, Cancel, Running, ReceiveError, ReceivePanic, EndOfBatch, Tick,
            ContextExit, RetryTick, RetryCancelled, AttemptFails
      <3> QED
        BY <2>2, <3>1 DEF HandledOnce
    <2>4. CASE Receive
      <3>1. PICK S \in SUBSET InPhase({"unreceived"}) : ReceiveMessages(S)
        BY <2>4 DEF Receive
      <3>2. /\ pump = "receiving" /\ pump' = "dispatching"
            /\ phase' = [d \in Delivery |-> IF d \in S THEN "batched" ELSE phase[d]]
        BY <3>1 DEF ReceiveMessages
      <3>3. \A d \in S : phase[d] = "unreceived"
        BY DEF InPhase
      <3> QED
        BY <2>1, <3>2, <3>3 DEF HandledOnce, Course
    <2>5. ASSUME NEW d \in Delivery,
                 Process(d) \/ Begin(d) \/ HandlerEnds(d) \/ Release(d) \/ Finish(d)
          PROVE  HandledOnce
      <3>1. PICK q \in Phase :
              /\ phase' = [phase EXCEPT ![d] = q]
              /\ <<phase[d], q>> \in Course /\ phase[d] # "unreceived"
        BY <2>5
        DEF Process, Begin, HandlerEnds, HandlerReturns, HandlerPanics, Release, Finish,
            Course, Phase
      <3>2. pump # "crashed" /\ pump' \in {pump, "crashed"}
        BY <2>5
        DEF Process, Begin, HandlerEnds, HandlerReturns, HandlerPanics, Release, Finish,
            Running
      <3> QED
        BY <2>1, <2>2, <3>1, <3>2 DEF HandledOnce
    <2> QED
      BY <1>1, <2>3, <2>4, <2>5 DEF Next, PumpNext, WorkerNext
  <1> QED
    BY <1>1, Invariance, PTL DEF Spec

=============================================================================
