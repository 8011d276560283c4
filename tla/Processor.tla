------------------------------ MODULE Processor ------------------------------
(***************************************************************************)
(* The message pump of go-shuttle: type Processor of v2/processor.go.      *)
(*                                                                         *)
(* One goroutine, the pump, runs Start: it receives a batch of messages,   *)
(* takes one concurrency token per message and spawns a goroutine that     *)
(* calls the handler and gives the token back.  When receiving fails, the  *)
(* pump starts over, up to StartMaxAttempt times; goroutines spawned by    *)
(* the failed attempt go on running meanwhile.                             *)
(*                                                                         *)
(* The Receiver (the azservicebus SDK) and the handler are external: a     *)
(* receive call returns at most the number of messages asked for, or an    *)
(* error, or panics, whenever it likes; a handler returns, panics, or      *)
(* never returns.  A member of Delivery is one delivery of one message.    *)
(***************************************************************************)
EXTENDS Integers, FiniteSets

CONSTANTS
  Delivery,             \* what the receiver may hand out
  OptMaxConcurrency,    \* ProcessorOptions.MaxConcurrency as set by the user
  OptMaxReceiveCount,   \* ProcessorOptions.MaxReceiveCount
  OptStartMaxAttempt,   \* ProcessorOptions.StartMaxAttempt
  PanicRecovered        \* the handler is wrapped in NewPanicHandler

ASSUME OptionsAssumption ==
  /\ OptMaxConcurrency \in Int
  /\ OptMaxReceiveCount \in Int
  /\ OptStartMaxAttempt \in Int
  /\ PanicRecovered \in BOOLEAN

-----------------------------------------------------------------------------
(***************************************************************************)
(* applyProcessorOptions: an option that is unset (0) or out of range      *)
(* falls back to its default.                                              *)
(***************************************************************************)

MaxConcurrency == IF OptMaxConcurrency > 0 THEN OptMaxConcurrency ELSE 1

MaxReceiveCount ==
  IF OptMaxReceiveCount > 0 /\ OptMaxReceiveCount < MaxConcurrency
  THEN OptMaxReceiveCount
  ELSE MaxConcurrency

StartMaxAttempt == IF OptStartMaxAttempt > 0 THEN OptStartMaxAttempt ELSE 1

-----------------------------------------------------------------------------
VARIABLES
  pump,         \* where the goroutine that called Start is
  attempt,      \* the loop variable of startWithRetries
  maxMessages,  \* the argument of the receive call in progress
  ctxDone,      \* ctx.Err() # nil for the context given to Start
  tokens,       \* len(concurrencyTokens)
  phase,        \* how far each delivery has come
  gauge,        \* the concurrent message count metric
  unwinding     \* deliveries whose handler panicked with nobody to recover

vars == <<pump, attempt, maxMessages, ctxDone, tokens, phase, gauge, unwinding>>

(***************************************************************************)
(* "crashed": an unrecovered panic has ended the process, so no goroutine  *)
(* takes another step.                                                     *)
(***************************************************************************)
PumpState == {"idle", "receiving", "dispatching", "waiting", "backoff",
              "returned", "crashed"}

(***************************************************************************)
(* unreceived  the receiver still has it                                   *)
(* batched     returned by ReceiveMessages, process not yet called for it  *)
(* spawned     its token is taken, its goroutine has not run yet           *)
(* handling    the handler is running                                      *)
(* unwound     the handler is finished, the deferred functions are due     *)
(* released    the token is given back                                     *)
(* done        metrics updated, message context cancelled                  *)
(***************************************************************************)
Phase == {"unreceived", "batched", "spawned", "handling", "unwound",
          "released", "done"}

InPhase(P) == {d \in Delivery : phase[d] \in P}

Batch    == InPhase({"batched"})                        \* the slice `messages`
Holding  == InPhase({"spawned", "handling", "unwound"})  \* own a token
Handling == InPhase({"handling"})
Released == InPhase({"released", "done"})

Running == pump # "crashed"

Init ==
  /\ pump = "idle"
  /\ attempt = 0
  /\ maxMessages = 0
  /\ ctxDone = FALSE
  /\ tokens = 0
  /\ phase = [d \in Delivery |-> "unreceived"]
  /\ gauge = 0
  /\ unwinding = {}

-----------------------------------------------------------------------------
(* The pump: Start, startWithRetries, start. *)

\* start begins with a receive call for MaxReceiveCount messages, whatever
\* number of tokens is in use.
Start ==
  /\ pump = "idle"
  /\ pump' = "receiving"
  /\ maxMessages' = MaxReceiveCount
  /\ UNCHANGED <<attempt, ctxDone, tokens, phase, gauge, unwinding>>

\* The owner of the context given to Start cancels it.
Cancel ==
  /\ Running /\ ~ctxDone
  /\ ctxDone' = TRUE
  /\ UNCHANGED <<pump, attempt, maxMessages, tokens, phase, gauge, unwinding>>

\* ReceiveMessages returns the messages S and no error.
ReceiveMessages(S) ==
  /\ pump = "receiving"
  /\ IsFiniteSet(S) /\ Cardinality(S) <= maxMessages
  /\ pump' = "dispatching"
  /\ phase' = [d \in Delivery |-> IF d \in S THEN "batched" ELSE phase[d]]
  /\ UNCHANGED <<attempt, maxMessages, ctxDone, tokens, gauge, unwinding>>

\* An attempt of start has ended with an error: retry after a delay, or, on
\* the last attempt, return.
AttemptFails ==
  /\ pump' = IF attempt + 1 = StartMaxAttempt THEN "returned" ELSE "backoff"
  /\ UNCHANGED <<attempt, maxMessages, ctxDone, tokens, phase, gauge, unwinding>>

\* ReceiveMessages returns an error.
ReceiveError == pump = "receiving" /\ AttemptFails

\* ReceiveMessages panics: Start recovers and returns, without a retry.
ReceivePanic ==
  /\ pump = "receiving"
  /\ pump' = "returned"
  /\ UNCHANGED <<attempt, maxMessages, ctxDone, tokens, phase, gauge, unwinding>>

\* Seeded fault: a token may be taken from a full pool.
TokenFreeOffByOne == tokens <= MaxConcurrency

\* The send on concurrencyTokens does not block.
TokenFree == tokens < MaxConcurrency

\* process: take a token, spawn the goroutine.  The send blocks while no
\* token is free and does not look at the context.
Process(d) ==
  /\ pump = "dispatching"
  /\ phase[d] = "batched"
  /\ TokenFree
  /\ tokens' = tokens + 1
  /\ phase' = [phase EXCEPT ![d] = "spawned"]
  /\ UNCHANGED <<pump, attempt, maxMessages, ctxDone, gauge, unwinding>>

\* Seeded fault: the loop over the batch stops when the context is done.
BatchDispatchedOrCancelled == Batch = {} \/ ctxDone

\* The loop over the batch has processed every message.
BatchDispatched == Batch = {}

EndOfBatch ==
  /\ pump = "dispatching"
  /\ BatchDispatched
  /\ pump' = "waiting"
  /\ UNCHANGED <<attempt, maxMessages, ctxDone, tokens, phase, gauge, unwinding>>

\* Seeded fault: the loop asks for a full batch whenever a token is free.
ReceiveLimitIgnoringTokens ==
  IF tokens < MaxConcurrency THEN MaxReceiveCount ELSE 0

\* maxMessages := min(MaxReceiveCount, MaxConcurrency - len(tokens))
ReceiveLimit ==
  IF MaxReceiveCount < MaxConcurrency - tokens
  THEN MaxReceiveCount
  ELSE MaxConcurrency - tokens

\* The receive interval has elapsed.  With no token free (or the context done,
\* see ContextExit) the tick does nothing and the loop waits for the next one.
\* Tokens may be released between this step and the return of the receive call.
Tick ==
  /\ pump = "waiting"
  /\ ~ctxDone
  /\ ReceiveLimit # 0
  /\ maxMessages' = ReceiveLimit
  /\ pump' = "receiving"
  /\ UNCHANGED <<attempt, ctxDone, tokens, phase, gauge, unwinding>>

\* The loop ends because the context is done: start returns ctx.Err(), which
\* startWithRetries counts as a failed attempt.
ContextExit ==
  /\ pump = "waiting"
  /\ ctxDone
  /\ AttemptFails

\* The retry delay is over.  The select may take this branch even when the
\* context is done as well.
RetryTick ==
  /\ pump = "backoff"
  /\ pump' = "receiving"
  /\ attempt' = attempt + 1
  /\ maxMessages' = MaxReceiveCount
  /\ UNCHANGED <<ctxDone, tokens, phase, gauge, unwinding>>

\* The context is done during the retry delay.
RetryCancelled ==
  /\ pump = "backoff"
  /\ ctxDone
  /\ pump' = "returned"
  /\ UNCHANGED <<attempt, maxMessages, ctxDone, tokens, phase, gauge, unwinding>>

-----------------------------------------------------------------------------
(* The goroutine that process spawns for delivery d. *)

\* It runs: the gauge goes up and the handler is called.
Begin(d) ==
  /\ Running /\ phase[d] = "spawned"
  /\ phase' = [phase EXCEPT ![d] = "handling"]
  /\ gauge' = gauge + 1
  /\ UNCHANGED <<pump, attempt, maxMessages, ctxDone, tokens, unwinding>>

HandlerReturns(d) ==
  /\ Running /\ phase[d] = "handling"
  /\ phase' = [phase EXCEPT ![d] = "unwound"]
  /\ UNCHANGED <<pump, attempt, maxMessages, ctxDone, tokens, gauge, unwinding>>

\* The handler panics.  NewPanicHandler turns this into a normal return;
\* without it the goroutine unwinds through its deferred functions.
HandlerPanics(d) ==
  /\ Running /\ phase[d] = "handling"
  /\ phase' = [phase EXCEPT ![d] = "unwound"]
  /\ unwinding' = IF PanicRecovered THEN unwinding ELSE unwinding \cup {d}
  /\ UNCHANGED <<pump, attempt, maxMessages, ctxDone, tokens, gauge>>

\* Seeded faults: the token comes back only after a normal return, it is taken
\* back twice, it is never given back.
TokensNotDeferred(d) == IF d \in unwinding THEN tokens ELSE tokens - 1
TokensTwice(d)       == tokens - 2
TokensForgotten(d)   == tokens

\* <-concurrencyTokens, in a deferred function: it runs after a panic too.
TokensAfter(d) == tokens - 1

\* First deferred call, first statement: the token is given back.
Release(d) ==
  /\ Running /\ phase[d] = "unwound"
  /\ phase' = [phase EXCEPT ![d] = "released"]
  /\ tokens' = TokensAfter(d)
  /\ UNCHANGED <<pump, attempt, maxMessages, ctxDone, gauge, unwinding>>

\* Seeded fault: the gauge goes down only after a normal return.
GaugeNotDeferred(d) == IF d \in unwinding THEN gauge ELSE gauge - 1

\* DecConcurrentMessageCount, deferred as well.
GaugeAfter(d) == gauge - 1

\* The rest of the deferred calls: the gauge goes down, the message context
\* is cancelled.  A panic nobody recovered then ends the process.
Finish(d) ==
  /\ Running /\ phase[d] = "released"
  /\ phase' = [phase EXCEPT ![d] = "done"]
  /\ gauge' = GaugeAfter(d)
  /\ pump' = IF d \in unwinding THEN "crashed" ELSE pump
  /\ UNCHANGED <<attempt, maxMessages, ctxDone, tokens, unwinding>>

-----------------------------------------------------------------------------
Receive == \E S \in SUBSET InPhase({"unreceived"}) : ReceiveMessages(S)

PumpNext ==
  \/ Start
  \/ Receive
  \/ ReceiveError
  \/ ReceivePanic
  \/ \E d \in Delivery : Process(d)
  \/ EndOfBatch
  \/ Tick
  \/ ContextExit
  \/ RetryTick
  \/ RetryCancelled

HandlerEnds(d) == HandlerReturns(d) \/ HandlerPanics(d)

WorkerNext ==
  \E d \in Delivery :
    Begin(d) \/ HandlerEnds(d) \/ Release(d) \/ Finish(d)

Next == Cancel \/ PumpNext \/ WorkerNext

Spec == Init /\ [][Next]_vars

(***************************************************************************)
(* Fairness.  The Go scheduler runs every goroutine that can run, timers   *)
(* fire, and a receive call returns once its context is done.  Nothing     *)
(* makes a receive call return before that, and nothing makes a handler    *)
(* return at all: HandlerFairness is a promise of the user, and is a       *)
(* hypothesis of the properties that need it.                              *)
(***************************************************************************)
PumpFairness ==
  /\ WF_vars(ctxDone /\ (Receive \/ ReceiveError))
  /\ WF_vars(\E d \in Delivery : Process(d))
  /\ WF_vars(EndOfBatch)
  /\ WF_vars(Tick)
  /\ WF_vars(ContextExit)
  /\ WF_vars(RetryTick \/ RetryCancelled)

WorkerFairness ==
  \A d \in Delivery : WF_vars(Begin(d)) /\ WF_vars(Release(d)) /\ WF_vars(Finish(d))

HandlerFairness == \A d \in Delivery : WF_vars(HandlerEnds(d))

FairSpec == Spec /\ PumpFairness /\ WorkerFairness

-----------------------------------------------------------------------------
(* Properties *)

\* The variables have their types.
TypeOK ==
  /\ pump \in PumpState
  /\ attempt \in 0 .. StartMaxAttempt - 1
  /\ maxMessages \in 0 .. MaxReceiveCount
  /\ ctxDone \in BOOLEAN
  /\ tokens \in Nat
  /\ phase \in [Delivery -> Phase]
  /\ gauge \in Int
  /\ unwinding \subseteq Delivery

\* The token channel holds exactly one token per goroutine between process's
\* send and its deferred receive, on every path: normal return, recovered or
\* unrecovered panic, and across restarts of the pump.
TokenAccounting == tokens = Cardinality(Holding)

\* MaxConcurrency: no more handlers run at a time than the option allows, even
\* when a restarted attempt finds the handlers of the previous one running.
ConcurrencyBound == Cardinality(Handling) <= MaxConcurrency

\* In the first attempt the pump never holds messages it has no token for: the
\* bound passed to ReceiveMessages is computed from len(concurrencyTokens)
\* before the call and must still be right after it, or received messages
\* would sit in the pump, their locks running out and no renewal started.
NoStarvedBatch == attempt = 0 => tokens + Cardinality(Batch) <= MaxConcurrency

\* The gauge "number of messages being handled concurrently" counts exactly the
\* goroutines between their increment and their deferred decrement, panics and
\* restarts included.  (It may exceed MaxConcurrency for a moment: the token is
\* given back before the gauge goes down.)
GaugeAccounting ==
  gauge = Cardinality(InPhase({"handling", "unwound", "released"}))

\* Start "blocks until the processor is stopped or the context is canceled":
\* once the context is done Start returns, handlers that never return or not.
StartReturns ==
  ctxDone /\ pump # "idle" ~> pump \in {"returned", "crashed"}

\* The part of that promise the code keeps.  Whatever the handlers do, the end of
\* the context ends the first attempt; and if handlers end, Start returns, however
\* many attempts it makes.
ShutdownEnds ==
  /\ ctxDone /\ pump # "idle"
       ~> pump \in {"returned", "crashed", "backoff"} \/ attempt > 0
  /\ HandlerFairness => StartReturns

\* If handlers end, a message that was received gets its handler call and its
\* clean-up, even if the context is cancelled or Start returns meanwhile.
BatchIsHandled ==
  HandlerFairness =>
    \A d \in Delivery :
      phase[d] = "batched" ~> phase[d] = "done" \/ pump = "crashed"

\* If handlers end, a pump that waits with every token in use does not wait for
\* ever: tokens come back, and a tick receives again (or the attempt ends with the
\* context).
PumpResumes == HandlerFairness => (pump = "waiting" ~> pump # "waiting")

\* The pump implements the abstract pool of MaxConcurrency slots: a delivery
\* takes a slot at most once, only when one is free, and frees it once.
Pool == INSTANCE WorkerPool WITH
  Job <- Delivery,
  Size <- MaxConcurrency,
  active <- Holding,
  finished <- Released

ImplementsPool == Pool!PoolSpec

=============================================================================
