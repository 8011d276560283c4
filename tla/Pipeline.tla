------------------------------- MODULE Pipeline -------------------------------
(***************************************************************************)
(* The life of one message through the whole receiving side, composed of   *)
(* the specifications of the parts: the broker and the settlement          *)
(* middlewares (module Settlement), the processor's pool of concurrency    *)
(* tokens (WorkerPool, which Processor implements) and the lock renewal    *)
(* around the handler (LockKeeper, which LockRenewer implements).          *)
(*                                                                         *)
(* For each delivery: the processor takes a token and a goroutine, the     *)
(* renewal middleware starts its renewer and calls the settlement          *)
(* middleware, which calls the handler and settles; then the renewal is    *)
(* stopped, the token is given back and the message context is cancelled.  *)
(***************************************************************************)
EXTENDS Settlement, FiniteSets

CONSTANT MaxConcurrency   \* ProcessorOptions.MaxConcurrency

ASSUME PipelineAssumption == MaxConcurrency \in Nat \ {0}

VARIABLES
  active, finished,         \* module WorkerPool
  chain, renewal, ctxDone,  \* module LockKeeper
  cancelOnStop              \* LockRenewalOptions.CancelMessageContextOnStop

pool == <<active, finished>>
keeper == <<chain, renewal, ctxDone>>
allVars == <<vars, pool, keeper, cancelOnStop>>

Pool == INSTANCE WorkerPool WITH Job <- Delivery, Size <- MaxConcurrency

\* A delivery has lost the message once it does not own the lock any more: the lock
\* ran out, or the message was settled.  Module LockRenewer, seen from one
\* delivery, writes the same as lock # "held" \/ settled.
Keeper == INSTANCE LockKeeper WITH lost <- [n \in Delivery |-> owner # n]

PipelineInit ==
  /\ Init
  /\ Pool!PoolInit
  /\ Keeper!KeeperInit /\ chain = [n \in Delivery |-> "none"]
  /\ cancelOnStop \in BOOLEAN

-----------------------------------------------------------------------------
\* The processor receives the message when a token is free and hands it to the
\* chain of middlewares.
Receive ==
  /\ Deliver
  /\ Pool!Admit(count')
  /\ Keeper!Begin(count')
  /\ UNCHANGED cancelOnStop

Broker ==
  /\ LockExpires \/ BrokerDeadLetters
  /\ UNCHANGED <<pool, keeper, cancelOnStop>>

\* The handler ends, or the settlement middleware takes a step.  When it is done,
\* the handler's goroutine comes back to the renewal middleware.
Settling(n, step) ==
  /\ step
  /\ IF pc'[n] = "done"
     THEN Keeper!HandlerEnds(n, IF handler'[n] = "panic" THEN "panicked" ELSE "stopping")
     ELSE UNCHANGED keeper
  /\ UNCHANGED <<pool, cancelOnStop>>

Handling(n) ==
  Settling(n, \/ HandlerPanics(n)
              \/ ManagedReturnsNil(n)
              \/ ManagedReturnsError(n)
              \/ \E s \in Settlements \cup {"noop"} : SettlementReturned(n, s))

Settle(n) ==
  Settling(n, \/ DelayOver(n)
              \/ \E failed \in BOOLEAN : SettleTakesEffect(n, failed)
              \/ SettleFails(n))

\* Steps of the renewer, and of stop in the handler's goroutine.
Renewing(n) ==
  /\ Keeper!RenewalStops(n) \/ Keeper!GiveUpStep(n) \/ Keeper!StopStep(n)
  /\ UNCHANGED <<vars, pool, cancelOnStop>>

\* Seeded fault: the token is given back after a normal return only.
ChainEndedNormally(n) == chain[n] = "returned"

\* The handler of the processor has returned or panicked.
ChainEnded(n) == chain[n] \in {"returned", "panicked"}

\* The deferred functions of Processor.process: the token is given back.
Release(n) ==
  /\ ChainEnded(n)
  /\ Pool!Retire(n)
  /\ UNCHANGED <<vars, keeper, cancelOnStop>>

\* Seeded fault: the message context is cancelled after a normal return only.
CancelDueNormally(n) == n \in finished /\ chain[n] = "returned"

CancelDue(n) == n \in finished

\* They cancel the message context.
CancelContext(n) ==
  /\ CancelDue(n)
  /\ Keeper!ContextEnds(n)
  /\ UNCHANGED <<vars, pool, cancelOnStop>>

PipelineNext ==
  \/ Receive
  \/ Broker
  \/ \E n \in Delivery :
       Handling(n) \/ Settle(n) \/ Renewing(n) \/ Release(n) \/ CancelContext(n)

(***************************************************************************)
(* Fairness.  The processor goes on receiving; goroutines are scheduled;   *)
(* calls of the broker return; stop and the renewer do what LockKeeper     *)
(* promises; the broker takes back a lock that nobody renews, and          *)
(* dead-letters what it may not deliver again.  That handlers end is a     *)
(* hypothesis of the property that needs it.                               *)
(***************************************************************************)
Unrenewed == state = "locked" /\ renewal[owner] \in {"blocked", "over"}

PipelineFairness ==
  /\ WF_allVars(Receive)
  /\ WF_allVars(Unrenewed /\ Broker)
  /\ WF_allVars(state = "queued" /\ Broker)
  /\ Keeper!KeeperFairness
  /\ \A n \in Delivery :
       WF_allVars(Settle(n)) /\ WF_allVars(Release(n)) /\ WF_allVars(CancelContext(n))

PipelineSpec == PipelineInit /\ [][PipelineNext]_allVars /\ PipelineFairness

-----------------------------------------------------------------------------
(* Properties *)

\* If handlers end, every token comes back: after a panic, a failed settlement, a
\* renewal that outlived the lock.  The one thing that keeps a token for good is a
\* call of stop that blocks, since stop runs in the handler's goroutine.
TokensComeBack ==
  (\A n \in Delivery : WF_allVars(Handling(n)))
  => <>[](\A n \in active : chain[n] = "blocked")

\* By default (CancelMessageContextOnStop), a handler whose delivery does not own
\* the lock any more, so that another one may be at the same message, is told: its
\* context ends, if it does not return before.
HandlerIsTold ==
  \A n \in Delivery :
    cancelOnStop /\ chain[n] = "running" /\ owner # n
      ~> ctxDone[n] \/ chain[n] # "running"

\* If handlers end and no call of stop gets blocked, no message stays on the queue
\* for ever: it is settled for good by a handler or dead-lettered by the broker,
\* also when handlers panic, settlements fail or locks run out.  In particular no
\* renewer outlives its handler and keeps the message locked.
MessageEnds ==
  /\ \A n \in Delivery : WF_allVars(Handling(n))
  /\ [](\A n \in Delivery : chain[n] # "blocked")
  => <>(state \in Terminal)

=============================================================================
