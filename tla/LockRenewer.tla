----------------------------- MODULE LockRenewer -----------------------------
(***************************************************************************)
(* Peek-lock renewal for one delivery: v2/lockrenewer.go.                  *)
(*                                                                         *)
(* NewRenewLockHandler starts a goroutine, the renewer, that renews the    *)
(* message lock at an interval, and calls the next handler.  Both          *)
(* goroutines may call stop: the handler's when the handler has returned,  *)
(* the renewer's when renewal cannot go on.  They share the flag `alive',  *)
(* the one-slot channel `stopped' and the message context.                 *)
(*                                                                         *)
(* Time is abstract: a timer may fire at any moment, and the lock may run  *)
(* out at any moment.  The service's answers to RenewMessageLock are       *)
(* external.                                                               *)
(***************************************************************************)
EXTENDS Integers

VARIABLES
  pc,        \* where the two goroutines are
  alive,     \* peekLockRenewer.alive
  stopped,   \* len(peekLockRenewer.stopped), a channel of capacity 1
  ctxErr,    \* Err() of the context the handler and the renewer share
  lock,      \* message.LockedUntil against the clock; "none" if it is nil
  err,       \* outcome of the last renewMessageLock
  settled,   \* the broker has settled the message on the handler's request
  lateCalls, \* history: renewal calls begun after the end of the message context
  cancelOnStop  \* LockRenewalOptions.CancelMessageContextOnStop, fixed at the start

\* The variables that few steps change.
rest == <<settled, lateCalls, cancelOnStop>>

vars == <<pc, alive, stopped, ctxErr, lock, err, rest>>

Goroutine == {"handler", "renewer"}

\* Inside peekLockRenewer.stop: about to clear alive, to look at the channel, to
\* send on it, to cancel the context.
StopState == {"store", "check", "send", "cancel"}

HandlerState == {"running", "done", "panicked"} \cup StopState

\* created: the go statement was executed, the goroutine has not run yet
\* head:    at the loop condition of startPeriodicRenewal
\* select:  at the select statement
\* drained: took the signal out of the channel
\* renew, retry, ready, call: in renewMessageLock, at its first check, at its loop
\*          condition, past it, waiting for RenewMessageLock
RenewerState == {"created", "head", "select", "drained", "renew", "retry",
                 "ready", "call", "exited"} \cup StopState

Goto(p, state) == pc' = [pc EXCEPT ![p] = state]

Renewing == pc["renewer"] \in {"renew", "retry", "ready", "call"}

HandlerStopped == pc["handler"] \in {"cancel", "done"}

Init ==
  /\ pc = [p \in Goroutine |-> IF p = "handler" THEN "running" ELSE "created"]
  /\ alive = FALSE
  /\ stopped = 0
  /\ ctxErr = "nil"
  /\ lock \in {"none", "held"}
  /\ err = "nil"
  /\ settled = FALSE
  /\ lateCalls = 0
  /\ cancelOnStop \in BOOLEAN

-----------------------------------------------------------------------------
(* The environment. *)

\* The context given to the renewal handler ends: the processor is shut down
\* or a deadline set upstream has passed.
ParentDone(e) ==
  /\ ctxErr = "nil"
  /\ ctxErr' = e
  /\ UNCHANGED <<pc, alive, stopped, lock, err, rest>>

\* Seeded fault: the message context is cancelled after a normal return only.
DeliveryReturned == pc["handler"] = "done"

\* The goroutine of Processor.process runs its deferred functions.
DeliveryOver == pc["handler"] \in {"done", "panicked"}

\* It cancels the message context, also when the handler panicked.
ProcessorCancels ==
  /\ DeliveryOver
  /\ ctxErr = "nil"
  /\ ctxErr' = "Canceled"
  /\ UNCHANGED <<pc, alive, stopped, lock, err, rest>>

\* LockedUntil passes.
LockExpires ==
  /\ lock = "held"
  /\ lock' = "expired"
  /\ UNCHANGED <<pc, alive, stopped, ctxErr, err, rest>>

-----------------------------------------------------------------------------
(* The goroutine of the message handler. *)

HandlerSettles ==
  /\ pc["handler"] = "running"
  /\ ~settled
  /\ settled' = TRUE
  /\ UNCHANGED <<pc, alive, stopped, ctxErr, lock, err, lateCalls, cancelOnStop>>

HandlerReturns ==
  /\ pc["handler"] = "running"
  /\ Goto("handler", "store")
  /\ UNCHANGED <<alive, stopped, ctxErr, lock, err, rest>>

\* The call of stop is not deferred: a panic skips it.
HandlerPanics ==
  /\ pc["handler"] = "running"
  /\ Goto("handler", "panicked")
  /\ UNCHANGED <<alive, stopped, ctxErr, lock, err, rest>>

-----------------------------------------------------------------------------
(* peekLockRenewer.stop, called by goroutine p. *)

StopStore(p) ==
  /\ pc[p] = "store"
  /\ alive' = FALSE
  /\ Goto(p, "check")
  /\ UNCHANGED <<stopped, ctxErr, lock, err, rest>>

\* Seeded fault: no signal is sent to a renewer that has not started yet.
SignalDueIfStarted == stopped = 0 /\ pc["renewer"] # "created"

SignalDue == stopped = 0

StopCheck(p) ==
  /\ pc[p] = "check"
  /\ Goto(p, IF SignalDue THEN "send" ELSE "cancel")
  /\ UNCHANGED <<alive, stopped, ctxErr, lock, err, rest>>

\* Seeded fault: the channel's capacity is ignored.
SlotUnbounded == TRUE

\* The send blocks while the only slot of the channel is taken.
SlotFree == stopped = 0

StopSend(p) ==
  /\ pc[p] = "send"
  /\ SlotFree
  /\ stopped' = stopped + 1
  /\ Goto(p, "cancel")
  /\ UNCHANGED <<alive, ctxErr, lock, err, rest>>

\* Seeded fault: only the handler's call of stop cancels the context.
StopErrHandlerOnly(p) ==
  IF cancelOnStop /\ ctxErr = "nil" /\ p = "handler" THEN "Canceled" ELSE ctxErr

StopErr(p) == IF cancelOnStop /\ ctxErr = "nil" THEN "Canceled" ELSE ctxErr

\* Cancel the message context if so configured, and return.
StopCancel(p) ==
  /\ pc[p] = "cancel"
  /\ ctxErr' = StopErr(p)
  /\ Goto(p, IF p = "handler" THEN "done" ELSE "head")
  /\ UNCHANGED <<alive, stopped, lock, err, rest>>

Stop(p) == StopStore(p) \/ StopCheck(p) \/ StopSend(p) \/ StopCancel(p)

-----------------------------------------------------------------------------
(* The renewer: startPeriodicRenewal. *)

\* The goroutine runs for the first time and raises alive, whether or not stop
\* was called before.
RenewerStart ==
  /\ pc["renewer"] = "created"
  /\ alive' = TRUE
  /\ Goto("renewer", "head")
  /\ UNCHANGED <<stopped, ctxErr, lock, err, rest>>

LoopHead ==
  /\ pc["renewer"] = "head"
  /\ Goto("renewer", IF alive THEN "select" ELSE "exited")
  /\ UNCHANGED <<alive, stopped, ctxErr, lock, err, rest>>

\* The interval has elapsed.
SelectTick ==
  /\ pc["renewer"] = "select"
  /\ Goto("renewer", IF alive THEN "renew" ELSE "exited")
  /\ UNCHANGED <<alive, stopped, ctxErr, lock, err, rest>>

\* The context is done.
SelectDone ==
  /\ pc["renewer"] = "select"
  /\ ctxErr # "nil"
  /\ Goto("renewer", "store")
  /\ UNCHANGED <<alive, stopped, ctxErr, lock, err, rest>>

\* The stop signal is there.
SelectStopped ==
  /\ pc["renewer"] = "select"
  /\ stopped = 1
  /\ stopped' = 0
  /\ Goto("renewer", "drained")
  /\ UNCHANGED <<alive, ctxErr, lock, err, rest>>

ClearAlive ==
  /\ pc["renewer"] = "drained"
  /\ alive' = FALSE
  /\ Goto("renewer", "head")
  /\ UNCHANGED <<stopped, ctxErr, lock, err, rest>>

-----------------------------------------------------------------------------
(***************************************************************************)
(* renewMessageLock and what the loop does with its result: nothing on     *)
(* success, stop on a context error, stop on a permanent error, and        *)
(* another round on any other error.                                       *)
(***************************************************************************)

\* Seeded fault: every error of the service ends the renewal.
IsFinalAnyError(e) == e # "nil"

IsFinal(e) == e \in {"context", "permanent"}

ReturnRenew(e) ==
  /\ err' = e
  /\ Goto("renewer", IF IsFinal(e) THEN "store" ELSE "head")
  /\ UNCHANGED <<alive, stopped, rest>>

\* A lock that is missing or has expired is lost: a permanent error.
RenewCheck ==
  /\ pc["renewer"] = "renew"
  /\ UNCHANGED <<ctxErr, lock>>
  /\ \/ /\ lock = "held"
        /\ Goto("renewer", "retry")
        /\ UNCHANGED <<alive, stopped, err, rest>>
     \/ /\ lock # "held"
        /\ ReturnRenew("permanent")

\* Seeded fault: the retry loop looks at the lock only.
MayCallUntilExpiry == lock = "held"

\* The loop condition: the lock has not expired and the context is not done.
MayCall == lock = "held" /\ ctxErr = "nil"

RetryLoop ==
  /\ pc["renewer"] = "retry"
  /\ MayCall
  /\ Goto("renewer", "ready")
  /\ UNCHANGED <<alive, stopped, ctxErr, lock, err, rest>>

\* The renewer has no business with the message any more: its context has ended,
\* or should have with the return of the handler's stop.
ContextOver == ctxErr # "nil" \/ (cancelOnStop /\ pc["handler"] = "done")

\* The call begins, whatever has happened since the loop condition was evaluated.
RenewCall ==
  /\ pc["renewer"] = "ready"
  /\ Goto("renewer", "call")
  /\ lateCalls' = IF ContextOver THEN lateCalls + 1 ELSE lateCalls
  /\ UNCHANGED <<alive, stopped, ctxErr, lock, err, settled, cancelOnStop>>

RenewGivesUp ==
  /\ pc["renewer"] = "retry"
  /\ ~MayCall
  /\ ReturnRenew(IF ctxErr # "nil" THEN "context" ELSE "permanent")
  /\ UNCHANGED <<ctxErr, lock>>

\* The service renews the lock, which it does not for a settled message.
CallSucceeds ==
  /\ pc["renewer"] = "call"
  /\ ~settled
  /\ lock' = "held"
  /\ ReturnRenew("nil")
  /\ UNCHANGED ctxErr

\* DeadlineExceeded, from the timeout of the call or from the message context: the
\* loop condition is looked at again.
CallTimesOut ==
  /\ pc["renewer"] = "call"
  /\ Goto("renewer", "retry")
  /\ UNCHANGED <<alive, stopped, ctxErr, lock, err, rest>>

\* Any other error: Canceled, which the call may return whether or not the message
\* context is cancelled, LockLost or UnauthorizedAccess, which are permanent, or
\* another error of the service.
CallFails(e) ==
  /\ pc["renewer"] = "call"
  /\ ReturnRenew(e)
  /\ UNCHANGED <<ctxErr, lock>>

-----------------------------------------------------------------------------
CallReturns ==
  \/ CallSucceeds
  \/ CallTimesOut
  \/ \E e \in {"context", "permanent", "transient"} : CallFails(e)

HandlerNext == HandlerSettles \/ HandlerReturns \/ HandlerPanics \/ Stop("handler")

RenewerStep == RenewerStart \/ LoopHead \/ ClearAlive \/ RenewCheck \/ RetryLoop
               \/ RenewCall \/ RenewGivesUp \/ Stop("renewer")

RenewerNext == RenewerStep \/ SelectTick \/ SelectDone \/ SelectStopped \/ CallReturns

EnvNext ==
  \/ \E e \in {"Canceled", "DeadlineExceeded"} : ParentDone(e)
  \/ ProcessorCancels
  \/ LockExpires

Next == HandlerNext \/ RenewerNext \/ EnvNext

Spec == Init /\ [][Next]_vars

(***************************************************************************)
(* Fairness.  Both goroutines are scheduled; the interval timer fires; a   *)
(* select picks at random among its ready branches, so one that is ready   *)
(* again and again is picked (strong fairness); a renewal call returns,    *)
(* since it has a timeout; a lock that nobody renews any more, because the *)
(* renewer keeps timing out or the message is settled, runs out; and the   *)
(* processor cancels the context of a delivery that is finished.  A        *)
(* handler need not return.                                                *)
(***************************************************************************)
Fairness ==
  /\ WF_vars(Stop("handler"))
  /\ WF_vars(RenewerStep)
  /\ WF_vars(SelectTick)
  /\ SF_vars(SelectDone)
  /\ SF_vars(SelectStopped)
  /\ WF_vars(CallReturns)
  /\ WF_vars(pc["renewer"] \in {"retry", "ready", "call"} /\ LockExpires)
  /\ WF_vars(settled /\ LockExpires)
  /\ WF_vars(ProcessorCancels)

FairSpec == Spec /\ Fairness

-----------------------------------------------------------------------------
(* Properties *)

\* The variables have their types; the channel never holds more than its slot.
TypeOK ==
  /\ pc \in [Goroutine -> HandlerState \cup RenewerState]
  /\ pc["handler"] \in HandlerState /\ pc["renewer"] \in RenewerState
  /\ alive \in BOOLEAN
  /\ stopped \in 0 .. 1
  /\ ctxErr \in {"nil", "Canceled", "DeadlineExceeded"}
  /\ lock \in {"none", "held", "expired"}
  /\ err \in {"nil", "context", "permanent", "transient"}
  /\ settled \in BOOLEAN
  /\ lateCalls \in Nat
  /\ cancelOnStop \in BOOLEAN

\* What the comment on the field `stopped' promises: once the handler's stop is
\* past its send, a renewer that still thinks it is alive has a signal to find,
\* also when it raised alive after stop had lowered it.
StopNotLost ==
  HandlerStopped /\ alive => stopped = 1 \/ pc["renewer"] = "drained"

\* "if the error is anything else, we keep trying the renewal": the renewer does
\* not give up a message that is being handled because of an error that may pass.
\* The renewal ends only with the message context, or with a last attempt that
\* reported a lost lock, lost access or a cancelled context.
NoEarlyExit ==
  pc["renewer"] = "exited" /\ pc["handler"] = "running"
    => err \in {"permanent", "context"} \/ ctxErr # "nil"

\* "we should keep retrying until lock expiry or until message context is done":
\* once the message context has ended, by whatever cause, and so once the handler's
\* stop has returned if it cancels the context, at most one more renewal call
\* begins, the one whose loop condition was evaluated before.  No timeout of that
\* call and no random choice of the select leads to another.
OneLateCall == lateCalls <= 1

\* When the handler has returned or panicked, the renewer sooner or later makes
\* its last renewal attempt: no message is kept locked for ever.
RenewalCeases == pc["handler"] # "running" ~> [](~Renewing)

\* "buffered channel to ensure we are not blocking": a handler that has returned
\* gets through stop and gives its concurrency token back.
StopReturns == pc["handler"] = "store" ~> pc["handler"] = "done"

-----------------------------------------------------------------------------
(* The promise of the middleware to the parts around it. *)

HandlerAt ==
  CASE pc["handler"] = "send" /\ stopped = 1 -> "blocked"
    [] pc["handler"] = "done"                -> "returned"
    [] pc["handler"] \in {"running", "panicked"} -> pc["handler"]
    [] OTHER                                 -> "stopping"

RenewerAt ==
  CASE pc["renewer"] = "send" /\ stopped = 1 -> "blocked"
    [] pc["renewer"] = "send" /\ stopped = 0 -> "stopping"
    [] pc["renewer"] \in {"store", "check", "cancel"} -> "stopping"
    [] pc["renewer"] = "exited" \/ (pc["renewer"] = "head" /\ ~alive) -> "over"
    [] OTHER                                 -> "active"

Keeper == INSTANCE LockKeeper WITH
  Delivery     <- {"d"},
  chain        <- [d \in {"d"} |-> HandlerAt],
  renewal      <- [d \in {"d"} |-> RenewerAt],
  ctxDone      <- [d \in {"d"} |-> ctxErr # "nil"],
  lost         <- [d \in {"d"} |-> lock # "held" \/ settled]

\* The two goroutines, however they interleave, look from outside as module
\* LockKeeper says: renewal that has ended does not begin again, each stop returns
\* or is blocked by the other but never both, a stop that returns leaves the
\* context cancelled if so configured, and a lost lock or an ended context is
\* noticed in the end.
ImplementsKeeper == Keeper!KeeperSpec

=============================================================================
