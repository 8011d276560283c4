----------------------------- MODULE LockKeeper ------------------------------
(***************************************************************************)
(* What the lock renewal middleware promises the parts around it, for a    *)
(* set of deliveries: an abstraction of module LockRenewer, and of what    *)
(* v2/lockrenewer.go looks like to the processor, to the handler and to    *)
(* the broker.                                                             *)
(*                                                                         *)
(* For each delivery, the handler's goroutine runs the handler and then    *)
(* stops the renewal; the renewer renews until it stops by itself (it      *)
(* gives up) or is stopped.  If both stop at the same moment, one of the   *)
(* two may block for ever.                                                 *)
(***************************************************************************)
CONSTANT Delivery

VARIABLES
  chain,        \* the handler's goroutine
  renewal,      \* the renewer
  ctxDone,      \* the message context has ended
  lost,         \* the delivery does not own the lock: decided elsewhere
  cancelOnStop  \* LockRenewalOptions.CancelMessageContextOnStop

keeper == <<chain, renewal, ctxDone>>

Chain == {"none", "running", "stopping", "blocked", "returned", "panicked"}

Renewal == {"none", "active", "stopping", "blocked", "over"}

KeeperInit ==
  /\ \/ chain = [d \in Delivery |-> "none"] /\ renewal = [d \in Delivery |-> "none"]
     \/ chain = [d \in Delivery |-> "running"] /\ renewal = [d \in Delivery |-> "active"]
  /\ ctxDone = [d \in Delivery |-> FALSE]

-----------------------------------------------------------------------------
\* The middleware is called with delivery d.
Begin(d) ==
  /\ chain[d] = "none"
  /\ chain' = [chain EXCEPT ![d] = "running"]
  /\ renewal' = [renewal EXCEPT ![d] = "active"]
  /\ UNCHANGED ctxDone

\* The handler returns, or panics past the call of stop.
HandlerEnds(d, how) ==
  /\ chain[d] = "running"
  /\ chain' = [chain EXCEPT ![d] = how]
  /\ UNCHANGED <<renewal, ctxDone>>

\* Seeded fault: stop leaves the context alone.
CancelNever(d) == UNCHANGED ctxDone

CancelIfConfigured(d) == ctxDone' = [ctxDone EXCEPT ![d] = @ \/ cancelOnStop]

StopReturns(d) ==
  /\ chain[d] = "stopping"
  /\ chain' = [chain EXCEPT ![d] = "returned"]
  /\ CancelIfConfigured(d)
  /\ UNCHANGED renewal

\* The renewer's own stop took the only slot of the channel.
StopBlocks(d) ==
  /\ chain[d] = "stopping"
  /\ renewal[d] \in {"stopping", "over"}
  /\ chain' = [chain EXCEPT ![d] = "blocked"]
  /\ UNCHANGED <<renewal, ctxDone>>

\* The renewer stops by itself.  The promise does not say why: a renewal call may
\* report a lost lock, lost access or a cancelled context at any moment, which is
\* not visible here.  (What LockRenewer never does is to stop for an error that may
\* pass: its property NoEarlyExit.)  KeeperFairness says when it must.
GiveUp(d) ==
  /\ renewal[d] = "active"
  /\ renewal' = [renewal EXCEPT ![d] = "stopping"]
  /\ UNCHANGED <<chain, ctxDone>>

GiveUpReturns(d) ==
  /\ renewal[d] = "stopping"
  /\ renewal' = [renewal EXCEPT ![d] = "over"]
  /\ CancelIfConfigured(d)
  /\ UNCHANGED chain

\* The handler's stop took the only slot of the channel.
GiveUpBlocks(d) ==
  /\ renewal[d] = "stopping"
  /\ chain[d] \in {"stopping", "returned"}
  /\ renewal' = [renewal EXCEPT ![d] = "blocked"]
  /\ UNCHANGED <<chain, ctxDone>>

\* The renewer ends because it was stopped.
RenewalEnds(d) ==
  /\ renewal[d] = "active"
  /\ chain[d] # "running"
  /\ renewal' = [renewal EXCEPT ![d] = "over"]
  /\ UNCHANGED <<chain, ctxDone>>

\* The message context ends: the processor is shut down, or is done with d.
ContextEnds(d) ==
  /\ ~ctxDone[d]
  /\ ctxDone' = [ctxDone EXCEPT ![d] = TRUE]
  /\ UNCHANGED <<chain, renewal>>

-----------------------------------------------------------------------------
RenewalStops(d) == GiveUp(d) \/ RenewalEnds(d)

StopStep(d) == StopReturns(d) \/ StopBlocks(d)

GiveUpStep(d) == GiveUpReturns(d) \/ GiveUpBlocks(d)

KeeperNext ==
  \E d \in Delivery :
    \/ Begin(d)
    \/ \E how \in {"stopping", "panicked"} : HandlerEnds(d, how)
    \/ StopStep(d)
    \/ RenewalStops(d)
    \/ GiveUpStep(d)
    \/ ContextEnds(d)

(***************************************************************************)
(* What happens in the end: neither stop hesitates for ever (it returns or *)
(* is blocked by the other), and a renewer notices that the lock is lost   *)
(* for good (it ran out or the message was settled), that the context has  *)
(* ended or that it was stopped.                                           *)
(***************************************************************************)
MustStop(d) == lost[d] \/ ctxDone[d] \/ chain[d] = "returned"

KeeperFairness ==
  \A d \in Delivery :
    /\ WF_keeper(StopStep(d))
    /\ WF_keeper(GiveUpStep(d))
    /\ WF_keeper(MustStop(d) /\ RenewalStops(d))

KeeperSpec == KeeperInit /\ [][KeeperNext]_keeper /\ KeeperFairness

=============================================================================
