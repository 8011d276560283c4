------------------------------ MODULE Settlement ------------------------------
(***************************************************************************)
(* The two settlement middlewares, v2/managedsettling.go and               *)
(* v2/settlehandler.go, over the life of one message on the broker.        *)
(*                                                                         *)
(* The broker (external) delivers the message under a lock, at most        *)
(* MaxDeliveryCount times.  A delivery is named by its DeliveryCount, the  *)
(* first being 1; several deliveries may be in the hands of handlers at    *)
(* the same time when locks run out, but only the one that owns the lock   *)
(* can settle the message.                                                 *)
(***************************************************************************)
EXTENDS Integers

CONSTANTS
  MaxDeliveryCount,  \* of the queue or subscription
  MaxAttempts        \* MaxAttemptsRetryDecision.MaxAttempts

ASSUME SettlementAssumption ==
  MaxDeliveryCount \in Nat \ {0} /\ MaxAttempts \in Nat

Delivery == 1 .. MaxDeliveryCount

VARIABLES
  managed,  \* NewManagedSettlingHandler, else NewSettlementHandler: fixed
  state,    \* the message on the broker
  count,    \* its deliveries so far
  owner,    \* the delivery that holds the lock, 0 if there is none
  pc,       \* the goroutine that handles each delivery
  handler,  \* history: what the user's handler returned
  applied,  \* history: deliveries whose settlement took effect
  hook      \* the post-settlement hook that was called

vars == <<managed, state, count, owner, pc, handler, applied, hook>>

broker == <<state, count, owner>>

Terminal == {"completed", "deadlettered", "deferred"}

\* A settlement names what the goroutine is about to ask of the broker.
Settlements == {"complete", "abandon", "deadletter", "defer"}

Init ==
  /\ managed \in BOOLEAN
  /\ state = "queued" /\ count = 0 /\ owner = 0
  /\ pc = [n \in Delivery |-> "none"]
  /\ handler = [n \in Delivery |-> "none"]
  /\ applied = {}
  /\ hook = [n \in Delivery |-> "none"]

-----------------------------------------------------------------------------
(* The broker. *)

Deliver ==
  /\ state = "queued" /\ count < MaxDeliveryCount
  /\ state' = "locked" /\ count' = count + 1 /\ owner' = count + 1
  /\ pc' = [pc EXCEPT ![count + 1] = "handling"]
  /\ UNCHANGED <<managed, handler, applied, hook>>

\* The lock runs out: the message can be delivered again while the handler of
\* the previous delivery is still at it.
LockExpires ==
  /\ state = "locked"
  /\ state' = "queued" /\ owner' = 0
  /\ UNCHANGED <<managed, count, pc, handler, applied, hook>>

\* Delivered as often as the queue allows: the broker dead-letters the message.
BrokerDeadLetters ==
  /\ state = "queued" /\ count = MaxDeliveryCount
  /\ state' = "deadlettered"
  /\ UNCHANGED <<managed, count, owner, pc, handler, applied, hook>>

Effect(s) ==
  CASE s = "complete"   -> "completed"
    [] s = "abandon"    -> "queued"
    [] s = "deadletter" -> "deadlettered"
    [] s = "defer"      -> "deferred"

-----------------------------------------------------------------------------
(* ManagedSettler.Handle and handleError. *)

HandlerGave(n, r, next) ==
  /\ pc[n] = "handling"
  /\ handler' = [handler EXCEPT ![n] = r]
  /\ pc' = [pc EXCEPT ![n] = next]
  /\ UNCHANGED <<managed, broker, applied, hook>>

\* A panic, recovered by NewPanicHandler, leaves the message to its lock.  A nil
\* settlement ends here too, by the default of OnNilSettlement.
HandlerPanics(n) == HandlerGave(n, "panic", "done")

ManagedReturnsNil(n) == managed /\ HandlerGave(n, "nil", "complete")

\* Seeded fault: one more retry than MaxAttempts.
CanRetryOnceMore(n) == n <= MaxAttempts

CanRetry(n) == n < MaxAttempts

\* Seeded fault: Handle goes on after OnError and completes the message.
ManagedReturnsErrorNoReturn(n) ==
  managed /\ HandlerGave(n, "error", IF CanRetry(n) THEN "complete" ELSE "deadletter")

ManagedReturnsError(n) ==
  managed /\ HandlerGave(n, "error", IF CanRetry(n) THEN "delay" ELSE "deadletter")

\* time.Sleep: nothing interrupts it, the lock may run out meanwhile.
DelayOver(n) ==
  /\ pc[n] = "delay"
  /\ pc' = [pc EXCEPT ![n] = "abandon"]
  /\ UNCHANGED <<managed, broker, handler, applied, hook>>

(* NewSettlementHandler: the user's handler returns a Settlement. *)

\* Seeded fault: NoOp goes to the broker like the other settlements.
SettlementReturnedAlways(n, s) == ~managed /\ HandlerGave(n, s, s)

SettlementReturned(n, s) ==
  ~managed /\ HandlerGave(n, s, IF s = "noop" THEN "done" ELSE s)

-----------------------------------------------------------------------------
(***************************************************************************)
(* The call to the broker.  Its error is logged and otherwise dropped by   *)
(* settlement.settle; only ManagedSettler.Handle looks at the error of     *)
(* CompleteMessage.  A call may fail (the lock is lost, the context is     *)
(* done, the link is down), and it may take effect and still be reported   *)
(* as failed.                                                              *)
(***************************************************************************)

\* Seeded fault: the error of CompleteMessage is ignored.
HookAfterIgnoringError(s, failed) ==
  CASE ~managed         -> "none"
    [] s = "complete"   -> "OnCompleted"
    [] s = "abandon"    -> "OnAbandoned"
    [] s = "deadletter" -> "OnDeadLettered"

HookAfter(s, failed) ==
  CASE ~managed         -> "none"
    [] s = "complete"   -> IF failed THEN "OnAbandoned" ELSE "OnCompleted"
    [] s = "abandon"    -> "OnAbandoned"
    [] s = "deadletter" -> "OnDeadLettered"

SettleDone(n, failed) ==
  /\ pc' = [pc EXCEPT ![n] = "done"]
  /\ hook' = [hook EXCEPT ![n] = HookAfter(pc[n], failed)]
  /\ UNCHANGED <<managed, count, handler>>

\* The broker settles the message; the answer may get lost.
SettleTakesEffect(n, failed) ==
  /\ pc[n] \in Settlements
  /\ owner = n
  /\ state' = Effect(pc[n]) /\ owner' = 0
  /\ applied' = applied \cup {n}
  /\ SettleDone(n, failed)

SettleFails(n) ==
  /\ pc[n] \in Settlements
  /\ SettleDone(n, TRUE)
  /\ UNCHANGED <<state, owner, applied>>

-----------------------------------------------------------------------------
Next ==
  \/ Deliver
  \/ LockExpires
  \/ BrokerDeadLetters
  \/ \E n \in Delivery :
       \/ HandlerPanics(n)
       \/ ManagedReturnsNil(n)
       \/ ManagedReturnsError(n)
       \/ DelayOver(n)
       \/ \E s \in Settlements \cup {"noop"} : SettlementReturned(n, s)
       \/ \E failed \in BOOLEAN : SettleTakesEffect(n, failed)
       \/ SettleFails(n)

Spec == Init /\ [][Next]_vars

-----------------------------------------------------------------------------
(* Properties *)

\* The variables have their types, and the message is locked exactly when some
\* delivery owns the lock.
TypeOK ==
  /\ managed \in BOOLEAN
  /\ state \in {"queued", "locked"} \cup Terminal
  /\ count \in 0 .. MaxDeliveryCount
  /\ owner \in 0 .. count
  /\ pc \in [Delivery -> {"none", "handling", "delay", "done"} \cup Settlements]
  /\ handler \in [Delivery -> {"none", "nil", "error", "panic", "noop"} \cup Settlements]
  /\ applied \subseteq Delivery
  /\ hook \in [Delivery -> {"none", "OnCompleted", "OnAbandoned", "OnDeadLettered"}]
  /\ state = "locked" <=> owner # 0

\* No message is lost: it leaves the queue as completed only if a handler asked for
\* that (returned nil, or Complete), whatever the handlers of its other deliveries
\* said before or after; and it is dead-lettered only if one failed for good or the
\* broker had delivered it as often as it may.
NoMessageLost ==
  /\ state = "completed" => \E n \in applied : handler[n] \in {"nil", "complete"}
  /\ state = "deadlettered" =>
       \/ count = MaxDeliveryCount
       \/ \E n \in applied : handler[n] \in {"error", "deadletter"}

\* MaxAttempts: from that delivery on, a settlement by the managed settler that
\* takes effect is the last one; the handler sees the message again only if the
\* settlement failed or the lock ran out.
RetryBudget ==
  managed /\ (\E n \in applied : n >= MaxAttempts) => state \in Terminal

\* OnCompleted "is invoked after the message is completed": the hook's word can be
\* relied on, also if a previous or later delivery was settled otherwise.
CompletedHookIsTrue ==
  (\E n \in Delivery : hook[n] = "OnCompleted") => state = "completed"

=============================================================================
