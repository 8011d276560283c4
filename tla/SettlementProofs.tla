-------------------------- MODULE SettlementProofs --------------------------
(***************************************************************************)
(* Proofs about the settlement middlewares, for every delivery count of    *)
(* the queue and every MaxAttempts: types, no message is lost, the retry   *)
(* budget, the truth of the OnCompleted hook, and settlements are final.   *)
(***************************************************************************)
EXTENDS Settlement, TLAPS

(***************************************************************************)
(* The inductive invariant.  None of the properties is inductive by        *)
(* itself: each relates what took effect on the broker to what a handler   *)
(* returned, several steps earlier.  Asked carries that across the steps   *)
(* in between: what a goroutine is about to ask of the broker is what its  *)
(* handler's result calls for, so a retry is on its way only below the     *)
(* budget.  Settled says that a delivery that was settled, or whose hook   *)
(* was called, is at its end: neither its handler's result nor its hook    *)
(* changes any more, and no later delivery is taken for it.                *)
(***************************************************************************)
Asked ==
  \A n \in Delivery :
    /\ pc[n] = "complete" => handler[n] \in {"nil", "complete"}
    /\ pc[n] = "deadletter" => handler[n] \in {"error", "deadletter"}
    /\ managed /\ pc[n] \in {"delay", "abandon"} => CanRetry(n)
    /\ managed => pc[n] # "defer"

Settled ==
  /\ \A n \in Delivery : n > count => pc[n] = "none"
  /\ \A n \in applied : pc[n] = "done"
  /\ \A n \in Delivery : hook[n] # "none" => pc[n] = "done"

Inv ==
  /\ TypeOK
  /\ Asked
  /\ Settled
  /\ NoMessageLost
  /\ RetryBudget
  /\ CompletedHookIsTrue

-----------------------------------------------------------------------------
LEMMA InitInv == Init => Inv
  <1> SUFFICES ASSUME Init PROVE Inv
    OBVIOUS
  <1>1. managed \in BOOLEAN
    BY Zenon DEF Init
  <1>2. TypeOK
    BY <1>1, SettlementAssumption DEF Init, TypeOK, Settlements, Terminal, Delivery
  <1> QED
    BY <1>2 DEF Init, Inv, Asked, Settled, NoMessageLost, RetryBudget,
                CompletedHookIsTrue

\* The steps of the broker: no goroutine but the one of a new delivery moves.
LEMMA BrokerInv ==
  ASSUME Inv, Deliver \/ LockExpires \/ BrokerDeadLetters
  PROVE  Inv'
  <1> USE SettlementAssumption DEF Inv, Delivery
  <1>1. managed' = managed /\ managed' \in BOOLEAN
    BY Zenon DEF TypeOK, Deliver, LockExpires, BrokerDeadLetters
  <1>2. handler' = handler /\ applied' = applied /\ hook' = hook
    BY DEF Deliver, LockExpires, BrokerDeadLetters
  <1>3. CASE Deliver
    <2>1. count + 1 \in Delivery /\ count' = count + 1 /\ owner' = count + 1
      BY <1>3 DEF TypeOK, Deliver
    <2>2. pc' = [pc EXCEPT ![count + 1] = "handling"] /\ state = "queued"
          /\ state' = "locked"
      BY <1>3 DEF Deliver
    <2>3. TypeOK'
      BY <1>1, <1>2, <2>1, <2>2 DEF TypeOK, Settlements, Terminal
    <2>4. Asked'
      BY <1>1, <1>2, <2>1, <2>2 DEF TypeOK, Asked, CanRetry
    <2>5. Settled'
      BY <1>2, <2>1, <2>2 DEF TypeOK, Settled
    <2> QED
      BY <1>1, <1>2, <2>2, <2>3, <2>4, <2>5
      DEF NoMessageLost, RetryBudget, CompletedHookIsTrue, Terminal
  <1>4. CASE LockExpires \/ BrokerDeadLetters
    <2>1. pc' = pc /\ count' = count
      BY <1>4 DEF LockExpires, BrokerDeadLetters
    <2>2. TypeOK'
      BY <1>1, <1>2, <1>4, <2>1
      DEF TypeOK, Settlements, Terminal, LockExpires, BrokerDeadLetters
    <2>3. Asked' /\ Settled'
      BY <1>1, <1>2, <2>1 DEF Asked, Settled, CanRetry
    <2> QED
      BY <1>1, <1>2, <1>4, <2>1, <2>2, <2>3
      DEF NoMessageLost, RetryBudget, CompletedHookIsTrue, Terminal,
          LockExpires, BrokerDeadLetters
  <1> QED
    BY <1>3, <1>4

\* A goroutine moves on to pc p, its handler having returned r; p is what r calls
\* for.  Nothing else changes.
LEMMA GoroutineInv ==
  ASSUME Inv, NEW n \in Delivery, pc[n] \in {"handling", "delay"},
         NEW r \in {"none", "nil", "error", "panic", "noop"} \cup Settlements,
         NEW p \in {"delay", "done"} \cup Settlements,
         p = "complete" => r \in {"nil", "complete"},
         p = "deadletter" => r \in {"error", "deadletter"},
         managed /\ p \in {"delay", "abandon"} => CanRetry(n),
         managed => p # "defer",
         pc' = [pc EXCEPT ![n] = p],
         handler' = [handler EXCEPT ![n] = r],
         UNCHANGED <<managed, broker, applied, hook>>
  PROVE  Inv'
  <1> USE DEF Inv, broker
  <1>1. managed' = managed /\ managed' \in BOOLEAN
    BY Zenon DEF TypeOK
  <1>2. n \notin applied
    BY DEF Settled
  <1>3. TypeOK'
    BY <1>1 DEF TypeOK, Settlements
  <1>4. Asked'
    BY <1>1 DEF TypeOK, Asked, CanRetry
  <1>5. Settled'
    BY <1>2 DEF TypeOK, Settled
  <1>6. \A m \in applied : m \in Delivery /\ handler'[m] = handler[m]
    BY <1>2 DEF TypeOK
  <1> QED
    BY <1>1, <1>3, <1>4, <1>5, <1>6
    DEF NoMessageLost, RetryBudget, CompletedHookIsTrue

\* The user's handler returns, under either middleware, or panics; the delay
\* before an abandon is over.
LEMMA HandlerInv ==
  ASSUME Inv, NEW n \in Delivery,
         \/ HandlerPanics(n) \/ ManagedReturnsNil(n) \/ ManagedReturnsError(n)
         \/ DelayOver(n)
         \/ \E s \in Settlements \cup {"noop"} : SettlementReturned(n, s)
  PROVE  Inv'
  <1>1. CASE HandlerPanics(n)
    BY <1>1, GoroutineInv DEF HandlerPanics, HandlerGave
  <1>2. CASE ManagedReturnsNil(n)
    BY <1>2, GoroutineInv DEF ManagedReturnsNil, HandlerGave, Settlements
  <1>3. CASE ManagedReturnsError(n)
    BY <1>3, GoroutineInv DEF ManagedReturnsError, HandlerGave, Settlements
  <1>4. CASE DelayOver(n)
    <2>1. handler' = [handler EXCEPT ![n] = handler[n]]
      BY <1>4 DEF DelayOver, Inv, TypeOK
    <2>2. managed => CanRetry(n)
      BY <1>4 DEF DelayOver, Inv, Asked
    <2>3. handler[n] \in {"none", "nil", "error", "panic", "noop"} \cup Settlements
      BY DEF Inv, TypeOK
    <2>4. pc[n] = "delay" /\ pc' = [pc EXCEPT ![n] = "abandon"]
          /\ UNCHANGED <<managed, broker, applied, hook>>
      BY <1>4 DEF DelayOver
    <2> QED
      BY <2>1, <2>2, <2>3, <2>4, GoroutineInv DEF Settlements
  <1>5. ASSUME NEW s \in Settlements \cup {"noop"}, SettlementReturned(n, s)
        PROVE  Inv'
    BY <1>5, GoroutineInv DEF SettlementReturned, HandlerGave, Settlements
  <1> QED
    BY <1>1, <1>2, <1>3, <1>4, <1>5

\* The call to the broker returns, having taken effect or not.
LEMMA SettleInv ==
  ASSUME Inv, NEW n \in Delivery, NEW failed \in BOOLEAN,
         SettleTakesEffect(n, failed) \/ (failed /\ SettleFails(n))
  PROVE  Inv'
  <1> USE DEF Inv
  <1>1. managed' = managed /\ managed' \in BOOLEAN /\ count' = count
        /\ handler' = handler
    BY Zenon DEF TypeOK, SettleTakesEffect, SettleFails, SettleDone
  <1>2. /\ pc[n] \in Settlements
        /\ pc' = [pc EXCEPT ![n] = "done"]
        /\ hook' = [hook EXCEPT ![n] = HookAfter(pc[n], failed)]
    BY DEF SettleTakesEffect, SettleFails, SettleDone
  <1>3. /\ managed => pc[n] \in {"complete", "abandon", "deadletter"}
        /\ n \notin applied
    BY <1>2 DEF Asked, Settled, Settlements
  <1>4. /\ HookAfter(pc[n], failed) \in
             {"none", "OnCompleted", "OnAbandoned", "OnDeadLettered"}
        /\ HookAfter(pc[n], failed) = "OnCompleted" => pc[n] = "complete" /\ ~failed
    BY <1>3 DEF HookAfter
  <1>5. Asked'
    BY <1>1, <1>2 DEF TypeOK, Asked, CanRetry
  <1>6. CASE SettleTakesEffect(n, failed)
    <2>1. /\ owner = n /\ owner' = 0 /\ applied' = applied \cup {n}
          /\ state = "locked" /\ state' = Effect(pc[n])
      BY <1>6 DEF SettleTakesEffect, TypeOK, Delivery
    <2>2. state' \in {"queued"} \cup Terminal
      BY <1>2, <2>1 DEF Effect, Settlements, Terminal
    <2>3. TypeOK'
      BY <1>1, <1>2, <1>4, <2>1, <2>2 DEF TypeOK, Terminal
    <2>4. Settled'
      BY <1>1, <1>2, <2>1 DEF TypeOK, Settled, Settlements
    <2>5. NoMessageLost'
      BY <1>1, <1>2, <2>1 DEF NoMessageLost, Asked, Effect, Settlements
    <2>6. RetryBudget'
      <3>1. managed /\ n >= MaxAttempts => state' \in Terminal
        BY <1>3, <2>1, SettlementAssumption
        DEF Asked, CanRetry, Effect, Terminal, Delivery
      <3> QED
        BY <1>1, <2>1, <3>1 DEF RetryBudget, Terminal
    <2>7. CompletedHookIsTrue'
      BY <1>2, <1>4, <2>1 DEF CompletedHookIsTrue, Effect, TypeOK
    <2> QED
      BY <1>5, <2>3, <2>4, <2>5, <2>6, <2>7
  <1>7. CASE failed /\ SettleFails(n)
    <2>1. failed /\ state' = state /\ owner' = owner /\ applied' = applied
      BY <1>7 DEF SettleFails
    <2>2. TypeOK' /\ Settled'
      BY <1>1, <1>2, <1>3, <1>4, <2>1 DEF TypeOK, Settled, Settlements
    <2>3. CompletedHookIsTrue'
      BY <1>2, <1>4, <2>1 DEF CompletedHookIsTrue, TypeOK
    <2> QED
      BY <1>1, <1>5, <2>1, <2>2, <2>3 DEF NoMessageLost, RetryBudget
  <1> QED
    BY <1>6, <1>7

LEMMA NextInv == Inv /\ [Next]_vars => Inv'
  <1> SUFFICES ASSUME Inv, [Next]_vars PROVE Inv'
    OBVIOUS
  <1>1. CASE Deliver \/ LockExpires \/ BrokerDeadLetters
    BY <1>1, BrokerInv
  <1>2. ASSUME NEW n \in Delivery,
               \/ HandlerPanics(n) \/ ManagedReturnsNil(n) \/ ManagedReturnsError(n)
               \/ DelayOver(n)
               \/ \E s \in Settlements \cup {"noop"} : SettlementReturned(n, s)
        PROVE  Inv'
    BY <1>2, HandlerInv
  <1>3. ASSUME NEW n \in Delivery, NEW failed \in BOOLEAN,
               SettleTakesEffect(n, failed) \/ SettleFails(n)
        PROVE  Inv'
    BY <1>3, SettleInv
  <1>4. CASE UNCHANGED vars
    BY <1>4 DEF vars, Inv, TypeOK, Asked, Settled, CanRetry, NoMessageLost,
                RetryBudget, CompletedHookIsTrue
  <1> QED
    BY <1>1, <1>2, <1>3, <1>4 DEF Next

\* The invariant holds of every behaviour of the middlewares.
THEOREM Invariance == Spec => []Inv
  BY InitInv, NextInv, PTL DEF Spec

-----------------------------------------------------------------------------
\* Types, and the message is locked exactly when a delivery owns the lock.
THEOREM TypeCorrect == Spec => []TypeOK
  <1>1. Inv => TypeOK
    BY DEF Inv
  <1> QED
    BY <1>1, Invariance, PTL

\* A message is completed only if a handler asked for it, and dead-lettered only
\* if a handler failed for good or the broker ran out of deliveries.
THEOREM MessageNotLost == Spec => []NoMessageLost
  <1>1. Inv => NoMessageLost
    BY DEF Inv
  <1> QED
    BY <1>1, Invariance, PTL

\* A settlement that takes effect from the delivery MaxAttempts on is the last.
THEOREM RetriesBounded == Spec => []RetryBudget
  <1>1. Inv => RetryBudget
    BY DEF Inv
  <1> QED
    BY <1>1, Invariance, PTL

\* If OnCompleted was called for some delivery, the message is completed.
THEOREM HookIsTrue == Spec => []CompletedHookIsTrue
  <1>1. Inv => CompletedHookIsTrue
    BY DEF Inv
  <1> QED
    BY <1>1, Invariance, PTL

-----------------------------------------------------------------------------
(***************************************************************************)
(* What a step may never do, with several deliveries of the message in the *)
(* hands of handlers: take the message back from where a settlement put    *)
(* it; settle it for a delivery that lost the lock; settle it twice for    *)
(* one delivery; call a second hook for a delivery, or a hook that changes *)
(* after the fact.                                                         *)
(***************************************************************************)
SettledForGood ==
  /\ state \in Terminal => UNCHANGED <<state, count, applied>>
  /\ applied \subseteq applied'
  /\ \A n \in applied' \ applied : owner = n /\ pc[n] \in Settlements /\ pc'[n] = "done"
  /\ \A n \in Delivery : hook[n] # "none" => hook'[n] = hook[n]

\* A settlement is final and is the owner's, and a hook is called once: a stale
\* delivery, whose handler returns after the lock ran out, changes nothing on the
\* broker.
THEOREM SettlementIsFinal == Spec => [][SettledForGood]_vars
  <1>1. ASSUME Inv, [Next]_vars
        PROVE  [SettledForGood]_vars
    <2>1. CASE Deliver \/ LockExpires \/ BrokerDeadLetters
      BY <1>1, <2>1
      DEF SettledForGood, Terminal, Deliver, LockExpires, BrokerDeadLetters
    <2>2. ASSUME NEW n \in Delivery,
                 \/ HandlerPanics(n) \/ ManagedReturnsNil(n) \/ ManagedReturnsError(n)
                 \/ DelayOver(n)
                 \/ \E s \in Settlements \cup {"noop"} : SettlementReturned(n, s)
          PROVE  SettledForGood
      <3>1. UNCHANGED <<state, count, applied, hook>>
        BY <2>2
        DEF HandlerPanics, ManagedReturnsNil, ManagedReturnsError, DelayOver,
            SettlementReturned, HandlerGave, broker
      <3> QED
        BY <3>1 DEF SettledForGood
    <2>3. ASSUME NEW n \in Delivery, NEW failed \in BOOLEAN,
                 SettleTakesEffect(n, failed) \/ SettleFails(n)
          PROVE  SettledForGood
      <3>1. /\ pc[n] \in Settlements /\ count' = count
            /\ pc' = [pc EXCEPT ![n] = "done"]
            /\ \E h : hook' = [hook EXCEPT ![n] = h]
        BY <2>3 DEF SettleTakesEffect, SettleFails, SettleDone
      <3>2. \/ owner = n /\ applied' = applied \cup {n}
            \/ applied' = applied /\ state' = state
        BY <2>3 DEF SettleTakesEffect, SettleFails
      <3>3. /\ pc[n] # "done"
            /\ pc \in [Delivery -> {"none", "handling", "delay", "done"} \cup Settlements]
            /\ hook \in [Delivery -> {"none", "OnCompleted", "OnAbandoned", "OnDeadLettered"}]
        BY <1>1, <3>1 DEF Inv, TypeOK, Settlements
      <3>4. hook[n] = "none"
        BY <1>1, <3>3 DEF Inv, Settled
      <3>5. \A k \in Delivery : hook[k] # "none" => hook'[k] = hook[k]
        BY <3>1, <3>3, <3>4
      <3>6. owner = n => state \notin Terminal
        <4>1. n # 0
          BY SettlementAssumption DEF Delivery
        <4> QED
          BY <1>1, <4>1 DEF Inv, TypeOK, Terminal
      <3> QED
        BY <3>1, <3>2, <3>3, <3>5, <3>6 DEF SettledForGood
    <2>4. CASE UNCHANGED vars
      BY <2>4
    <2> QED
      BY <1>1, <2>1, <2>2, <2>3, <2>4 DEF Next
  <1> QED
    BY <1>1, Invariance, PTL DEF Spec

=============================================================================
