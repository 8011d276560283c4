------------------------- MODULE HealthCheckerProofs -------------------------
(***************************************************************************)
(* Proofs about the periodic health checks, for any number of namespaces   *)
(* and clients and any interval, timeout and scheduling delay: types, the  *)
(* checks keep to their schedule, and the informers report the truth.      *)
(***************************************************************************)
EXTENDS HealthChecker, TLAPS

(***************************************************************************)
(* The inductive invariant.  Due is why no delay accumulates: the due time *)
(* is a function of the number of checks alone.  Started and Deadline give *)
(* the window in which a check begins, from the due time to a scheduling   *)
(* delay after the latest end of the check before it.                      *)
(***************************************************************************)
Due == \A l \in Loop : nextCheck[l] = finished[l] * Interval

Started == \A l \in Loop : pc[l] \in {"call", "close"} => nextCheck[l] <= now

Deadline ==
  \A l \in Loop :
    pc[l] = "select" =>
      latest[l] <= finished[l] * Interval + (finished[l] + 1) * Jitter

Inv ==
  /\ TypeOK
  /\ Due
  /\ Started
  /\ Deadline
  /\ OnSchedule

-----------------------------------------------------------------------------
\* NewHealthChecker: whatever the user sets, the timeout is positive and does not
\* exceed the interval.
LEMMA OptionsInRange ==
  /\ Interval \in Nat \ {0} /\ Timeout \in Nat \ {0} /\ Timeout <= Interval
  /\ Jitter \in Nat /\ MaxTime \in Nat
  <1>1. /\ OptInterval \in Int /\ OptTimeout \in Int /\ DefaultInterval \in Nat \ {0}
        /\ Jitter \in Nat /\ MaxTime \in Nat
    BY HealthAssumption, Zenon
  <1> QED
    BY <1>1 DEF Interval, Timeout

LEMMA Multiples ==
  ASSUME NEW n \in Nat, NEW k \in Nat
  PROVE  n * k \in Nat /\ (n + 1) * k = n * k + k /\ 0 * k = 0
  OBVIOUS

LEMMA MaxOfTwo ==
  ASSUME NEW a \in Int, NEW b \in Int
  PROVE  Max({a, b}) = IF a >= b THEN a ELSE b
  <1> DEFINE m == IF a >= b THEN a ELSE b
  <1>1. m \in {a, b} /\ \A y \in {a, b} : m >= y
    OBVIOUS
  <1>2. \A x \in {a, b} : (\A y \in {a, b} : x >= y) => x = m
    OBVIOUS
  <1> HIDE DEF m
  <1>3. Max({a, b}) = m
    BY <1>1, <1>2, Zenon DEF Max
  <1> QED
    BY <1>3 DEF m

LEMMA InitInv == Init => Inv
  <1> SUFFICES ASSUME Init PROVE Inv
    OBVIOUS
  <1>1. ctxDone \in BOOLEAN
    BY Zenon DEF Init
  <1>2. TypeOK
    BY <1>1, OptionsInRange DEF Init, TypeOK, Answer
  <1>3. 0 * Interval = 0 /\ (0 + 1) * Jitter = Jitter
    <2>1. 0 * Interval = 0
      BY OptionsInRange, Multiples
    <2>2. 0 * Jitter = 0 /\ (0 + 1) * Jitter = 0 * Jitter + Jitter
      BY OptionsInRange, Multiples
    <2> QED
      BY <2>1, <2>2, OptionsInRange
  <1> QED
    BY <1>2, <1>3, OptionsInRange
    DEF Init, Inv, Due, Started, Deadline, OnSchedule

\* The context ends, or time passes.
LEMMA EnvInv ==
  ASSUME Inv, Cancel \/ Tick
  PROVE  Inv'
  <1>1. UNCHANGED <<pc, nextCheck, latest, err, finished, passed>>
    BY DEF Cancel, Tick, history
  <1>2. ctxDone' \in BOOLEAN
    BY Zenon DEF Inv, TypeOK, Cancel, Tick
  <1>3. now' \in 0 .. MaxTime /\ now' >= now
    BY OptionsInRange DEF Inv, TypeOK, Cancel, Tick
  <1>4. \A l \in Loop : pc[l] # "returned" => latest[l] >= now'
    BY DEF Inv, TypeOK, Cancel, Tick
  <1>5. TypeOK'
    BY <1>1, <1>2, <1>3, <1>4, OptionsInRange DEF Inv, TypeOK
  <1>6. Started'
    BY <1>1, <1>3 DEF Inv, Started, TypeOK
  <1>7. Due' /\ Deadline' /\ OnSchedule'
    BY <1>1 DEF Inv, Due, Deadline, OnSchedule, Lateness
  <1> QED
    BY <1>5, <1>6, <1>7 DEF Inv

\* A check begins; a call of the client returns; the loop sees the end of its
\* context.
LEMMA CheckRunsInv ==
  ASSUME Inv, NEW l \in Loop,
         OpenSucceeds(l) \/ SelectDone(l) \/ \E e \in Answer : CallReturns(l, e)
  PROVE  Inv'
  <1>1. UNCHANGED <<now, ctxDone, nextCheck, finished, passed>>
    BY DEF OpenSucceeds, SelectDone, CallReturns, history
  <1>2. ctxDone' \in BOOLEAN
    BY <1>1, Zenon DEF Inv, TypeOK
  <1>3. TypeOK'
    <2>1. pc' \in [Loop -> {"select", "call", "close", "returned"}]
          /\ err' \in [Loop -> Answer]
      BY DEF Inv, TypeOK, OpenSucceeds, SelectDone, CallReturns
    <2>2. latest' = latest \/ latest' = [latest EXCEPT ![l] = now + Timeout]
      BY DEF OpenSucceeds, SelectDone, CallReturns
    <2>3. now \in Nat /\ now + Timeout \in Nat /\ now + Timeout >= now
      BY OptionsInRange DEF Inv, TypeOK
    <2>4. latest' \in [Loop -> Nat]
      BY <2>2, <2>3 DEF Inv, TypeOK
    <2>5. pc[l] # "returned"
      BY DEF OpenSucceeds, TimerFired, SelectDone, CallReturns
    <2>6. \A k \in Loop : pc'[k] # "returned" => pc[k] # "returned"
      BY <2>5 DEF Inv, TypeOK, OpenSucceeds, SelectDone, CallReturns
    <2>7. \A k \in Loop : pc'[k] # "returned" =>
            latest'[k] >= now /\ nextCheck[k] <= now + Interval
      BY <2>2, <2>3, <2>6 DEF Inv, TypeOK
    <2> QED
      BY <1>1, <1>2, <2>1, <2>4, <2>7 DEF Inv, TypeOK
  <1>4. Due'
    BY <1>1 DEF Inv, Due
  <1>5. Started'
    BY <1>1 DEF Inv, TypeOK, Started, OpenSucceeds, TimerFired, SelectDone, CallReturns
  <1>6. Deadline'
    BY <1>1 DEF Inv, TypeOK, Deadline, OpenSucceeds, SelectDone, CallReturns
  <1>7. OnSchedule'
    <2>1. CASE OpenSucceeds(l)
      <3>1. /\ now >= finished[l] * Interval
            /\ now <= finished[l] * Interval + (finished[l] + 1) * Jitter
        <4>1. /\ now >= nextCheck[l] /\ now <= latest[l] /\ now \in Int
              /\ latest[l] \in Int
              /\ nextCheck[l] = finished[l] * Interval
              /\ latest[l] <= finished[l] * Interval + (finished[l] + 1) * Jitter
          BY <2>1 DEF Inv, TypeOK, Due, Deadline, OpenSucceeds, TimerFired
        <4>2. finished[l] * Interval \in Int /\ (finished[l] + 1) * Jitter \in Int
          BY OptionsInRange DEF Inv, TypeOK
        <4> QED
          BY <4>1, <4>2
      <3>2. latest' = [latest EXCEPT ![l] = now + Timeout]
            /\ pc' = [pc EXCEPT ![l] = "call"]
        BY <2>1 DEF OpenSucceeds
      <3>3. ASSUME NEW m \in Loop, m # l, pc'[m] \in {"call", "close"}
            PROVE  Lateness(m)' >= 0 /\ Lateness(m)' <= (finished'[m] + 1) * Jitter
        BY <1>1, <3>2, <3>3 DEF Inv, TypeOK, OnSchedule, Lateness
      <3>4. Lateness(l)' = now - finished[l] * Interval
        <4>1. latest'[l] = now + Timeout
          BY <3>2 DEF Inv, TypeOK
        <4>2. finished[l] * Interval \in Int /\ now \in Int
          BY OptionsInRange DEF Inv, TypeOK
        <4> QED
          BY <1>1, <4>1, <4>2, OptionsInRange DEF Lateness
      <3>5. finished[l] * Interval \in Int /\ (finished[l] + 1) * Jitter \in Int
            /\ now \in Int
        BY OptionsInRange DEF Inv, TypeOK
      <3> QED
        BY <1>1, <3>1, <3>3, <3>4, <3>5 DEF OnSchedule
    <2>2. CASE SelectDone(l) \/ \E e \in Answer : CallReturns(l, e)
      BY <1>1, <2>2 DEF Inv, TypeOK, OnSchedule, Lateness, SelectDone, CallReturns
    <2> QED
      BY <2>1, <2>2
  <1> QED
    BY <1>3, <1>4, <1>5, <1>6, <1>7 DEF Inv

\* A check ends: however long it took, the next one is due one interval later and
\* at most one more scheduling delay behind.
LEMMA CheckEndsInv ==
  ASSUME Inv, NEW l \in Loop, OpenFails(l) \/ \E e \in Answer : CloseReturns(l, e)
  PROVE  Inv'
  <1> DEFINE f   == finished[l]
             due == f * Interval
             lag == (f + 1) * Jitter
  <1>1. /\ UNCHANGED <<now, ctxDone>>
        /\ pc' = [pc EXCEPT ![l] = "select"]
        /\ nextCheck' = [nextCheck EXCEPT ![l] = nextCheck[l] + Interval]
        /\ latest' = [latest EXCEPT ![l] = Max({now, nextCheck[l] + Interval}) + Jitter]
        /\ err' = [err EXCEPT ![l] = "nil"]
        /\ finished' = [finished EXCEPT ![l] = f + 1]
    BY DEF OpenFails, CloseReturns, CheckEnds, Wait, NextCheck
  <1>2. /\ pc[l] \in {"select", "call", "close"} /\ nextCheck[l] <= now
        /\ now <= latest[l]
    BY DEF OpenFails, TimerFired, CloseReturns, Inv, TypeOK, Started
  <1>3. /\ f \in Nat /\ due \in Nat /\ lag \in Nat /\ nextCheck[l] = due
        /\ now \in Nat /\ latest[l] \in Nat
        /\ (f + 1) * Interval = due + Interval /\ (f + 1 + 1) * Jitter = lag + Jitter
    BY OptionsInRange, Multiples DEF Inv, TypeOK, Due
  <1>4. now <= due + lag + Interval
    <2>1. CASE pc[l] = "select"
      BY <1>2, <1>3, <2>1, OptionsInRange DEF Inv, Deadline
    <2>2. CASE pc[l] \in {"call", "close"}
      <3>1. latest[l] - Timeout - due <= lag
        BY <2>2 DEF Inv, OnSchedule, Lateness
      <3> HIDE DEF due, lag
      <3> QED
        BY <1>2, <1>3, <3>1, OptionsInRange
    <2> QED
      BY <1>2, <2>1, <2>2
  <1>5. ctxDone' \in BOOLEAN
    BY <1>1, Zenon DEF Inv, TypeOK
  <1> DEFINE m == Max({now, nextCheck[l] + Interval})
  <1>6. /\ m \in Nat /\ m >= now /\ m <= due + lag + Interval
    <2> HIDE DEF due, lag
    <2>1. now \in Int /\ nextCheck[l] + Interval \in Int
      BY <1>3, OptionsInRange
    <2>2. m = IF now >= nextCheck[l] + Interval THEN now ELSE nextCheck[l] + Interval
      BY <2>1, MaxOfTwo
    <2> HIDE DEF m
    <2> QED
      BY <1>3, <1>4, <2>2, OptionsInRange
  <1>7. latest' = [latest EXCEPT ![l] = m + Jitter]
    BY <1>1
  <1> HIDE DEF m, due, lag
  <1>8. TypeOK'
    <2>1. pc' \in [Loop -> {"select", "call", "close", "returned"}]
          /\ err' \in [Loop -> Answer]
      BY <1>1 DEF Inv, TypeOK, Answer
    <2>2. nextCheck' \in [Loop -> Nat] /\ latest' \in [Loop -> Nat]
          /\ finished' \in [Loop -> Nat]
      BY <1>1, <1>3, <1>6, <1>7, OptionsInRange DEF Inv, TypeOK
    <2>3. passed' \in [Loop -> Nat]
      <3>1. PICK good : CheckEnds(l, "error", good)
                        \/ \E e \in Answer : CheckEnds(l, ErrAfterClose(err[l], e), good)
        BY DEF OpenFails, CloseReturns
      <3>2. passed' = [passed EXCEPT ![l] = IF good THEN passed[l] + 1 ELSE passed[l]]
        BY <3>1 DEF CheckEnds
      <3> QED
        BY <3>2 DEF Inv, TypeOK
    <2>4. m + Jitter >= now /\ nextCheck[l] + Interval <= now + Interval
      BY <1>2, <1>3, <1>6, OptionsInRange
    <2>5. \A k \in Loop : pc'[k] # "returned" =>
            latest'[k] >= now /\ nextCheck'[k] <= now + Interval
      BY <1>1, <1>7, <2>4 DEF Inv, TypeOK
    <2> QED
      BY <1>1, <1>5, <2>1, <2>2, <2>3, <2>5 DEF Inv, TypeOK
  <1>9. Due'
    BY <1>1, <1>3 DEF Inv, TypeOK, Due
  <1>10. Started'
    BY <1>1 DEF Inv, TypeOK, Started
  <1>11. Deadline'
    <2>1. m + Jitter <= due + Interval + (lag + Jitter)
      BY <1>3, <1>6, OptionsInRange
    <2>2. m + Jitter <= (f + 1) * Interval + (f + 1 + 1) * Jitter
      BY <1>3, <2>1
    <2>3. latest'[l] = m + Jitter /\ finished'[l] = f + 1
      BY <1>1, <1>7 DEF Inv, TypeOK
    <2>4. \A k \in Loop : k # l =>
            latest'[k] = latest[k] /\ finished'[k] = finished[k] /\ pc'[k] = pc[k]
      BY <1>1, <1>7 DEF Inv, TypeOK
    <2> QED
      BY <2>2, <2>3, <2>4 DEF Inv, Deadline
  <1>12. OnSchedule'
    BY <1>1, <1>7 DEF Inv, TypeOK, OnSchedule, Lateness
  <1> QED
    BY <1>8, <1>9, <1>10, <1>11, <1>12 DEF Inv

LEMMA NextInv == Inv /\ [Next]_vars => Inv'
  <1> SUFFICES ASSUME Inv, [Next]_vars PROVE Inv'
    OBVIOUS
  <1>1. CASE UNCHANGED vars
    BY <1>1 DEF vars, history, Inv, TypeOK, Due, Started, Deadline, OnSchedule, Lateness
  <1> QED
    BY <1>1, EnvInv, CheckRunsInv, CheckEndsInv DEF Next, Check

\* The invariant holds of every behaviour of the health checker.
THEOREM Invariance == Spec => []Inv
  BY InitInv, NextInv, PTL DEF Spec

-----------------------------------------------------------------------------
\* Types, no step is overdue, and no check is put off by more than an interval.
THEOREM TypeCorrect == Spec => []TypeOK
  <1>1. Inv => TypeOK
    BY DEF Inv
  <1> QED
    BY <1>1, Invariance, PTL

\* Checks start on schedule, late by one scheduling delay per check at most,
\* whatever the interval, the timeout and the duration of the checks.
THEOREM ChecksOnSchedule == Spec => []OnSchedule
  <1>1. Inv => OnSchedule
    BY DEF Inv
  <1> QED
    BY <1>1, Invariance, PTL

-----------------------------------------------------------------------------
(***************************************************************************)
(* The counters.  A second inductive invariant on top of Inv: every loop   *)
(* has two series of its own, one for each outcome, and they hold exactly  *)
(* its history.  Two loops never share a series (LabelsInjective), and the *)
(* labels an informer filters by match that one series (OneSeries), so     *)
(* that its sum is the count of the loop (CollectOne).                     *)
(***************************************************************************)
Kind == {"sender", "receiver"}

CounterTyped ==
  /\ counter = [kind \in Kind |-> counter[kind]]
  /\ \A kind \in Kind : counter[kind] \in [Series(kind) -> Nat]

Counters ==
  /\ CounterTyped
  /\ \A l \in Loop :
       /\ counter[l.check.kind][Labels(l, TRUE)] = passed[l]
       /\ counter[l.check.kind][Labels(l, FALSE)] = finished[l] - passed[l]

LEMMA LabelsInSeries ==
  ASSUME NEW l \in Loop, NEW b \in BOOLEAN
  PROVE  l.check.kind \in Kind /\ Labels(l, b) \in Series(l.check.kind)
  <1>1. l.check \in Checkable
    BY DEF Loop
  <1>2. l.check.kind \in Kind
    BY <1>1, HealthAssumption DEF Kind
  <1>3. Labels(l, b) \in Series(l.check.kind)
    BY DEF Series
  <1> QED
    BY <1>2, <1>3

\* The labels of a check determine its goroutine and its outcome.
LEMMA LabelsInjective ==
  ASSUME NEW l \in Loop, NEW m \in Loop, NEW b \in BOOLEAN, NEW c \in BOOLEAN,
         l.check.kind = m.check.kind, Labels(l, b) = Labels(m, c)
  PROVE  l = m /\ b = c
  <1>1. /\ l.namespace = m.namespace /\ l.check.entity = m.check.entity /\ b = c
        /\ l.check.kind # "sender" => l.check.subscription = m.check.subscription
    <2>1. CASE l.check.kind = "sender"
      <3>1. SenderLabels(l, b) = SenderLabels(m, c)
        BY <2>1, Zenon DEF Labels
      <3> QED
        BY <2>1, <3>1 DEF SenderLabels
    <2>2. CASE l.check.kind # "sender"
      <3>1. ReceiverLabels(l, b) = ReceiverLabels(m, c)
        BY <2>2, Zenon DEF Labels
      <3> QED
        BY <3>1 DEF ReceiverLabels
    <2> QED
      BY <2>1, <2>2
  <1>2. l.check \in Checkable /\ m.check \in Checkable
    BY DEF Loop
  <1>3. l.check.subscription = m.check.subscription
    <2>1. CASE l.check.kind = "sender"
      BY <1>2, <2>1, HealthAssumption
    <2>2. CASE l.check.kind # "sender"
      BY <2>2, <1>1
    <2> QED
      BY <2>1, <2>2
  <1>4. l.check = m.check
    <2> DEFINE Any == [kind : {"sender", "receiver"}, entity : STRING,
                          subscription : STRING]
    <2>1. l.check \in Any /\ m.check \in Any
      BY <1>2, HealthAssumption
    <2> QED
      BY <2>1, <1>1, <1>3
  <1>5. l = m
    BY <1>1, <1>4 DEF Loop
  <1> QED
    BY <1>1, <1>5

LEMMA OneCounterMoves ==
  ASSUME CounterTyped, NEW k \in Kind, NEW x \in Series(k),
         counter' = [counter EXCEPT ![k][x] = @ + 1]
  PROVE  /\ CounterTyped'
         /\ counter'[k][x] = counter[k][x] + 1
         /\ \A j \in Kind : \A s \in Series(j) :
              j # k \/ s # x => counter'[j][s] = counter[j][s]
  <1>1. counter' = [j \in Kind |->
          IF j = k THEN [counter[k] EXCEPT ![x] = counter[k][x] + 1] ELSE counter[j]]
    BY DEF CounterTyped
  <1>2. counter[k] \in [Series(k) -> Nat] /\ counter[k][x] + 1 \in Nat
    BY DEF CounterTyped
  <1>3. /\ counter' = [j \in Kind |-> counter'[j]]
        /\ counter'[k] = [counter[k] EXCEPT ![x] = counter[k][x] + 1]
        /\ \A j \in Kind : j # k => counter'[j] = counter[j]
    BY <1>1
  <1>4. counter'[k] \in [Series(k) -> Nat]
    BY <1>2, <1>3
  <1>5. CounterTyped'
    BY <1>3, <1>4 DEF CounterTyped
  <1> QED
    BY <1>2, <1>3, <1>5

LEMMA InitCounters == Init => Counters
  <1> SUFFICES ASSUME Init PROVE Counters
    OBVIOUS
  <1>1. CounterTyped
    BY DEF Init, CounterTyped, Kind
  <1>2. \A kind \in Kind : \A s \in Series(kind) : counter[kind][s] = 0
    BY DEF Init, Kind
  <1>3. ASSUME NEW l \in Loop
        PROVE  /\ counter[l.check.kind][Labels(l, TRUE)] = 0
               /\ counter[l.check.kind][Labels(l, FALSE)] = 0
    <2>1. /\ l.check.kind \in Kind
          /\ Labels(l, TRUE) \in Series(l.check.kind)
          /\ Labels(l, FALSE) \in Series(l.check.kind)
      BY LabelsInSeries
    <2> QED
      BY <1>2, <2>1
  <1>4. \A l \in Loop : passed[l] = 0 /\ finished[l] - passed[l] = 0
    BY DEF Init
  <1> QED
    BY <1>1, <1>3, <1>4 DEF Counters

\* The end of check l raises one counter, its own: that of the successes if every
\* call went well, that of the failures otherwise.
LEMMA CheckEndsCounters ==
  ASSUME Inv, Counters, NEW l \in Loop, NEW e, NEW good \in BOOLEAN,
         good <=> e = "nil", CheckEnds(l, e, good)
  PROVE  Counters'
  <1> DEFINE k    == l.check.kind
             succ == Labels(l, TRUE)
             fail == Labels(l, FALSE)
  <1>1. k \in Kind /\ succ \in Series(k) /\ fail \in Series(k)
    BY LabelsInSeries
  <1>2. succ # fail
    BY LabelsInjective
  <1>3. finished' = [finished EXCEPT ![l] = finished[l] + 1]
    BY DEF CheckEnds
  <1>4. ASSUME NEW m \in Loop, m # l
        PROVE  LET j == m.check.kind
               IN  /\ j \in Kind /\ Labels(m, TRUE) \in Series(j)
                   /\ Labels(m, FALSE) \in Series(j)
                   /\ j = k => /\ Labels(m, TRUE) \notin {succ, fail}
                               /\ Labels(m, FALSE) \notin {succ, fail}
    BY <1>4, LabelsInSeries, LabelsInjective
  <1>5. counter[k][succ] = passed[l] /\ counter[k][fail] = finished[l] - passed[l]
    BY DEF Counters
  <1>6. CASE e = "nil"
    <2>1. counter' = [counter EXCEPT ![k][succ] = @ + 1]
      BY <1>6, Zenon DEF CheckEnds
    <2>2. passed' = [passed EXCEPT ![l] = passed[l] + 1]
      BY <1>6 DEF CheckEnds
    <2> HIDE DEF k, succ, fail
    <2>3. /\ CounterTyped'
          /\ counter'[k][succ] = counter[k][succ] + 1
          /\ \A j \in Kind : \A s \in Series(j) :
               j # k \/ s # succ => counter'[j][s] = counter[j][s]
      BY <1>1, <2>1, OneCounterMoves DEF Counters
    <2>4. ASSUME NEW m \in Loop, m # l
          PROVE  /\ counter'[m.check.kind][Labels(m, TRUE)] = passed'[m]
                 /\ counter'[m.check.kind][Labels(m, FALSE)] = finished'[m] - passed'[m]
      BY <1>3, <1>4, <2>2, <2>3, <2>4 DEF Counters, Inv, TypeOK
    <2>5. /\ counter'[k][succ] = passed'[l]
          /\ counter'[k][fail] = finished'[l] - passed'[l]
      BY <1>1, <1>2, <1>3, <1>5, <2>2, <2>3 DEF Inv, TypeOK
    <2> QED
      BY <2>3, <2>4, <2>5 DEF Counters, k, succ, fail
  <1>7. CASE e # "nil"
    <2>1. counter' = [counter EXCEPT ![k][fail] = @ + 1]
      BY <1>7, Zenon DEF CheckEnds
    <2>2. passed' = passed
      BY <1>7 DEF CheckEnds, Inv, TypeOK
    <2> HIDE DEF k, succ, fail
    <2>3. /\ CounterTyped'
          /\ counter'[k][fail] = counter[k][fail] + 1
          /\ \A j \in Kind : \A s \in Series(j) :
               j # k \/ s # fail => counter'[j][s] = counter[j][s]
      BY <1>1, <2>1, OneCounterMoves DEF Counters
    <2>4. ASSUME NEW m \in Loop, m # l
          PROVE  /\ counter'[m.check.kind][Labels(m, TRUE)] = passed'[m]
                 /\ counter'[m.check.kind][Labels(m, FALSE)] = finished'[m] - passed'[m]
      BY <1>3, <1>4, <2>2, <2>3, <2>4 DEF Counters, Inv, TypeOK
    <2>5. /\ counter'[k][succ] = passed'[l]
          /\ counter'[k][fail] = finished'[l] - passed'[l]
      BY <1>1, <1>2, <1>3, <1>5, <2>2, <2>3 DEF Inv, TypeOK
    <2> QED
      BY <2>3, <2>4, <2>5 DEF Counters, k, succ, fail
  <1> QED
    BY <1>6, <1>7

LEMMA NextCounters == Inv /\ Counters /\ [Next]_vars => Counters'
  <1> SUFFICES ASSUME Inv, Counters, [Next]_vars PROVE Counters'
    OBVIOUS
  <1>1. CASE UNCHANGED <<counter, finished, passed>>
    BY <1>1 DEF Counters, CounterTyped
  <1>2. CASE Cancel \/ Tick \/ UNCHANGED vars
    BY <1>1, <1>2 DEF Cancel, Tick, vars, history
  <1>3. ASSUME NEW l \in Loop,
               SelectDone(l) \/ OpenSucceeds(l) \/ \E e \in Answer : CallReturns(l, e)
        PROVE  Counters'
    BY <1>1, <1>3 DEF SelectDone, OpenSucceeds, CallReturns, history
  <1>4. ASSUME NEW l \in Loop, OpenFails(l) PROVE Counters'
    <2>1. CheckEnds(l, "error", FALSE)
      BY <1>4 DEF OpenFails
    <2> QED
      BY <2>1, CheckEndsCounters
  <1>5. ASSUME NEW l \in Loop, NEW closeErr \in Answer, CloseReturns(l, closeErr)
        PROVE  Counters'
    <2> DEFINE e    == ErrAfterClose(err[l], closeErr)
               good == err[l] = "nil" /\ closeErr = "nil"
    <2>1. CheckEnds(l, e, good)
      BY <1>5, Zenon DEF CloseReturns
    <2>2. good \in BOOLEAN /\ (good <=> e = "nil")
      BY DEF ErrAfterClose
    <2> HIDE DEF e, good
    <2> QED
      BY <2>1, <2>2, CheckEndsCounters
  <1> QED
    BY <1>2, <1>3, <1>4, <1>5 DEF Next, Check

\* The labels of a check match no other series of its vector.
LEMMA OneSeries ==
  ASSUME NEW l \in Loop, NEW b \in BOOLEAN
  PROVE  {s \in Series(l.check.kind) : HasLabels(s, Labels(l, b))} = {Labels(l, b)}
  <1> DEFINE k == l.check.kind
  <1>1. Labels(l, b) \in Series(k)
    BY DEF Series
  <1>2. HasLabels(Labels(l, b), Labels(l, b))
    BY Zenon DEF HasLabels
  <1>3. ASSUME NEW s \in Series(k), HasLabels(s, Labels(l, b))
        PROVE  s = Labels(l, b)
    <2>1. PICK m \in Loop, c \in BOOLEAN : m.check.kind = k /\ s = Labels(m, c)
      BY DEF Series
    <2>2. CASE k = "sender"
      <3>1. s = SenderLabels(m, c) /\ Labels(l, b) = SenderLabels(l, b)
        BY <2>1, <2>2, Zenon DEF Labels
      <3>2. DOMAIN Labels(l, b) = {"namespace", "entity", "success"}
        BY <3>1 DEF SenderLabels
      <3>3. /\ s.namespace = Labels(l, b).namespace /\ s.entity = Labels(l, b).entity
            /\ s.success = Labels(l, b).success
        BY <1>3, <3>2, Zenon DEF HasLabels
      <3>4. m.namespace = l.namespace /\ m.check.entity = l.check.entity /\ c = b
        <4>1. c = b
          BY <3>1, <3>3 DEF SenderLabels
        <4>2. m.namespace = l.namespace
          BY <3>1, <3>3 DEF SenderLabels
        <4>3. m.check.entity = l.check.entity
          BY <3>1, <3>3 DEF SenderLabels
        <4> QED
          BY <4>1, <4>2, <4>3, Zenon
      <3> QED
        BY <3>1, <3>4, Zenon DEF SenderLabels
    <2>3. CASE k # "sender"
      <3>1. s = ReceiverLabels(m, c) /\ Labels(l, b) = ReceiverLabels(l, b)
        BY <2>1, <2>3, Zenon DEF Labels
      <3>2. DOMAIN Labels(l, b) = {"namespace", "entity", "subscription", "success"}
        BY <3>1 DEF ReceiverLabels
      <3>3. /\ s.namespace = Labels(l, b).namespace /\ s.entity = Labels(l, b).entity
            /\ s.subscription = Labels(l, b).subscription
            /\ s.success = Labels(l, b).success
        BY <1>3, <3>2, Zenon DEF HasLabels
      <3>4. m.namespace = l.namespace /\ m.check.entity = l.check.entity /\ c = b
             /\ m.check.subscription = l.check.subscription
        BY <3>1, <3>3 DEF ReceiverLabels
      <3> QED
        BY <3>1, <3>4, Zenon DEF ReceiverLabels
    <2> QED
      BY <2>2, <2>3
  <1> QED
    BY <1>1, <1>2, <1>3, Zenon

\* The sum over the series that match is the one series' value.
LEMMA CollectOne ==
  ASSUME NEW kind, NEW labels, NEW x,
         {s \in DOMAIN counter[kind] : HasLabels(s, labels)} = {x}, counter[kind][x] \in Int
  PROVE  Collect(kind, labels) = counter[kind][x]
  <1> DEFINE S == {s \in DOMAIN counter[kind] : HasLabels(s, labels)}
             g == counter[kind]
             R(it) == it = [s \in SUBSET S |->
                              IF s = {} THEN 0
                              ELSE LET y == CHOOSE z \in s : TRUE
                                   IN  g[y] + it[s \ {y}]]
             it0 == [s \in SUBSET S |-> IF s = {} THEN 0 ELSE g[x]]
             it1 == CHOOSE it : R(it)
  <1>1. Collect(kind, labels) = it1[S]
    BY DEF Collect, MapThenSumSet, MapThenFoldSet
  <1>2. S = {x} /\ g[x] \in Int
    OBVIOUS
  <1> HIDE DEF S, g
  <1>3. \A s \in SUBSET S : s # {} => s = {x} /\ (CHOOSE z \in s : TRUE) = x
    BY <1>2
  <1>4. R(it0)
    <2>1. \A s \in SUBSET S :
            it0[s] = IF s = {} THEN 0
                     ELSE LET y == CHOOSE z \in s : TRUE IN g[y] + it0[s \ {y}]
      <3> TAKE s \in SUBSET S
      <3>1. CASE s # {}
        <4>1. s = {x} /\ (CHOOSE z \in s : TRUE) = x
          BY <3>1, <1>3
        <4>2. it0[{x}] = g[x] /\ it0[{x} \ {x}] = 0
          BY <1>2
        <4> QED
          BY <1>2, <4>1, <4>2
      <3> QED
        BY <3>1
    <2> QED
      BY <2>1
  <1>5. R(it1)
    BY <1>4, Zenon
  <1> HIDE DEF it1
  <1>6. it1[{}] = 0
    BY <1>5
  <1>7. it1[{x}] = g[x] + it1[{x} \ {x}]
    BY <1>2, <1>3, <1>5
  <1>8. it1[{x}] = g[x]
    <2>1. {x} \ {x} = {}
      OBVIOUS
    <2>2. it1[{x}] = g[x] + 0
      BY <1>6, <1>7, <2>1, Zenon
    <2>3. g[x] + 0 = g[x]
      BY <1>2
    <2> QED
      BY <2>2, <2>3, Zenon
  <1>9. Collect(kind, labels) = it1[{x}]
    BY <1>1, <1>2, Zenon
  <1> QED
    BY <1>8, <1>9, Zenon DEF g

\* What an informer reports is the history of the goroutine's own checks, for any
\* number of namespaces, entities and subscriptions that share a registry.
InformersAgree ==
  \A l \in Loop :
    /\ HealthCheckCount(l, TRUE) = passed[l]
    /\ HealthCheckCount(l, FALSE) = finished[l] - passed[l]

LEMMA CountersAgree == ASSUME Counters PROVE InformersAgree
  <1> SUFFICES ASSUME NEW l \in Loop
               PROVE  /\ HealthCheckCount(l, TRUE) = passed[l]
                      /\ HealthCheckCount(l, FALSE) = finished[l] - passed[l]
    BY DEF InformersAgree
  <1>1. ASSUME NEW b \in BOOLEAN
        PROVE  HealthCheckCount(l, b) = counter[l.check.kind][Labels(l, b)]
    <2>1. HealthCheckCount(l, b) = Collect(l.check.kind, Labels(l, b))
      <3>1. l.check.kind \in {"sender", "receiver"}
        BY LabelsInSeries DEF Kind
      <3>2. CASE l.check.kind = "sender"
        BY <3>2, Zenon DEF HealthCheckCount, SenderCount, Labels
      <3>3. CASE l.check.kind # "sender"
        <4>1. l.check.kind = "receiver"
          BY <3>1, <3>3
        <4> QED
          BY <3>3, <4>1, Zenon DEF HealthCheckCount, ReceiverCount, Labels
      <3> QED
        BY <3>2, <3>3
    <2> DEFINE x == Labels(l, b)
    <2>2. {s \in Series(l.check.kind) : HasLabels(s, x)} = {x}
      BY OneSeries
    <2>3. l.check.kind \in Kind /\ x \in Series(l.check.kind)
      BY LabelsInSeries
    <2> HIDE DEF x
    <2>4. /\ counter[l.check.kind][x] \in Int
          /\ DOMAIN counter[l.check.kind] = Series(l.check.kind)
      BY <2>3 DEF Counters, CounterTyped
    <2>5. Collect(l.check.kind, x) = counter[l.check.kind][x]
      <3>1. {s \in DOMAIN counter[l.check.kind] : HasLabels(s, x)} = {x}
        BY <2>2, <2>4, Zenon
      <3> QED
        BY <2>4, <3>1, CollectOne
    <2> QED
      BY <2>1, <2>5, Zenon DEF x
  <1> QED
    BY <1>1, Zenon DEF Counters

\* Counters and history move when a check ends, and then one goroutine's history
\* moves, by that check.
LEMMA HistorySteps ==
  ASSUME Inv, [Next]_vars
  PROVE  \/ UNCHANGED <<counter, history>>
         \/ \E l \in Loop :
              /\ finished'[l] = finished[l] + 1
              /\ passed'[l] \in {passed[l], passed[l] + 1}
              /\ \A m \in Loop \ {l} :
                   finished'[m] = finished[m] /\ passed'[m] = passed[m]
  <1>1. finished \in [Loop -> Nat] /\ passed \in [Loop -> Nat]
    BY DEF Inv, TypeOK
  <1>2. ASSUME NEW l \in Loop, NEW e, NEW good, CheckEnds(l, e, good)
        PROVE  /\ finished'[l] = finished[l] + 1
               /\ passed'[l] \in {passed[l], passed[l] + 1}
               /\ \A m \in Loop \ {l} :
                    finished'[m] = finished[m] /\ passed'[m] = passed[m]
    BY <1>1, <1>2 DEF CheckEnds
  <1>3. \/ UNCHANGED <<counter, history>>
        \/ \E l \in Loop : OpenFails(l) \/ \E e \in Answer : CloseReturns(l, e)
    BY DEF Next, Cancel, Tick, SelectDone, Check, OpenSucceeds, CallReturns, vars
  <1> QED
    BY <1>2, <1>3 DEF OpenFails, CloseReturns

\* Every finished check is counted once, as what it was, and in no other
\* goroutine's counts, for any number of goroutines that share a registry.
THEOREM ChecksCounted == Spec => CheckIsCounted
  <1> DEFINE Step ==
        \E l \in Loop :
          /\ finished'[l] = finished[l] + 1
          /\ IF passed'[l] # passed[l] THEN Counted(l, TRUE) ELSE Counted(l, FALSE)
          /\ \A m \in Loop \ {l} : CountsUnchanged(m)
  <1>1. Counters => InformersAgree
    BY CountersAgree
  <1>2. ASSUME Inv, InformersAgree, InformersAgree', [Next]_vars
        PROVE  [Step]_<<counter, history>>
    <2>1. SUFFICES ASSUME ~ UNCHANGED <<counter, history>> PROVE Step
      OBVIOUS
    <2>2. PICK l \in Loop :
            /\ finished'[l] = finished[l] + 1
            /\ passed'[l] \in {passed[l], passed[l] + 1}
            /\ \A m \in Loop \ {l} :
                 finished'[m] = finished[m] /\ passed'[m] = passed[m]
      BY <1>2, <2>1, HistorySteps
    <2>3. \A m \in Loop :
            /\ HealthCheckCount(m, TRUE) = passed[m]
            /\ HealthCheckCount(m, FALSE) = finished[m] - passed[m]
            /\ HealthCheckCount(m, TRUE)' = passed'[m]
            /\ HealthCheckCount(m, FALSE)' = finished'[m] - passed'[m]
      BY <1>2, Zenon DEF InformersAgree
    <2>4. finished[l] \in Nat /\ passed[l] \in Nat
      BY <1>2 DEF Inv, TypeOK
    <2>5. /\ passed'[l] # passed[l] => passed'[l] = passed[l] + 1
          /\ passed'[l] = passed[l] =>
               finished'[l] - passed'[l] = (finished[l] - passed[l]) + 1
      BY <2>2, <2>4
    <2>6. IF passed'[l] # passed[l] THEN Counted(l, TRUE) ELSE Counted(l, FALSE)
      BY <2>3, <2>5, Zenon DEF Counted
    <2>7. ASSUME NEW m \in Loop \ {l} PROVE CountsUnchanged(m)
      <3>1. /\ HealthCheckCount(m, TRUE)' = HealthCheckCount(m, TRUE)
            /\ HealthCheckCount(m, FALSE)' = HealthCheckCount(m, FALSE)
        BY <2>2, <2>3, <2>7, Zenon
      <3>2. \A b \in BOOLEAN : b = TRUE \/ b = FALSE
        BY Zenon
      <3> QED
        BY <3>1, <3>2, Zenon DEF CountsUnchanged
    <2> QED
      BY <2>2, <2>6, <2>7
  <1> QED
    BY <1>1, <1>2, InitCounters, NextCounters, Invariance, PTL
    DEF Spec, CheckIsCounted

=============================================================================
