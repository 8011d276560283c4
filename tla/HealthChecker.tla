---------------------------- MODULE HealthChecker ----------------------------
(***************************************************************************)
(* The periodic health checks of v2/health.go, with the counters they feed *)
(* (v2/metrics/sender/types.go and v2/metrics/processor/types.go) and the  *)
(* informers that read them.                                               *)
(*                                                                         *)
(* StartPeriodicHealthCheck starts one goroutine per client; each waits    *)
(* for its next due time or for the context, runs one check with a         *)
(* timeout, and moves the due time on by the interval.                     *)
(*                                                                         *)
(* Time is discrete and begins when the goroutines first read the clock; a *)
(* goroutine whose timer has fired runs within Jitter time units.  The     *)
(* azservicebus client is external: a call may succeed or fail, and it     *)
(* ends at the latest when its context does.                               *)
(***************************************************************************)
EXTENDS Integers, FiniteSetsExt

CONSTANTS
  Namespace,         \* the keys of HealthChecker.clients
  Checkable,         \* the HealthCheckables that were started
  OptInterval,       \* HealthCheckerOptions.HealthCheckInterval as set by the user
  OptTimeout,        \* HealthCheckerOptions.HealthCheckTimeout
  DefaultInterval,   \* defaultHealthCheckInterval
  Jitter,            \* bound on the scheduling delay of a goroutine
  MaxTime            \* bound on the clock

ASSUME HealthAssumption ==
  /\ Checkable \subseteq [kind : {"sender", "receiver"}, entity : STRING,
                          subscription : STRING]
  /\ \A c \in Checkable : c.kind = "sender" => c.subscription = ""
  /\ OptInterval \in Int /\ OptTimeout \in Int
  /\ DefaultInterval \in Nat \ {0}
  /\ Jitter \in Nat /\ MaxTime \in Nat

-----------------------------------------------------------------------------
(* NewHealthChecker *)

Interval == IF OptInterval <= 0 THEN DefaultInterval ELSE OptInterval

\* Seeded fault: a timeout longer than the interval is taken as it is.
TimeoutUnclamped == IF OptTimeout <= 0 THEN Interval ELSE OptTimeout

Timeout ==
  IF OptTimeout <= 0 \/ OptTimeout > Interval THEN Interval ELSE OptTimeout

-----------------------------------------------------------------------------
(* The counters and what the informers read out of them. *)

\* StartPeriodicHealthCheck: a goroutine for every client.
Loop == [namespace : Namespace, check : Checkable]

\* The labels that IncHealthCheck...Count gives a check.
SenderLabels(l, success) ==
  [namespace |-> l.namespace, entity |-> l.check.entity, success |-> success]

ReceiverLabels(l, success) ==
  [namespace |-> l.namespace, entity |-> l.check.entity,
   subscription |-> l.check.subscription, success |-> success]

Labels(l, success) ==
  IF l.check.kind = "sender" THEN SenderLabels(l, success) ELSE ReceiverLabels(l, success)

\* The two counter vectors: sender_health_check_total, receiver_health_check_total.
Series(kind) ==
  {Labels(l, success) : l \in {m \in Loop : m.check.kind = kind}, success \in BOOLEAN}

VARIABLES
  now,        \* the clock
  ctxDone,    \* the context given to StartPeriodicHealthCheck has ended
  pc,         \* where each goroutine is
  nextCheck,  \* its local variable
  latest,     \* the time by which its present step is over
  err,        \* the variable err of the check in progress
  counter,    \* the two counter vectors
  finished,   \* history: the checks it has finished
  passed      \* history: finished checks in which every call succeeded

history == <<finished, passed>>

vars == <<now, ctxDone, pc, nextCheck, latest, err, counter, history>>

HasLabels(series, labels) == \A name \in DOMAIN labels : series[name] = labels[name]

\* An informer goes through the series of a vector and adds up those that match.
Collect(kind, labels) ==
  MapThenSumSet(LAMBDA s : counter[kind][s],
                {s \in DOMAIN counter[kind] : HasLabels(s, labels)})

\* GetHealthCheckSuccessCount and GetHealthCheckFailureCount of the two informers.
SenderCount(l, success) == Collect("sender", SenderLabels(l, success))

ReceiverCount(l, success) == Collect("receiver", ReceiverLabels(l, success))

HealthCheckCount(l, success) ==
  IF l.check.kind = "sender" THEN SenderCount(l, success) ELSE ReceiverCount(l, success)

Init ==
  /\ now = 0
  /\ ctxDone = FALSE
  /\ pc = [l \in Loop |-> "select"]
  /\ nextCheck = [l \in Loop |-> 0]
  /\ latest = [l \in Loop |-> Jitter]
  /\ err = [l \in Loop |-> "nil"]
  /\ counter = [kind \in {"sender", "receiver"} |-> [s \in Series(kind) |-> 0]]
  /\ finished = [l \in Loop |-> 0]
  /\ passed = [l \in Loop |-> 0]

-----------------------------------------------------------------------------
(* The environment. *)

Cancel ==
  /\ ~ctxDone
  /\ ctxDone' = TRUE
  /\ UNCHANGED <<now, pc, nextCheck, latest, err, counter, history>>

\* Time passes, but not past the moment at which some goroutine must have moved.
Tick ==
  /\ now < MaxTime
  /\ \A l \in Loop : pc[l] # "returned" => now < latest[l]
  /\ now' = now + 1
  /\ UNCHANGED <<ctxDone, pc, nextCheck, latest, err, counter, history>>

-----------------------------------------------------------------------------
(* periodicHealthCheck *)

\* The goroutine enters its select with the next check due at t.
Wait(l, t) ==
  /\ pc' = [pc EXCEPT ![l] = "select"]
  /\ nextCheck' = [nextCheck EXCEPT ![l] = t]
  /\ latest' = [latest EXCEPT ![l] = Max({now, t}) + Jitter]

\* Seeded fault: the loop does not look at its context.
StopRequestedNever(l) == FALSE

StopRequested(l) == ctxDone

SelectDone(l) ==
  /\ pc[l] = "select"
  /\ StopRequested(l)
  /\ pc' = [pc EXCEPT ![l] = "returned"]
  /\ UNCHANGED <<now, ctxDone, nextCheck, latest, err, counter, history>>

\* Seeded fault: the interval counts from the end of the timeout.
NextCheckAfterTimeout(l) == nextCheck[l] + Timeout + Interval

NextCheck(l) == nextCheck[l] + Interval

\* The deferred function of HealthCheck counts the check by what err is, and the
\* loop moves on to the next one.
CheckEnds(l, e, good) ==
  /\ counter' = [counter EXCEPT ![l.check.kind][Labels(l, e = "nil")] = @ + 1]
  /\ finished' = [finished EXCEPT ![l] = @ + 1]
  /\ passed' = [passed EXCEPT ![l] = IF good THEN @ + 1 ELSE @]
  /\ err' = [err EXCEPT ![l] = "nil"]
  /\ Wait(l, NextCheck(l))
  /\ UNCHANGED <<now, ctxDone>>

TimerFired(l) == pc[l] = "select" /\ now >= nextCheck[l]

\* The timer has fired, whether or not the context is done as well; the client
\* opens the link to the entity.
OpenSucceeds(l) ==
  /\ TimerFired(l)
  /\ pc' = [pc EXCEPT ![l] = "call"]
  /\ latest' = [latest EXCEPT ![l] = now + Timeout]
  /\ UNCHANGED <<now, ctxDone, nextCheck, err, counter, history>>

\* NewSender or NewReceiver... fails: there is nothing to close.
OpenFails(l) == TimerFired(l) /\ CheckEnds(l, "error", FALSE)

\* NewMessageBatch or PeekMessages returns.
CallReturns(l, e) ==
  /\ pc[l] = "call"
  /\ pc' = [pc EXCEPT ![l] = "close"]
  /\ err' = [err EXCEPT ![l] = e]
  /\ UNCHANGED <<now, ctxDone, nextCheck, latest, counter, history>>

\* Seeded fault: the result of Close replaces the result of the check.
ErrAfterCloseAlways(e, closeErr) == closeErr

\* err as the metric sees it: an error of Close replaces it, success does not.
ErrAfterClose(e, closeErr) == IF closeErr # "nil" THEN closeErr ELSE e

CloseReturns(l, closeErr) ==
  /\ pc[l] = "close"
  /\ CheckEnds(l, ErrAfterClose(err[l], closeErr),
               err[l] = "nil" /\ closeErr = "nil")

-----------------------------------------------------------------------------
Answer == {"nil", "error"}

Check(l) ==
  \/ OpenSucceeds(l)
  \/ OpenFails(l)
  \/ \E e \in Answer : CallReturns(l, e)
  \/ \E e \in Answer : CloseReturns(l, e)

Next == Cancel \/ Tick \/ \E l \in Loop : SelectDone(l) \/ Check(l)

Spec == Init /\ [][Next]_vars

(***************************************************************************)
(* Fairness.  Some goroutine that can go on with its check does: calls are *)
(* bounded by a timeout.  A select picks at random among its ready         *)
(* branches, so among the goroutines that could see the end of the context *)
(* again and again some do (strong fairness), however often an overdue     *)
(* timer comes first.                                                      *)
(***************************************************************************)
FairSpec ==
  /\ Spec
  /\ WF_vars(\E l \in Loop : Check(l))
  /\ SF_vars(\E l \in Loop : SelectDone(l))

-----------------------------------------------------------------------------
(* Properties *)

\* The variables have their types, no step is overdue, and no check is put off by
\* more than an interval.
TypeOK ==
  /\ now \in 0 .. MaxTime
  /\ ctxDone \in BOOLEAN
  /\ pc \in [Loop -> {"select", "call", "close", "returned"}]
  /\ nextCheck \in [Loop -> Nat]
  /\ latest \in [Loop -> Nat]
  /\ err \in [Loop -> Answer]
  /\ finished \in [Loop -> Nat]
  /\ passed \in [Loop -> Nat]
  /\ \A l \in Loop :
       pc[l] # "returned" => latest[l] >= now /\ nextCheck[l] <= now + Interval

\* How late the check in progress started, against a schedule of one check per
\* interval since the goroutine began.
Lateness(l) == (latest[l] - Timeout) - finished[l] * Interval

\* The checks keep to their schedule, however slow they are: the check that comes
\* after n others starts no sooner than n intervals after the beginning, and is
\* late by scheduling delays only, at most one per check.  Checks that run into
\* their timeout push nothing back for good and pile up no burst of checks,
\* because the timeout never exceeds the interval and the due times do not
\* depend on when a check ended.
OnSchedule ==
  \A l \in Loop :
    pc[l] \in {"call", "close"} =>
      Lateness(l) >= 0 /\ Lateness(l) <= (finished[l] + 1) * Jitter

Counted(l, success) ==
  HealthCheckCount(l, success)' = HealthCheckCount(l, success) + 1

CountsUnchanged(l) ==
  \A success \in BOOLEAN :
    HealthCheckCount(l, success)' = HealthCheckCount(l, success)

\* The counters move when a check ends, and only then: the check is counted once,
\* in the count that an informer reports for its namespace, entity and
\* subscription, as a success if every call of it went well, that of Close
\* included, else as a failure.  An error is not forgotten on the way to the
\* metric, though the caller of HealthCheck does not see that of Close; and no
\* other goroutine's counts move, though all share one registry.
CheckIsCounted ==
  [][\E l \in Loop :
       /\ finished'[l] = finished[l] + 1
       /\ IF passed'[l] # passed[l] THEN Counted(l, TRUE) ELSE Counted(l, FALSE)
       /\ \A m \in Loop \ {l} : CountsUnchanged(m)
    ]_<<counter, history>>

\* "Stops when the context is canceled": every goroutine returns, even one that
\* is behind its schedule, whose select may prefer the timer for several checks.
LoopsStop == ctxDone ~> \A l \in Loop : pc[l] = "returned"

=============================================================================
