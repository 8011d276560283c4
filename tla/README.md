# A TLA+ model of go-shuttle

go-shuttle (`v2/`) is a Go library on top of the Azure Service Bus SDK
(`azservicebus`): a message pump that receives messages and runs handlers
concurrently, middlewares around the handlers (panic recovery, peek-lock renewal,
settlement), and a sender. This directory holds TLA+ modules that model its
stateful parts, TLC configurations that check them on small instances, and TLAPS
proofs of the results that do not depend on the size of the instance.

    tlc -config Processor.cfg Processor
    tlc -config Pipeline.cfg Pipeline
    tlc -config MCHealthChecker.cfg MCHealthChecker
    tlapm ProcessorProofs.tla

`PROJECT.json` lists components, runs, theorems, findings and hazards, and maps
every definition that models code to the lines it models.

## Inventory

| Part | State | Operations | Talks to |
|---|---|---|---|
| **Processor** (`processor.go`) | token channel, attempt, context, one goroutine per message | `Start`, `startWithRetries`, `start`, `process` | the SDK receiver, the handler chain |
| **Panic handler** (`processor.go`) | none | recover, `OnPanicRecovered` | wraps a handler |
| **Lock renewal** (`lockrenewer.go`) | `alive`, one-slot channel `stopped`, message context, `LockedUntil` | `NewRenewLockHandler`, `startPeriodicRenewal`, `renewMessageLock`, `stop` | wraps a handler; a goroutine of its own calls the SDK |
| **Managed settling** (`managedsettling.go`) | none in memory, the message on the broker | `Handle`, `handleError`, `CanRetry`, hooks | SDK settler, `settlement.settle` |
| **Settlement handler** (`settlehandler.go`) | as above | `Complete`, `Abandon`, `DeadLetter`, `Defer`, `NoOp` | SDK settler |
| **Sender** (`sender.go`) | `sbSender` under an RWMutex | `SendMessage`, `SendAsBatch`, `SetAzSender`/`FailOver`, `AzSender` | SDK sender, one worker goroutine per send |
| **Message building** (`sender.go`, `marshaller.go`) | the option slice, whose backing array the caller may share | `ToServiceBusMessage`, `Marshal`, the `Set...` options | called by `SendMessage` |
| **Tracing** (`tracing.go`, `otel/`) | the trace property of a message | `WithTracePropagation`, `NewTracingHandler` | an option of the sender, a middleware of the receiver |
| **Health checker** (`health.go`) | `nextCheck` per goroutine | `StartPeriodicHealthCheck`, the two `HealthCheck` methods | SDK client, counters |
| **Metrics** (`metrics/`) | Prometheus vectors | increments, informers | called by all of the above |
| **Logging** (`logging.go`) | none | picks a logger | called by all of the above |

How they interact: the pump calls the handler chain in a goroutine per message;
the chain is usually *panic handler → lock renewal → settlement → user code*. Each
middleware gets a context derived from the pump's, and its only ways to influence
the others are that context, the token that comes back when the chain returns, and
what it makes the broker do.

What is hard here:

* **Concurrency limits**: tokens are counted by channel length, read in one place
  and taken in another, and survive a restart of the pump.
* **Two goroutines calling `stop`** on one renewer, with a flag, a channel and a
  context that are updated in separate steps; a `select` that picks at random.
* **Timeouts racing answers**: the sender gives up on a worker that is still in
  its call and still holds the read lock.
* **Replacing the sender** while calls are in progress, between the calls of one
  batch operation, and behind a call that hangs.
* **Settlement failures**: calls that fail, that take effect but report failure,
  and locks that run out while a handler sleeps, so that two handlers hold
  deliveries of the same message.
* **Panics**, recovered or not, that skip statements that are not deferred.
* **A variadic slice that is appended to**, and so may be shared between sends.
* **A schedule** that must neither drift nor pile up checks when checks are slow.

What makes each part correct:

* Processor: handlers never exceed `MaxConcurrency`; no token leaks; a batch fits the
  free tokens; received messages are handled; the pump resumes; shutdown ends.
* Lock renewal: a stop signal is never lost; renewal ends with the handler and not
  before, except for a lasting cause, which must reach the handler's context.
* Settlement: a message leaves the queue only as a handler decided; retries are
  bounded; hooks tell the truth.
* Sender: a sender is not swapped under a call; new sends use the new one; sends are
  bounded by the timeout; what a batch operation delivers is a prefix in order.
* Message: a message reaches the bus as its caller asked or not at all, and carries
  its own trace.
* Health checker: checks keep to the interval, every check is counted as what it was, and
  all loops end with the context.
* The receiving side as a whole: tokens come back on every way out of the middlewares; a
  handler that lost its lock is told; no message is kept
  for ever.

## Modules

| Module | Models | Configuration |
|---|---|---|
| `WorkerPool` | abstract specification: at most `Size` jobs at a time, each once | |
| `Processor` | `processor.go`; implements `WorkerPool` | `Processor*.cfg` |
| `LockKeeper` | abstract specification of lock renewal, as pump, handler and broker see it | |
| `LockRenewer` | `lockrenewer.go`, one delivery; implements `LockKeeper` | `LockRenewer*.cfg` |
| `Settlement` | `managedsettling.go`, `settlehandler.go`, a broker | `Settlement.cfg` |
| `Pipeline` | composition of `Settlement`, `WorkerPool` and `LockKeeper` | `Pipeline.cfg` |
| `Sender` | `SendMessage`, `SetAzSender` of `sender.go` | `Sender.cfg` |
| `BatchSender` | `SendAsBatch` of `sender.go` | `BatchSender*.cfg` |
| `Message` | `ToServiceBusMessage` and the options of `sender.go`, `marshaller.go`, `tracing.go`, `otel/otel.go` | `Message*.cfg` |
| `HealthChecker` | `health.go` and the counters and informers it uses | |
| `MCHealthChecker` | three loops for TLC | `MCHealthChecker.cfg` |
| `ProcessorProofs`, `LockRenewerProofs`, `SettlementProofs`, `PipelineProofs`, `SenderProofs`, `BatchSenderProofs`, `MessageProofs`, `HealthCheckerProofs` | theorems about the module they extend | |

Definitions whose comment begins with *Seeded fault* stand just before a definition
of the model and are a faulty form of it (a dropped guard, an off-by-one, a call
that is not deferred). No specification uses them. Substituting one for the
original must make TLC report the property named with it in `PROJECT.json`
(`mutants`), which shows that the property can fail.

### Processor

`pump` is the program counter of the goroutine in `Start`, `phase[d]` that of the
goroutine `process` spawns for delivery `d`, `tokens` is
`len(concurrencyTokens)`. One action is one step between two points at which
another goroutine can interfere: the receive call is split into its start (`Start`,
`Tick`, `RetryTick`, which fix `maxMessages`) and its return (`ReceiveMessages`,
`ReceiveError`, `ReceivePanic`), since handlers give tokens back in between; the
deferred function is split after the token is returned (`Release`, `Finish`), since
the pump can take the token before the gauge goes down. `applyProcessorOptions` is
the three definitions `MaxConcurrency`, `MaxReceiveCount`, `StartMaxAttempt` over the
raw options, so that the assumption on the constants is only that options are
integers. `NewPanicHandler` is the constant `PanicRecovered`; without it a panic runs
the deferred functions and then ends the process (`"crashed"`). Delays are abstract:
a timer may fire at any moment, so a retry timer may win the select against a context
that is already done (`GetDelay` may return 0).

### LockRenewer

`pc["handler"]` and `pc["renewer"]` are the two goroutines. `stop` is four steps
(`StopStore`, `StopCheck`, `StopSend`, `StopCancel`) for either of them, as each
touches another piece of shared state. `lock` abstracts `LockedUntil` against the
clock; a renewal sets it back to held. `err` is the class of the last result of
`renewMessageLock`: nil, a context error, permanent, transient. The call may return any of
them at any time: a context error does not take an ended message context, as the
repository's tests have it too. The loop condition of `renewMessageLock` (`RetryLoop`) and
the beginning of the call (`RenewCall`) are two steps, since `stop` may return in between;
`lateCalls` counts the calls that begin although the context has ended, and `OneLateCall`
says that there is at most one. `cancelOnStop` is the option `CancelMessageContextOnStop`,
chosen in `Init` and never changed.

`LockKeeper` says what all this amounts to: the handler's goroutine runs the handler
and then stops the renewal; the renewer is active until it is stopped or gives up; of
two stops at the same moment one may be blocked for ever, and it is never both; a stop
that returns has cancelled the context if so configured; a lost message, an ended context
or a stop is noticed in the end. A delivery has lost the message (`lost`) when it does not
own the lock any more: the lock ran out or the message was settled. Why a renewer gives up
is not part of this promise (`GiveUp` has no guard); that is `NoEarlyExit`. `ImplementsKeeper` checks that `LockRenewer` with its
fairness implements `LockKeeper` with its own. The mapping takes a goroutine at its send
with the slot full as blocked, and a renewer at the loop condition with `alive` false as
over.

### Sender and BatchSender

`Sender` has any number of concurrent `SendMessage` and `SetAzSender` calls.
`sync.RWMutex` is modelled as Go documents it: a writer that waits keeps new readers
out. `used`, `installed` and `floor` are history variables; instances of the
azservicebus sender are numbered in the order they are installed.
`BatchSender` is one `SendAsBatch` over an array of any small length. A batch is the
sequence of the indices of its messages; whether `AddMessage` accepts a message, reports
`ErrMessageTooLarge` or fails is left open, since the SDK's sizes depend on the envelope of
the first message. The read lock is taken by the worker of `sendBatch` and by the caller
itself in `newMessageBatch`; beside them there are `SetAzSender` (`SetAzSender` waits,
`SenderReplaced` installs) and one other operation that may hold the read lock for as long
as it likes (`OtherCall`). The service may accept a batch whose answer is lost.
`SendMessageBatch` (deprecated) is `SendAsBatch` with `allow = FALSE`; `AzSender` only
reads.

### Settlement

One message on the broker over all its deliveries. Several handlers may have a
delivery each, when locks run out, but only `owner` can settle. A settlement
call takes effect or fails, and may take effect and be reported as failed
(`SettleTakesEffect(n, TRUE)`). `managed` chooses the middleware in `Init`.
`DeliveryCount` of the first delivery is 1, as the SDK reports it.

### Pipeline

The whole receiving side for one message: `Settlement` (with its broker), the pool of
`WorkerPool` and the renewal of `LockKeeper`, joined at the calls between them: reception
takes a token, starts the chain and the renewer (`Receive`); when the settlement
middleware is done, the goroutine is back in the renewal middleware (`Settling`), stops the
renewal, gives its token back (`Release`) and cancels the message context
(`CancelContext`). It uses the abstract specifications, not `Processor` and
`LockRenewer` themselves: those are shown to implement them in their own runs, and the
composition stays small enough for liveness. That delivery `n` has lost the message is
`owner # n` here: its lock ran out or the message was settled. `LockRenewer`, which knows of
one delivery only, shows the refinement for the same reading, `lock # "held" \/ settled`;
what is abstracted is that the renewer compares `LockedUntil` with its own clock and the
broker with its. Shutdown of the pump is
left to `Processor`.

### Message

Several sends run `ToServiceBusMessage` at once on one option slice. `array` holds the
backing arrays and `slice` each send's view, so that `append` is what Go does: it
writes into the shared array when there is spare capacity and copies otherwise. The loop
over the options reads the array cell by cell. A body is its shape (a value,
a pointer, nil, something that cannot be encoded), which is what the marshallers and
`getMessageType` distinguish. `BinaryTraceParent` and `Failing` are options of the user.
On the receiving side `Handle` is the tracing middleware, which continues
the trace of the message or else the local one.

### HealthChecker

One goroutine per client and `HealthCheckable`, with a discrete clock. `latest` is the
time by which a goroutine has moved: a goroutine whose timer fired runs within `Jitter`,
and a check ends at the latest with its timeout; the clock does not pass that time. The
select may take the timer although the context is done. `counter` is the two counter
vectors with their labels, `Collect` the sum an informer takes over the matching
series. `finished` and `passed` are histories.

## Runs

All specifications allow the system to stop (a `Start` that returned, a message that
left the queue, a finite set of deliveries handled), so deadlock is not checked;
that nobody waits for ever is what the liveness properties are about.

| Run | States | Shows |
|---|---|---|
| `processor` | 157 k | tokens equal the goroutines that own one (`TokenAccounting`), handlers within `MaxConcurrency` (`ConcurrencyBound`), no batch beyond the free tokens in the first attempt (`NoStarvedBatch`), the gauge counts exactly (`GaugeAccounting`), the pump implements `WorkerPool` (`ImplementsPool`); the end of the context ends the first attempt even if no handler returns, and `Start` if handlers end (`ShutdownEnds`); then received messages are handled (`BatchIsHandled`) and a saturated pump resumes (`PumpResumes`) |
| `processor_shutdown_retry` | | *violation*: with retries, `Start` may hang after cancellation |
| `renewer` | 13 k | `StopNotLost`; renewal is given up for a lasting error, a context error or an ended context only (`NoEarlyExit`); at most one call begins after the context has ended (`OneLateCall`); `RenewalCeases`, `ImplementsKeeper`; with and without cancel-on-stop |
| `renewer_stop_blocks` | | *violation*: `stop` may block for ever |
| `sender` | 34 k | `SenderStable`, `FreshSender`, `SendReturns`, `SetReturns` |
| `batch` | 23 k | `DeliveredIsPrefix`, `NilMeansAllDelivered`, `SingleBatchIsAllOrNothing`, and the timeout bounds the operation but for two exceptions (`TimeoutBoundsOperation`) |
| `batch_one_sender` | | *violation*: one `SendAsBatch` may use two senders |
| `settlement` | 79 k | `NoMessageLost`, `RetryBudget`, `CompletedHookIsTrue` |
| `pipeline` | 136 k | if handlers end, only a blocked stop keeps a token for good (`TokensComeBack`); a handler that lost its lock is told (`HandlerIsTold`); no message stays on the queue for ever, if handlers end and no stop is blocked (`MessageEnds`) |
| `health` | 239 k | checks on schedule however slow (`OnSchedule`), every check moves one count of its own loop and no other's, `Close` included (`CheckIsCounted`), loops end with the context (`LoopsStop`) |
| `message` | 90 k | a message is sent as asked or not at all (`SentAsAsked`), and the receiver continues its own trace (`TraceIsOwn`) |
| `message_trace` | | *violation*: with spare capacity in a shared option slice, a message carries another send's trace |

### Bounds, and why they suffice

* Processor: 4 deliveries, 3 slots, receives of 2, 2 attempts, so that the pool is full
  with a delivery left over, a receive is limited by `MaxReceiveCount` in one state
  and by the free tokens in another, and an attempt starts with tokens of the last one in
  use. The safety results are also proved for all values.
* LockRenewer: no bounds; the state space is finite.
* Sender: 2 sends and 2 setters: a reader and a waiting reader, a writer and a
  waiting writer, at once.
* BatchSender: arrays of up to 4 messages with every answer of `AddMessage`: empty arrays,
  messages too large for any batch, up to 4 batches; 2 replacements of the sender, so that
  one can wait while another operation hangs after one was installed.
* Settlement: 4 deliveries with `MaxAttempts` 3: the budget is reached by settling and
  by lock expiry, with a delivery to spare before the broker dead-letters.
* Pipeline: 2 deliveries and 2 tokens: the first handler loses its lock while the second
  is at the same message, each with its own renewer; both middlewares, with and without
  cancel-on-stop.
* Message: 2 sends, slices of up to 2 options out of two that assign the same field, one
  that overwrites the trace property and one that fails; all bodies, marshallers and
  combinations of spans.
* HealthChecker: a timeout above the interval (so that it is clamped), an interval of 3, a
  jitter of 1 and a clock of 6: up to three checks of each loop, overdue ones among
  them; a sender and two subscriptions with the same namespace and entity.

### Fairness

* The Go scheduler runs goroutines that can run: weak fairness of their steps.
* Timers fire: weak fairness of `Tick`, `SelectTick`, `ContextEnds` (when there is a
  send timeout), the retry delay.
* A `select` picks uniformly among ready branches, so a branch that is ready again
  and again is taken: strong fairness of `SelectDone` and `SelectStopped` (in
  the health check loops too). Go's RWMutex starves neither side: strong fairness of
  `RLock`, `NewMessageBatch` and `LockAnnounce`.
* Health check loops: as a whole they go on with their checks (weak fairness), and a
  select that can see the end of the context again and again does (strong fairness), for
  some loop at a time, which is less than the scheduler gives. `LoopsStop` follows from
  that without the bound on the clock.
* Pipeline: what `LockKeeper` promises (`KeeperFairness`, shown by `ImplementsKeeper`), a
  processor that goes on receiving, and a broker that takes back a lock nobody renews.
* A receive call returns once its context is done; a renewal call returns because it
  has a timeout; the lock runs out if it is never renewed, and a settled message cannot
  be renewed. These are the SDK's and the
  broker's promises.
* Not assumed: that a handler returns (`HandlerFairness`), that a call of the
  azservicebus sender ends with its context (`CallFairness`), that `NewMessageBatch`
  returns (`NewBatchFairness`), that another operation's call returns and so lets a
  waiting `SetAzSender` through (`BehindWriter`), that `stop` is not blocked. Where a
  property needs one of these it is a hypothesis of that property; `SendReturns`, for one, holds without.

## Proofs

Every invariant that a run checks is also proved, for all values of the constants, one of
them under a hypothesis (`TraceIsOwn`, below). Each proof module has the same shape: an
inductive invariant `Inv` as a conjunction of named parts, `InitInv`, one lemma per action
or group of actions, `NextInv`, `Invariance` (`Spec => []Inv`), and the theorems that
follow from it, in some modules with a second inductive invariant on top of `Inv`. The
inductive invariants were checked with TLC as well, on the instances of the runs. Action properties (`[][A]_vars`, what a step may never do) are defined next to
their proofs.

| Theorem | States | For all |
|---|---|---|
| `ProcessorProofs`: `TypeCorrect`, `TokensAccountedFor`, `ConcurrencyBounded`, `NoBatchStarves`, `GaugeIsExact` | `TypeOK`, `TokenAccounting`, `ConcurrencyBound`, `NoStarvedBatch`, `GaugeAccounting` | sets of deliveries (finite or not), integer options |
| `ProcessorProofs`: `Refinement` | `ImplementsPool` | as above |
| `ProcessorProofs`: `NoneDropped` | action: each delivery is handled once, and none is without a goroutine when the pump receives again or `Start` returns | as above |
| `LockRenewerProofs`: `ChannelTyped`, `SignalNotLost`, `GivesUpForCause`, `LateCallsBounded` | `TypeOK`, `StopNotLost`, `NoEarlyExit`, `OneLateCall` | (no constants) |
| `LockRenewerProofs`: `KeeperSafety`, `OneStopGetsThrough` | `LockRenewer` implements `LockKeeper` without its fairness; never are both stops blocked | |
| `SettlementProofs`: `TypeCorrect`, `MessageNotLost`, `RetriesBounded`, `HookIsTrue` | `TypeOK`, `NoMessageLost`, `RetryBudget`, `CompletedHookIsTrue` | delivery limits, `MaxAttempts` |
| `SettlementProofs`: `SettlementIsFinal` | action: a settlement is final and is the lock owner's; a hook is called once | as above |
| `PipelineProofs`: `TokensCover`, `MiddlewaresInStep` | a token covers a delivery until its goroutine is back from all middlewares; the settlement middleware runs exactly while the renewal has its handler running | delivery limits, `MaxAttempts`, numbers of tokens |
| `PipelineProofs`: `ImplementsSettlement`, `ImplementsParts`, `SettlementHolds` | the composition implements `Settlement`, `WorkerPool` and (without fairness) `LockKeeper`, so it has the properties of `Settlement` | as above |
| `SenderProofs`: `TypeCorrect`, `StableUnderCall`, `FreshAfterSet` | `TypeOK`, `SenderStable`, `FreshSender` | numbers of concurrent `SendMessage` and `SetAzSender` calls |
| `SenderProofs`: `SendResultIsTrue`, `CalledAtMostOnce` | the result of `SendMessage` says what happened; action: one call of the azservicebus sender per send, after the return only if the send timed out | as above |
| `BatchSenderProofs`: `TypeCorrect`, `PrefixDelivered`, `NilIsTrue`, `AllOrNothing` | `TypeOK`, `DeliveredIsPrefix`, `NilMeansAllDelivered`, `SingleBatchIsAllOrNothing` | lengths of the array, answers of `AddMessage`, replacements of the sender |
| `BatchSenderProofs`: `LateBatch` | action: after `SendAsBatch` has returned at most one more batch arrives, and only if it timed out | as above |
| `MessageProofs`: `TypeCorrect`, `MessageAsAsked` | `TypeOK`, `SentAsAsked` | numbers of sends, options, spare capacities |
| `MessageProofs`: `TraceStaysOwn` | `SpareCapacity = 0 => (Spec => []TraceIsOwn)` | numbers of sends, options |
| `HealthCheckerProofs`: `TypeCorrect`, `ChecksOnSchedule`, `ChecksCounted` | `TypeOK`, `OnSchedule`, `CheckIsCounted` | clients, entities, intervals, timeouts, delays |

### The arguments

**Processor.** `Inv` adds to the properties: that the set of token owners is
finite and the count within the channel's capacity (`Accounting`; `ConcurrencyBound`
follows from it, since handlers own tokens); that messages are in the batch only
while the pump dispatches (`BatchOnlyWhileDispatching`); that the number asked for in
the receive call in progress still fits, because tokens are only given back during a
call (`ReceiveFits`, without which `NoStarvedBatch` is not inductive); and facts of
control (`Control`). `GaugeAccounting` is inductive once the set it counts is known to be
finite (`Gauge`). In the refinement `Process` is `Admit`, `Release` is `Retire`, and every
other step is a stutter. `NoneDropped` is `BatchOnlyWhileDispatching` seen from the steps:
the only way out of dispatching is past the last message of the batch, also when the
context is done.

**LockRenewer.** `StopNotLost` alone is not inductive: a renewer that has not started yet
raises `alive` after `stop` has lowered it, and needs the signal to be waiting already
(`SignalWaits`). `NoEarlyExit` needs the whole course of the renewer while the handler
runs (`RunningCourse`): it is either alive with an empty channel, or on its way out with
a cause. `OneLateCall` needs to know where the renewer is once it has made its late call:
the context has ended, and the renewer is in that call or past it, never again between
loop condition and call (`LateCourse`); and that a handler's stop that has returned has
ended the context if so configured (`ContextCancelled`). The refinement needs the course of
the two stops (`StopCourse`): a handler that finds the slot taken at its send is blocked for good, because the only
goroutine that could empty the slot is on its way out. It is proved in two steps, from the
code to what can be seen from outside (`OutsideStep`) and from there to `LockKeeper`.

**Settlement.** Every property relates what took effect on the broker to what a handler
returned several steps earlier. `Asked` carries that across the steps in between: what a
goroutine is about to ask of the broker is what its handler's result calls for, and a
retry is on its way only below the budget. `Settled` says that a delivery that was settled
is at its end, so its history no longer changes. With `TypeOK` (nobody owns the lock of a
message that is not locked) that also gives `SettlementIsFinal`.

**Pipeline.** Its actions conjoin actions of the parts, so each step is projected onto a
step of `Settlement`, of the pool and of the renewal; the first projection brings in all
that `SettlementProofs` shows. `TokensCoverChain` is not inductive alone: `InStep` ties the
goroutine as `Settlement` sees it to the same goroutine as `LockKeeper` sees it.

**Sender.** `Locking` is what the RWMutex guarantees (one writer, no reader beside it),
`Instances` orders the numbers of instances (`floor` ≤ `installed` ≤ `sbSender`), `Unsent` keeps the
reference point of a send from moving once it has called. A second invariant (`Answers`)
ties caller and worker: a worker that is on its way when `SendMessage` has returned was
left behind by a context that had ended.

**BatchSender.** The batch holds the messages just before `i` (`Filled`); the service has
all before the batch until the worker's call returns, and the batch too if the answer is
nil (`Position`); in single batch mode the only batch that is sent is one that ends the
array (`OneBatch`). Nothing is assumed of what `AddMessage` accepts. `DeliveredIsPrefix` is
stated batch by batch (each goes on where the last one ended) and not of the concatenation,
so that it needs no induction over sequences. `LateBatch` needs that a worker is left
behind only by a timeout (`LeftBehind`).

**Message.** Sends write only behind the options that the callers passed (`Arrays`), so
each loop reads those as they were passed, whatever the capacity, and only the last element
may be another send's (`Slices`). `Applied` says what the loop has done so far. `TraceIsOwn`
is false with spare capacity, as the run `message_trace` shows, and is proved for slices
without (`OwnTrace`), which is what a literal argument list and a full slice are.

**HealthChecker.** The due time depends on the number of checks alone (`Due`), which is why
delays do not accumulate; `Started` and `Deadline` give the window in which a check begins,
and `Timeout <= Interval` (from `NewHealthChecker`) makes them inductive. A second invariant
(`Counters`) says that every loop has its own two series and that they hold its history;
an informer's filter matches one of them, so its sum is that count (`InformersAgree`), and
`CheckIsCounted` follows from what one step does to the history.

### Assumptions

`OptionsAssumption` (`Processor`: options are integers), `SettlementAssumption` and
`PipelineAssumption` (limits are natural numbers), `SendTimeoutAssumption`,
`BoundsAssumption` (`BatchSender`), `MessageAssumption` and `SendAssumption` (options are
those of the library and the two of the user; a send is a name of its own),
`HealthAssumption` (clients have the fields of their Go types; options are integers). TLC
evaluates each of them in the runs. Bounds on counters (`MaxOptions`, `MaxMessages`,
`MaxReplacements`, `MaxDeliveryCount`, `MaxTime`) are arbitrary in the theorems.

### Only model-checked

* Liveness: fairness and ENABLED are beyond the prover. That is `ShutdownEnds`,
  `BatchIsHandled`, `PumpResumes`, `RenewalCeases`, `SendReturns`, `SetReturns`,
  `TimeoutBoundsOperation`, `TokensComeBack`, `HandlerIsTold`, `MessageEnds`, `LoopsStop`, and the
  fairness of `LockKeeper` in `ImplementsKeeper`.
* The four violations are counterexamples and need no proof.

## Findings

Four runs are expected to fail; each states a sentence of the repository, quoted in
`PROJECT.json` under `findings`.

1. `stop` (`lockrenewer.go:107`) tests and sends in two steps; two callers can both
   find the channel empty, and the second blocks for ever. If that is the handler's
   goroutine, its concurrency token is lost.
2. `Start` with retries (`processor.go:188`) may hang after cancellation.
3. One `SendAsBatch` may use two senders, although `SetAzSender` is documented to
   leave ongoing operations alone.
4. `ToServiceBusMessage` (`sender.go:139`) appends to the caller's slice; concurrent sends
   with one `opts...` that has spare capacity may exchange their trace contexts.

Met while modelling and covered by no run: the concurrency gauge may exceed
`MaxConcurrency` for a moment (the token is returned first); a deadline that passes during
a renewal is not counted by the deadline metric; `NewMessageBatch` is not raced against
the context, and neither is the read lock that `SendAsBatch` takes for it: behind a
`SetAzSender` that waits for another operation's hung call the operation outlasts its
timeout (`sender.go:272` against "Apply timeout for the entire operation" at line 164;
`TimeoutBoundsOperation` excludes both cases); a call of the old sender that ignores its
context keeps `SetAzSender`, and so new sends, waiting; the sent counter counts batches,
not messages; `OnAbandoned` is called when completing fails, even if the message was
completed; `OnDeadLettered` is called also when dead-lettering failed
(`managedsettling.go:165` against the comment at line 89); renewal does not stop at
settlement, as the repository's README says (line 61), but when the handler returns or the
next renewal fails; a renewal call may begin just after `stop` has returned; the comments
on `IncHealthCheck...Count` speak of a gauge that is reset, the code increments a counter
(the properties hold of either reading); a nil body makes `getMessageType` panic, and a
trace property that is not a string makes the receiver's `Extract` panic; the error of
`Close` reaches the health check metric and not the caller of `HealthCheck`.

## Not modelled

* `Unmarshal` of the marshallers: the library never calls it. Span names, attributes and
  tracer providers; registration of metrics; the counters that nothing reads back;
  logging: no influence on control flow.
* User-supplied `OnError`, `RetryDecision`, `OnNilSettlement`: user code.
* Shutdown of the pump in `Pipeline`: `Processor` has it.

## Plan

Done: the modules above, their runs, and proofs for all of them.

Left for a later revision:

1. An abstract specification of the sending side that `Sender`, `BatchSender` and `Message`
   implement, as `WorkerPool` and `LockKeeper` are for the receiving side. `LateBatch` and
   `CalledAtMostOnce` state what its steps would be.
2. Liveness, if a prover for fairness becomes available; the safety facts such proofs would
   start from are the inductive invariants above.
