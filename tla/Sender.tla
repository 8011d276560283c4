-------------------------------- MODULE Sender --------------------------------
(***************************************************************************)
(* SendMessage and SetAzSender of v2/sender.go, called concurrently.       *)
(*                                                                         *)
(* SendMessage hands the message to a worker goroutine and waits for its   *)
(* answer on an unbuffered channel or for the context, whichever comes     *)
(* first.  The worker calls the azservicebus sender under the read lock of *)
(* Sender.mu; SetAzSender replaces that sender under the write lock.       *)
(*                                                                         *)
(* The azservicebus sender is external: a call may take for ever, whatever *)
(* its context says.  The instances of it are numbered in the order in     *)
(* which they are installed.                                               *)
(***************************************************************************)
EXTENDS Integers

CONSTANTS
  Send,            \* the calls of SendMessage
  Setter,          \* the calls of SetAzSender (or FailOver)
  OptSendTimeout   \* SenderOptions.SendTimeout: 0 is unset, < 0 disables it

ASSUME SendTimeoutAssumption == OptSendTimeout \in Int

\* NewSender: the default is 30 seconds.
SendTimeout == IF OptSendTimeout = 0 THEN 30 ELSE OptSendTimeout

VARIABLES
  caller,     \* the goroutine that called SendMessage
  worker,     \* the goroutine that SendMessage spawned
  ctxDone,    \* the context of the send has ended
  answer,     \* what the azservicebus sender answered the worker
  result,     \* what SendMessage returned
  setter,     \* the goroutine that called SetAzSender
  sbSender,   \* Sender.sbSender
  used,       \* history: the instance the worker called, -1 if none yet
  installed,  \* history: the instance of the last SetAzSender that returned
  floor       \* history: the value of installed when SendMessage was called

history == <<used, installed, floor>>

vars == <<caller, worker, ctxDone, answer, result, setter, sbSender, history>>

Init ==
  /\ caller = [c \in Send |-> "idle"]
  /\ worker = [c \in Send |-> "none"]
  /\ ctxDone = [c \in Send |-> FALSE]
  /\ answer = [c \in Send |-> "none"]
  /\ result = [c \in Send |-> "none"]
  /\ setter = [s \in Setter |-> [at |-> "idle", instance |-> 0]]
  /\ sbSender = 0
  /\ used = [c \in Send |-> -1]
  /\ installed = 0
  /\ floor = [c \in Send |-> 0]

-----------------------------------------------------------------------------
(***************************************************************************)
(* sync.RWMutex.  Readers are the workers inside a call.  A writer first   *)
(* announces itself, which keeps new readers out, then waits for the       *)
(* readers that are in.                                                    *)
(***************************************************************************)
Readers == {c \in Send : worker[c] = "call"}

Writers == {s \in Setter : setter[s].at \in {"draining", "holding"}}

MayRLock == Writers = {}

-----------------------------------------------------------------------------
(* SendMessage *)

\* The context has ended already, or the body cannot be marshalled, or an option
\* fails: an error is returned and nothing is sent.
Reject(c) ==
  /\ caller[c] = "idle"
  /\ caller' = [caller EXCEPT ![c] = "returned"]
  /\ result' = [result EXCEPT ![c] = "error"]
  /\ UNCHANGED <<worker, ctxDone, answer, setter, sbSender, history>>

SendMessage(c) ==
  /\ caller[c] = "idle"
  /\ ~ctxDone[c]
  /\ caller' = [caller EXCEPT ![c] = "select"]
  /\ worker' = [worker EXCEPT ![c] = "rlock"]
  /\ floor' = [floor EXCEPT ![c] = installed]
  /\ UNCHANGED <<ctxDone, answer, result, setter, sbSender, used, installed>>

\* The caller's context ends, or the send timeout elapses.
ContextEnds(c) ==
  /\ ~ctxDone[c]
  /\ ctxDone' = [ctxDone EXCEPT ![c] = TRUE]
  /\ UNCHANGED <<caller, worker, answer, result, setter, sbSender, history>>

\* The worker enters sendMessage and calls the sender that is installed.
RLock(c) ==
  /\ worker[c] = "rlock"
  /\ MayRLock
  /\ worker' = [worker EXCEPT ![c] = "call"]
  /\ used' = [used EXCEPT ![c] = sbSender]
  /\ UNCHANGED <<caller, ctxDone, answer, result, setter, sbSender, installed, floor>>

\* The azservicebus sender returns and the read lock is released.
CallReturns(c, a) ==
  /\ worker[c] = "call"
  /\ worker' = [worker EXCEPT ![c] = "report"]
  /\ answer' = [answer EXCEPT ![c] = a]
  /\ UNCHANGED <<caller, ctxDone, result, setter, sbSender, history>>

\* Seeded fault: SendMessage waits for the worker only.
MayGiveUpNever(c) == FALSE

MayGiveUp(c) == ctxDone[c]

\* Seeded fault: SendMessage returns without a result.
GiveUpResultLost(c) == "none"

GiveUpResult(c) == "error"

\* Select, first branch: the context has ended.  The worker is left alone.
GiveUp(c) ==
  /\ caller[c] = "select"
  /\ MayGiveUp(c)
  /\ caller' = [caller EXCEPT ![c] = "returned"]
  /\ result' = [result EXCEPT ![c] = GiveUpResult(c)]
  /\ UNCHANGED <<worker, ctxDone, answer, setter, sbSender, history>>

\* Select, second branch: the worker's send on errChan meets the receive.  Once
\* the caller is gone, the worker's send blocks for ever.
Report(c) ==
  /\ worker[c] = "report"
  /\ caller[c] = "select"
  /\ caller' = [caller EXCEPT ![c] = "returned"]
  /\ worker' = [worker EXCEPT ![c] = "gone"]
  /\ result' = [result EXCEPT ![c] = answer[c]]
  /\ UNCHANGED <<ctxDone, answer, setter, sbSender, history>>

-----------------------------------------------------------------------------
(* SetAzSender *)

SetterAt(s, at) == setter' = [setter EXCEPT ![s].at = at]

SetAzSender(s) ==
  /\ setter[s].at = "idle"
  /\ SetterAt(s, "locking")
  /\ UNCHANGED <<caller, worker, ctxDone, answer, result, sbSender, history>>

LockAnnounce(s) ==
  /\ setter[s].at = "locking"
  /\ Writers = {}
  /\ SetterAt(s, "draining")
  /\ UNCHANGED <<caller, worker, ctxDone, answer, result, sbSender, history>>

\* Seeded faults: a worker keeps the read lock until its answer is taken;
\* SetAzSender takes the read lock.
MayLockAfterReports == \A c \in Send : worker[c] \notin {"call", "report"}
MayLockShared       == TRUE

MayLock == Readers = {}

\* Seeded fault: a busy Sender is left with the instance it has.
NewInstanceIfIdle ==
  IF \E c \in Send : worker[c] = "rlock" THEN sbSender ELSE sbSender + 1

NewInstance == sbSender + 1

\* The write lock is granted; the new instance is installed.
LockAcquired(s) ==
  /\ setter[s].at = "draining"
  /\ MayLock
  /\ setter' = [setter EXCEPT ![s] = [at |-> "holding", instance |-> sbSender + 1]]
  /\ sbSender' = NewInstance
  /\ UNCHANGED <<caller, worker, ctxDone, answer, result, history>>

Unlock(s) ==
  /\ setter[s].at = "holding"
  /\ SetterAt(s, "done")
  /\ installed' = setter[s].instance
  /\ UNCHANGED <<caller, worker, ctxDone, answer, result, sbSender, used, floor>>

-----------------------------------------------------------------------------
SendNext(c) ==
  \/ Reject(c)
  \/ SendMessage(c)
  \/ ContextEnds(c)
  \/ RLock(c)
  \/ \E a \in {"nil", "error"} : CallReturns(c, a)
  \/ GiveUp(c)
  \/ Report(c)

SetNext(s) == SetAzSender(s) \/ LockAnnounce(s) \/ LockAcquired(s) \/ Unlock(s)

Next == (\E c \in Send : SendNext(c)) \/ (\E s \in Setter : SetNext(s))

Spec == Init /\ [][Next]_vars

(***************************************************************************)
(* Fairness.  Goroutines are scheduled; sync.RWMutex starves neither       *)
(* readers nor writers (strong fairness of getting in); the send timeout   *)
(* elapses if there is one.  CallFairness, an azservicebus sender that     *)
(* returns at the latest when its context has ended, is a hypothesis of    *)
(* the property that needs it.                                             *)
(***************************************************************************)
Fairness ==
  /\ \A c \in Send :
       /\ WF_vars(SendTimeout > 0 /\ caller[c] = "select" /\ ContextEnds(c))
       /\ SF_vars(RLock(c))
       /\ WF_vars(GiveUp(c))
       /\ WF_vars(Report(c))
  /\ \A s \in Setter :
       SF_vars(LockAnnounce(s)) /\ WF_vars(LockAcquired(s)) /\ WF_vars(Unlock(s))

CallFairness ==
  \A c \in Send : WF_vars(ctxDone[c] /\ \E a \in {"nil", "error"} : CallReturns(c, a))

FairSpec == Spec /\ Fairness

-----------------------------------------------------------------------------
(* Properties *)

\* The variables have their types, and SendMessage has a result exactly when it
\* has returned.
TypeOK ==
  /\ caller \in [Send -> {"idle", "select", "returned"}]
  /\ worker \in [Send -> {"none", "rlock", "call", "report", "gone"}]
  /\ ctxDone \in [Send -> BOOLEAN]
  /\ answer \in [Send -> {"none", "nil", "error"}]
  /\ result \in [Send -> {"none", "nil", "error"}]
  /\ setter \in [Setter -> [at : {"idle", "locking", "draining", "holding", "done"},
                            instance : Nat]]
  /\ sbSender \in Nat
  /\ used \in [Send -> Int]
  /\ installed \in Nat
  /\ floor \in [Send -> Nat]
  /\ \A c \in Send : caller[c] = "returned" <=> result[c] # "none"

\* "All ongoing send operations will continue to use the old sender instance":
\* the instance is not replaced under a call that is using it.
SenderStable == \A c \in Send : worker[c] = "call" => used[c] = sbSender

\* "New send operations will use the new sender instance": a send that starts
\* after SetAzSender has returned uses that instance or a newer one, never one
\* that was replaced.
FreshSender == \A c \in Send : used[c] # -1 => used[c] >= floor[c]

\* The send timeout bounds SendMessage: it returns even if the azservicebus
\* sender does not, and even if a SetAzSender waits for the lock.
SendReturns == \A c \in Send : caller[c] = "select" ~> caller[c] = "returned"

\* If calls of the azservicebus sender end with their context, SetAzSender gets
\* through, with workers around whose callers have given up on them.
SetReturns ==
  CallFairness =>
    \A s \in Setter : setter[s].at = "locking" ~> setter[s].at = "done"

=============================================================================
