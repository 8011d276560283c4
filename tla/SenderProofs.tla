----------------------------- MODULE SenderProofs -----------------------------
(***************************************************************************)
(* Proofs about SendMessage and SetAzSender, for any number of concurrent  *)
(* calls of either: types, no call of the azservicebus sender has its      *)
(* instance replaced under it, a send uses no instance older than the last *)
(* one that was installed before it began, its result is true, and it      *)
(* calls the azservicebus sender at most once.                             *)
(***************************************************************************)
EXTENDS Sender, TLAPS

(***************************************************************************)
(* The inductive invariant.  Locking is what sync.RWMutex guarantees: one  *)
(* writer at a time, no reader while it holds the lock.  Instances orders  *)
(* the numbers: what is known to be installed never runs ahead of          *)
(* Sender.sbSender, and the writer that holds the lock put that instance   *)
(* there itself, so that Unlock never reports an older one.  Unsent keeps  *)
(* the reference point of a send (floor) from moving once it has called.   *)
(***************************************************************************)
Locking ==
  /\ \A s, t \in Writers : s = t
  /\ (\E s \in Setter : setter[s].at = "holding") => Readers = {}

Instances ==
  /\ installed <= sbSender
  /\ \A c \in Send : floor[c] <= installed
  /\ \A s \in Setter : setter[s].at = "holding" => setter[s].instance = sbSender

Unsent ==
  \A c \in Send :
    /\ caller[c] = "idle" => worker[c] = "none"
    /\ worker[c] \in {"none", "rlock"} => used[c] = -1
    /\ worker[c] = "report" => answer[c] # "none"

Inv ==
  /\ TypeOK
  /\ Locking
  /\ Instances
  /\ Unsent
  /\ SenderStable
  /\ FreshSender

-----------------------------------------------------------------------------
LEMMA InitInv == Init => Inv
  <1> SUFFICES ASSUME Init PROVE Inv
    OBVIOUS
  <1>1. ctxDone \in [Send -> BOOLEAN]
    BY Zenon DEF Init
  <1>2. TypeOK
    BY <1>1 DEF Init, TypeOK
  <1> QED
    BY <1>2 DEF Init, Inv, Locking, Writers, Readers, Instances, Unsent,
                SenderStable, FreshSender

\* The contexts keep their type, whatever step is taken.
LEMMA ContextTyped ==
  ASSUME Inv, Next
  PROVE  ctxDone' \in [Send -> BOOLEAN]
  <1>1. ctxDone \in [Send -> BOOLEAN]
    BY Zenon DEF Inv, TypeOK
  <1>2. ASSUME NEW c \in Send, ContextEnds(c)
        PROVE  ctxDone' \in [Send -> BOOLEAN]
    BY <1>1, <1>2, Zenon DEF ContextEnds
  <1>3. ctxDone' = ctxDone \/ \E c \in Send : ContextEnds(c)
    BY Zenon
    DEF Next, SendNext, SetNext, Reject, SendMessage, RLock, CallReturns, GiveUp,
        Report, SetAzSender, LockAnnounce, LockAcquired, Unlock
  <1> QED
    BY <1>1, <1>2, <1>3

\* The steps of a call of SendMessage and of its worker.
LEMMA SendInv ==
  ASSUME Inv, NEW c \in Send, SendNext(c)
  PROVE  Inv'
  <1> USE DEF Inv, history
  <1>0. ctxDone' \in [Send -> BOOLEAN]
    BY ContextTyped DEF Next
  <1>1. setter' = setter /\ sbSender' = sbSender /\ installed' = installed
    BY DEF SendNext, Reject, SendMessage, ContextEnds, RLock, CallReturns, GiveUp,
           Report
  <1>2. Writers' = Writers
    BY <1>1 DEF Writers
  <1>3. CASE Reject(c) \/ ContextEnds(c) \/ GiveUp(c)
    <2>1. UNCHANGED <<worker, answer, used, floor>>
      BY <1>3 DEF Reject, ContextEnds, GiveUp
    <2>2. TypeOK'
      BY <1>0, <1>1, <1>3, <2>1
      DEF TypeOK, Reject, ContextEnds, GiveUp, GiveUpResult
    <2>3. Unsent'
      BY <1>3, <2>1 DEF TypeOK, Unsent, Reject, ContextEnds, GiveUp
    <2> QED
      BY <1>1, <1>2, <2>1, <2>2, <2>3
      DEF Locking, Readers, Instances, SenderStable, FreshSender
  <1>4. CASE SendMessage(c)
    <2>1. TypeOK'
      BY <1>0, <1>1, <1>4 DEF TypeOK, SendMessage
    <2>2. Unsent' /\ Instances'
      BY <1>1, <1>4 DEF TypeOK, Unsent, Instances, SendMessage
    <2>3. Readers' = Readers
      BY <1>4 DEF Readers, TypeOK, Unsent, SendMessage
    <2>4. SenderStable' /\ FreshSender'
      BY <1>1, <1>4 DEF TypeOK, Unsent, SenderStable, FreshSender, SendMessage
    <2> QED
      BY <1>1, <1>2, <2>1, <2>2, <2>3, <2>4 DEF Locking
  <1>5. CASE RLock(c)
    <2>1. TypeOK'
      BY <1>0, <1>1, <1>5 DEF TypeOK, RLock
    <2>2. Unsent' /\ Instances'
      BY <1>1, <1>5 DEF TypeOK, Unsent, Instances, RLock
    <2>3. Locking'
      BY <1>1, <1>2, <1>5 DEF Locking, RLock, MayRLock, Writers
    <2>4. SenderStable' /\ FreshSender'
      BY <1>1, <1>5 DEF TypeOK, Instances, SenderStable, FreshSender, RLock
    <2> QED
      BY <2>1, <2>2, <2>3, <2>4
  <1>6. CASE (\E a \in {"nil", "error"} : CallReturns(c, a)) \/ Report(c)
    <2>1. UNCHANGED <<used, floor>>
      BY <1>6 DEF CallReturns, Report
    <2>2. TypeOK'
      BY <1>0, <1>1, <1>6, <2>1 DEF TypeOK, Unsent, CallReturns, Report
    <2>3. Unsent'
      BY <1>6, <2>1 DEF TypeOK, Unsent, CallReturns, Report
    <2>4. Readers' \subseteq Readers
      BY <1>6 DEF Readers, TypeOK, CallReturns, Report
    <2> QED
      BY <1>1, <1>2, <2>1, <2>2, <2>3, <2>4
      DEF Locking, Instances, SenderStable, FreshSender, Readers
  <1> QED
    BY <1>3, <1>4, <1>5, <1>6 DEF SendNext

\* The steps of a call of SetAzSender.
LEMMA SetInv ==
  ASSUME Inv, NEW s \in Setter, SetNext(s)
  PROVE  Inv'
  <1> USE DEF Inv, history
  <1>1. /\ UNCHANGED <<caller, worker, ctxDone, answer, result, used, floor>>
        /\ Readers' = Readers
    BY DEF SetNext, SetAzSender, LockAnnounce, LockAcquired, Unlock, Readers
  <1>2. ctxDone' \in [Send -> BOOLEAN]
    BY ContextTyped DEF Next
  <1>3. Unsent'
    BY <1>1 DEF Unsent
  <1>4. CASE SetAzSender(s) \/ LockAnnounce(s)
    <2>1. UNCHANGED <<sbSender, installed>>
      BY <1>4 DEF SetAzSender, LockAnnounce
    <2>2. TypeOK'
      BY <1>1, <1>2, <1>4, <2>1 DEF TypeOK, SetAzSender, LockAnnounce, SetterAt
    <2>3. Locking'
      <3>1. \A t \in Setter : setter'[t].at = "holding" => setter[t].at = "holding"
        BY <1>4 DEF TypeOK, SetAzSender, LockAnnounce, SetterAt
      <3>2. \A t \in Setter \ {s} : setter'[t] = setter[t]
        BY <1>4 DEF TypeOK, SetAzSender, LockAnnounce, SetterAt
      <3>3. CASE SetAzSender(s)
        <4>1. setter'[s].at = "locking"
          BY <1>4, <3>3 DEF TypeOK, SetAzSender, SetterAt
        <4>2. Writers' \subseteq Writers
          BY <3>2, <4>1 DEF Writers
        <4> QED
          BY <1>1, <3>1, <4>2 DEF Locking
      <3>4. CASE LockAnnounce(s)
        <4>1. Writers = {}
          BY <3>4 DEF LockAnnounce
        <4>2. Writers' \subseteq {s}
          BY <3>2, <4>1 DEF Writers
        <4> QED
          BY <1>1, <3>1, <4>2 DEF Locking
      <3> QED
        BY <1>4, <3>3, <3>4
    <2>4. Instances'
      BY <1>1, <1>4, <2>1
      DEF TypeOK, Instances, SetAzSender, LockAnnounce, SetterAt
    <2> QED
      BY <1>1, <1>3, <2>1, <2>2, <2>3, <2>4 DEF SenderStable, FreshSender
  <1>5. CASE LockAcquired(s)
    <2>1. TypeOK'
      BY <1>1, <1>2, <1>5 DEF TypeOK, LockAcquired, NewInstance
    <2>2. Locking'
      BY <1>1, <1>5 DEF TypeOK, Locking, Writers, LockAcquired, MayLock
    <2>3. Instances'
      BY <1>1, <1>5
      DEF TypeOK, Instances, Locking, Writers, LockAcquired, NewInstance
    <2>4. SenderStable'
      BY <1>1, <1>5 DEF SenderStable, LockAcquired, MayLock, Readers
    <2> QED
      BY <1>1, <1>3, <2>1, <2>2, <2>3, <2>4 DEF FreshSender
  <1>6. CASE Unlock(s)
    <2>1. sbSender' = sbSender
      BY <1>6 DEF Unlock
    <2>2. TypeOK'
      BY <1>1, <1>2, <1>6 DEF TypeOK, Unlock, SetterAt
    <2>3. Locking'
      BY <1>1, <1>6 DEF TypeOK, Locking, Writers, Unlock, SetterAt
    <2>4. Instances'
      BY <1>1, <1>6, <2>1
      DEF TypeOK, Instances, Unlock, SetterAt
    <2> QED
      BY <1>1, <1>3, <2>1, <2>2, <2>3, <2>4 DEF SenderStable, FreshSender
  <1> QED
    BY <1>4, <1>5, <1>6 DEF SetNext

LEMMA NextInv == Inv /\ [Next]_vars => Inv'
  <1> SUFFICES ASSUME Inv, [Next]_vars PROVE Inv'
    OBVIOUS
  <1>1. CASE UNCHANGED vars
    BY <1>1 DEF vars, history, Inv, TypeOK, Locking, Writers, Readers, Instances,
                Unsent, SenderStable, FreshSender
  <1> QED
    BY <1>1, SendInv, SetInv DEF Next

\* The invariant holds of every behaviour of the sender.
THEOREM Invariance == Spec => []Inv
  BY InitInv, NextInv, PTL DEF Spec

-----------------------------------------------------------------------------
\* Types, and SendMessage has a result exactly when it has returned.
THEOREM TypeCorrect == Spec => []TypeOK
  <1>1. Inv => TypeOK
    BY DEF Inv
  <1> QED
    BY <1>1, Invariance, PTL

\* SetAzSender never replaces the instance under a call that is using it.
THEOREM StableUnderCall == Spec => []SenderStable
  <1>1. Inv => SenderStable
    BY DEF Inv
  <1> QED
    BY <1>1, Invariance, PTL

\* A send that begins after SetAzSender has returned uses that instance or a
\* newer one.
THEOREM FreshAfterSet == Spec => []FreshSender
  <1>1. Inv => FreshSender
    BY DEF Inv
  <1> QED
    BY <1>1, Invariance, PTL

-----------------------------------------------------------------------------
(***************************************************************************)
(* What SendMessage tells its caller, and what its worker does behind the  *)
(* caller's back.  The course of the two goroutines: a worker that is on   *)
(* its way when SendMessage returns was left behind by a context that had  *)
(* ended, and the caller was told of an error; otherwise SendMessage       *)
(* returned what the worker was answered.                                  *)
(***************************************************************************)
Answers ==
  \A c \in Send :
    /\ caller[c] = "returned" =>
         \/ result[c] = "error" /\ worker[c] = "none"
         \/ result[c] = "error" /\ ctxDone[c] /\ worker[c] \in {"rlock", "call", "report"}
         \/ result[c] = answer[c] /\ worker[c] = "gone"
    /\ worker[c] = "gone" => caller[c] = "returned"
    /\ worker[c] \in {"call", "report", "gone"} => used[c] # -1

LEMMA AnswersInit == Init => Answers
  BY DEF Init, Answers

LEMMA AnswersNext == Inv /\ Answers /\ [Next]_vars => Answers'
  <1> SUFFICES ASSUME Inv, Answers, [Next]_vars PROVE Answers'
    OBVIOUS
  <1>1. ASSUME NEW c \in Send, SendNext(c)
        PROVE  Answers'
    <2> SUFFICES ASSUME NEW d \in Send
                 PROVE  /\ caller'[d] = "returned" =>
                             \/ result'[d] = "error" /\ worker'[d] = "none"
                             \/ /\ result'[d] = "error" /\ ctxDone'[d]
                                /\ worker'[d] \in {"rlock", "call", "report"}
                             \/ result'[d] = answer'[d] /\ worker'[d] = "gone"
                        /\ worker'[d] = "gone" => caller'[d] = "returned"
                        /\ worker'[d] \in {"call", "report", "gone"} => used'[d] # -1
      BY DEF Answers
    <2>1. /\ caller \in [Send -> {"idle", "select", "returned"}]
          /\ worker \in [Send -> {"none", "rlock", "call", "report", "gone"}]
          /\ DOMAIN ctxDone = Send /\ DOMAIN answer = Send
          /\ DOMAIN result = Send /\ DOMAIN used = Send /\ sbSender \in Nat
      BY DEF Inv, TypeOK
    <2>2. CASE d # c
      <3>1. /\ caller'[d] = caller[d] /\ worker'[d] = worker[d] /\ ctxDone'[d] = ctxDone[d]
            /\ answer'[d] = answer[d] /\ result'[d] = result[d] /\ used'[d] = used[d]
        BY <1>1, <2>1, <2>2
        DEF SendNext, Reject, SendMessage, ContextEnds, RLock, CallReturns, GiveUp,
            Report, history
      <3> QED
        BY <3>1 DEF Answers
    <2>3. CASE d = c
      <3>1. CASE Reject(c) \/ SendMessage(c)
        BY <2>1, <2>3, <3>1 DEF Inv, Unsent, Reject, SendMessage, history, Answers
      <3>2. CASE ContextEnds(c)
        BY <2>1, <2>3, <3>2 DEF ContextEnds, history, Answers
      <3>3. CASE RLock(c)
        BY <2>1, <2>3, <3>3 DEF RLock, Answers
      <3>4. CASE \E a \in {"nil", "error"} : CallReturns(c, a)
        BY <2>1, <2>3, <3>4 DEF CallReturns, history, Answers
      <3>5. CASE GiveUp(c)
        BY <2>1, <2>3, <3>5 DEF GiveUp, MayGiveUp, GiveUpResult, history, Answers
      <3>6. CASE Report(c)
        BY <2>1, <2>3, <3>6 DEF Report, history, Answers
      <3> QED
        BY <1>1, <3>1, <3>2, <3>3, <3>4, <3>5, <3>6 DEF SendNext
    <2> QED
      BY <2>2, <2>3
  <1>2. ASSUME NEW s \in Setter, SetNext(s)
        PROVE  Answers'
    BY <1>2 DEF SetNext, SetAzSender, LockAnnounce, LockAcquired, Unlock, history, Answers
  <1>3. CASE UNCHANGED vars
    BY <1>3 DEF vars, history, Answers
  <1> QED
    BY <1>1, <1>2, <1>3 DEF Next

LEMMA AnswersInvariance == Spec => [](Inv /\ Answers)
  <1>1. Inv /\ Answers /\ [Next]_vars => Inv' /\ Answers'
    BY NextInv, AnswersNext
  <1> QED
    BY InitInv, AnswersInit, <1>1, PTL DEF Spec

\* A nil from SendMessage can be relied on: the azservicebus sender was called and
\* it answered nil.  An error without that sender's error means that nothing was
\* begun or that the context had ended.
ResultIsTrue ==
  \A c \in Send :
    /\ result[c] = "nil" => used[c] # -1 /\ answer[c] = "nil"
    /\ result[c] = "error" => used[c] = -1 \/ ctxDone[c] \/ answer[c] = "error"

\* SendMessage's result says what happened, also when the worker and the context
\* race in the select.
THEOREM SendResultIsTrue == Spec => []ResultIsTrue
  <1>1. ASSUME Inv, Answers
        PROVE  ResultIsTrue
    <2> SUFFICES ASSUME NEW c \in Send, result[c] # "none"
                 PROVE  /\ result[c] = "nil" => used[c] # -1 /\ answer[c] = "nil"
                        /\ result[c] = "error" =>
                             used[c] = -1 \/ ctxDone[c] \/ answer[c] = "error"
      BY DEF ResultIsTrue
    <2>1. caller[c] = "returned"
      BY <1>1 DEF Inv, TypeOK
    <2> QED
      BY <1>1, <2>1 DEF Answers, Inv, Unsent
  <1> QED
    BY <1>1, AnswersInvariance, PTL

\* What a step may never do: call the azservicebus sender a second time for one
\* send; change a result that was returned; call it for a send that has returned,
\* unless that send's context had ended and its caller was told of an error.
OneCallPerSend ==
  \A c \in Send :
    /\ used'[c] # used[c] =>
         used[c] = -1 /\ (caller[c] = "returned" => ctxDone[c] /\ result[c] = "error")
    /\ caller[c] = "returned" => caller'[c] = "returned" /\ result'[c] = result[c]

\* SendMessage hands its message over at most once; only a send that timed out may
\* do so after it has returned.
THEOREM CalledAtMostOnce == Spec => [][OneCallPerSend]_vars
  <1>1. ASSUME Inv, Answers, [Next]_vars
        PROVE  [OneCallPerSend]_vars
    <2>1. ASSUME NEW c \in Send, SendNext(c), NEW d \in Send
          PROVE  /\ used'[d] # used[d] =>
                      /\ used[d] = -1
                      /\ caller[d] = "returned" => ctxDone[d] /\ result[d] = "error"
                 /\ caller[d] = "returned" => caller'[d] = "returned" /\ result'[d] = result[d]
      <3>1. /\ DOMAIN caller = Send /\ DOMAIN result = Send /\ DOMAIN used = Send
        BY <1>1 DEF Inv, TypeOK
      <3>2. CASE RLock(c)
        <4>1. /\ worker[c] = "rlock" /\ used' = [used EXCEPT ![c] = sbSender]
              /\ caller' = caller /\ result' = result
          BY <3>2 DEF RLock
        <4>2. used[c] = -1 /\ (caller[c] = "returned" => ctxDone[c] /\ result[c] = "error")
          BY <1>1, <4>1 DEF Inv, Unsent, Answers
        <4> QED
          BY <3>1, <4>1, <4>2
      <3>3. CASE ~RLock(c)
        <4>1. used' = used
          BY <2>1, <3>3
          DEF SendNext, Reject, SendMessage, ContextEnds, CallReturns, GiveUp, Report,
              history
        <4>2. caller[d] = "returned" => caller'[d] = "returned" /\ result'[d] = result[d]
          BY <2>1, <3>1, <3>3
          DEF SendNext, Reject, SendMessage, ContextEnds, CallReturns, GiveUp, Report,
              history
        <4> QED
          BY <4>1, <4>2
      <3> QED
        BY <3>2, <3>3
    <2>2. ASSUME NEW s \in Setter, SetNext(s)
          PROVE  OneCallPerSend
      BY <2>2
      DEF SetNext, SetAzSender, LockAnnounce, LockAcquired, Unlock, history,
          OneCallPerSend
    <2>3. CASE \E c \in Send : SendNext(c)
      BY <2>1, <2>3 DEF OneCallPerSend
    <2> QED
      BY <1>1, <2>2, <2>3 DEF Next
  <1> QED
    BY <1>1, AnswersInvariance, PTL DEF Spec

=============================================================================
