----------------------------- MODULE BatchSender -----------------------------
(***************************************************************************)
(* One call of SendAsBatch (v2/sender.go), with SetAzSender replacing the  *)
(* azservicebus sender and another operation calling it meanwhile.         *)
(*                                                                         *)
(* The messages are sent in batches, each handed to a worker goroutine as  *)
(* in SendMessage (see module Sender), but a new batch is asked for in the *)
(* calling goroutine.  Calls of the azservicebus sender hold the read      *)
(* lock, so SetAzSender takes effect between them, and keeps new calls out *)
(* while it waits.  A message is its index in the array; whether it fits   *)
(* into a batch is for the SDK's AddMessage to say, which may say anything.*)
(***************************************************************************)
EXTENDS Integers, Sequences, FiniteSets, SequencesExt

CONSTANTS
  MaxMessages,       \* bound on the length of the message array
  MaxReplacements    \* bound on the number of SetAzSender calls

ASSUME BoundsAssumption == MaxMessages \in Nat /\ MaxReplacements \in Nat

VARIABLES
  messages,     \* len(messages)
  allow,        \* SendAsBatchOptions.AllowMultipleBatch
  caller,       \* the goroutine that called SendAsBatch
  i,            \* the loop variable, counted from 1
  batch,        \* currentMessageBatch: indices into messages
  worker,       \* the goroutine of the sendBatch in progress
  answer,       \* what the azservicebus sender answered the worker
  result,       \* what SendAsBatch returned
  ctxDone,      \* the context of the operation has ended
  sbSender,     \* Sender.sbSender, numbered as in module Sender
  setting,      \* a SetAzSender waits for the write lock
  otherCall,    \* another operation is in a call, and so holds the read lock
  used,         \* history: the instances this operation called
  delivered     \* history: the batches the service accepted

input == <<messages, allow>>

lock == <<sbSender, setting, otherCall>>

vars == <<input, caller, i, batch, worker, answer, result, ctxDone, lock, used,
          delivered>>

Init ==
  /\ messages \in 0 .. MaxMessages
  /\ allow \in BOOLEAN
  /\ caller = "start"
  /\ i = 1
  /\ batch = <<>>
  /\ worker = "none"
  /\ answer = "none"
  /\ result = "none"
  /\ ctxDone = FALSE
  /\ sbSender = 0 /\ setting = FALSE /\ otherCall = FALSE
  /\ used = {}
  /\ delivered = <<>>

-----------------------------------------------------------------------------
(* The environment. *)

ContextEnds ==
  /\ ~ctxDone
  /\ ctxDone' = TRUE
  /\ UNCHANGED <<input, caller, i, batch, worker, answer, result, lock, used, delivered>>

\* sync.RWMutex: a writer that waits keeps new readers out.
MayRLock == ~setting

\* A call of the azservicebus sender is in progress.
Reading == caller = "newBatch" \/ worker = "call" \/ otherCall

\* Another send or batch operation on the same Sender enters its call.
OtherCall ==
  /\ ~otherCall /\ MayRLock
  /\ otherCall' = TRUE
  /\ UNCHANGED <<input, caller, i, batch, worker, answer, result, ctxDone, sbSender,
                 setting, used, delivered>>

OtherCallReturns ==
  /\ otherCall
  /\ otherCall' = FALSE
  /\ UNCHANGED <<input, caller, i, batch, worker, answer, result, ctxDone, sbSender,
                 setting, used, delivered>>

\* SetAzSender is called and waits for the calls in progress.
SetAzSender ==
  /\ ~setting /\ sbSender < MaxReplacements
  /\ setting' = TRUE
  /\ UNCHANGED <<input, caller, i, batch, worker, answer, result, ctxDone, sbSender,
                 otherCall, used, delivered>>

\* It gets the write lock, replaces the sender and returns.
SenderReplaced ==
  /\ setting /\ ~Reading
  /\ setting' = FALSE
  /\ sbSender' = sbSender + 1
  /\ UNCHANGED <<input, caller, i, batch, worker, answer, result, ctxDone, otherCall,
                 used, delivered>>

-----------------------------------------------------------------------------
(* SendAsBatch *)

\* Seeded fault: the result is lost on the way out.
ReturnNothing(r) == caller' = "returned" /\ UNCHANGED result

Return(r) == caller' = "returned" /\ result' = r

\* The context check and the check for an empty array, then the first batch.
Start ==
  /\ caller = "start"
  /\ IF ctxDone \/ messages = 0
     THEN Return("error")
     ELSE caller' = "needBatch" /\ UNCHANGED result
  /\ UNCHANGED <<input, i, batch, worker, answer, ctxDone, lock, used, delivered>>

\* newMessageBatch: RLock, then the call, in this goroutine and outside any select.
NewMessageBatch ==
  /\ caller = "needBatch"
  /\ MayRLock
  /\ caller' = "newBatch"
  /\ used' = used \cup {sbSender}
  /\ UNCHANGED <<input, i, batch, worker, answer, result, ctxDone, lock, delivered>>

NewMessageBatchReturns ==
  /\ caller = "newBatch"
  /\ \/ caller' = "fill" /\ batch' = <<>> /\ UNCHANGED result
     \/ Return("error") /\ UNCHANGED batch
  /\ UNCHANGED <<input, i, worker, answer, ctxDone, lock, used, delivered>>

\* In the loop, at the call of AddMessage, which accepts the message, reports
\* ErrMessageTooLarge or fails in another way.
Adding == caller = "fill" /\ i <= messages

AddMessage ==
  /\ Adding
  /\ batch' = Append(batch, i)
  /\ i' = i + 1
  /\ UNCHANGED <<input, caller, worker, answer, result, ctxDone, lock, used, delivered>>

\* AddMessage fails with something else than ErrMessageTooLarge.
AddMessageFails ==
  /\ Adding
  /\ Return("error")
  /\ UNCHANGED <<input, i, batch, worker, answer, ctxDone, lock, used, delivered>>

\* sendBatch: spawn the worker, wait in the select.
sendBatch ==
  /\ caller' = "select"
  /\ worker' = "rlock"
  /\ UNCHANGED <<input, batch, answer, result, ctxDone, lock, used, delivered>>

\* Seeded fault: the message that did not fit is not tried again.
ResumeNotRewound == i + 1

\* Where the loop goes on after a full batch was sent: i-- undoes the i++.
ResumeAt == i

\* Seeded fault: AllowMultipleBatch is not looked at.
MaySplitAlways == batch # <<>>

MaySplit == batch # <<>> /\ allow

\* ErrMessageTooLarge with a non-empty batch in multiple batch mode: send what
\* there is; the message at i is tried again in the next batch.
BatchFull ==
  /\ Adding
  /\ MaySplit
  /\ sendBatch
  /\ i' = ResumeAt

\* ErrMessageTooLarge with an empty batch, or in single batch mode.
TooLarge ==
  /\ Adding
  /\ ~MaySplit
  /\ Return("error")
  /\ UNCHANGED <<input, i, batch, worker, answer, ctxDone, lock, used, delivered>>

\* Seeded fault: a last batch of one message is taken for an empty one.
RemainingIfMany == Len(batch) > 1

Remaining == Len(batch) > 0

\* After the loop: send what is left in the batch.
SendRest ==
  /\ caller = "fill" /\ i > messages
  /\ IF Remaining
     THEN sendBatch
     ELSE /\ Return("nil")
          /\ UNCHANGED <<input, batch, worker, answer, ctxDone, lock, used, delivered>>
  /\ UNCHANGED i

-----------------------------------------------------------------------------
(* The worker of sendBatch and the select that waits for it. *)

RLock ==
  /\ worker = "rlock"
  /\ MayRLock
  /\ worker' = "call"
  /\ used' = used \cup {sbSender}
  /\ UNCHANGED <<input, caller, i, batch, answer, result, ctxDone, lock, delivered>>

\* SendMessageBatch returns nil if the service accepted the batch; if it returns
\* an error the service may have accepted it or not.
CallReturns(a, accepted) ==
  /\ worker = "call"
  /\ a = "nil" => accepted
  /\ worker' = "report"
  /\ answer' = a
  /\ delivered' = IF accepted THEN Append(delivered, batch) ELSE delivered
  /\ UNCHANGED <<input, caller, i, batch, result, ctxDone, lock, used>>

\* Seeded fault: sendBatch waits for its worker only.
MayGiveUpNever == FALSE

MayGiveUp == ctxDone

GiveUp ==
  /\ caller = "select"
  /\ MayGiveUp
  /\ Return("error")
  /\ UNCHANGED <<input, i, batch, worker, answer, ctxDone, lock, used, delivered>>

\* The worker's answer is taken: an error ends the operation; after a full batch
\* another one follows, after the last one SendAsBatch is done.
Report ==
  /\ caller = "select" /\ worker = "report"
  /\ worker' = "none"
  /\ IF answer = "nil" /\ i <= messages
     THEN caller' = "needBatch" /\ UNCHANGED result
     ELSE Return(answer)
  /\ UNCHANGED <<input, i, batch, answer, ctxDone, lock, used, delivered>>

-----------------------------------------------------------------------------
SendReturns == \E a \in {"nil", "error"}, accepted \in BOOLEAN : CallReturns(a, accepted)

CallerStep == Start \/ AddMessage \/ AddMessageFails \/ BatchFull \/ TooLarge
              \/ SendRest \/ GiveUp \/ Report

Next == CallerStep \/ NewMessageBatch \/ NewMessageBatchReturns \/ RLock \/ SendReturns
        \/ ContextEnds \/ OtherCall \/ OtherCallReturns \/ SetAzSender \/ SenderReplaced

Spec == Init /\ [][Next]_vars

(***************************************************************************)
(* Fairness.  The goroutines are scheduled, the send timeout elapses, and  *)
(* sync.RWMutex lets in whoever waits for it and is not kept out for good. *)
(* NewBatchFairness is a promise of the azservicebus sender, a hypothesis  *)
(* of the property that needs it; that SendMessageBatch or another         *)
(* operation's call returns is never assumed.                              *)
(***************************************************************************)
Fairness ==
  /\ WF_vars(CallerStep)
  /\ SF_vars(NewMessageBatch)
  /\ SF_vars(RLock)
  /\ WF_vars(SenderReplaced)
  /\ WF_vars(ContextEnds)

NewBatchFairness == WF_vars(NewMessageBatchReturns)

FairSpec == Spec /\ Fairness

-----------------------------------------------------------------------------
(* Properties *)

\* The variables have their types, and SendAsBatch has a result exactly when it
\* has returned.
TypeOK ==
  /\ messages \in 0 .. MaxMessages
  /\ allow \in BOOLEAN
  /\ caller \in {"start", "needBatch", "newBatch", "fill", "select", "returned"}
  /\ i \in 1 .. messages + 1
  /\ batch \in Seq(1 .. messages)
  /\ worker \in {"none", "rlock", "call", "report"}
  /\ answer \in {"none", "nil", "error"}
  /\ result \in {"none", "nil", "error"}
  /\ ctxDone \in BOOLEAN
  /\ sbSender \in 0 .. MaxReplacements
  /\ setting \in BOOLEAN /\ otherCall \in BOOLEAN
  /\ used \subseteq 0 .. MaxReplacements
  /\ delivered \in Seq(Seq(1 .. messages))
  /\ caller = "returned" <=> result # "none"

\* The index of the last message in the first d batches that the service accepted.
LastIn(d) == IF d = 0 THEN 0 ELSE Last(delivered[d])

DeliveredUpTo == LastIn(Len(delivered))

\* At every moment, also after an error, a timeout or a late delivery, what the
\* service has is the messages from the first to some message, each once, in the
\* order of the array: every batch goes on where the one before it ended.  Rewinding
\* the loop loses and repeats nothing.
DeliveredIsPrefix ==
  \A d \in 1 .. Len(delivered) :
    /\ delivered[d] # <<>>
    /\ \A k \in 1 .. Len(delivered[d]) : delivered[d][k] = LastIn(d - 1) + k

\* SendAsBatch returns nil only if the service has every message.
NilMeansAllDelivered == result = "nil" => DeliveredUpTo = messages

\* Without AllowMultipleBatch the service gets all the messages or none.
SingleBatchIsAllOrNothing == ~allow => DeliveredUpTo \in {0, messages}

\* The caller waits for the read lock behind a SetAzSender that waits for another
\* operation's call.
BehindWriter == caller = "needBatch" /\ setting /\ otherCall

\* "Apply timeout for the entire operation": SendAsBatch returns once its context
\* has ended, even if its own SendMessageBatch hangs and a SetAzSender waits for
\* that call.  There are two exceptions, since a new batch is asked for outside
\* any select on the context: a NewMessageBatch that hangs, and another operation's
\* call that hangs with a SetAzSender waiting, which keeps the caller waiting for
\* the read lock for good.
TimeoutBoundsOperation ==
  NewBatchFairness /\ []<>~BehindWriter
    => (caller # "start" ~> caller = "returned")

\* "All ongoing send operations will continue to use the old sender instance":
\* one operation uses one instance.
OneSenderPerOperation == Cardinality(used) <= 1

=============================================================================
