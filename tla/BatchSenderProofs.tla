-------------------------- MODULE BatchSenderProofs --------------------------
(***************************************************************************)
(* Proofs about SendAsBatch, for message arrays of any length, whatever    *)
(* fits into a batch, and any number of replacements of the sender.        *)
(***************************************************************************)
EXTENDS BatchSender, SequenceTheorems, TLAPS

(***************************************************************************)
(* The inductive invariant.  The batch holds the messages just before i    *)
(* (Filled).  The service has everything before the batch, until the       *)
(* worker's call returns; from then on it may have the batch as well, and  *)
(* it has if the answer is nil (Position).                                 *)
(***************************************************************************)
Base == i - 1 - Len(batch)

Filled ==
  /\ Base \in Nat
  /\ \A k \in 1 .. Len(batch) : batch[k] = Base + k

Building == caller \in {"start", "needBatch", "newBatch", "fill"}

Control ==
  /\ Building => worker = "none"
  /\ caller = "select" => worker # "none"
  /\ worker # "none" => batch # <<>>
  /\ worker # "none" => result # "nil"
  /\ worker = "report" => answer # "none"
  /\ setting => sbSender < MaxReplacements

Position ==
  /\ caller \in {"start", "fill"} \/ worker \in {"rlock", "call"} => DeliveredUpTo = Base
  /\ caller \in {"needBatch", "newBatch"} => DeliveredUpTo = i - 1
  /\ caller = "start" => i = 1 /\ batch = <<>>
  /\ worker = "report" /\ answer = "nil" => DeliveredUpTo = i - 1

OneBatch ==
  ~allow => /\ Building \/ worker \in {"rlock", "call"} => delivered = <<>>
            /\ worker # "none" => i = messages + 1

Inv ==
  /\ TypeOK
  /\ Filled
  /\ Control
  /\ Position
  /\ OneBatch
  /\ DeliveredIsPrefix
  /\ NilMeansAllDelivered
  /\ SingleBatchIsAllOrNothing

\* The parts of Inv that mention what was delivered, in terms of DeliveredUpTo alone.
Rest ==
  /\ Filled
  /\ Control
  /\ Position
  /\ OneBatch
  /\ NilMeansAllDelivered
  /\ SingleBatchIsAllOrNothing

-----------------------------------------------------------------------------
\* Abbreviations of the specification, expanded throughout.
USE DEF input, lock, Adding

LEMMA LengthIsNumber ==
  ASSUME messages \in 0 .. MaxMessages
  PROVE  messages \in Nat
  BY BoundsAssumption

LEMMA InitInv == Init => Inv
  <1> SUFFICES ASSUME Init PROVE Inv
    OBVIOUS
  <1>1. /\ messages \in 0 .. MaxMessages /\ messages \in Nat
        /\ allow \in BOOLEAN
    <2>1. messages \in 0 .. MaxMessages /\ allow \in BOOLEAN
      BY Zenon DEF Init
    <2> QED
      BY <2>1, LengthIsNumber
  <1>2. /\ batch = <<>> /\ delivered = <<>> /\ Len(batch) = 0 /\ Len(delivered) = 0
        /\ caller = "start" /\ worker = "none" /\ result = "none" /\ i = 1
    BY DEF Init
  <1>3. TypeOK
    <2>1. /\ batch \in Seq(1 .. messages)
          /\ delivered \in Seq(Seq(1 .. messages))
      BY <1>2, EmptySeq
    <2>2. /\ ctxDone \in BOOLEAN /\ setting \in BOOLEAN /\ otherCall \in BOOLEAN
          /\ (caller = "returned" <=> result # "none")
      BY <1>2, Zenon DEF Init
    <2>3. i \in 1 .. messages + 1
      BY <1>1, <1>2
    <2>4. sbSender \in 0 .. MaxReplacements /\ used \subseteq 0 .. MaxReplacements
      BY BoundsAssumption DEF Init
    <2>5. /\ caller \in {"start", "needBatch", "newBatch", "fill", "select", "returned"}
          /\ worker \in {"none", "rlock", "call", "report"}
          /\ answer \in {"none", "nil", "error"} /\ result \in {"none", "nil", "error"}
      BY DEF Init
    <2> QED
      BY <1>1, <2>1, <2>2, <2>3, <2>4, <2>5, Zenon DEF TypeOK
  <1>4. DeliveredUpTo = 0
    BY <1>2 DEF DeliveredUpTo, LastIn
  <1>5. Filled /\ Control /\ Position /\ OneBatch
    <2>1. Base = 0
      <3>1. Len(batch) = 0 /\ i = 1
        BY <1>2, Zenon
      <3> QED
        BY <3>1 DEF Base
    <2>2. Filled
      BY <1>2, <2>1 DEF Filled
    <2>3. Control /\ Position
      BY <1>2, <1>4, <2>1 DEF Init, Control, Building, Position
    <2>4. OneBatch
      BY <1>2 DEF OneBatch, Building
    <2> QED
      BY <2>2, <2>3, <2>4
  <1>6. DeliveredIsPrefix /\ NilMeansAllDelivered /\ SingleBatchIsAllOrNothing
    BY <1>2, <1>4
    DEF DeliveredIsPrefix, NilMeansAllDelivered, SingleBatchIsAllOrNothing
  <1> QED
    BY <1>3, <1>5, <1>6 DEF Inv

-----------------------------------------------------------------------------
(* All steps but the return of a call leave what was delivered alone. *)

LEMMA NothingDelivered ==
  ASSUME Inv, UNCHANGED <<messages, allow, delivered>>, TypeOK', Rest'
  PROVE  Inv'
  BY DEF Inv, Rest, DeliveredIsPrefix, LastIn

LEMMA DeliveredStays ==
  ASSUME UNCHANGED delivered
  PROVE  DeliveredUpTo' = DeliveredUpTo
  BY DEF DeliveredUpTo, LastIn

\* The context ends, others use or replace the sender, the worker gets the lock,
\* the caller enters NewMessageBatch.
LEMMA EnvironmentInv ==
  ASSUME Inv, \/ ContextEnds \/ OtherCall \/ OtherCallReturns \/ SetAzSender
              \/ SenderReplaced \/ RLock \/ NewMessageBatch
  PROVE  Inv'
  <1> USE DEF ContextEnds, OtherCall, OtherCallReturns, SetAzSender, SenderReplaced,
              RLock, NewMessageBatch
  <1>1. /\ UNCHANGED <<messages, allow, delivered>>
        /\ DeliveredUpTo' = DeliveredUpTo
    BY DeliveredStays
  <1>2. TypeOK'
    <2>1. /\ UNCHANGED <<messages, allow, i, batch, answer, result, delivered>>
          /\ caller' = caller \/ (caller = "needBatch" /\ caller' = "newBatch")
          /\ worker' \in {worker, "call"}
      OBVIOUS
    <2>2. /\ \/ sbSender' = sbSender
             \/ setting /\ sbSender' = sbSender + 1
          /\ used' \in {used, used \cup {sbSender}}
      OBVIOUS
    <2>3. sbSender' \in 0 .. MaxReplacements /\ used' \subseteq 0 .. MaxReplacements
      BY <2>2, BoundsAssumption DEF Inv, TypeOK, Control
    <2>4. ctxDone' \in BOOLEAN /\ setting' \in BOOLEAN /\ otherCall' \in BOOLEAN
      BY Zenon DEF Inv, TypeOK
    <2>5. /\ caller' \in {"start", "needBatch", "newBatch", "fill", "select", "returned"}
          /\ worker' \in {"none", "rlock", "call", "report"}
          /\ caller' = "returned" <=> result' # "none"
      BY <2>1 DEF Inv, TypeOK
    <2> QED
      BY <2>1, <2>3, <2>4, <2>5 DEF Inv, TypeOK
  <1>3. Filled'
    BY DEF Inv, Filled, Base
  <1>4. Control'
    BY DEF Inv, Control, Building
  <1>5. Position'
    BY <1>1 DEF Inv, Position, Base, Control, Building
  <1>6. OneBatch'
    BY DEF Inv, OneBatch, Building
  <1>7. NilMeansAllDelivered' /\ SingleBatchIsAllOrNothing'
    BY <1>1 DEF Inv, NilMeansAllDelivered, SingleBatchIsAllOrNothing
  <1> QED
    BY <1>1, <1>2, <1>3, <1>4, <1>5, <1>6, <1>7, NothingDelivered DEF Rest

\* The operation ends with an error.
LEMMA ErrorInv ==
  ASSUME Inv, caller # "returned", Return("error"),
         UNCHANGED <<input, i, batch, worker, answer, ctxDone, lock, used, delivered>>
  PROVE  Inv'
  <1> USE DEF Return
  <1>1. /\ UNCHANGED <<messages, allow, delivered>>
        /\ DeliveredUpTo' = DeliveredUpTo
    BY DeliveredStays
  <1>2. TypeOK'
    BY DEF Inv, TypeOK
  <1>3. Filled'
    BY DEF Inv, Filled, Base
  <1>4. Control'
    BY DEF Inv, Control, Building
  <1>5. Position'
    BY <1>1 DEF Inv, Position, Base
  <1>6. OneBatch'
    BY DEF Inv, OneBatch, Building
  <1>7. NilMeansAllDelivered' /\ SingleBatchIsAllOrNothing'
    BY <1>1 DEF Inv, NilMeansAllDelivered, SingleBatchIsAllOrNothing
  <1> QED
    BY <1>1, <1>2, <1>3, <1>4, <1>5, <1>6, <1>7, NothingDelivered DEF Rest

LEMMA StartInv ==
  ASSUME Inv, Start
  PROVE  Inv'
  <1>1. CASE ctxDone \/ messages = 0
    BY <1>1, ErrorInv DEF Start
  <1>2. CASE ~(ctxDone \/ messages = 0)
    <2>1. /\ caller = "start" /\ caller' = "needBatch"
          /\ UNCHANGED <<messages, allow, i, batch, worker, answer, result, ctxDone,
                         lock, used, delivered>>
      BY <1>2 DEF Start
    <2>2. DeliveredUpTo' = DeliveredUpTo
      BY <2>1, DeliveredStays
    <2>3. TypeOK'
      BY <2>1 DEF Inv, TypeOK
    <2>4. Filled' /\ Control'
      BY <2>1 DEF Inv, Filled, Base, Control, Building
    <2>5. Position'
      <3>1. i = 1 /\ Len(batch) = 0 /\ DeliveredUpTo = i - 1 - Len(batch)
            /\ worker = "none"
        BY <2>1 DEF Inv, Position, Base, Control, Building
      <3> QED
        BY <2>1, <2>2, <3>1 DEF Position
    <2>6. OneBatch'
      BY <2>1 DEF Inv, OneBatch, Building
    <2>7. NilMeansAllDelivered' /\ SingleBatchIsAllOrNothing'
      BY <2>1, <2>2 DEF Inv, NilMeansAllDelivered, SingleBatchIsAllOrNothing
    <2> QED
      BY <2>1, <2>3, <2>4, <2>5, <2>6, <2>7, NothingDelivered DEF Rest
  <1> QED
    BY <1>1, <1>2

\* A new, empty batch: all that is before i was delivered.
LEMMA NewBatchInv ==
  ASSUME Inv, NewMessageBatchReturns
  PROVE  Inv'
  <1>1. CASE Return("error") /\ UNCHANGED batch
    BY <1>1, ErrorInv DEF NewMessageBatchReturns
  <1>2. CASE caller' = "fill" /\ batch' = <<>> /\ UNCHANGED result
    <2>1. /\ caller = "newBatch" /\ caller' = "fill" /\ batch' = <<>> /\ Len(batch') = 0
          /\ UNCHANGED <<messages, allow, i, worker, answer, result, ctxDone,
                         lock, used, delivered>>
      BY <1>2 DEF NewMessageBatchReturns
    <2>2. DeliveredUpTo' = DeliveredUpTo
      BY <2>1, DeliveredStays
    <2>3. messages \in Nat /\ i \in 1 .. messages + 1
      BY LengthIsNumber DEF Inv, TypeOK
    <2>4. TypeOK'
      <3>1. batch' \in Seq(1 .. messages)
        BY <2>1, EmptySeq
      <3> QED
        BY <2>1, <3>1 DEF Inv, TypeOK
    <2>5. Filled' /\ Control'
      BY <2>1, <2>3 DEF Inv, Filled, Base, Control, Building
    <2>6. Position'
      BY <2>1, <2>2, <2>3 DEF Inv, Position, Base, Control, Building
    <2>7. OneBatch'
      BY <2>1 DEF Inv, OneBatch, Building
    <2>8. NilMeansAllDelivered' /\ SingleBatchIsAllOrNothing'
      BY <2>1, <2>2 DEF Inv, NilMeansAllDelivered, SingleBatchIsAllOrNothing
    <2> QED
      BY <2>1, <2>4, <2>5, <2>6, <2>7, <2>8, NothingDelivered DEF Rest
  <1> QED
    BY <1>1, <1>2 DEF NewMessageBatchReturns

\* The message at i joins the batch.
LEMMA AddInv ==
  ASSUME Inv, AddMessage
  PROVE  Inv'
  <1>1. /\ caller = "fill" /\ i <= messages /\ i' = i + 1
        /\ batch' = Append(batch, i)
        /\ UNCHANGED <<messages, allow, caller, worker, answer, result, ctxDone,
                       lock, used, delivered>>
    BY DEF AddMessage
  <1>2. DeliveredUpTo' = DeliveredUpTo
    BY <1>1, DeliveredStays
  <1>3. /\ messages \in Nat /\ i \in 1 .. messages
        /\ batch \in Seq(1 .. messages) /\ Len(batch) \in Nat
    BY <1>1, LengthIsNumber DEF Inv, TypeOK
  <1>4. /\ batch' \in Seq(1 .. messages) /\ Len(batch') = Len(batch) + 1
        /\ \A k \in 1 .. Len(batch) : batch'[k] = batch[k]
        /\ batch'[Len(batch) + 1] = i
    BY <1>1, <1>3, AppendProperties
  <1>5. Base' = Base
    BY <1>1, <1>3, <1>4 DEF Base
  <1>6. TypeOK'
    BY <1>1, <1>3, <1>4 DEF Inv, TypeOK
  <1>7. Filled'
    <2>1. i = Base + (Len(batch) + 1)
      BY <1>3 DEF Base
    <2>2. Base \in Nat /\ \A k \in 1 .. Len(batch) : batch[k] = Base + k
      BY DEF Inv, Filled
    <2>3. ASSUME NEW k \in 1 .. Len(batch) + 1
          PROVE  batch'[k] = Base + k
      <3>1. CASE k = Len(batch) + 1
        BY <1>4, <2>1, <3>1
      <3>2. CASE k # Len(batch) + 1
        <4>1. k \in 1 .. Len(batch)
          BY <1>3, <3>2
        <4> QED
          BY <1>4, <2>2, <4>1
      <3> QED
        BY <3>1, <3>2
    <2> QED
      BY <1>4, <1>5, <2>2, <2>3 DEF Filled
  <1>8. Control'
    BY <1>1 DEF Inv, Control, Building
  <1>9. Position'
    BY <1>1, <1>2, <1>5 DEF Inv, Position, Control, Building
  <1>10. OneBatch'
    BY <1>1 DEF Inv, OneBatch, Building, Control
  <1>11. NilMeansAllDelivered' /\ SingleBatchIsAllOrNothing'
    BY <1>1, <1>2 DEF Inv, NilMeansAllDelivered, SingleBatchIsAllOrNothing
  <1> QED
    BY <1>1, <1>6, <1>7, <1>8, <1>9, <1>10, <1>11, NothingDelivered DEF Rest

\* A batch that is not empty is handed to a worker; in single batch mode it is one
\* that holds all the messages.
LEMMA HandOverInv ==
  ASSUME Inv, caller = "fill", sendBatch, UNCHANGED i, batch # <<>>,
         allow \/ i > messages
  PROVE  Inv'
  <1>1. /\ caller' = "select" /\ worker' = "rlock"
        /\ UNCHANGED <<messages, allow, i, batch, answer, result, ctxDone,
                       lock, used, delivered>>
    BY DEF sendBatch
  <1>2. DeliveredUpTo' = DeliveredUpTo
    BY <1>1, DeliveredStays
  <1>3. messages \in Nat /\ i \in 1 .. messages + 1
    BY LengthIsNumber DEF Inv, TypeOK
  <1>4. TypeOK'
    BY <1>1 DEF Inv, TypeOK
  <1>5. Filled'
    BY <1>1 DEF Inv, Filled, Base
  <1>6. Control'
    <2>1. result = "none"
      BY Zenon DEF Inv, TypeOK
    <2> QED
      BY <1>1, <2>1 DEF Inv, Control, Building
  <1>7. Position'
    BY <1>1, <1>2 DEF Inv, Position, Base
  <1>8. OneBatch'
    BY <1>1, <1>3 DEF Inv, OneBatch, Building
  <1>9. NilMeansAllDelivered' /\ SingleBatchIsAllOrNothing'
    BY <1>1, <1>2 DEF Inv, NilMeansAllDelivered, SingleBatchIsAllOrNothing
  <1> QED
    BY <1>1, <1>4, <1>5, <1>6, <1>7, <1>8, <1>9, NothingDelivered DEF Rest

\* The loop is over: the rest is sent, or everything was delivered already.
LEMMA SendRestInv ==
  ASSUME Inv, SendRest
  PROVE  Inv'
  <1>1. caller = "fill" /\ i > messages /\ UNCHANGED i
    BY DEF SendRest
  <1>2. /\ messages \in Nat /\ i = messages + 1
        /\ batch \in Seq(1 .. messages) /\ Len(batch) \in Nat
    <2>1. messages \in Nat /\ i \in 1 .. messages + 1
          /\ batch \in Seq(1 .. messages)
      BY LengthIsNumber DEF Inv, TypeOK
    <2> QED
      BY <1>1, <2>1
  <1>3. CASE Remaining
    <2>1. batch # <<>>
      BY <1>3 DEF Remaining
    <2>2. sendBatch
      BY <1>3 DEF SendRest
    <2> QED
      BY <1>1, <2>1, <2>2, HandOverInv
  <1>4. CASE ~Remaining
    <2>1. /\ caller' = "returned" /\ result' = "nil"
          /\ UNCHANGED <<messages, allow, i, batch, worker, answer, ctxDone, lock,
                         used, delivered>>
      BY <1>1, <1>4 DEF SendRest, Return
    <2>2. Len(batch) = 0
      BY <1>2, <1>4 DEF Remaining
    <2>3. worker = "none"
      BY <1>1 DEF Inv, Control, Building
    <2>4. DeliveredUpTo = messages
      <3>1. DeliveredUpTo = Base
        BY <1>1 DEF Inv, Position
      <3> QED
        BY <1>2, <2>2, <3>1 DEF Base
    <2>5. DeliveredUpTo' = DeliveredUpTo
      BY <2>1, DeliveredStays
    <2>6. TypeOK'
      BY <2>1 DEF Inv, TypeOK
    <2>7. Filled' /\ Control' /\ Position'
      BY <2>1, <2>3 DEF Inv, Filled, Base, Control, Building, Position
    <2>8. OneBatch'
      BY <2>1, <2>3 DEF OneBatch, Building
    <2>9. NilMeansAllDelivered' /\ SingleBatchIsAllOrNothing'
      BY <2>1, <2>3, <2>4, <2>5 DEF NilMeansAllDelivered, SingleBatchIsAllOrNothing
    <2> QED
      BY <2>1, <2>6, <2>7, <2>8, <2>9, NothingDelivered DEF Rest
  <1> QED
    BY <1>3, <1>4

\* The caller takes the worker's answer.
LEMMA ReportInv ==
  ASSUME Inv, Report
  PROVE  Inv'
  <1>1. /\ caller = "select" /\ worker = "report" /\ worker' = "none"
        /\ UNCHANGED <<messages, allow, i, batch, answer, ctxDone, lock, used,
                       delivered>>
    BY DEF Report
  <1>2. DeliveredUpTo' = DeliveredUpTo
    BY <1>1, DeliveredStays
  <1>3. /\ messages \in Nat /\ i \in 1 .. messages + 1
        /\ answer \in {"nil", "error"} /\ result = "none"
    <2>1. result = "none"
      BY <1>1, Zenon DEF Inv, TypeOK
    <2>2. answer \in {"nil", "error"}
      BY <1>1 DEF Inv, TypeOK, Control
    <2> QED
      BY <2>1, <2>2, LengthIsNumber DEF Inv, TypeOK
  <1>4. answer = "nil" => DeliveredUpTo = i - 1
    BY <1>1 DEF Inv, Position
  <1>5. ~allow => i = messages + 1
    BY <1>1 DEF Inv, OneBatch
  <1>6. Filled'
    BY <1>1 DEF Inv, Filled, Base
  <1>7. SingleBatchIsAllOrNothing'
    BY <1>1, <1>2 DEF Inv, SingleBatchIsAllOrNothing
  <1>8. CASE answer = "nil" /\ i <= messages
    <2>1. caller' = "needBatch" /\ result' = result
      BY <1>8 DEF Report
    <2>2. TypeOK'
      BY <1>1, <1>3, <2>1 DEF Inv, TypeOK
    <2>3. Control' /\ Position'
      BY <1>1, <1>2, <1>4, <1>8, <2>1 DEF Inv, Control, Building, Position
    <2>4. OneBatch'
      BY <1>1, <1>3, <1>4, <1>5, <1>8, <2>1 DEF OneBatch, Building
    <2>5. NilMeansAllDelivered'
      BY <1>3, <2>1 DEF NilMeansAllDelivered
    <2> QED
      BY <1>1, <1>6, <1>7, <2>2, <2>3, <2>4, <2>5, NothingDelivered DEF Rest
  <1>9. CASE ~(answer = "nil" /\ i <= messages)
    <2>1. caller' = "returned" /\ result' = answer
      BY <1>9 DEF Report, Return
    <2>2. TypeOK'
      BY <1>1, <1>3, <2>1 DEF Inv, TypeOK
    <2>3. Control' /\ Position'
      BY <1>1, <2>1 DEF Inv, Control, Building, Position
    <2>4. OneBatch'
      BY <1>1, <2>1 DEF OneBatch, Building
    <2>5. NilMeansAllDelivered'
      BY <1>1, <1>2, <1>3, <1>4, <1>9, <2>1 DEF NilMeansAllDelivered
    <2> QED
      BY <1>1, <1>6, <1>7, <2>2, <2>3, <2>4, <2>5, NothingDelivered DEF Rest
  <1> QED
    BY <1>8, <1>9

-----------------------------------------------------------------------------
(* The call returns: if the service accepted the batch, it follows what it *)
(* had.                                                                    *)

LEMMA CallReturnsInv ==
  ASSUME Inv, NEW a \in {"nil", "error"}, NEW accepted \in BOOLEAN,
         CallReturns(a, accepted)
  PROVE  Inv'
  <1>1. /\ worker = "call" /\ worker' = "report" /\ answer' = a
        /\ UNCHANGED <<messages, allow, caller, i, batch, result, ctxDone, lock, used>>
    BY DEF CallReturns
  <1>2. /\ messages \in Nat /\ i \in 1 .. messages + 1
        /\ batch \in Seq(1 .. messages) /\ Len(batch) \in Nat
        /\ delivered \in Seq(Seq(1 .. messages)) /\ Len(delivered) \in Nat
    BY LengthIsNumber DEF Inv, TypeOK
  <1>3. /\ batch # <<>> /\ result # "nil" /\ ~Building
        /\ DeliveredUpTo = Base
    BY <1>1 DEF Inv, Control, Position
  <1>4. ~allow => delivered = <<>> /\ i = messages + 1
    BY <1>1 DEF Inv, OneBatch
  <1>5. Base \in Nat /\ \A k \in 1 .. Len(batch) : batch[k] = Base + k
    BY DEF Inv, Filled
  <1>6. Filled'
    BY <1>1 DEF Inv, Filled, Base
  <1>7. Control'
    BY <1>1, <1>3 DEF Inv, Control, Building
  <1>8. CASE accepted
    <2>1. delivered' = Append(delivered, batch)
      BY <1>8 DEF CallReturns
    <2>2. /\ delivered' \in Seq(Seq(1 .. messages))
          /\ Len(delivered') = Len(delivered) + 1
          /\ \A d \in 1 .. Len(delivered) : delivered'[d] = delivered[d]
          /\ delivered'[Len(delivered) + 1] = batch
      BY <1>2, <2>1, AppendProperties
    <2>3. TypeOK'
      BY <1>1, <2>2 DEF Inv, TypeOK
    <2>4. Len(batch) > 0 /\ batch[Len(batch)] = i - 1
      <3>1. Len(batch) > 0
        BY <1>2, <1>3
      <3>2. Len(batch) \in 1 .. Len(batch)
        BY <1>2, <3>1
      <3>3. batch[Len(batch)] = Base + Len(batch)
        BY <1>5, <3>2
      <3> QED
        BY <1>2, <3>1, <3>3 DEF Base
    <2>5. DeliveredUpTo' = i - 1
      <3>1. Len(delivered') # 0 /\ Last(delivered'[Len(delivered')]) = i - 1
        BY <1>2, <2>2, <2>4 DEF Last
      <3> QED
        BY <3>1 DEF DeliveredUpTo, LastIn
    <2>6. DeliveredIsPrefix'
      <3> SUFFICES ASSUME NEW d \in 1 .. Len(delivered) + 1
                   PROVE  /\ delivered'[d] # <<>>
                          /\ \A k \in 1 .. Len(delivered'[d]) :
                               delivered'[d][k] = LastIn(d - 1)' + k
        BY <2>2 DEF DeliveredIsPrefix
      <3>1. LastIn(d - 1)' = LastIn(d - 1)
        <4>1. d - 1 = 0 \/ d - 1 \in 1 .. Len(delivered)
          BY <1>2
        <4> QED
          BY <2>2, <4>1 DEF LastIn
      <3>2. CASE d = Len(delivered) + 1
        <4>1. LastIn(d - 1) = Base
          <5>1. d - 1 = Len(delivered)
            BY <1>2, <3>2
          <5> QED
            BY <1>3, <5>1 DEF DeliveredUpTo
        <4> QED
          BY <1>3, <1>5, <2>2, <3>1, <3>2, <4>1
      <3>3. CASE d # Len(delivered) + 1
        <4>1. d \in 1 .. Len(delivered)
          BY <1>2, <3>3
        <4> QED
          BY <2>2, <3>1, <4>1 DEF Inv, DeliveredIsPrefix
      <3> QED
        BY <3>2, <3>3
    <2>7. Position'
      <3>1. caller \notin {"start", "needBatch", "newBatch", "fill"}
        BY <1>3 DEF Building
      <3> QED
        BY <1>1, <2>5, <3>1 DEF Position
    <2>8. OneBatch'
      BY <1>1, <1>3, <1>4, <2>2 DEF OneBatch, Building
    <2>9. NilMeansAllDelivered' /\ SingleBatchIsAllOrNothing'
      BY <1>1, <1>2, <1>3, <1>4, <2>5
      DEF NilMeansAllDelivered, SingleBatchIsAllOrNothing
    <2> QED
      BY <1>6, <1>7, <2>3, <2>6, <2>7, <2>8, <2>9 DEF Inv
  <1>9. CASE ~accepted
    <2>1. delivered' = delivered /\ a = "error"
      BY <1>9 DEF CallReturns
    <2>2. DeliveredUpTo' = DeliveredUpTo
      BY <2>1, DeliveredStays
    <2>3. TypeOK'
      BY <1>1, <2>1 DEF Inv, TypeOK
    <2>4. Position'
      BY <1>1, <1>3, <2>1 DEF Position, Building
    <2>5. OneBatch'
      BY <1>1, <1>3, <1>4, <2>1 DEF OneBatch, Building
    <2>6. NilMeansAllDelivered' /\ SingleBatchIsAllOrNothing'
      BY <1>1, <1>3, <2>2 DEF Inv, NilMeansAllDelivered, SingleBatchIsAllOrNothing
    <2> QED
      BY <1>1, <1>6, <1>7, <2>1, <2>3, <2>4, <2>5, <2>6, NothingDelivered DEF Rest
  <1> QED
    BY <1>8, <1>9

-----------------------------------------------------------------------------
LEMMA NextInv == Inv /\ [Next]_vars => Inv'
  <1> SUFFICES ASSUME Inv, [Next]_vars PROVE Inv'
    OBVIOUS
  <1>1. CASE AddMessageFails \/ TooLarge \/ GiveUp
    BY <1>1, ErrorInv DEF AddMessageFails, TooLarge, GiveUp
  <1>2. CASE BatchFull
    BY <1>2, HandOverInv DEF BatchFull, MaySplit, ResumeAt
  <1>3. CASE SendReturns
    BY <1>3, CallReturnsInv DEF SendReturns
  <1>4. CASE UNCHANGED vars
    BY <1>4
    DEF vars, Inv, TypeOK, Filled, Base, Control, Building, Position, OneBatch,
        DeliveredIsPrefix, NilMeansAllDelivered, SingleBatchIsAllOrNothing,
        DeliveredUpTo, LastIn
  <1> QED
    BY <1>1, <1>2, <1>3, <1>4, EnvironmentInv, StartInv, NewBatchInv, AddInv,
       SendRestInv, ReportInv
    DEF Next, CallerStep

(***************************************************************************)
(* The loop of SendAsBatch and what the service has are in step.           *)
(***************************************************************************)
THEOREM Invariance == Spec => []Inv
  BY InitInv, NextInv, PTL DEF Spec

\* The variables keep their types; SendAsBatch has a result exactly when it has
\* returned, and the loop never leaves the array.
THEOREM TypeCorrect == Spec => []TypeOK
  <1>1. Inv => TypeOK
    BY DEF Inv
  <1> QED
    BY <1>1, Invariance, PTL

\* Whatever fails, times out or arrives late, and however often the sender is
\* replaced, the service has a prefix of the messages, each once and in order.
THEOREM PrefixDelivered == Spec => []DeliveredIsPrefix
  <1>1. Inv => DeliveredIsPrefix
    BY DEF Inv
  <1> QED
    BY <1>1, Invariance, PTL

\* A nil result of SendAsBatch means that the service has every message.
THEOREM NilIsTrue == Spec => []NilMeansAllDelivered
  <1>1. Inv => NilMeansAllDelivered
    BY DEF Inv
  <1> QED
    BY <1>1, Invariance, PTL

\* Without AllowMultipleBatch, SendAsBatch delivers all messages or none, even when
\* it reports an error.
THEOREM AllOrNothing == Spec => []SingleBatchIsAllOrNothing
  <1>1. Inv => SingleBatchIsAllOrNothing
    BY DEF Inv
  <1> QED
    BY <1>1, Invariance, PTL

-----------------------------------------------------------------------------
(***************************************************************************)
(* A worker is left behind only by a caller whose context had ended and    *)
(* who returned an error.                                                  *)
(***************************************************************************)
LeftBehind == caller = "returned" /\ worker # "none" => ctxDone /\ result = "error"

LEMMA LeftBehindInit == Init => LeftBehind
  BY DEF Init, LeftBehind

LEMMA LeftBehindNext == Inv /\ LeftBehind /\ [Next]_vars => LeftBehind'
  <1> SUFFICES ASSUME Inv, LeftBehind, [Next]_vars PROVE LeftBehind'
    OBVIOUS
  <1>1. CASE Start \/ NewMessageBatch \/ AddMessage \/ AddMessageFails \/ TooLarge
             \/ NewMessageBatchReturns
    <2>1. Building /\ worker' = worker
      BY <1>1
      DEF Building, Start, NewMessageBatch, AddMessage, AddMessageFails, TooLarge,
          NewMessageBatchReturns
    <2> QED
      BY <2>1 DEF LeftBehind, Inv, Control
  <1>2. CASE BatchFull \/ SendRest
    <2>1. Building
      BY <1>2 DEF Building, BatchFull, SendRest
    <2>2. caller' = "select" \/ worker' = worker
      BY <1>2 DEF BatchFull, SendRest, sendBatch
    <2> QED
      BY <2>1, <2>2 DEF LeftBehind, Inv, Control
  <1>3. CASE GiveUp
    BY <1>3 DEF GiveUp, MayGiveUp, Return, LeftBehind
  <1>4. CASE Report
    BY <1>4 DEF Report, LeftBehind
  <1>5. CASE \/ ContextEnds \/ OtherCall \/ OtherCallReturns \/ SetAzSender
             \/ SenderReplaced \/ RLock \/ SendReturns \/ UNCHANGED vars
    <2>1. /\ caller' = caller /\ result' = result
          /\ ctxDone' = ctxDone \/ ctxDone'
          /\ worker = "none" => worker' = "none"
      BY <1>5 DEF ContextEnds, OtherCall, OtherCallReturns, SetAzSender,
                  SenderReplaced, RLock, SendReturns, CallReturns, vars
    <2> QED
      BY <2>1 DEF LeftBehind
  <1> QED
    BY <1>1, <1>2, <1>3, <1>4, <1>5 DEF Next, CallerStep

\* What a step may never do: take back or change a batch that the service has;
\* change what was returned after SendAsBatch has returned; deliver a
\* batch after that, unless the context had ended and an error was returned, and
\* then more than the one whose send was in progress, after which the worker stays
\* where it is.
AtMostOneLate ==
  /\ Len(delivered') >= Len(delivered)
  /\ \A d \in 1 .. Len(delivered) : delivered'[d] = delivered[d]
  /\ caller = "returned" =>
       /\ UNCHANGED <<caller, result, i, batch>>
       /\ delivered' # delivered =>
            /\ ctxDone /\ result = "error"
            /\ worker = "call" /\ worker' = "report"
            /\ delivered' = Append(delivered, batch)
       /\ worker \in {"none", "report"} => UNCHANGED <<worker, delivered>>

\* After an error from SendAsBatch at most one more batch reaches the service, and
\* only if the error was a timeout; after nil none does.
THEOREM LateBatch == Spec => [][AtMostOneLate]_vars
  <1>1. ASSUME Inv, LeftBehind, [Next]_vars
        PROVE  [AtMostOneLate]_vars
    <2>1. CASE SendReturns
      <3>1. PICK accepted \in BOOLEAN :
              /\ worker = "call" /\ worker' = "report"
              /\ UNCHANGED <<caller, result, i, batch>>
              /\ delivered' = IF accepted THEN Append(delivered, batch) ELSE delivered
        BY <2>1 DEF SendReturns, CallReturns
      <3>2. /\ delivered \in Seq(Seq(1 .. messages))
            /\ batch \in Seq(1 .. messages) /\ Len(delivered) \in Nat
        BY <1>1 DEF Inv, TypeOK
      <3>3. /\ Len(delivered') >= Len(delivered)
            /\ \A d \in 1 .. Len(delivered) : delivered'[d] = delivered[d]
        BY <3>1, <3>2, AppendProperties
      <3>4. caller = "returned" => ctxDone /\ result = "error"
        BY <1>1, <3>1 DEF LeftBehind
      <3> QED
        BY <3>1, <3>3, <3>4 DEF AtMostOneLate
    <2>2. CASE ~SendReturns
      <3>1. /\ delivered' = delivered
            /\ caller = "returned" =>
                 /\ UNCHANGED <<caller, result, i, batch>>
                 /\ worker \in {"none", "report"} => worker' = worker
        BY <1>1, <2>2
        DEF Next, CallerStep, ContextEnds, OtherCall, OtherCallReturns, SetAzSender,
            SenderReplaced, Start, NewMessageBatch, NewMessageBatchReturns, AddMessage,
            AddMessageFails, BatchFull, TooLarge,
            SendRest, sendBatch, GiveUp, Report, RLock, vars
      <3>2. Len(delivered) \in Nat
        BY <1>1 DEF Inv, TypeOK
      <3> QED
        BY <3>1, <3>2 DEF AtMostOneLate
    <2> QED
      BY <2>1, <2>2
  <1>2. Spec => [](Inv /\ LeftBehind)
    <2>1. Inv /\ LeftBehind /\ [Next]_vars => Inv' /\ LeftBehind'
      BY NextInv, LeftBehindNext
    <2> QED
      BY InitInv, LeftBehindInit, <2>1, PTL DEF Spec
  <1> QED
    BY <1>1, <1>2, PTL DEF Spec


=============================================================================
