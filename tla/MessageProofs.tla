---------------------------- MODULE MessageProofs ----------------------------
(***************************************************************************)
(* Proofs about the building of messages, for any number of sends, any     *)
(* choice and number of options and any spare capacity of the slice that   *)
(* the sends share: types, and a message on the bus is as its caller asked.*)
(* For a slice that has no spare capacity, also: the trace of a message is *)
(* that of its own send.                                                   *)
(***************************************************************************)
EXTENDS Message, SequenceTheorems, TLAPS

(***************************************************************************)
(* The inductive invariant.  What the sends write into the shared array    *)
(* lies behind the options that the callers passed (Arrays), so that every *)
(* loop reads those options as they were passed and only the last element  *)
(* may come from another send (Slices).  Applied says what the loop has    *)
(* done so far.                                                            *)
(***************************************************************************)
Given == Len(options)

Inputs ==
  /\ marshaller \in {"json", "proto"}
  /\ tracing \in BOOLEAN
  /\ options \in Seq(Option) /\ Given <= MaxOptions
  /\ body \in [Send -> Body]
  /\ span \in [Send -> BOOLEAN]

Element == Option \cup Send \cup {"nil"}

Arrays ==
  /\ array \in [Send \cup {Shared} -> Seq(Element)]
  /\ Len(array[Shared]) = Given + SpareCapacity
  /\ \A k \in 1 .. Given : array[Shared][k] = options[k]

\* The three slices that a send may have: the one it was passed; that one grown by
\* a last element, which the last send to append has written; a copy of its own.
AsGiven(c) == slice[c] = [array |-> Shared, len |-> Given]

InPlace(c) ==
  /\ SpareCapacity > 0
  /\ slice[c] = [array |-> Shared, len |-> Given + 1]
  /\ array[Shared][Given + 1] \in Send

Copied(c) ==
  /\ SpareCapacity = 0
  /\ slice[c] = [array |-> c, len |-> Given + 1]
  /\ array[c] = Append(options, c)

Slices ==
  /\ slice \in [Send -> [array : Send \cup {Shared}, len : Nat]]
  /\ \A c \in Send :
       /\ AsGiven(c) \/ InPlace(c) \/ Copied(c)
       /\ pc[c] \in {"marshal", "append"} => AsGiven(c)
       /\ tracing /\ pc[c] \in {"apply", "sent", "handled"} => ~AsGiven(c)

Place == {"marshal", "append", "apply", "sent", "handled", "failed", "panicked"}

Progress ==
  /\ pc \in [Send -> Place]
  /\ next \in [Send -> Nat \ {0}]
  /\ \A c \in Send :
       /\ next[c] <= slice[c].len + 1
       /\ pc[c] \in {"marshal", "append"} => next[c] = 1
       /\ pc[c] \in {"sent", "handled"} => next[c] = slice[c].len + 1

MessageType ==
  [body : Body \cup {"none"}, contentType : {"json", "proto", "none"},
   type : {"T", "none"}, traceparent : Send \cup {NoTrace, "binary"},
   fields : [Field -> Setter \cup {"unset"}]]

Assigns(k, f) == options[k] \in Setter /\ FieldOf[options[k]] = f

\* Of the first n options, the last that assigns f gave it the value v.
LastBefore(n, f, v) ==
  \/ v = "unset" /\ \A k \in 1 .. Given : k <= n => ~Assigns(k, f)
  \/ \E k \in 1 .. Given :
       /\ k <= n /\ Assigns(k, f) /\ v = options[k]
       /\ \A j \in 1 .. Given : k < j /\ j <= n => ~Assigns(j, f)

AppliedBy(c) ==
  pc[c] \in {"append", "apply", "sent", "handled"} =>
    /\ msg[c].body = body[c] /\ msg[c].contentType = marshaller /\ msg[c].type = "T"
    /\ \A k \in 1 .. Given : k < next[c] => options[k] # "Failing"
    /\ \A f \in Field : LastBefore(next[c] - 1, f, msg[c].fields[f])

Applied == \A c \in Send : AppliedBy(c)

Parents ==
  /\ parent \in [Send -> Send \cup {"unknown", "local", "panicked"}]
  /\ \A c \in Send : parent[c] # "unknown" <=> pc[c] = "handled"

Inv ==
  /\ Inputs
  /\ Arrays
  /\ Slices
  /\ Progress
  /\ msg \in [Send -> MessageType]
  /\ Applied
  /\ Parents

-----------------------------------------------------------------------------
LEMMA Names ==
  /\ Option \subseteq Setter \cup Custom
  /\ MaxOptions \in Nat /\ SpareCapacity \in Nat
  /\ \A c \in Send : /\ c \notin Setter /\ c \notin Custom
                     /\ c \notin {Shared, "nil", NoTrace, "binary"}
                     /\ c \notin {"unknown", "local", "panicked"}
  BY MessageAssumption, SendAssumption DEF Shared

LEMMA FieldOfSetter ==
  ASSUME NEW o \in Setter
  PROVE  FieldOf[o] \in Field
  BY DEF Setter, FieldOf, Field

\* Option slices that TLC draws from SeqOf are sequences of options.
LEMMA BoundedSequences ==
  ASSUME NEW s \in SeqOf(Option, MaxOptions)
  PROVE  s \in Seq(Option) /\ Len(s) <= MaxOptions
  <1>1. PICK m \in 0 .. MaxOptions : s \in [1 .. m -> Option]
    BY DEF SeqOf
  <1>2. m \in Nat /\ m <= MaxOptions
    BY Names
  <1> QED
    BY <1>1, <1>2

LEMMA InitInv == Init => Inv
  <1> SUFFICES ASSUME Init PROVE Inv
    OBVIOUS
  <1>1. Inputs
    <2>1. marshaller \in {"json", "proto"} /\ tracing \in BOOLEAN
          /\ body \in [Send -> Body] /\ span \in [Send -> BOOLEAN]
      BY Zenon DEF Init
    <2>2. options \in SeqOf(Option, MaxOptions)
      BY Zenon DEF Init
    <2> QED
      BY <2>1, <2>2, BoundedSequences, Zenon DEF Inputs, Given
  <1>2. options \in Seq(Option) /\ Given \in Nat
    BY <1>1 DEF Inputs, Given
  <1>3. Arrays
    <2> DEFINE spare == [k \in 1 .. SpareCapacity |-> "nil"]
    <2>1. spare \in Seq(Element) /\ Len(spare) = SpareCapacity
      BY Names DEF Element
    <2>2. options \in Seq(Element)
      BY <1>2 DEF Element
    <2> HIDE DEF spare
    <2>3. /\ options \o spare \in Seq(Element)
          /\ Len(options \o spare) = Given + SpareCapacity
          /\ \A k \in 1 .. Given : (options \o spare)[k] = options[k]
      <3>1. /\ options \o spare \in Seq(Element)
            /\ Len(options \o spare) = Len(options) + Len(spare)
            /\ \A i \in 1 .. Len(options) + Len(spare) :
                 (options \o spare)[i] = IF i <= Len(options) THEN options[i]
                                         ELSE spare[i - Len(options)]
        BY <2>1, <2>2, ConcatProperties
      <3>2. Len(options) \in Nat /\ Len(spare) \in Nat /\ Given = Len(options)
        BY <1>2, <2>1, Names DEF Given
      <3> QED
        BY <2>1, <3>1, <3>2
    <2>4. array = [a \in Send \cup {Shared} |->
                     IF a = Shared THEN options \o spare ELSE <<>>]
      BY DEF Init, spare
    <2>5. <<>> \in Seq(Element)
      BY EmptySeq
    <2> QED
      BY <2>3, <2>4, <2>5, Zenon DEF Arrays
  <1>4. Slices /\ Progress
    BY <1>2, Names DEF Init, Slices, AsGiven, Progress, Place, Given
  <1>5. msg \in [Send -> MessageType]
    BY DEF Init, NoMessage, MessageType
  <1>6. Applied /\ Parents
    BY DEF Init, Applied, AppliedBy, Parents
  <1> QED
    BY <1>1, <1>3, <1>4, <1>5, <1>6 DEF Inv

-----------------------------------------------------------------------------
\* What the loop over the options reads.
LEMMA WhatIsRead ==
  ASSUME Inv, NEW c \in Send
  PROVE  /\ Given \in Nat
         /\ slice[c].len \in {Given, Given + 1}
         /\ slice[c].len <= Len(array[slice[c].array])
         /\ \A k \in 1 .. Given :
              array[slice[c].array][k] = options[k] /\ options[k] \in Option
         /\ slice[c].len = Given + 1 => /\ array[slice[c].array][Given + 1] \in Send
                                        /\ SpareCapacity = 0 =>
                                             array[slice[c].array][Given + 1] = c
         /\ tracing /\ pc[c] \in {"apply", "sent", "handled"} => slice[c].len = Given + 1
  <1>1. options \in Seq(Option) /\ Given \in Nat /\ Given = Len(options)
    BY DEF Inv, Inputs, Given
  <1>2. \A k \in 1 .. Given : options[k] \in Option
    BY <1>1
  <1>3. /\ Len(array[Shared]) = Given + SpareCapacity
        /\ \A k \in 1 .. Given : array[Shared][k] = options[k]
    BY DEF Inv, Arrays
  <1>4. AsGiven(c) \/ InPlace(c) \/ Copied(c)
    BY DEF Inv, Slices
  <1>5. tracing /\ pc[c] \in {"apply", "sent", "handled"} => ~AsGiven(c)
    BY DEF Inv, Slices
  <1>6. SpareCapacity \in Nat
    BY Names
  <1>7. CASE AsGiven(c)
    BY <1>1, <1>2, <1>3, <1>5, <1>6, <1>7 DEF AsGiven
  <1>8. CASE InPlace(c)
    BY <1>1, <1>2, <1>3, <1>6, <1>8 DEF InPlace
  <1>9. CASE Copied(c)
    <2>1. /\ Len(Append(options, c)) = Given + 1
          /\ Append(options, c)[Given + 1] = c
          /\ \A k \in 1 .. Given : Append(options, c)[k] = options[k]
      BY <1>1
    <2> HIDE DEF Given
    <2> QED
      BY <1>1, <1>2, <1>9, <2>1 DEF Copied
  <1> QED
    BY <1>4, <1>7, <1>8, <1>9

\* A send at a place where it was, with its message and its loop as they were.
LEMMA AppliedStays ==
  ASSUME NEW d \in Send, AppliedBy(d), UNCHANGED inputs,
         next'[d] = next[d], msg'[d] = msg[d],
         pc'[d] \in {"append", "apply", "sent", "handled"} =>
           pc[d] \in {"append", "apply", "sent", "handled"}
  PROVE  AppliedBy(d)'
  BY DEF AppliedBy, LastBefore, Assigns, Given, inputs

LEMMA FailInv ==
  ASSUME Inv, NEW c \in Send, NEW p \in {"failed", "panicked"}, Fail(c, p),
         pc[c] \in {"marshal", "apply"}
  PROVE  Inv'
  <1> USE DEF Fail, inputs, Given
  <1>1. Inputs' /\ Arrays'
    BY DEF Inv, Inputs, Arrays
  <1>2. Slices'
    BY DEF Inv, Slices, AsGiven, InPlace, Copied, Progress
  <1>3. Progress'
    BY DEF Inv, Progress, Place
  <1>4. (msg \in [Send -> MessageType])'
    BY DEF Inv, MessageType
  <1>5. Applied'
    <2>1. pc \in [Send -> Place] /\ Applied
      BY DEF Inv, Progress
    <2> QED
      BY <2>1, AppliedStays DEF Applied
  <1>6. Parents'
    BY DEF Inv, Parents, Progress
  <1> QED
    BY <1>1, <1>2, <1>3, <1>4, <1>5, <1>6 DEF Inv

LEMMA MarshalInv ==
  ASSUME Inv, NEW c \in Send, Marshal(c)
  PROVE  Inv'
  <1> USE DEF Marshal, inputs, Given
  <1> DEFINE m == [NoMessage EXCEPT !.body = body[c], !.contentType = marshaller,
                                    !.type = TypeName(body[c])]
  <1>1. Inputs' /\ Arrays'
    BY DEF Inv, Inputs, Arrays
  <1>2. Slices'
    BY DEF Inv, Slices, AsGiven, InPlace, Copied, Progress
  <1>3. Progress'
    BY DEF Inv, Progress, Place
  <1>4. /\ m.body = body[c] /\ m.contentType = marshaller /\ m.type = "T"
        /\ \A f \in Field : m.fields[f] = "unset"
        /\ m \in MessageType
    BY DEF Inv, Inputs, NoMessage, MessageType, TypeName
  <1>5. msg' = [msg EXCEPT ![c] = m]
    OBVIOUS
  <1> HIDE DEF m
  <1>6. (msg \in [Send -> MessageType])'
    BY <1>4, <1>5 DEF Inv
  <1>7. Applied'
    <2>1. msg \in [Send -> MessageType] /\ pc \in [Send -> Place]
          /\ next \in [Send -> Nat \ {0}] /\ next[c] = 1 /\ options \in Seq(Option)
      BY DEF Inv, Progress, Inputs
    <2>2. msg'[c] = m /\ pc'[c] = "append" /\ next'[c] = 1
      BY <2>1, <1>5
    <2>3. AppliedBy(c)'
      <3>1. ASSUME NEW f \in Field
            PROVE  LastBefore(next[c] - 1, f, msg[c].fields[f])'
        <4>1. m.fields[f] = "unset"
          BY <1>4, Zenon
        <4>2. msg'[c].fields[f] = "unset"
          BY <2>2, <4>1, Zenon
        <4> QED
          BY <2>1, <2>2, <4>2 DEF LastBefore
      <3>2. body' = body /\ marshaller' = marshaller
        OBVIOUS
      <3>3. \A k \in 1 .. Given' : ~(k < next'[c])
        BY <2>1, <2>2
      <3> QED
        BY <1>4, <2>2, <3>1, <3>2, <3>3 DEF AppliedBy
    <2>4. ASSUME NEW d \in Send, d # c
          PROVE  AppliedBy(d)'
      <3>1. msg'[d] = msg[d] /\ pc'[d] = pc[d] /\ next'[d] = next[d]
        BY <2>1, <2>4, <1>5
      <3>2. AppliedBy(d) /\ UNCHANGED inputs
        BY DEF Inv, Applied
      <3> QED
        BY <3>1, <3>2, AppliedStays
    <2> QED
      BY <2>3, <2>4 DEF Applied
  <1>8. Parents'
    BY DEF Inv, Parents, Progress
  <1> QED
    BY <1>1, <1>2, <1>3, <1>6, <1>7, <1>8 DEF Inv

LEMMA AppendInv ==
  ASSUME Inv, NEW c \in Send, AppendTracing(c) \/ NoTracing(c)
  PROVE  Inv'
  <1> USE DEF AppendTracing, NoTracing, inputs, Given
  <1>1. Inputs' /\ (msg \in [Send -> MessageType])'
    <2>1. UNCHANGED <<marshaller, tracing, options, body, span>> /\ msg' = msg
      OBVIOUS
    <2> QED
      BY <2>1 DEF Inv, Inputs
  <1>2. Applied'
    <2>1. pc \in [Send -> Place] /\ Applied
      BY DEF Inv, Progress
    <2>2. UNCHANGED <<inputs, next, msg>> /\ pc[c] = "append"
          /\ pc' = [pc EXCEPT ![c] = "apply"]
      OBVIOUS
    <2> QED
      BY <2>1, <2>2, AppliedStays DEF Applied
  <1>3. Parents'
    BY DEF Inv, Parents, Progress
  <1>4. /\ options \in Seq(Option) /\ Given \in Nat /\ SpareCapacity \in Nat
        /\ array \in [Send \cup {Shared} -> Seq(Element)]
        /\ Len(array[Shared]) = Given + SpareCapacity
        /\ slice \in [Send -> [array : Send \cup {Shared}, len : Nat]]
        /\ pc \in [Send -> Place] /\ next \in [Send -> Nat \ {0}]
    BY Names DEF Inv, Inputs, Arrays, Slices, Progress
  <1>5. AsGiven(c) /\ next[c] = 1
    BY DEF Inv, Slices, Progress
  <1>6. CASE NoTracing(c)
    <2>1. Arrays' /\ Progress'
      BY <1>6 DEF Inv, Arrays, Progress, Place
    <2>2. Slices'
      BY <1>6 DEF Inv, Slices, AsGiven, InPlace, Copied, Progress
    <2> QED
      BY <1>1, <1>2, <1>3, <2>1, <2>2 DEF Inv
  <1>7. CASE AppendTracing(c) /\ SpareCapacity > 0
    <2> DEFINE s == array[Shared]
               t == [s EXCEPT ![Given + 1] = c]
    <2>1. /\ t \in Seq(Element) /\ Len(t) = Len(s) /\ t[Given + 1] = c
          /\ \A k \in 1 .. Given : t[k] = s[k]
      <3>1. s \in Seq(Element) /\ Given + 1 \in 1 .. Len(s) /\ c \in Element
        BY <1>4, <1>7 DEF Element
      <3> QED
        BY <1>4, <3>1, ExceptSeq
    <2>2. array' = [array EXCEPT ![Shared] = t]
      BY <1>7
    <2> HIDE DEF t
    <2>3. array'[Shared] = t /\ \A d \in Send : array'[d] = array[d]
      BY <2>2, <1>4, Names
    <2>4. Arrays'
      BY <1>4, <1>7, <2>1, <2>2, <2>3 DEF Inv, Arrays
    <2>5. slice' = [slice EXCEPT ![c] = [array |-> Shared, len |-> Given + 1]]
      BY <1>4, <1>5, <1>7 DEF AsGiven
    <2>6. Slices'
      <3>1. (slice \in [Send -> [array : Send \cup {Shared}, len : Nat]])'
        BY <1>4, <2>5
      <3>2. InPlace(c)' /\ ~AsGiven(c)'
        BY <1>4, <1>7, <2>1, <2>3, <2>5 DEF InPlace, AsGiven
      <3>3. ASSUME NEW d \in Send, d # c
            PROVE  /\ (AsGiven(d) \/ InPlace(d) \/ Copied(d))'
                   /\ AsGiven(d)' <=> AsGiven(d)
                   /\ pc'[d] = pc[d]
        <4>1. slice'[d] = slice[d] /\ pc'[d] = pc[d] /\ options' = options
          BY <1>4, <1>7, <2>5, <3>3
        <4>2. AsGiven(d) \/ InPlace(d) \/ Copied(d)
          BY DEF Inv, Slices
        <4> QED
          BY <1>7, <2>1, <2>3, <4>1, <4>2 DEF AsGiven, InPlace, Copied
      <3>4. pc'[c] = "apply" /\ tracing' = tracing
        BY <1>4, <1>7
      <3> QED
        BY <3>1, <3>2, <3>3, <3>4 DEF Inv, Slices
    <2>7. Progress'
      BY <1>4, <1>5, <1>7, <2>5 DEF Inv, Progress, Place
    <2> QED
      BY <1>1, <1>2, <1>3, <2>4, <2>6, <2>7 DEF Inv
  <1>8. CASE AppendTracing(c) /\ SpareCapacity = 0
    <2> DEFINE t == Append(options, c)
    <2>1. t \in Seq(Element)
      BY <1>4, AppendProperties DEF Element
    <2>2. array' = [array EXCEPT ![c] = t]
      BY <1>8 DEF Appended
    <2> HIDE DEF t
    <2>3. array'[c] = t /\ \A a \in (Send \cup {Shared}) \ {c} : array'[a] = array[a]
      BY <2>2, <1>4
    <2>4. Arrays'
      BY <1>4, <1>8, <2>1, <2>2, <2>3, Names DEF Inv, Arrays
    <2>5. slice' = [slice EXCEPT ![c] = [array |-> c, len |-> Given + 1]]
      BY <1>8
    <2>6. Slices'
      <3>1. (slice \in [Send -> [array : Send \cup {Shared}, len : Nat]])'
        BY <1>4, <2>5
      <3>2. Copied(c)' /\ ~AsGiven(c)'
        BY <1>4, <1>8, <2>3, <2>5, Names DEF Copied, AsGiven, t
      <3>3. ASSUME NEW d \in Send, d # c
            PROVE  /\ (AsGiven(d) \/ InPlace(d) \/ Copied(d))'
                   /\ AsGiven(d)' <=> AsGiven(d)
                   /\ pc'[d] = pc[d]
        <4>1. slice'[d] = slice[d] /\ pc'[d] = pc[d] /\ options' = options
          BY <1>4, <1>8, <2>5, <3>3
        <4>2. AsGiven(d) \/ InPlace(d) \/ Copied(d)
          BY DEF Inv, Slices
        <4> QED
          BY <1>8, <2>3, <3>3, <4>1, <4>2, Names DEF AsGiven, InPlace, Copied
      <3>4. pc'[c] = "apply" /\ tracing' = tracing
        BY <1>4, <1>8
      <3> QED
        BY <3>1, <3>2, <3>3, <3>4 DEF Inv, Slices
    <2>7. Progress'
      BY <1>4, <1>5, <1>8, <2>5 DEF Inv, Progress, Place
    <2> QED
      BY <1>1, <1>2, <1>3, <2>4, <2>6, <2>7 DEF Inv
  <1> QED
    BY <1>4, <1>6, <1>7, <1>8

-----------------------------------------------------------------------------
(* The loop over the options. *)

\* What an option does to a message.
LEMMA OptionEffect ==
  ASSUME NEW m \in MessageType, NEW o \in Setter \cup {"BinaryTraceParent"} \cup Send,
         span \in [Send -> BOOLEAN]
  PROVE  LET r == AfterOption(m, o)
         IN  /\ r \in MessageType
             /\ r.body = m.body /\ r.contentType = m.contentType /\ r.type = m.type
             /\ \A f \in Field : r.fields[f] = IF o \in Setter /\ FieldOf[o] = f
                                               THEN o ELSE m.fields[f]
             /\ r.traceparent = IF o = "BinaryTraceParent" THEN "binary"
                                ELSE IF o \in Send /\ span[o] THEN o ELSE m.traceparent
  <1>1. CASE o \in Setter
    <2>1. o # "BinaryTraceParent" /\ o \notin Send /\ FieldOf[o] \in Field
      BY <1>1, Names, FieldOfSetter DEF Setter
    <2>2. AfterOption(m, o) = [m EXCEPT !.fields[FieldOf[o]] = o]
      BY <1>1, <2>1 DEF AfterOption
    <2> QED
      BY <1>1, <2>1, <2>2 DEF MessageType
  <1>2. CASE o = "BinaryTraceParent"
    <2>1. o \notin Setter /\ o \notin Send
      BY <1>2, Names DEF Setter, Custom
    <2>2. AfterOption(m, o) = [m EXCEPT !.traceparent = "binary"]
      BY <1>2, <2>1 DEF AfterOption
    <2> QED
      BY <1>2, <2>1, <2>2 DEF MessageType
  <1>3. CASE o \in Send
    <2>1. o \notin Setter /\ o # "BinaryTraceParent"
      BY <1>3, Names DEF Custom
    <2>2. AfterOption(m, o) = IF span[o] THEN [m EXCEPT !.traceparent = o] ELSE m
      BY <1>3, <2>1 DEF AfterOption, Inject
    <2> QED
      BY <1>3, <2>1, <2>2 DEF MessageType
  <1> QED
    BY <1>1, <1>2, <1>3

\* One more option of the slice.
LEMMA OneMoreOption ==
  ASSUME NEW n \in Nat \ {0}, NEW f \in Field, NEW v, Given \in Nat,
         LastBefore(n - 1, f, v)
  PROVE  LastBefore(n, f, IF n <= Given /\ Assigns(n, f) THEN options[n] ELSE v)
  <1>1. CASE n <= Given /\ Assigns(n, f)
    BY <1>1 DEF LastBefore
  <1>2. CASE ~(n <= Given /\ Assigns(n, f))
    BY <1>2 DEF LastBefore
  <1> QED
    BY <1>1, <1>2

LEMMA ApplyOptionInv ==
  ASSUME Inv, NEW c \in Send, ApplyOption(c)
  PROVE  Inv'
  <1> DEFINE o == Current(c)
             n == next[c]
             m == AfterOption(msg[c], o)
  <1>1. /\ pc[c] = "apply" /\ n <= slice[c].len /\ o # "Failing"
        /\ msg' = [msg EXCEPT ![c] = m] /\ next' = [next EXCEPT ![c] = n + 1]
        /\ UNCHANGED <<inputs, pc, array, slice, parent>>
    BY DEF ApplyOption, MoreOptions
  <1>2. /\ msg \in [Send -> MessageType] /\ next \in [Send -> Nat \ {0}]
        /\ Given \in Nat /\ slice[c].len \in Nat /\ span \in [Send -> BOOLEAN]
        /\ n \in Nat \ {0}
    <2>1. slice \in [Send -> [array : Send \cup {Shared}, len : Nat]]
      BY DEF Inv, Slices
    <2> QED
      BY <2>1 DEF Inv, Inputs, Slices, Progress, Given
  <1>3. /\ n <= Given => o = options[n] /\ o \in Option
        /\ n > Given => o \in Send
    BY <1>1, <1>2, WhatIsRead DEF Current
  <1>4. o \in Setter \cup {"BinaryTraceParent"} \cup Send
    BY <1>1, <1>2, <1>3, Names DEF Custom
  <1>5. /\ m \in MessageType
        /\ m.body = msg[c].body /\ m.contentType = msg[c].contentType
        /\ m.type = msg[c].type
        /\ \A f \in Field : m.fields[f] = IF o \in Setter /\ FieldOf[o] = f
                                          THEN o ELSE msg[c].fields[f]
    BY <1>2, <1>4, OptionEffect
  <1>6. AppliedBy(c)
    BY DEF Inv, Applied
  <1>7. \A f \in Field : LastBefore(n, f, m.fields[f])
    <2> TAKE f \in Field
    <2>1. LastBefore(n - 1, f, msg[c].fields[f])
      BY <1>1, <1>6 DEF AppliedBy
    <2>2. LastBefore(n, f, IF n <= Given /\ Assigns(n, f) THEN options[n]
                           ELSE msg[c].fields[f])
      BY <1>2, <2>1, OneMoreOption
    <2>3. m.fields[f] = IF n <= Given /\ Assigns(n, f) THEN options[n]
                        ELSE msg[c].fields[f]
      BY <1>2, <1>3, <1>5, Names DEF Assigns
    <2> QED
      BY <2>2, <2>3
  <1>8. \A k \in 1 .. Given : k < n + 1 => options[k] # "Failing"
    BY <1>1, <1>2, <1>3, <1>6 DEF AppliedBy
  <1> HIDE DEF m, o
  <1>9. (msg \in [Send -> MessageType])'
    BY <1>1, <1>2, <1>5
  <1>10. Inputs' /\ Arrays' /\ Parents'
    BY <1>1 DEF Inv, Inputs, Arrays, Parents, Given, inputs
  <1>11. Slices'
    BY <1>1 DEF Inv, Slices, AsGiven, InPlace, Copied, Given, inputs
  <1>12. Progress'
    BY <1>1, <1>2 DEF Inv, Progress, Place
  <1>13. AppliedBy(c)'
    <2>1. msg'[c] = m /\ next'[c] = n + 1 /\ pc'[c] = "apply"
      BY <1>1, <1>2
    <2>2. options' = options /\ body' = body /\ marshaller' = marshaller
      BY <1>1 DEF inputs
    <2>3. (n + 1) - 1 = n
      BY <1>2
    <2>4. \A f \in Field : LastBefore(next[c] - 1, f, msg[c].fields[f])'
      BY <1>7, <2>1, <2>2, <2>3 DEF LastBefore, Assigns, Given
    <2>5. \A k \in 1 .. Given' : k < next'[c] => options'[k] # "Failing"
      BY <1>8, <2>1, <2>2 DEF Given
    <2>6. msg'[c].body = body'[c] /\ msg'[c].contentType = marshaller'
          /\ msg'[c].type = "T"
      BY <1>1, <1>5, <1>6, <2>1, <2>2 DEF AppliedBy
    <2> QED
      BY <2>4, <2>5, <2>6 DEF AppliedBy
  <1>14. ASSUME NEW d \in Send, d # c
         PROVE  AppliedBy(d)'
    <2>1. msg'[d] = msg[d] /\ pc'[d] = pc[d] /\ next'[d] = next[d]
      BY <1>1, <1>2, <1>14
    <2>2. AppliedBy(d) /\ UNCHANGED inputs
      BY <1>1 DEF Inv, Applied
    <2> QED
      BY <2>1, <2>2, AppliedStays
  <1> QED
    BY <1>9, <1>10, <1>11, <1>12, <1>13, <1>14 DEF Inv, Applied

\* The message is sent.
LEMMA BuiltInv ==
  ASSUME Inv, NEW c \in Send, Built(c)
  PROVE  Inv'
  <1> USE DEF Built, inputs, Given
  <1>1. Inputs' /\ Arrays' /\ (msg \in [Send -> MessageType])'
    BY DEF Inv, Inputs, Arrays
  <1>2. Slices'
    BY DEF Inv, Slices, AsGiven, InPlace, Copied, Progress
  <1>3. Progress'
    <2>1. slice \in [Send -> [array : Send \cup {Shared}, len : Nat]]
      BY DEF Inv, Slices
    <2>2. /\ next[c] \in Nat /\ slice[c].len \in Nat /\ next[c] <= slice[c].len + 1
          /\ next[c] > slice[c].len
      BY <2>1 DEF Inv, Progress
    <2>3. next[c] = slice[c].len + 1
      BY <2>2
    <2>4. pc' = [pc EXCEPT ![c] = "sent"] /\ UNCHANGED <<next, slice>>
      OBVIOUS
    <2> QED
      BY <2>3, <2>4 DEF Inv, Progress, Place
  <1>4. Applied'
    <2>1. pc \in [Send -> Place] /\ Applied
      BY DEF Inv, Progress
    <2> QED
      BY <2>1, AppliedStays DEF Applied
  <1>5. Parents'
    BY DEF Inv, Parents, Progress
  <1> QED
    BY <1>1, <1>2, <1>3, <1>4, <1>5 DEF Inv

\* The receiver's middleware starts its span.
LEMMA HandleInv ==
  ASSUME Inv, NEW c \in Send, Handle(c)
  PROVE  Inv'
  <1> USE DEF Handle, inputs, Given
  <1>1. Inputs' /\ Arrays' /\ (msg \in [Send -> MessageType])'
    BY DEF Inv, Inputs, Arrays
  <1>2. Slices'
    BY DEF Inv, Slices, AsGiven, InPlace, Copied, Progress
  <1>3. Progress'
    BY DEF Inv, Progress, Place
  <1>4. Applied'
    <2>1. pc \in [Send -> Place] /\ Applied
      BY DEF Inv, Progress
    <2> QED
      BY <2>1, AppliedStays DEF Applied
  <1>5. Parents'
    <2>1. msg[c].traceparent \in Send \cup {NoTrace, "binary"}
      BY DEF Inv, MessageType
    <2>2. Extract(msg[c]) \in Send \cup {"local", "panicked"}
      BY <2>1 DEF Extract
    <2>3. parent' = [parent EXCEPT ![c] = Extract(msg[c])]
      OBVIOUS
    <2> QED
      BY <2>2, <2>3, Names DEF Inv, Parents, Progress
  <1> QED
    BY <1>1, <1>2, <1>3, <1>4, <1>5 DEF Inv

LEMMA NextInv == Inv /\ [Next]_vars => Inv'
  <1> SUFFICES ASSUME Inv, [Next]_vars PROVE Inv'
    OBVIOUS
  <1>1. ASSUME NEW c \in Send, MarshalFails(c) \/ MarshalPanics(c) \/ OptionFails(c)
        PROVE  Inv'
    BY <1>1, FailInv DEF MarshalFails, MarshalPanics, OptionFails, MoreOptions
  <1>2. CASE UNCHANGED vars
    BY <1>2 DEF vars, inputs, Inv, Inputs, Arrays, Slices, AsGiven, InPlace, Copied,
                Progress, Applied, AppliedBy, LastBefore, Assigns, Parents, Given
  <1> QED
    BY <1>1, <1>2, MarshalInv, AppendInv, ApplyOptionInv, BuiltInv, HandleInv
    DEF Next, ToServiceBusMessage

(***************************************************************************)
(* What ToServiceBusMessage reads of the option slice is what its caller   *)
(* passed, whatever other sends append to it.                              *)
(***************************************************************************)
THEOREM Invariance == Spec => []Inv
  BY InitInv, NextInv, PTL DEF Spec

\* In every state reached from Init, the loop over the options stays within the slice
\* and the slice within its array, and only a message that was built is handled.
THEOREM TypeCorrect == Spec => []TypeOK
  <1>1. Inv => TypeOK
    <2> SUFFICES ASSUME Inv PROVE TypeOK
      OBVIOUS
    <2>1. /\ slice \in [Send -> [array : Send \cup {Shared}, len : Nat]]
          /\ next \in [Send -> Nat \ {0}]
          /\ Given <= MaxOptions /\ MaxOptions \in Nat
      BY Names DEF Inv, Slices, Progress, Inputs
    <2>2. ASSUME NEW c \in Send
          PROVE  /\ slice[c] \in [array : Send \cup {Shared}, len : 0 .. MaxOptions + 1]
                 /\ next[c] \in 1 .. MaxOptions + 2
                 /\ slice[c].len <= Len(array[slice[c].array])
                 /\ next[c] <= slice[c].len + 1
      <3>1. /\ Given \in Nat /\ slice[c].len \in {Given, Given + 1}
            /\ slice[c].len <= Len(array[slice[c].array])
        BY WhatIsRead
      <3>2. next[c] <= slice[c].len + 1
        BY DEF Inv, Progress
      <3> QED
        BY <2>1, <3>1, <3>2
    <2> QED
      BY <2>1, <2>2 DEF TypeOK, Inv, Progress, Place, Parents
  <1> QED
    BY <1>1, Invariance, PTL

\* The greatest of a set of positions, if there is one.
LEMMA MaxIs ==
  ASSUME NEW S, S \subseteq Int, NEW k \in S, \A j \in S : k >= j
  PROVE  Max(S) = k
  <1>1. \A x \in S : (\A y \in S : x >= y) => x = k
    OBVIOUS
  <1> QED
    BY <1>1, Zenon DEF Max

\* Once the loop is past all options, every field is as the caller asked.
LEMMA LastIsRequested ==
  ASSUME Inv, NEW n \in Nat, n >= Given, NEW f \in Field, NEW v, LastBefore(n, f, v)
  PROVE  v = Requested(f)
  <1> DEFINE S == Positions({o \in Setter : FieldOf[o] = f})
  <1>1. Given \in Nat
    BY DEF Inv, Inputs, Given
  <1>2. S = {k \in 1 .. Given : Assigns(k, f)}
    BY DEF Positions, Assigns, Given
  <1>3. Requested(f) = IF S = {} THEN "unset" ELSE options[Max(S)]
    BY Zenon DEF Requested
  <1> HIDE DEF S
  <1>4. CASE v = "unset" /\ \A k \in 1 .. Given : k <= n => ~Assigns(k, f)
    <2>1. S = {}
      BY <1>1, <1>2, <1>4
    <2> QED
      BY <1>3, <1>4, <2>1
  <1>5. CASE \E k \in 1 .. Given :
               /\ k <= n /\ Assigns(k, f) /\ v = options[k]
               /\ \A j \in 1 .. Given : k < j /\ j <= n => ~Assigns(j, f)
    <2>1. PICK k \in 1 .. Given :
               /\ k <= n /\ Assigns(k, f) /\ v = options[k]
               /\ \A j \in 1 .. Given : k < j /\ j <= n => ~Assigns(j, f)
      BY <1>5
    <2>2. k \in S /\ S \subseteq Int /\ \A j \in S : k >= j
      BY <1>1, <1>2, <2>1
    <2>3. Max(S) = k
      BY <2>2, MaxIs
    <2> QED
      BY <1>3, <2>1, <2>2, <2>3
  <1> QED
    BY <1>4, <1>5 DEF LastBefore

\* However the sends interleave, and wherever append puts the tracing option: a
\* message on the bus has the body, the content type and the fields that the options
\* of its caller ask for, and none of these options failed.
THEOREM MessageAsAsked == Spec => []SentAsAsked
  <1>1. Inv => SentAsAsked
    <2> SUFFICES ASSUME Inv, NEW c \in Send, pc[c] \in {"sent", "handled"}
                 PROVE  /\ Positions({"Failing"}) = {}
                        /\ msg[c].body = body[c] /\ msg[c].contentType = marshaller
                        /\ msg[c].type = "T"
                        /\ \A f \in DOMAIN msg[c].fields : msg[c].fields[f] = Requested(f)
      BY DEF SentAsAsked, OnBus
    <2>1. /\ msg[c].body = body[c] /\ msg[c].contentType = marshaller /\ msg[c].type = "T"
          /\ \A k \in 1 .. Given : k < next[c] => options[k] # "Failing"
          /\ \A f \in Field : LastBefore(next[c] - 1, f, msg[c].fields[f])
      BY DEF Inv, Applied, AppliedBy
    <2>2. next[c] \in Nat \ {0} /\ Given \in Nat /\ next[c] >= Given + 1
      <3>1. Given \in Nat /\ slice[c].len \in {Given, Given + 1}
        BY WhatIsRead
      <3>2. next[c] \in Nat \ {0} /\ next[c] = slice[c].len + 1
        BY DEF Inv, Progress
      <3> QED
        BY <3>1, <3>2
    <2>3. Positions({"Failing"}) = {}
      BY <2>1, <2>2 DEF Positions, Given
    <2>4. next[c] - 1 \in Nat /\ next[c] - 1 >= Given
      BY <2>2
    <2>5. \A f \in Field : msg[c].fields[f] = Requested(f)
      BY <2>1, <2>4, LastIsRequested
    <2>6. DOMAIN msg[c].fields = Field
      BY DEF Inv, MessageType
    <2> QED
      BY <2>1, <2>3, <2>5, <2>6
  <1> QED
    BY <1>1, Invariance, PTL

-----------------------------------------------------------------------------
(***************************************************************************)
(* The trace of a message, when append must copy.  With spare capacity the *)
(* last element of the slice may be the tracing option of another send,    *)
(* and TraceIsOwn does not hold (configuration Message_shared_slice).      *)
(***************************************************************************)
TraceOf(c) ==
  /\ msg[c].traceparent \in {NoTrace, "binary", c}
  /\ tracing /\ span[c] /\ next[c] = Given + 2 => msg[c].traceparent = c
  /\ pc[c] = "handled" => parent[c] = Extract(msg[c])

OwnTrace == \A c \in Send : TraceOf(c)

LEMMA InitTrace == Init => OwnTrace
  <1> SUFFICES ASSUME Init, NEW c \in Send PROVE TraceOf(c)
    BY DEF OwnTrace
  <1>1. Given \in Nat
    BY InitInv DEF Inv, Inputs, Given
  <1> QED
    BY <1>1 DEF Init, TraceOf, NoMessage

LEMMA NextTrace ==
  SpareCapacity = 0 /\ Inv /\ OwnTrace /\ [Next]_vars => OwnTrace'
  <1> SUFFICES ASSUME SpareCapacity = 0, Inv, OwnTrace, [Next]_vars PROVE OwnTrace'
    OBVIOUS
  <1>1. /\ Given \in Nat /\ msg \in [Send -> MessageType] /\ next \in [Send -> Nat \ {0}]
        /\ pc \in [Send -> Place] /\ DOMAIN parent = Send
    BY DEF Inv, Inputs, Progress, Parents, Given
  <1>2. ASSUME NEW d \in Send, UNCHANGED inputs, msg'[d] = msg[d], next'[d] = next[d],
               parent'[d] = parent[d], pc'[d] = "handled" => pc[d] = "handled"
        PROVE  TraceOf(d)'
    <2>1. TraceOf(d) /\ UNCHANGED <<tracing, span, options>>
      BY <1>2 DEF OwnTrace, inputs
    <2> QED
      BY <1>2, <2>1 DEF TraceOf, Given, Extract
  <1>3. CASE UNCHANGED vars
    BY <1>2, <1>3 DEF vars, OwnTrace
  <1>4. ASSUME NEW c \in Send, NEW p \in Place \ {"handled"},
               pc' = [pc EXCEPT ![c] = p], UNCHANGED <<inputs, msg, next, parent>>
        PROVE  OwnTrace'
    BY <1>1, <1>2, <1>4 DEF OwnTrace
  <1>5. ASSUME NEW c \in Send,
               \/ MarshalFails(c) \/ MarshalPanics(c) \/ OptionFails(c)
               \/ AppendTracing(c) \/ NoTracing(c) \/ Built(c)
        PROVE  OwnTrace'
    <2>1. PICK p \in Place \ {"handled"} :
            pc' = [pc EXCEPT ![c] = p] /\ UNCHANGED <<inputs, msg, next, parent>>
      BY <1>5, Zenon
      DEF MarshalFails, MarshalPanics, OptionFails, Fail, AppendTracing, NoTracing,
          Built, Place
    <2> QED
      BY <1>4, <2>1
  <1>6. ASSUME NEW c \in Send, Marshal(c)
        PROVE  OwnTrace'
    <2>1. next[c] = 1
      BY <1>6 DEF Marshal, Inv, Progress
    <2>2. /\ msg'[c].traceparent = NoTrace /\ next'[c] = 1 /\ pc'[c] = "append"
          /\ UNCHANGED inputs
      BY <1>1, <1>6, <2>1 DEF Marshal, NoMessage
    <2>3. TraceOf(c)'
      BY <1>1, <2>2 DEF TraceOf, Given, inputs
    <2>4. \A d \in Send : d # c => TraceOf(d)'
      BY <1>1, <1>2, <1>6 DEF Marshal
    <2> QED
      BY <2>3, <2>4 DEF OwnTrace
  <1>7. ASSUME NEW c \in Send, ApplyOption(c)
        PROVE  OwnTrace'
    <2> DEFINE o == Current(c)
               n == next[c]
               m == AfterOption(msg[c], o)
    <2>1. /\ pc[c] = "apply" /\ n <= slice[c].len /\ o # "Failing"
          /\ msg' = [msg EXCEPT ![c] = m] /\ next' = [next EXCEPT ![c] = n + 1]
          /\ UNCHANGED <<inputs, pc, array, slice, parent>>
      BY <1>7 DEF ApplyOption, MoreOptions
    <2>2. /\ slice[c].len \in {Given, Given + 1}
          /\ n <= Given => o \in Option
          /\ n > Given => o = c /\ n = Given + 1
      BY <1>1, <2>1, WhatIsRead DEF Current
    <2>3. o \in Setter \cup {"BinaryTraceParent"} \cup Send /\ n \in Nat
      BY <1>1, <2>1, <2>2, Names DEF Custom
    <2>4. m.traceparent = IF o = "BinaryTraceParent" THEN "binary"
                          ELSE IF o \in Send /\ span[o] THEN o ELSE msg[c].traceparent
      BY <1>1, <2>3, OptionEffect DEF Inv, Inputs
    <2>5. o \in Send => o = c
      BY <1>1, <2>2, <2>3, Names DEF Custom
    <2>6. c # "BinaryTraceParent" /\ TraceOf(c) /\ UNCHANGED <<tracing, span, options>>
      BY <2>1, Names DEF Custom, OwnTrace, inputs
    <2> HIDE DEF m, o
    <2>7. msg'[c] = m /\ next'[c] = n + 1 /\ pc'[c] = "apply"
      BY <1>1, <2>1
    <2>8. m.traceparent \in {NoTrace, "binary", c}
      BY <2>4, <2>5, <2>6 DEF TraceOf
    <2>9. span[c] /\ n + 1 = Given + 2 => m.traceparent = c
      BY <1>1, <2>2, <2>3, <2>4, <2>6
    <2>10. TraceOf(c)'
      BY <2>6, <2>7, <2>8, <2>9 DEF TraceOf, Given
    <2>11. \A d \in Send : d # c => TraceOf(d)'
      BY <1>1, <1>2, <2>1
    <2> QED
      BY <2>10, <2>11 DEF OwnTrace
  <1>8. ASSUME NEW c \in Send, Handle(c)
        PROVE  OwnTrace'
    <2>1. /\ parent' = [parent EXCEPT ![c] = Extract(msg[c])]
          /\ pc' = [pc EXCEPT ![c] = "handled"]
          /\ UNCHANGED <<inputs, array, slice, next, msg>>
      BY <1>8 DEF Handle
    <2>2. TraceOf(c)'
      <3>1. TraceOf(c) /\ parent'[c] = Extract(msg[c])
            /\ UNCHANGED <<tracing, span, options>>
        BY <1>1, <2>1 DEF OwnTrace, inputs
      <3> QED
        BY <2>1, <3>1 DEF TraceOf, Given, Extract
    <2>3. \A d \in Send : d # c => TraceOf(d)'
      BY <1>1, <1>2, <2>1
    <2> QED
      BY <2>2, <2>3 DEF OwnTrace
  <1> QED
    BY <1>3, <1>5, <1>6, <1>7, <1>8 DEF Next, ToServiceBusMessage

\* If append has no room to write in place, the handler of a message continues the
\* trace of the send of that message, if there is one, whatever the user's options
\* wrote, and never that of another send.
THEOREM TraceStaysOwn == SpareCapacity = 0 => (Spec => []TraceIsOwn)
  <1> SUFFICES ASSUME SpareCapacity = 0 PROVE Spec => []TraceIsOwn
    OBVIOUS
  <1>1. Inv /\ OwnTrace => TraceIsOwn
    <2> SUFFICES ASSUME Inv, OwnTrace, NEW c \in Send
                 PROVE  /\ tracing /\ span[c] /\ pc[c] = "handled" => parent[c] = c
                        /\ parent[c] \in Send => parent[c] = c
      BY DEF TraceIsOwn, TracePropagated
    <2>1. TraceOf(c) /\ (parent[c] # "unknown" => pc[c] = "handled")
      BY DEF OwnTrace, Inv, Parents
    <2>2. tracing /\ pc[c] = "handled" => next[c] = Given + 2
      <3> SUFFICES ASSUME tracing, pc[c] = "handled" PROVE next[c] = Given + 2
        OBVIOUS
      <3>1. Given \in Nat /\ slice[c].len = Given + 1
        BY WhatIsRead
      <3>2. next[c] = slice[c].len + 1
        BY DEF Inv, Progress
      <3> QED
        BY <3>1, <3>2
    <2> QED
      BY <2>1, <2>2, Names DEF TraceOf, Extract
  <1>2. OwnTrace /\ Inv /\ [Next]_vars => OwnTrace'
    BY NextTrace
  <1> QED
    BY <1>1, <1>2, InitTrace, Invariance, PTL DEF Spec

=============================================================================
