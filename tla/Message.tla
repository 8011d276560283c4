------------------------------- MODULE Message -------------------------------
(***************************************************************************)
(* What becomes of a message body on its way through the library:          *)
(* ToServiceBusMessage with the marshallers and the message options        *)
(* (v2/sender.go, v2/marshaller.go), and on the other side the tracing     *)
(* middleware (v2/tracing.go, v2/otel/otel.go).                            *)
(*                                                                         *)
(* Several goroutines send through one Sender with the same option slice,  *)
(* `opts...': they share its backing array.  append writes into that array *)
(* when it has room for one more, and copies it when it has not.           *)
(*                                                                         *)
(* A body is its shape; an encoded body remembers which codec wrote it;    *)
(* the value an option gives a field is the option's name.                 *)
(***************************************************************************)
EXTENDS Integers, Sequences, SequencesExt

CONSTANTS
  Send,           \* the calls of SendMessage
  Option,         \* the options the callers draw from
  MaxOptions,     \* bound on the length of the option slice
  SpareCapacity   \* cap(opts) - len(opts)

Setter == {"SetMessageId", "SetCorrelationId", "SetScheduleAt", "SetMessageDelay",
           "SetMessageTTL", "SetSubject", "SetTo"}

\* Options of the user: one that writes a trace property which is not a string,
\* one that returns an error.
Custom == {"BinaryTraceParent", "Failing"}

ASSUME MessageAssumption ==
  /\ Option \subseteq Setter \cup Custom
  /\ MaxOptions \in Nat /\ SpareCapacity \in Nat

\* A trace context: that of the span of a send, or none.
NoTrace == "none"

\* A send is none of the other things that stand in an option slice, in the trace
\* property of a message or for the parent of a span.
ASSUME SendAssumption ==
  Send \cap (Setter \cup Custom
             \cup {"shared", "nil", NoTrace, "binary", "unknown", "local", "panicked"}) = {}

\* What the user passes as the body: nil, a struct value, a pointer to a protobuf
\* message, a nil pointer to one, a value that cannot be encoded.
Body == {"nil", "struct", "protoPointer", "nilProtoPointer", "channel"}

VARIABLES
  marshaller,  \* SenderOptions.Marshaller, fixed
  tracing,     \* SenderOptions.EnableTracingPropagation, fixed
  options,     \* the option slice that the callers share, fixed
  body,        \* the argument of each send, fixed
  span,        \* the trace context in the context of each send, fixed
  pc,          \* where each send is
  array,       \* the backing arrays: the shared one and one per send
  slice,       \* the local slice of each send: its array and its length
  next,        \* the loop variable over the options
  msg,         \* the message under construction, then on the bus
  parent       \* the parent of the span that the receiver's middleware starts

inputs == <<marshaller, tracing, options, body, span>>

vars == <<inputs, pc, array, slice, next, msg, parent>>

Shared == "shared"

Field == {"MessageID", "CorrelationID", "ScheduledEnqueueTime", "TimeToLive", "Subject",
          "To"}

NoMessage == [body |-> "none", contentType |-> "none", type |-> "none",
              traceparent |-> NoTrace, fields |-> [f \in Field |-> "unset"]]

Init ==
  /\ marshaller \in {"json", "proto"}
  /\ tracing \in BOOLEAN
  /\ options \in SeqOf(Option, MaxOptions)
  /\ body \in [Send -> Body]
  /\ span \in [Send -> BOOLEAN]
  /\ pc = [c \in Send |-> "marshal"]
  /\ array = [a \in Send \cup {Shared} |->
                IF a = Shared THEN options \o [k \in 1 .. SpareCapacity |-> "nil"]
                ELSE <<>>]
  /\ slice = [c \in Send |-> [array |-> Shared, len |-> Len(options)]]
  /\ next = [c \in Send |-> 1]
  /\ msg = [c \in Send |-> NoMessage]
  /\ parent = [c \in Send |-> "unknown"]

-----------------------------------------------------------------------------
(* Marshalling *)

IsProto(b) == b \in {"protoPointer", "nilProtoPointer"}

Marshals(b) == IF marshaller = "proto" THEN IsProto(b) ELSE b # "channel"

\* getMessageType: the name of the type of the body, or of what it points to.
TypeName(b) == "T"

\* reflect.Value.Type panics on the zero Value that nil and a nil pointer lead to.
HasTypeName(b) == b \notin {"nil", "nilProtoPointer"}

Fail(c, how) ==
  /\ pc' = [pc EXCEPT ![c] = how]
  /\ UNCHANGED <<inputs, array, slice, next, msg, parent>>

\* The first lines of ToServiceBusMessage.
Marshal(c) ==
  /\ pc[c] = "marshal"
  /\ Marshals(body[c]) /\ HasTypeName(body[c])
  /\ pc' = [pc EXCEPT ![c] = "append"]
  /\ msg' = [msg EXCEPT ![c] = [NoMessage EXCEPT !.body = body[c],
                                                 !.contentType = marshaller,
                                                 !.type = TypeName(body[c])]]
  /\ UNCHANGED <<inputs, array, slice, next, parent>>

MarshalFails(c) ==
  pc[c] = "marshal" /\ ~Marshals(body[c]) /\ Fail(c, "failed")

MarshalPanics(c) ==
  /\ pc[c] = "marshal"
  /\ Marshals(body[c]) /\ ~HasTypeName(body[c])
  /\ Fail(c, "panicked")

-----------------------------------------------------------------------------
(* The options.  A member c of Send among them is WithTracePropagation of  *)
(* the context of c.                                                       *)

\* Seeded fault: append adds to the front of the slice.
AppendedFirst(c) == <<c>> \o options

\* What append puts into a new array when the old one is full.
Appended(c) == Append(options, c)

\* options = append(options, WithTracePropagation(ctx))
AppendTracing(c) ==
  /\ pc[c] = "append"
  /\ tracing
  /\ IF SpareCapacity > 0
     THEN /\ array' = [array EXCEPT ![Shared][Len(options) + 1] = c]
          /\ slice' = [slice EXCEPT ![c].len = @ + 1]
     ELSE /\ array' = [array EXCEPT ![c] = Appended(c)]
          /\ slice' = [slice EXCEPT ![c] = [array |-> c, len |-> Len(options) + 1]]
  /\ pc' = [pc EXCEPT ![c] = "apply"]
  /\ UNCHANGED <<inputs, next, msg, parent>>

NoTracing(c) ==
  /\ pc[c] = "append"
  /\ ~tracing
  /\ pc' = [pc EXCEPT ![c] = "apply"]
  /\ UNCHANGED <<inputs, array, slice, next, msg, parent>>

\* The field of the message that an option assigns.
FieldOf ==
  [SetMessageId |-> "MessageID", SetCorrelationId |-> "CorrelationID",
   SetScheduleAt |-> "ScheduledEnqueueTime", SetMessageDelay |-> "ScheduledEnqueueTime",
   SetMessageTTL |-> "TimeToLive", SetSubject |-> "Subject", SetTo |-> "To"]

\* Inject writes nothing if the context carries no valid span.
Inject(m, c) == IF span[c] THEN [m EXCEPT !.traceparent = c] ELSE m

\* Seeded fault: a field that is set stays as it is.
AfterOptionIfUnset(m, o) ==
  IF o \in Setter /\ m.fields[FieldOf[o]] = "unset"
  THEN [m EXCEPT !.fields[FieldOf[o]] = o]
  ELSE m

AfterOption(m, o) ==
  CASE o \in Setter              -> [m EXCEPT !.fields[FieldOf[o]] = o]
    [] o = "BinaryTraceParent"   -> [m EXCEPT !.traceparent = "binary"]
    [] o \in Send                -> Inject(m, o)

\* The element of the backing array that the loop reads now.
Current(c) == array[slice[c].array][next[c]]

MoreOptions(c) == pc[c] = "apply" /\ next[c] <= slice[c].len

ApplyOption(c) ==
  /\ MoreOptions(c)
  /\ Current(c) # "Failing"
  /\ msg' = [msg EXCEPT ![c] = AfterOption(@, Current(c))]
  /\ next' = [next EXCEPT ![c] = @ + 1]
  /\ UNCHANGED <<inputs, pc, array, slice, parent>>

\* An option returns an error: no message is built.
OptionFails(c) == MoreOptions(c) /\ Current(c) = "Failing" /\ Fail(c, "failed")

\* The message is built, and sent (see module Sender).
Built(c) ==
  /\ pc[c] = "apply"
  /\ next[c] > slice[c].len
  /\ pc' = [pc EXCEPT ![c] = "sent"]
  /\ UNCHANGED <<inputs, array, slice, next, msg, parent>>

-----------------------------------------------------------------------------
(* NewTracingHandler, on the receiving side. *)

\* Seeded fault: without a trace context in the message there is no context at all.
ExtractOrNothing(m) == IF m.traceparent = NoTrace THEN "unknown" ELSE m.traceparent

\* The trace context of the message if it has one, else that of the receiver; a
\* property that is not a string makes the type assertion of Get panic.
Extract(m) ==
  CASE m.traceparent = NoTrace  -> "local"
    [] m.traceparent = "binary" -> "panicked"
    [] OTHER                    -> m.traceparent

Handle(c) ==
  /\ pc[c] = "sent"
  /\ pc' = [pc EXCEPT ![c] = "handled"]
  /\ parent' = [parent EXCEPT ![c] = Extract(msg[c])]
  /\ UNCHANGED <<inputs, array, slice, next, msg>>

-----------------------------------------------------------------------------
ToServiceBusMessage(c) ==
  Marshal(c) \/ MarshalFails(c) \/ MarshalPanics(c) \/ AppendTracing(c) \/ NoTracing(c)
  \/ ApplyOption(c) \/ OptionFails(c) \/ Built(c)

Next == \E c \in Send : ToServiceBusMessage(c) \/ Handle(c)

Spec == Init /\ [][Next]_vars

-----------------------------------------------------------------------------
(* Properties *)

\* The variables have their types; the loop stays within the slice and the slice
\* within its array; only a message that was built is handled.
TypeOK ==
  /\ pc \in [Send -> {"marshal", "append", "apply", "sent", "handled", "failed",
                      "panicked"}]
  /\ slice \in [Send -> [array : Send \cup {Shared}, len : 0 .. MaxOptions + 1]]
  /\ next \in [Send -> 1 .. MaxOptions + 2]
  /\ parent \in [Send -> Send \cup {"unknown", "local", "panicked"}]
  /\ \A c \in Send :
       /\ slice[c].len <= Len(array[slice[c].array])
       /\ next[c] <= slice[c].len + 1
       /\ parent[c] # "unknown" <=> pc[c] = "handled"

Positions(S) == {k \in 1 .. Len(options) : options[k] \in S}

\* What the caller asked for: of the options that assign a field, the last.
Requested(field) ==
  LET setters == Positions({o \in Setter : FieldOf[o] = field})
  IN  IF setters = {} THEN "unset" ELSE options[Max(setters)]

OnBus(c) == pc[c] \in {"sent", "handled"}

\* Whatever the other sends do meanwhile, a message that reaches the bus has its
\* caller's body, encoded as its content type says, the name of the body's type,
\* and every field as the last option that assigns it left it; and no message
\* reaches the bus when one of its options failed.
SentAsAsked ==
  \A c \in Send : OnBus(c) =>
    /\ Positions({"Failing"}) = {}
    /\ msg[c].body = body[c] /\ msg[c].contentType = marshaller /\ msg[c].type = "T"
    /\ \A f \in DOMAIN msg[c].fields : msg[c].fields[f] = Requested(f)

\* "EnableTracingPropagation automatically applies WithTracePropagation option on
\* all message sent through this sender": the handler of a message that was sent
\* within a trace continues that trace, whatever the other options wrote.
TracePropagated ==
  \A c \in Send : tracing /\ span[c] /\ pc[c] = "handled" => parent[c] = c

\* Moreover, a message sent outside any trace never joins that of another send.
TraceIsOwn ==
  /\ TracePropagated
  /\ \A c \in Send : parent[c] \in Send => parent[c] = c

=============================================================================
