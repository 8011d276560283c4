----------------------------- MODULE WorkerPool -----------------------------
(***************************************************************************)
(* What the message pump of go-shuttle promises its user, without saying   *)
(* how: a delivery handed to the handler occupies one of Size slots, each  *)
(* delivery is handled at most once, and a slot that was given back is     *)
(* never taken again on behalf of the same delivery.  Processor.tla is     *)
(* shown to implement this specification.                                  *)
(***************************************************************************)
EXTENDS Integers, FiniteSets

CONSTANTS
  Job,    \* the deliveries
  Size    \* the number of slots: ProcessorOptions.MaxConcurrency

VARIABLES
  active,    \* jobs that occupy a slot
  finished   \* jobs that gave their slot back

poolVars == <<active, finished>>

PoolInit == active = {} /\ finished = {}

\* A new job takes a free slot.
Admit(j) ==
  /\ j \notin active \cup finished
  /\ Cardinality(active) < Size
  /\ active' = active \cup {j}
  /\ UNCHANGED finished

\* A job gives its slot back.
Retire(j) ==
  /\ j \in active
  /\ active' = active \ {j}
  /\ finished' = finished \cup {j}

PoolNext == \E j \in Job : Admit(j) \/ Retire(j)

PoolSpec == PoolInit /\ [][PoolNext]_poolVars

=============================================================================
