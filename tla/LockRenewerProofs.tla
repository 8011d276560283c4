-------------------------- MODULE LockRenewerProofs --------------------------
(***************************************************************************)
(* Proofs about the lock renewal of one delivery: the stop signal is never *)
(* lost, renewal is not given up for an error that may pass, and at most   *)
(* one renewal call begins after the end of the message context.           *)
(***************************************************************************)
EXTENDS LockRenewer, TLAPS

(***************************************************************************)
(* The inductive invariant.  StopNotLost needs that the signal waits for a *)
(* renewer that has not started (SignalWaits); NoEarlyExit needs the whole *)
(* course of the renewer while the handler runs (RunningCourse).           *)
(* OneLateCall needs that the only late call is the one that the renewer   *)
(* was about to make when the context ended (LateCourse), and that a       *)
(* handler's stop that returned has ended it (ContextCancelled).           *)
(***************************************************************************)
SignalWaits == HandlerStopped /\ pc["renewer"] = "created" => stopped = 1

Cause == err \in {"permanent", "context"} \/ ctxErr # "nil"

RunningCourse ==
  pc["handler"] = "running" =>
    \/ pc["renewer"] = "created" /\ stopped = 0
    \/ alive /\ stopped = 0 /\ pc["renewer"] \in {"head", "select", "renew",
         "retry", "ready", "call"}
    \/ Cause /\ stopped = 0 /\ pc["renewer"] = "store"
    \/ Cause /\ ~alive /\ pc["renewer"] \in {"check", "send", "cancel", "head",
         "exited"}

ContextCancelled == cancelOnStop /\ pc["handler"] = "done" => ctxErr # "nil"

LateCourse ==
  /\ lateCalls <= 1
  /\ lateCalls = 1 => ctxErr # "nil" /\ pc["renewer"] # "ready"

Inv == /\ TypeOK /\ StopNotLost /\ SignalWaits /\ RunningCourse /\ ContextCancelled
       /\ LateCourse

LEMMA InitInv == Init => Inv
  <1> SUFFICES ASSUME Init PROVE Inv
    OBVIOUS
  <1>1. TypeOK
    <2>1. alive \in BOOLEAN /\ settled \in BOOLEAN /\ cancelOnStop \in BOOLEAN
      BY Zenon DEF Init
    <2> QED
      BY <2>1 DEF Init, TypeOK, Goroutine, HandlerState, RenewerState, StopState
  <1>2. StopNotLost /\ SignalWaits /\ RunningCourse /\ ContextCancelled /\ LateCourse
    BY DEF Init, StopNotLost, SignalWaits, RunningCourse, ContextCancelled,
           LateCourse, HandlerStopped, Goroutine
  <1> QED
    BY <1>1, <1>2 DEF Inv

\* Steps of the environment change neither goroutine.
LEMMA EnvInv == ASSUME Inv, EnvNext PROVE Inv'
  <1>1. /\ pc' = pc /\ alive' = alive /\ stopped' = stopped /\ err' = err
        /\ settled' = settled /\ lateCalls' = lateCalls /\ cancelOnStop' = cancelOnStop
        /\ ctxErr # "nil" => ctxErr' # "nil"
    BY DEF EnvNext, ParentDone, ProcessorCancels, DeliveryOver, LockExpires, rest
  <1>2. /\ ctxErr' \in {"nil", "Canceled", "DeadlineExceeded"}
        /\ lock' \in {"none", "held", "expired"}
    BY DEF Inv, TypeOK, EnvNext, ParentDone, ProcessorCancels, DeliveryOver, LockExpires, rest
  <1>3. TypeOK'
    BY <1>1, <1>2 DEF Inv, TypeOK
  <1>4. (StopNotLost /\ SignalWaits /\ RunningCourse /\ ContextCancelled /\ LateCourse)'
    BY <1>1 DEF Inv, StopNotLost, SignalWaits, RunningCourse, ContextCancelled,
                LateCourse, HandlerStopped, Cause
  <1> QED
    BY <1>3, <1>4 DEF Inv

\* The steps of the handler's goroutine.
LEMMA HandlerInv == ASSUME Inv, HandlerNext PROVE Inv'
  <1> USE DEF Goto, Goroutine, HandlerState, RenewerState, StopState, rest
  <1>1. TypeOK'
    <2>1. alive' \in BOOLEAN /\ settled' \in BOOLEAN /\ cancelOnStop' \in BOOLEAN
      BY Zenon DEF Inv, TypeOK, HandlerNext, HandlerSettles, HandlerReturns,
          HandlerPanics, Stop, StopStore, StopCheck, SignalDue, StopSend,
          SlotFree, StopCancel, StopErr
    <2> QED
      BY <2>1 DEF Inv, TypeOK, HandlerNext, HandlerSettles, HandlerReturns,
          HandlerPanics, Stop, StopStore, StopCheck, SignalDue, StopSend,
          SlotFree, StopCancel, StopErr
  <1>2. StopNotLost' /\ SignalWaits'
    BY DEF Inv, TypeOK, StopNotLost, SignalWaits, HandlerStopped, HandlerNext,
           HandlerSettles, HandlerReturns, HandlerPanics,
           Stop, StopStore, StopCheck, SignalDue, StopSend, SlotFree,
           StopCancel, StopErr
  <1>3. RunningCourse' /\ ContextCancelled' /\ LateCourse'
    BY DEF Inv, TypeOK, RunningCourse, ContextCancelled, LateCourse, Cause, HandlerNext,
           HandlerSettles, HandlerReturns, HandlerPanics,
           Stop, StopStore, StopCheck, SignalDue, StopSend, SlotFree,
           StopCancel, StopErr
  <1> QED
    BY <1>1, <1>2, <1>3 DEF Inv

\* The renewer's steps in the loop and in stop.
LEMMA LoopInv ==
  ASSUME Inv, \/ RenewerStart \/ LoopHead \/ SelectTick \/ SelectDone
              \/ SelectStopped \/ ClearAlive \/ Stop("renewer")
  PROVE  Inv'
  <1> USE DEF Goto, Goroutine, HandlerState, RenewerState, StopState, rest
  <1>1. TypeOK'
    <2>1. alive' \in BOOLEAN /\ settled' \in BOOLEAN /\ cancelOnStop' \in BOOLEAN
      BY Zenon DEF Inv, TypeOK, RenewerStart, LoopHead, SelectTick, SelectDone,
          SelectStopped, ClearAlive, Stop, StopStore, StopCheck, SignalDue,
          StopSend, SlotFree, StopCancel, StopErr
    <2> QED
      BY <2>1 DEF Inv, TypeOK, RenewerStart, LoopHead, SelectTick, SelectDone,
          SelectStopped, ClearAlive, Stop, StopStore, StopCheck, SignalDue,
          StopSend, SlotFree, StopCancel, StopErr
  <1>2. StopNotLost' /\ SignalWaits'
    BY DEF Inv, TypeOK, StopNotLost, SignalWaits, HandlerStopped,
           RenewerStart, LoopHead, SelectTick, SelectDone, SelectStopped,
           ClearAlive, Stop, StopStore, StopCheck, SignalDue, StopSend,
           SlotFree, StopCancel, StopErr
  <1>3. RunningCourse' /\ ContextCancelled' /\ LateCourse'
    BY DEF Inv, TypeOK, RunningCourse, ContextCancelled, LateCourse, Cause,
           RenewerStart, LoopHead, SelectTick, SelectDone, SelectStopped,
           ClearAlive, Stop, StopStore, StopCheck, SignalDue, StopSend,
           SlotFree, StopCancel, StopErr
  <1> QED
    BY <1>1, <1>2, <1>3 DEF Inv

\* The renewer's steps in renewMessageLock.
LEMMA RenewInv ==
  ASSUME Inv, RenewCheck \/ RetryLoop \/ RenewCall \/ RenewGivesUp \/ CallReturns
  PROVE  Inv'
  <1> USE DEF Goto, Goroutine, HandlerState, RenewerState, StopState, rest
  <1>1. TypeOK'
    BY DEF Inv, TypeOK, RenewCheck, RetryLoop, MayCall, RenewCall, ContextOver, RenewGivesUp, CallReturns,
           CallSucceeds, CallTimesOut, CallFails, ReturnRenew, IsFinal
  <1>2. StopNotLost' /\ SignalWaits'
    BY DEF Inv, TypeOK, StopNotLost, SignalWaits, HandlerStopped,
           RenewCheck, RetryLoop, MayCall, RenewCall, ContextOver, RenewGivesUp, CallReturns,
           CallSucceeds, CallTimesOut, CallFails, ReturnRenew, IsFinal
  <1>3. RunningCourse' /\ ContextCancelled' /\ LateCourse'
    BY DEF Inv, TypeOK, RunningCourse, ContextCancelled, LateCourse, Cause,
           RenewCheck, RetryLoop, MayCall, RenewCall, ContextOver, RenewGivesUp, CallReturns,
           CallSucceeds, CallTimesOut, CallFails, ReturnRenew, IsFinal
  <1> QED
    BY <1>1, <1>2, <1>3 DEF Inv

LEMMA NextInv == Inv /\ [Next]_vars => Inv'
  <1> SUFFICES ASSUME Inv, [Next]_vars PROVE Inv'
    OBVIOUS
  <1>1. CASE HandlerNext
    BY <1>1, HandlerInv
  <1>2. CASE RenewerNext
    BY <1>2, LoopInv, RenewInv DEF RenewerNext, RenewerStep
  <1>3. CASE EnvNext
    BY <1>3, EnvInv
  <1>4. CASE UNCHANGED vars
    BY <1>4 DEF vars, rest, Inv, TypeOK, StopNotLost, SignalWaits, RunningCourse,
                ContextCancelled, LateCourse, HandlerStopped, Cause
  <1> QED
    BY <1>1, <1>2, <1>3, <1>4 DEF Next

\* Flag, channel and context of a renewer stay in step with its two goroutines,
\* although they are updated one at a time.
THEOREM Invariance == Spec => []Inv
  BY InitInv, NextInv, PTL DEF Spec

\* The stop channel never holds more than its one slot, however the two calls of
\* stop meet, and every variable keeps its type.
THEOREM ChannelTyped == Spec => []TypeOK
  <1>1. Inv => TypeOK
    BY DEF Inv
  <1> QED
    BY <1>1, Invariance, PTL

-----------------------------------------------------------------------------
\* The stop signal waits for a renewer that thinks it is alive, in whatever order
\* the goroutines started and stopped.
THEOREM SignalNotLost == Spec => []StopNotLost
  <1>1. Inv => StopNotLost
    BY DEF Inv
  <1> QED
    BY <1>1, Invariance, PTL

\* Renewal is not given up during handling because of an error that may pass.
THEOREM GivesUpForCause == Spec => []NoEarlyExit
  <1>1. Inv => NoEarlyExit
    BY DEF Inv, RunningCourse, NoEarlyExit, Cause
  <1> QED
    BY <1>1, Invariance, PTL

\* At most one renewal call begins after the message context has ended, however
\* the two goroutines, the timeouts and the end of the context interleave.
THEOREM LateCallsBounded == Spec => []OneLateCall
  <1>1. Inv => OneLateCall
    BY DEF Inv, LateCourse, OneLateCall
  <1> QED
    BY <1>1, Invariance, PTL

-----------------------------------------------------------------------------
(***************************************************************************)
(* Refinement: the safety part of ImplementsKeeper.  On top of Inv it      *)
(* needs the course of the two calls of stop (StopCourse): the renewer's   *)
(* stop leaves alive lowered, so it leads out of the loop, and a handler   *)
(* that finds the slot taken at its send is blocked for good, because the  *)
(* only goroutine that could empty the slot is on its way out.             *)
(***************************************************************************)
StopCourse ==
  /\ pc["renewer"] \in {"check", "send", "cancel"} => ~alive
  /\ pc["handler"] = "send" /\ stopped = 1
       => ~alive /\ pc["renewer"] \in {"cancel", "head", "exited"}

LEMMA InitCourse == Init => StopCourse
  BY DEF Init, StopCourse, Goroutine

LEMMA NextCourse == Inv /\ StopCourse /\ [Next]_vars => StopCourse'
  <1> SUFFICES ASSUME Inv, StopCourse, [Next]_vars PROVE StopCourse'
    OBVIOUS
  <1> USE DEF Inv, TypeOK, StopCourse, Goto, Goroutine, rest
  <1>1. CASE HandlerNext
    BY <1>1 DEF HandlerNext, HandlerSettles, HandlerReturns, HandlerPanics, Stop,
                StopStore, StopCheck, SignalDue, StopSend, SlotFree, StopCancel
  <1>2. CASE \/ RenewerStart \/ LoopHead \/ SelectTick \/ SelectDone
             \/ SelectStopped \/ ClearAlive \/ Stop("renewer")
    BY <1>2 DEF RenewerStart, LoopHead, SelectTick, SelectDone, SelectStopped,
                ClearAlive, Stop, StopStore, StopCheck, SignalDue, StopSend,
                SlotFree, StopCancel
  <1>3. CASE RenewCheck \/ RetryLoop \/ RenewCall \/ RenewGivesUp \/ CallReturns
    BY <1>3 DEF RenewCheck, RetryLoop, MayCall, RenewCall, ContextOver, RenewGivesUp, CallReturns, CallSucceeds,
                CallTimesOut, CallFails, ReturnRenew
  <1>4. CASE EnvNext \/ UNCHANGED vars
    BY <1>4 DEF EnvNext, ParentDone, ProcessorCancels, LockExpires, vars
  <1> QED
    BY <1>1, <1>2, <1>3, <1>4 DEF Next, RenewerNext, RenewerStep

\* Of the two calls of stop at most one blocks on the channel: the handler and the
\* renewer never wait for each other.
THEOREM OneStopGetsThrough == Spec => []~(HandlerAt = "blocked" /\ RenewerAt = "blocked")
  <1>1. StopCourse => ~(HandlerAt = "blocked" /\ RenewerAt = "blocked")
    BY DEF StopCourse, HandlerAt, RenewerAt
  <1> QED
    BY <1>1, InitCourse, NextCourse, Invariance, PTL DEF Spec

\* The steps of LockKeeper, read off what the two goroutines and the context
\* look like from outside.
CtxDone == ctxErr # "nil"

OutsideStep ==
  \/ /\ HandlerAt = "running" /\ HandlerAt' \in {"stopping", "panicked"}
     /\ UNCHANGED <<RenewerAt, CtxDone>>
  \/ /\ HandlerAt = "stopping" /\ HandlerAt' = "returned"
     /\ RenewerAt' = RenewerAt /\ CtxDone' = (CtxDone \/ cancelOnStop)
  \/ /\ HandlerAt = "stopping" /\ HandlerAt' = "blocked" /\ RenewerAt = "stopping"
     /\ UNCHANGED <<RenewerAt, CtxDone>>
  \/ /\ RenewerAt = "active" /\ RenewerAt' = "stopping"
     /\ UNCHANGED <<HandlerAt, CtxDone>>
  \/ /\ RenewerAt = "stopping" /\ RenewerAt' = "over"
     /\ HandlerAt' = HandlerAt /\ CtxDone' = (CtxDone \/ cancelOnStop)
  \/ /\ RenewerAt = "stopping" /\ RenewerAt' = "blocked" /\ HandlerAt = "stopping"
     /\ UNCHANGED <<HandlerAt, CtxDone>>
  \/ /\ RenewerAt = "active" /\ RenewerAt' = "over" /\ HandlerAt # "running"
     /\ UNCHANGED <<HandlerAt, CtxDone>>
  \/ ~CtxDone /\ CtxDone' /\ UNCHANGED <<HandlerAt, RenewerAt>>
  \/ UNCHANGED <<HandlerAt, RenewerAt, CtxDone>>

LEMMA OutsideIsKeeper == OutsideStep => [Keeper!KeeperNext]_(Keeper!keeper)
  <1> USE DEF CtxDone, Keeper!KeeperNext
  <1>1. ASSUME HandlerAt = "running", HandlerAt' \in {"stopping", "panicked"},
               UNCHANGED <<RenewerAt, CtxDone>>
        PROVE  Keeper!KeeperNext
    <2>1. Keeper!HandlerEnds("d", HandlerAt')
      BY <1>1 DEF Keeper!HandlerEnds
    <2> QED
      BY <1>1, <2>1
  <1>2. ASSUME HandlerAt = "stopping", HandlerAt' = "returned",
               RenewerAt' = RenewerAt, CtxDone' = (CtxDone \/ cancelOnStop)
        PROVE  Keeper!KeeperNext
    <2>1. Keeper!StopReturns("d")
      BY <1>2 DEF Keeper!StopReturns, Keeper!CancelIfConfigured
    <2> QED
      BY <2>1 DEF Keeper!StopStep
  <1>3. ASSUME HandlerAt = "stopping", HandlerAt' = "blocked", RenewerAt = "stopping",
               UNCHANGED <<RenewerAt, CtxDone>>
        PROVE  Keeper!KeeperNext
    <2>1. Keeper!StopBlocks("d")
      BY <1>3 DEF Keeper!StopBlocks
    <2> QED
      BY <2>1 DEF Keeper!StopStep
  <1>4. ASSUME RenewerAt = "active", RenewerAt' = "stopping",
               UNCHANGED <<HandlerAt, CtxDone>>
        PROVE  Keeper!KeeperNext
    <2>1. Keeper!GiveUp("d")
      BY <1>4 DEF Keeper!GiveUp
    <2> QED
      BY <2>1 DEF Keeper!RenewalStops
  <1>5. ASSUME RenewerAt = "stopping", RenewerAt' = "over",
               HandlerAt' = HandlerAt, CtxDone' = (CtxDone \/ cancelOnStop)
        PROVE  Keeper!KeeperNext
    <2>1. Keeper!GiveUpReturns("d")
      BY <1>5 DEF Keeper!GiveUpReturns, Keeper!CancelIfConfigured
    <2> QED
      BY <2>1 DEF Keeper!GiveUpStep
  <1>6. ASSUME RenewerAt = "stopping", RenewerAt' = "blocked", HandlerAt = "stopping",
               UNCHANGED <<HandlerAt, CtxDone>>
        PROVE  Keeper!KeeperNext
    <2>1. Keeper!GiveUpBlocks("d")
      BY <1>6 DEF Keeper!GiveUpBlocks
    <2> QED
      BY <2>1 DEF Keeper!GiveUpStep
  <1>7. ASSUME RenewerAt = "active", RenewerAt' = "over", HandlerAt # "running",
               UNCHANGED <<HandlerAt, CtxDone>>
        PROVE  Keeper!KeeperNext
    <2>1. Keeper!RenewalEnds("d")
      BY <1>7 DEF Keeper!RenewalEnds
    <2> QED
      BY <2>1 DEF Keeper!RenewalStops
  <1>8. ASSUME ~CtxDone, CtxDone', UNCHANGED <<HandlerAt, RenewerAt>>
        PROVE  Keeper!KeeperNext
    <2>1. Keeper!ContextEnds("d")
      BY <1>8 DEF Keeper!ContextEnds
    <2> QED
      BY <2>1
  <1>9. ASSUME UNCHANGED <<HandlerAt, RenewerAt, CtxDone>>
        PROVE  UNCHANGED Keeper!keeper
    BY <1>9 DEF Keeper!keeper
  <1> QED
    BY <1>1, <1>2, <1>3, <1>4, <1>5, <1>6, <1>7, <1>8, <1>9 DEF OutsideStep

LEMMA InitIsKeeper == Init => Keeper!KeeperInit
  <1> SUFFICES ASSUME Init PROVE Keeper!KeeperInit
    OBVIOUS
  <1>1. HandlerAt = "running" /\ RenewerAt = "active"
    BY DEF Init, HandlerAt, RenewerAt, Goroutine
  <1> QED
    BY <1>1 DEF Init, Keeper!KeeperInit

\* Every step of the two goroutines or of the environment is a step of
\* LockKeeper, or is not seen from outside.
LEMMA NextIsOutside == Inv /\ StopCourse /\ [Next]_vars => OutsideStep
  <1> SUFFICES ASSUME Inv, StopCourse, [Next]_vars PROVE OutsideStep
    OBVIOUS
  <1> USE DEF Inv, TypeOK, OutsideStep, CtxDone, HandlerAt, RenewerAt, Goto, Goroutine, rest
  <1>1. CASE HandlerSettles \/ HandlerReturns \/ HandlerPanics
    BY <1>1 DEF HandlerSettles, HandlerReturns, HandlerPanics
  <1>2. CASE StopStore("handler") \/ StopCheck("handler")
    BY <1>2 DEF StopStore, StopCheck, SignalDue, HandlerState, StopState,
                RenewerState
  <1>3. CASE StopSend("handler") \/ StopCancel("handler")
    BY <1>3 DEF StopSend, SlotFree, StopCancel, StopErr
  <1>4. CASE RenewerStart \/ LoopHead \/ SelectTick
    BY <1>4 DEF RenewerStart, LoopHead, SelectTick, RunningCourse
  <1>5. CASE SelectDone \/ SelectStopped \/ ClearAlive
    BY <1>5 DEF SelectDone, SelectStopped, ClearAlive, RunningCourse, StopCourse
  <1>6. CASE StopStore("renewer") \/ StopCheck("renewer")
    BY <1>6 DEF StopStore, StopCheck, SignalDue
  <1>7. CASE StopSend("renewer") \/ StopCancel("renewer")
    BY <1>7 DEF StopSend, SlotFree, StopCancel, StopErr, StopCourse
  <1>8. CASE RenewCheck \/ RetryLoop \/ RenewCall \/ RenewGivesUp
    BY <1>8 DEF RenewCheck, RetryLoop, MayCall, RenewCall, ContextOver, RenewGivesUp, ReturnRenew, IsFinal
  <1>9. CASE CallReturns
    BY <1>9 DEF CallReturns, CallSucceeds, CallTimesOut, CallFails, ReturnRenew,
                IsFinal, RunningCourse
  <1>10. CASE EnvNext
    BY <1>10 DEF EnvNext, ParentDone, ProcessorCancels, LockExpires
  <1>11. CASE UNCHANGED vars
    BY <1>11 DEF vars, rest
  <1> QED
    BY <1>1, <1>2, <1>3, <1>4, <1>5, <1>6, <1>7, <1>8, <1>9, <1>10, <1>11
    DEF Next, HandlerNext, RenewerNext, RenewerStep, Stop

\* The two goroutines implement LockKeeper, its liveness apart: whatever their
\* interleaving, renewal that has ended does not begin again, a stop that returns
\* leaves the context cancelled if so configured, and a stop is blocked only by
\* the other one.
THEOREM KeeperSafety ==
  Spec => Keeper!KeeperInit /\ [][Keeper!KeeperNext]_(Keeper!keeper)
  <1>1. Inv /\ StopCourse /\ [Next]_vars => [Keeper!KeeperNext]_(Keeper!keeper)
    BY NextIsOutside, OutsideIsKeeper
  <1> QED
    BY <1>1, InitIsKeeper, InitCourse, NextCourse, Invariance, PTL DEF Spec

=============================================================================
