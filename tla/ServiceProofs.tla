--------------------------- MODULE ServiceProofs ---------------------------
(***************************************************************************)
(* The order of the two threads' status reports, for any number of failing *)
(* calls.  The argument: controls are open only between Running and the    *)
(* handler's StopPending, and the token is cancelled only after that.      *)
(***************************************************************************)
EXTENDS Service, TLAPS

Early == {"register", "fill", "start", "parse", "bootstrap", "ready"}
Late  == {"loop", "wind_down", "stop", "returned"}

\* Until it is ready the service shows StartPending and hears nothing.
DeafUntilReady ==
    main \in Early => /\ status = "start_pending" /\ ~accepts
                      /\ handler = "idle" /\ outcome = "none" /\ ~cancelled

\* The handler runs in a process that has filled the slot, and has said Running.
HandlerHasHandle ==
    /\ main \in {"start", "parse", "bootstrap", "ready", "loop", "wind_down", "stop"} => slot
    /\ accepts \/ handler # "idle" => slot /\ main \in Late

\* Stopped is shown only at the end of ServiceMain, or without a process.
StoppedAtEnd ==
    /\ status = "stopped" => main \in {"returned", "absent"}
    /\ main = "absent" => status = "stopped" /\ handler = "idle"

\* Where nothing went wrong, a control is on its way only while the loop runs.
Orderly == faults = 0 /\ outcome # "panic"

ControlsDuringLoop ==
    /\ main = "loop" => outcome = "none"
    /\ Orderly =>
          /\ accepts \/ handler = "report" => main = "loop" /\ ~cancelled
          /\ handler = "report" => accepts
          /\ handler = "cancel" => ~accepts /\ main = "loop" /\ ~cancelled

OkWasAsked == (outcome = "ok" \/ exit = "ok") => cancelled

IInv ==
    /\ TypeOK
    /\ DeafUntilReady /\ HandlerHasHandle /\ StoppedAtEnd
    /\ ControlsDuringLoop /\ OkWasAsked

LEMMA ServiceInit == Init => IInv
  <1>1. Init => TypeOK
    <2> SUFFICES ASSUME Init PROVE TypeOK
      OBVIOUS
    <2>1. status \in Statuses /\ exit \in Outcomes \cup {"died"} /\ outcome \in Outcomes
      BY DEF Init, Statuses, Outcomes
    <2>2. main \in MainPCs /\ handler \in {"idle", "report", "cancel"}
      BY DEF Init, MainPCs
    <2>3. accepts \in BOOLEAN /\ slot \in BOOLEAN /\ cancelled \in BOOLEAN
      BY DEF Init
    <2>4. faults \in 0 .. MaxFaults
      BY ServiceAssumption DEF Init
    <2>5. (accepts => status = "running") /\ main \notin {"wind_down", "stop"}
      BY DEF Init
    <2>6. QED
      BY <2>1, <2>2, <2>3, <2>4, <2>5 DEF TypeOK
  <1>2. Init => DeafUntilReady /\ HandlerHasHandle /\ StoppedAtEnd
    BY DEF Init, DeafUntilReady, HandlerHasHandle, StoppedAtEnd, Early, Late
  <1>3. Init => ControlsDuringLoop /\ OkWasAsked
    BY DEF Init, ControlsDuringLoop, Orderly, OkWasAsked
  <1>4. QED
    BY <1>1, <1>2, <1>3 DEF IInv

\* What a report may change.  Only a failed one leaves the status as it was.
ReportEffect(s) ==
    /\ status' \in Statuses /\ status' \in {s, status}
    /\ accepts' \in BOOLEAN /\ (accepts' => status' = "running")
    /\ accepts' => accepts \/ s = "running"
    /\ faults' \in 0 .. MaxFaults
    /\ faults' = 0 => faults = 0 /\ status' = s /\ (s # "running" => ~accepts')

LEMMA ReportFacts ==
    ASSUME TypeOK, NEW s \in Statuses, Reported(s)
    PROVE  ReportEffect(s)
  <1>1. CASE Shown(s)
    <2>1. accepts' \in BOOLEAN /\ (accepts' <=> s = "running")
      BY <1>1 DEF Shown
    <2>2. status' = s /\ faults' = faults
      BY <1>1 DEF Shown
    <2>3. QED
      BY <2>1, <2>2 DEF TypeOK, ReportEffect
  <1>2. CASE NotShown
    <2>1. accepts' = accepts /\ status' = status
      BY <1>2 DEF NotShown
    <2>2. faults \in 0 .. MaxFaults /\ faults' = faults + 1 /\ faults < MaxFaults
      BY <1>2 DEF NotShown, Fault, TypeOK
    <2>3. faults' \in 0 .. MaxFaults /\ faults' # 0
      BY <2>2, ServiceAssumption
    <2>4. QED
      BY <2>1, <2>3 DEF TypeOK, ReportEffect
  <1>3. QED
    BY <1>1, <1>2 DEF Reported

\* ServiceMain's steps.
LEMMA MainKeeps ==
    ASSUME IInv, MainStep \/ Panics
    PROVE  IInv'
  <1> USE ServiceAssumption
      DEF IInv, TypeOK, DeafUntilReady, HandlerHasHandle, StoppedAtEnd,
          ControlsDuringLoop, Orderly, OkWasAsked, Early, Late, Statuses, Outcomes, MainPCs, At
  <1>1. CASE RegisterHandler
    BY <1>1 DEF RegisterHandler
  <1>2. CASE RegisterFails
    <2>0. faults' \in 1 .. MaxFaults
      BY <1>2 DEF RegisterFails, Fault
    <2>1. TypeOK'
      BY <2>0, <1>2 DEF RegisterFails
    <2>2. DeafUntilReady' /\ HandlerHasHandle' /\ StoppedAtEnd'
      BY <2>0, <1>2 DEF RegisterFails
    <2>3. ControlsDuringLoop' /\ OkWasAsked'
      BY <2>0, <1>2 DEF RegisterFails
    <2>4. QED
      BY <2>1, <2>2, <2>3
  <1>3. CASE FillSlot
    BY <1>3 DEF FillSlot
  <1>4. CASE ReportStartPending
    <2>0. ReportEffect("start_pending")
      BY <1>4, ReportFacts DEF Reported, ReportStartPending
    <2>1. TypeOK'
      BY <2>0, <1>4 DEF ReportStartPending, ReportEffect
    <2>2. DeafUntilReady' /\ HandlerHasHandle' /\ StoppedAtEnd'
      BY <2>0, <1>4 DEF ReportStartPending, ReportEffect
    <2>3. ControlsDuringLoop' /\ OkWasAsked'
      BY <2>0, <1>4 DEF ReportStartPending, ReportEffect
    <2>4. QED
      BY <2>1, <2>2, <2>3
  <1>5. CASE StartPendingFails
    <2>0. ReportEffect("start_pending")
      BY <1>5, ReportFacts DEF Reported, StartPendingFails
    <2>1. TypeOK'
      BY <2>0, <1>5 DEF StartPendingFails, ReportEffect
    <2>2. DeafUntilReady' /\ HandlerHasHandle' /\ StoppedAtEnd'
      BY <2>0, <1>5 DEF StartPendingFails, ReportEffect
    <2>3. ControlsDuringLoop' /\ OkWasAsked'
      BY <2>0, <1>5 DEF StartPendingFails, ReportEffect
    <2>4. QED
      BY <2>1, <2>2, <2>3
  <1>6. CASE Parse
    <2>1. TypeOK'
      BY <1>6 DEF Parse
    <2>2. DeafUntilReady' /\ HandlerHasHandle' /\ StoppedAtEnd'
      BY <1>6 DEF Parse
    <2>3. ControlsDuringLoop' /\ OkWasAsked'
      BY <1>6 DEF Parse
    <2>4. QED
      BY <2>1, <2>2, <2>3
  <1>7. CASE Bootstrap
    <2>1. TypeOK'
      BY <1>7 DEF Bootstrap
    <2>2. DeafUntilReady' /\ HandlerHasHandle' /\ StoppedAtEnd'
      BY <1>7 DEF Bootstrap
    <2>3. ControlsDuringLoop' /\ OkWasAsked'
      BY <1>7 DEF Bootstrap
    <2>4. QED
      BY <2>1, <2>2, <2>3
  <1>8. CASE OnReady
    <2>0. ReportEffect("running")
      BY <1>8, ReportFacts DEF OnReady
    <2>1. TypeOK'
      BY <2>0, <1>8 DEF OnReady, ReportEffect
    <2>2. DeafUntilReady' /\ HandlerHasHandle' /\ StoppedAtEnd'
      BY <2>0, <1>8 DEF OnReady, ReportEffect
    <2>3. ControlsDuringLoop' /\ OkWasAsked'
      BY <2>0, <1>8 DEF OnReady, ReportEffect
    <2>4. QED
      BY <2>1, <2>2, <2>3
  <1>9. CASE LoopReturns
    <2>1. TypeOK'
      BY <1>9 DEF LoopReturns
    <2>2. DeafUntilReady' /\ HandlerHasHandle' /\ StoppedAtEnd'
      BY <1>9 DEF LoopReturns
    <2>3. ControlsDuringLoop' /\ OkWasAsked'
      BY <1>9 DEF LoopReturns
    <2>4. QED
      BY <2>1, <2>2, <2>3
  <1>10. CASE ReportStopPending
    <2>0. ReportEffect("stop_pending")
      BY <1>10, ReportFacts DEF ReportStopPending
    <2>1. TypeOK'
      BY <2>0, <1>10 DEF ReportStopPending, ReportEffect
    <2>2. DeafUntilReady' /\ HandlerHasHandle' /\ StoppedAtEnd'
      BY <2>0, <1>10 DEF ReportStopPending, ReportEffect
    <2>3. ControlsDuringLoop' /\ OkWasAsked'
      BY <2>0, <1>10 DEF ReportStopPending, ReportEffect
    <2>4. QED
      BY <2>1, <2>2, <2>3
  <1>11. CASE ReportStopped
    <2>0. ReportEffect("stopped")
      BY <1>11, ReportFacts DEF Reported, ReportStopped
    <2>1. TypeOK'
      BY <2>0, <1>11 DEF ReportStopped, ReportEffect
    <2>2. DeafUntilReady' /\ HandlerHasHandle' /\ StoppedAtEnd'
      BY <2>0, <1>11 DEF ReportStopped, ReportEffect
    <2>3. ControlsDuringLoop' /\ OkWasAsked'
      BY <2>0, <1>11 DEF ReportStopped, ReportEffect
    <2>4. QED
      BY <2>1, <2>2, <2>3
  <1>12. CASE Panics
    BY <1>12 DEF Panics
  <1>13. QED
    BY <1>1, <1>2, <1>3, <1>4, <1>5, <1>6, <1>7, <1>8, <1>9, <1>10, <1>11, <1>12
    DEF MainStep

\* The handler's steps and the SCM's.
LEMMA OthersKeep ==
    ASSUME IInv, HandlerStep \/ ScmStarts \/ ScmStops \/ ProcessEnds \/ ProcessDies
    PROVE  IInv'
  <1> USE ServiceAssumption
      DEF IInv, TypeOK, DeafUntilReady, HandlerHasHandle, StoppedAtEnd,
          ControlsDuringLoop, Orderly, OkWasAsked, Early, Late, Statuses, Outcomes, MainPCs
  <1>1. CASE HandlerReports
    <2>0. slot /\ ReportEffect("stop_pending")
      BY <1>1, ReportFacts DEF HandlerReports
    <2>1. TypeOK'
      BY <2>0, <1>1 DEF HandlerReports, ReportEffect
    <2>2. DeafUntilReady' /\ HandlerHasHandle' /\ StoppedAtEnd'
      BY <2>0, <1>1 DEF HandlerReports, ReportEffect
    <2>3. ControlsDuringLoop' /\ OkWasAsked'
      BY <2>0, <1>1 DEF HandlerReports, ReportEffect
    <2>4. QED
      BY <2>1, <2>2, <2>3
  <1>2. CASE HandlerCancels
    BY <1>2 DEF HandlerCancels
  <1>3. CASE ScmStarts
    <2>1. TypeOK'
      BY <1>3 DEF ScmStarts
    <2>2. DeafUntilReady' /\ HandlerHasHandle' /\ StoppedAtEnd'
      BY <1>3 DEF ScmStarts
    <2>3. ControlsDuringLoop' /\ OkWasAsked'
      BY <1>3 DEF ScmStarts
    <2>4. QED
      BY <2>1, <2>2, <2>3
  <1>4. CASE ScmStops
    BY <1>4 DEF ScmStops
  <1>5. CASE ProcessEnds
    BY <1>5 DEF ProcessEnds
  <1>6. CASE ProcessDies
    <2>1. TypeOK'
      BY <1>6 DEF ProcessDies
    <2>2. DeafUntilReady' /\ HandlerHasHandle' /\ StoppedAtEnd'
      BY <1>6 DEF ProcessDies
    <2>3. ControlsDuringLoop' /\ OkWasAsked'
      BY <1>6 DEF ProcessDies
    <2>4. QED
      BY <2>1, <2>2, <2>3
  <1>7. QED
    BY <1>1, <1>2, <1>3, <1>4, <1>5, <1>6 DEF HandlerStep

(* The invariant that orders the reports of the two threads.                *)
THEOREM ServiceInductive == Spec => []IInv
  <1>1. IInv /\ [Next]_vars => IInv'
    <2>1. IInv /\ Next => IInv'
      BY MainKeeps, OthersKeep DEF Next
    <2>2. IInv /\ UNCHANGED vars => IInv'
      BY DEF vars, IInv, TypeOK, DeafUntilReady, HandlerHasHandle, StoppedAtEnd,
             ControlsDuringLoop, Orderly, OkWasAsked
    <2>3. QED
      BY <2>1, <2>2
  <1>2. QED
    BY <1>1, ServiceInit, PTL DEF Spec

(* Every variable keeps its type; controls are open only while Running is   *)
(* shown.                                                                   *)
THEOREM ServiceTypeCorrect == Spec => []TypeOK
  BY ServiceInductive, PTL DEF IInv

(* Exit code 0 is reported only by a service that was asked to stop.        *)
THEOREM CleanExitOnlyIfAsked == Spec => []CleanExitWasAsked
  <1>1. IInv => CleanExitWasAsked
    BY DEF IInv, OkWasAsked, CleanExitWasAsked
  <1>2. QED
    BY <1>1, ServiceInductive, PTL

(* StopPending is never followed by Running.                                *)
THEOREM StopPendingStays == Spec => NeverBackToRunning
  <1>1. IInv /\ [Next]_vars => [status = "stop_pending" => status' # "running"]_vars
    BY DEF IInv, DeafUntilReady, StoppedAtEnd, Early, Next, MainStep, HandlerStep, ScmStarts, ScmStops,
           RegisterHandler, RegisterFails, FillSlot, ReportStartPending,
           StartPendingFails, Parse, Bootstrap, OnReady, LoopReturns,
           ReportStopPending, ReportStopped, Panics, HandlerReports,
           HandlerCancels, ProcessEnds, ProcessDies, At, Shown, NotShown, Reported, vars
  <1>2. QED
    BY <1>1, ServiceInductive, PTL DEF Spec, NeverBackToRunning

(* The handler's StopPending never follows ServiceMain's Stopped.           *)
THEOREM StoppedStays == Spec => StoppedIsFinal
  <1>1. IInv /\ [Next]_vars =>
          [status = "stopped" /\ main # "absent" /\ outcome # "panic" /\ faults = 0
             => status' = "stopped"]_vars
    BY DEF IInv, StoppedAtEnd, ControlsDuringLoop, Orderly, Next, MainStep, HandlerStep, ScmStarts, ScmStops,
           RegisterHandler, RegisterFails, FillSlot, ReportStartPending,
           StartPendingFails, Parse, Bootstrap, OnReady, LoopReturns,
           ReportStopPending, ReportStopped, Panics, HandlerReports,
           HandlerCancels, ProcessEnds, ProcessDies, At, Shown, NotShown, Reported, vars
  <1>2. QED
    BY <1>1, ServiceInductive, PTL DEF Spec, StoppedIsFinal

(* What the SCM sees of the two threads is what Installer's commands reckon *)
(* with: the invariant says which report can come where.                    *)
THEOREM ServiceImplementsView == Spec => ImplementsView
  <1>1. Init => View!ViewInit
    BY DEF Init, View!ViewInit
  <1>2. ASSUME IInv, Next
        PROVE  View!ViewNext \/ UNCHANGED View!view
    <2> USE DEF IInv, TypeOK, DeafUntilReady, HandlerHasHandle, StoppedAtEnd, Early, Late, Statuses, MainPCs, At
    <2>1. CASE ScmStarts
      BY <1>2, <2>1 DEF ScmStarts, View!ViewNext, View!Begin
    <2>2. CASE ScmStops
      BY <1>2, <2>2 DEF ScmStops, View!ViewNext, View!Ask
    <2>3. CASE RegisterHandler \/ FillSlot \/ ReportStartPending \/ StartPendingFails \/ Parse
      BY <1>2, <2>3 DEF RegisterHandler, FillSlot, ReportStartPending, StartPendingFails, Parse,
             Shown, NotShown, View!view
    <2>4. CASE RegisterFails \/ Bootstrap \/ LoopReturns \/ Panics
      BY <1>2, <2>4 DEF RegisterFails, Bootstrap, LoopReturns, Panics, View!view
    <2>5. CASE OnReady
      BY <1>2, <2>5 DEF OnReady, Reported, Shown, NotShown, View!view, View!ViewNext, View!ShowsRunning
    <2>6. CASE ReportStopPending
      BY <1>2, <2>6 DEF ReportStopPending, Reported, Shown, NotShown, View!view, View!ViewNext,
             View!ShowsStopPending
    <2>7. CASE ReportStopped
      BY <1>2, <2>7 DEF ReportStopped, Shown, NotShown, View!view, View!ViewNext, View!ShowsStopped
    <2>8. CASE HandlerReports
      BY <1>2, <2>8 DEF HandlerReports, Reported, Shown, NotShown, View!view, View!ViewNext,
             View!ShowsStopPending
    <2>9. CASE HandlerCancels
      BY <1>2, <2>9 DEF HandlerCancels, View!view
    <2>10. CASE ProcessEnds
      BY <1>2, <2>10 DEF ProcessEnds, View!view, View!ViewNext, View!ShowsStopped, View!ProcessGone
    <2>11. CASE ProcessDies
      BY <1>2, <2>11 DEF ProcessDies, View!view, View!ViewNext, View!Dies, View!ProcessGone
    <2>12. QED
      BY <1>2, <2>1, <2>2, <2>3, <2>4, <2>5, <2>6, <2>7, <2>8, <2>9, <2>10, <2>11
      DEF Next, MainStep, HandlerStep
  <1>3. UNCHANGED vars => UNCHANGED View!view
    BY DEF vars, View!view
  <1>4. IInv /\ [Next]_vars => [View!ViewNext]_(View!view)
    BY <1>2, <1>3
  <1>5. QED
    BY <1>1, <1>4, ServiceInductive, PTL DEF Spec, ImplementsView, View!ViewSpec
-----------------------------------------------------------------------------
(* Why no StopPending hangs: what fairness moves is always there.           *)

\* ServiceMain returns with an exit code reported, unless a call failed.
ReturnsReported == main = "returned" => exit # "none" \/ faults > 0

\* Whoever has shown StopPending has a stop under way that needs nobody else.
StopUnderWay ==
    status = "stop_pending" =>
        \/ main \in {"wind_down", "stop"}
        \/ main = "loop" /\ (handler = "cancel" \/ cancelled)
        \/ main = "returned" /\ (exit # "none" \/ faults > 0)

LEMMA ReturnsReportedStep ==
    ASSUME IInv, ReturnsReported, [Next]_vars
    PROVE  ReturnsReported'
  <1> USE DEF IInv, TypeOK, ReturnsReported, At
  <1>1. CASE RegisterFails \/ StartPendingFails
    BY <1>1 DEF RegisterFails, StartPendingFails, NotShown, Fault
  <1>2. CASE ReportStopped
    BY <1>2 DEF ReportStopped, NotShown, Fault, Shown
  <1>3. CASE HandlerReports
    BY <1>3 DEF HandlerReports, Reported, Shown, NotShown, Fault
  <1>4. CASE ProcessEnds \/ ProcessDies \/ ScmStarts
    BY <1>4 DEF ProcessEnds, ProcessDies, ScmStarts
  <1>5. CASE ScmStops \/ HandlerCancels \/ UNCHANGED vars
    BY <1>5 DEF ScmStops, HandlerCancels, vars
  <1>6. CASE RegisterHandler \/ FillSlot \/ ReportStartPending \/ Parse \/ Bootstrap
    BY <1>6 DEF RegisterHandler, FillSlot, ReportStartPending, Parse, Bootstrap
  <1>7. CASE OnReady \/ LoopReturns \/ ReportStopPending \/ Panics
    BY <1>7 DEF OnReady, LoopReturns, ReportStopPending, Panics
  <1>8. QED
    BY <1>1, <1>2, <1>3, <1>4, <1>5, <1>6, <1>7 DEF Next, MainStep, HandlerStep

LEMMA StopUnderWayStep ==
    ASSUME IInv, ReturnsReported, StopUnderWay, [Next]_vars
    PROVE  StopUnderWay'
  <1> USE DEF IInv, TypeOK, StopUnderWay, DeafUntilReady, HandlerHasHandle, Early, Late, At
  <1>1. CASE HandlerReports
    BY <1>1 DEF HandlerReports, Reported, Shown, NotShown, Fault, ReturnsReported
  <1>2. CASE HandlerCancels \/ ScmStops \/ UNCHANGED vars
    BY <1>2 DEF HandlerCancels, ScmStops, vars
  <1>3. CASE OnReady \/ LoopReturns \/ ReportStopPending \/ Panics
    BY <1>3 DEF OnReady, LoopReturns, ReportStopPending, Panics, Reported, Shown, NotShown
  <1>4. CASE ReportStopped
    BY <1>4 DEF ReportStopped, Shown, NotShown, Fault
  <1>5. CASE RegisterHandler \/ RegisterFails \/ FillSlot \/ ReportStartPending \/ StartPendingFails
             \/ Parse \/ Bootstrap
    BY <1>5 DEF RegisterHandler, RegisterFails, FillSlot, ReportStartPending, StartPendingFails, Parse,
                Bootstrap, Shown, NotShown
  <1>6. CASE ScmStarts \/ ProcessEnds \/ ProcessDies
    BY <1>6 DEF ScmStarts, ProcessEnds, ProcessDies
  <1>7. QED
    BY <1>1, <1>2, <1>3, <1>4, <1>5, <1>6 DEF Next, MainStep, HandlerStep

(* ServiceMain returns without an exit code shown only if some call to the  *)
(* SCM has failed: "always reaches Stopped" (design.md:342) holds up to     *)
(* that, as the error of the StartPending report is propagated              *)
(* (service/windows.rs:92).                                                 *)
THEOREM ReturnsAfterStopped == Spec => []ReturnsReported
  <1>1. Init => ReturnsReported
    BY DEF Init, ReturnsReported
  <1>2. IInv /\ ReturnsReported /\ [Next]_vars => ReturnsReported'
    BY ReturnsReportedStep
  <1>3. QED
    BY <1>1, <1>2, ServiceInductive, PTL DEF Spec

(* A service that shows StopPending has a thread that will end it, or has   *)
(* ended with an exit code: it never waits for a stop that nobody asked     *)
(* for, though the two reports may come in either order and may fail.       *)
THEOREM StopPendingHasCause == Spec => []StopUnderWay
  <1>1. Init => StopUnderWay
    BY DEF Init, StopUnderWay
  <1>2. IInv /\ ReturnsReported /\ StopUnderWay /\ [Next]_vars => StopUnderWay'
    BY StopUnderWayStep
  <1>3. QED
    BY <1>1, <1>2, ServiceInductive, ReturnsAfterStopped, PTL DEF Spec
=============================================================================
