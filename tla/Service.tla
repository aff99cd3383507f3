------------------------------ MODULE Service ------------------------------
(***************************************************************************)
(* The Windows service (agent-rust/src/service/windows.rs, run_service):   *)
(* ServiceMain on its own thread, the control handler on the dispatcher's, *)
(* and what the Service Control Manager shows of them.  The agent inside   *)
(* (app.rs, run_agent_blocking) is its bootstrap, the moment it is ready   *)
(* and a loop that returns once it is cancelled (AgentLoop).               *)
(***************************************************************************)
EXTENDS Naturals

CONSTANTS
    MaxFaults   \* bound: failing calls to the SCM in a behaviour

ASSUME ServiceAssumption == MaxFaults \in Nat

VARIABLES
    status,     \* the state the SCM shows
    accepts,    \* the SCM may send Stop and Shutdown
    exit,       \* the exit code of the last Stopped, by its cause
    main,       \* where ServiceMain is; "absent" without a process
    handler,    \* where the control handler is
    slot,       \* handler_status holds the handle
    cancelled,  \* the cancellation token
    outcome,    \* how run_agent_blocking, or the start before it, ended
    faults      \* history: failed calls to the SCM

vars == <<status, accepts, exit, main, handler, slot, cancelled, outcome, faults>>

Statuses == {"stopped", "start_pending", "running", "stop_pending"}
Outcomes == {"none", "ok", "bad_arguments", "failed", "panic"}
MainPCs  == {"absent", "register", "fill", "start", "parse", "bootstrap",
             "ready", "loop", "wind_down", "stop", "returned"}

TypeOK ==
    /\ status \in Statuses
    /\ accepts \in BOOLEAN /\ (accepts => status = "running")
    /\ exit \in Outcomes \cup {"died"}
    /\ main \in MainPCs
    /\ handler \in {"idle", "report", "cancel"}
    /\ slot \in BOOLEAN
    /\ cancelled \in BOOLEAN
    /\ outcome \in Outcomes
    /\ main \in {"wind_down", "stop"} => outcome # "none"
    /\ faults \in 0 .. MaxFaults

Init ==
    /\ status = "stopped" /\ accepts = FALSE /\ exit = "none"
    /\ main = "absent" /\ handler = "idle" /\ slot = FALSE
    /\ cancelled = FALSE /\ outcome = "none"
    /\ faults = 0
-----------------------------------------------------------------------------
(* Status reports.                                                          *)

Fault ==
    /\ faults < MaxFaults
    /\ faults' = faults + 1

\* The report reaches the SCM; only a running service accepts controls.
Shown(s) ==
    /\ status' = s
    /\ accepts' = (s = "running")
    /\ UNCHANGED faults

NotShown == Fault /\ UNCHANGED <<status, accepts>>

\* `let _ = set_service_status(..)`: whether it worked is not looked at.
Reported(s) == Shown(s) \/ NotShown

At(pc, next) == main = pc /\ main' = next
-----------------------------------------------------------------------------
(* ServiceMain.                                                             *)

\* The SCM starts the process and its dispatcher calls ServiceMain.
ScmStarts ==
    /\ status = "stopped" /\ main = "absent"
    /\ status' = "start_pending" /\ accepts' = FALSE
    /\ main' = "register" /\ exit' = "none"
    /\ slot' = FALSE /\ cancelled' = FALSE /\ outcome' = "none"
    /\ UNCHANGED <<handler, faults>>

RegisterHandler ==
    /\ At("register", "fill")
    /\ UNCHANGED <<status, accepts, exit, handler, slot, cancelled, outcome, faults>>

RegisterFails ==
    /\ At("register", "returned")
    /\ Fault
    /\ UNCHANGED <<status, accepts, exit, handler, slot, cancelled, outcome>>

FillSlot ==
    /\ At("fill", "start")
    /\ slot' = TRUE
    /\ UNCHANGED <<status, accepts, exit, handler, cancelled, outcome, faults>>

StartPendingAccepting ==
    /\ At("start", "parse")
    /\ status' = "start_pending" /\ accepts' = TRUE /\ UNCHANGED faults
    /\ UNCHANGED <<exit, handler, slot, cancelled, outcome>>

ReportStartPending ==
    /\ At("start", "parse")
    /\ Shown("start_pending")
    /\ UNCHANGED <<exit, handler, slot, cancelled, outcome>>

\* The one status report whose error is propagated: run_service returns.
StartPendingFails ==
    /\ At("start", "returned")
    /\ NotShown
    /\ UNCHANGED <<exit, handler, slot, cancelled, outcome>>

ParseFailsSilently ==
    /\ At("parse", "stop")
    /\ UNCHANGED <<status, accepts, exit, handler, slot, cancelled, outcome, faults>>

\* Cli::try_parse of the registered command line.
Parse ==
    /\ \/ At("parse", "bootstrap") /\ UNCHANGED outcome
       \/ At("parse", "stop") /\ outcome' = "bad_arguments"
    /\ UNCHANGED <<status, accepts, exit, handler, slot, cancelled, faults>>

\* Everything run_agent_blocking does before on_ready; any of it may fail.
Bootstrap ==
    /\ \/ At("bootstrap", "ready") /\ UNCHANGED outcome
       \/ At("bootstrap", "wind_down") /\ outcome' = "failed"
    /\ UNCHANGED <<status, accepts, exit, handler, slot, cancelled, faults>>

OnReady ==
    /\ At("ready", "loop")
    /\ Reported("running")
    /\ UNCHANGED <<exit, handler, slot, cancelled, outcome>>

LoopEndsByItself ==
    /\ At("loop", "wind_down")
    /\ outcome' = "ok"
    /\ UNCHANGED <<status, accepts, exit, handler, slot, cancelled, faults>>

\* run_loop returns and the runtime is shut down.
LoopReturns ==
    /\ At("loop", "wind_down")
    /\ cancelled
    /\ outcome' = "ok"
    /\ UNCHANGED <<status, accepts, exit, handler, slot, cancelled, faults>>

\* catch_unwind: a panic anywhere inside run_agent_blocking.
Panics ==
    /\ main \in {"bootstrap", "ready", "loop"}
    /\ main' = "wind_down" /\ outcome' = "panic"
    /\ UNCHANGED <<status, accepts, exit, handler, slot, cancelled, faults>>

ReportStopPending ==
    /\ At("wind_down", "stop")
    /\ Reported("stop_pending")
    /\ UNCHANGED <<exit, handler, slot, cancelled, outcome>>

ReportStopped ==
    /\ At("stop", "returned")
    /\ \/ Shown("stopped") /\ exit' = outcome
       \/ NotShown /\ UNCHANGED exit
    /\ UNCHANGED <<handler, slot, cancelled, outcome>>

\* The dispatcher returns once the service is stopped and its handler is done.
ProcessEnds ==
    /\ main = "returned" /\ handler = "idle" /\ exit # "none"
    /\ main' = "absent"
    /\ status' = "stopped" /\ accepts' = FALSE
    /\ UNCHANGED <<exit, handler, slot, cancelled, outcome, faults>>

\* The process is killed: the SCM notices and marks the service stopped, with
\* the code it may have reported before.
ProcessDies ==
    /\ main # "absent"
    /\ main' = "absent" /\ handler' = "idle"
    /\ status' = "stopped" /\ accepts' = FALSE
    /\ exit' = IF status = "stopped" THEN exit ELSE "died"
    /\ UNCHANGED <<slot, cancelled, outcome, faults>>
-----------------------------------------------------------------------------
(* The control handler.                                                     *)

\* Stop or Shutdown; the SCM sends what the last report accepts.
ScmStops ==
    /\ accepts /\ handler = "idle"
    /\ handler' = "report"
    /\ UNCHANGED <<status, accepts, exit, main, slot, cancelled, outcome, faults>>

HandlerCancelsFirst ==
    /\ handler = "report"
    /\ IF cancelled THEN handler' = "cancel" /\ Reported("stop_pending")
                    ELSE UNCHANGED <<handler, status, accepts, faults>>
    /\ cancelled' = TRUE
    /\ UNCHANGED <<exit, main, slot, outcome>>

HandlerReports ==
    /\ handler = "report" /\ handler' = "cancel"
    /\ IF slot THEN Reported("stop_pending")
               ELSE UNCHANGED <<status, accepts, faults>>
    /\ UNCHANGED <<exit, main, slot, cancelled, outcome>>

HandlerOnlyReports ==
    /\ handler = "cancel" /\ handler' = "idle"
    /\ UNCHANGED <<status, accepts, exit, main, slot, cancelled, outcome, faults>>

HandlerCancels ==
    /\ handler = "cancel" /\ handler' = "idle"
    /\ cancelled' = TRUE
    /\ UNCHANGED <<status, accepts, exit, main, slot, outcome, faults>>
-----------------------------------------------------------------------------
MainStep ==
    \/ RegisterHandler \/ RegisterFails \/ FillSlot
    \/ ReportStartPending \/ StartPendingFails \/ Parse \/ Bootstrap
    \/ OnReady \/ LoopReturns \/ ReportStopPending \/ ReportStopped

HandlerStep == HandlerReports \/ HandlerCancels

Next ==
    \/ ScmStarts \/ ScmStops
    \/ MainStep \/ Panics \/ HandlerStep
    \/ ProcessEnds \/ ProcessDies

Spec == Init /\ [][Next]_vars

(* Both threads are scheduled, the bootstrap and the drain end, as they     *)
(* wait for nothing but the token, and a stopped service's process ends.    *)
FairSpec ==
    /\ Spec
    /\ WF_vars(MainStep) /\ WF_vars(HandlerStep) /\ WF_vars(ProcessEnds)
-----------------------------------------------------------------------------
(* Exit code 0, which keeps the SCM from restarting the service, is only    *)
(* ever reported by a service that was asked to stop (README.md:144).       *)
CleanExitWasAsked == exit = "ok" => cancelled

(* Nobody sees the service running again once it has begun to stop: the     *)
(* handler's StopPending is never overwritten by ServiceMain's Running,     *)
(* though they are sent by two threads.                                     *)
NeverBackToRunning == [][status = "stop_pending" => status' # "running"]_vars

(* The handler's StopPending never comes after ServiceMain's Stopped, which *)
(* would leave the SCM waiting for a service that is gone.  Only a panic    *)
(* that ends ServiceMain by itself, or a report that failed and left the    *)
(* controls open, can let the handler come too late.                        *)
StoppedIsFinal ==
    [][status = "stopped" /\ main # "absent" /\ outcome # "panic" /\ faults = 0
         => status' = "stopped"]_vars

(* Whatever the order of the two threads' reports and whichever fail, the   *)
(* SCM sees what Installer's commands reckon with.                          *)
View == INSTANCE ServiceView
            WITH asked <- main # "absent" /\ (cancelled \/ handler # "idle")
ImplementsView == View!ViewSpec

(* A stop control always brings ServiceMain to its end.                     *)
StopHonoured == handler = "report" ~> main \in {"returned", "absent"}

(* No StopPending hangs, not even after a panic, unless the SCM refuses a   *)
(* report (design.md:161).                                                  *)
NoHungStopPending == status = "stop_pending" ~> status = "stopped" \/ faults > 0
=============================================================================
