---------------------------- MODULE ServiceView ----------------------------
(***************************************************************************)
(* What the Service Control Manager can see of the service: run_service in *)
(* agent-rust/src/service/windows.rs, from outside.  Service implements it *)
(* with two threads and reports that may fail; Installer's commands deal   *)
(* with it.                                                                *)
(***************************************************************************)
VARIABLES
    status,     \* the state shown
    asked       \* a stop was sent to the process there is

view == <<status, asked>>

Statuses == {"stopped", "start_pending", "running", "stop_pending"}

ViewInit == status = "stopped" /\ asked = FALSE

\* The SCM starts the service, on a command, in the console or as a recovery.
Begin ==
    /\ status = "stopped" /\ status' = "start_pending"
    /\ asked' = FALSE

\* Stop and Shutdown are accepted while Running is shown.
Ask ==
    /\ status = "running" /\ asked' = TRUE
    /\ UNCHANGED status

ShowsRunning ==
    /\ status = "start_pending" /\ status' = "running"
    /\ UNCHANGED asked

\* The handler of a stop may come after ServiceMain's Stopped.
ShowsStopPending ==
    /\ status \in {"start_pending", "running"} \/ (status = "stopped" /\ asked)
    /\ status' = "stop_pending"
    /\ UNCHANGED asked

\* With or without a StopPending before; the process may go with it.
ShowsStopped ==
    /\ status # "stopped" /\ status' = "stopped"
    /\ asked' \in {asked, FALSE}

\* What CleanExitWasAsked says of the exit code shown with Stopped.
MayExit(code) == code = "failed" \/ (code = "ok" /\ asked)

Dies ==
    /\ status # "stopped" /\ status' = "stopped"
    /\ asked' = FALSE

\* The process of a stopped service ends.
ProcessGone ==
    /\ status = "stopped" /\ asked' = FALSE
    /\ UNCHANGED status

ViewNext ==
    \/ Begin \/ Ask \/ ShowsRunning \/ ShowsStopPending \/ ShowsStopped
    \/ Dies \/ ProcessGone

ViewSpec == ViewInit /\ [][ViewNext]_view
=============================================================================
