---------------------------- MODULE PeriodicTask ----------------------------
(***************************************************************************)
(* What the tick loop promises (agent-rust/src/agent.rs:1-21), whatever    *)
(* the cycle does: runs never overlap, they start at least Period apart,   *)
(* only a request stops the task and it stops between two runs.            *)
(***************************************************************************)
EXTENDS Naturals

CONSTANT Period     \* a positive number, assumed where the module is instantiated

VARIABLES
    task,       \* "idle", "running" or "stopped"
    since,      \* time since the last run started, up to Period
    requested   \* a stop was requested

tvars == <<task, since, requested>>

TaskInit == task = "idle" /\ since = Period /\ requested = FALSE

Start ==
    /\ task = "idle" /\ since = Period
    /\ task' = "running" /\ since' = 0
    /\ UNCHANGED requested

Finish ==
    /\ task = "running"
    /\ task' = "idle"
    /\ UNCHANGED <<since, requested>>

Request ==
    /\ requested' = TRUE
    /\ UNCHANGED <<task, since>>

Stop ==
    /\ task = "idle" /\ requested
    /\ task' = "stopped"
    /\ UNCHANGED <<since, requested>>

Pass ==
    /\ since < Period
    /\ since' = since + 1
    /\ UNCHANGED <<task, requested>>

TaskNext == Start \/ Finish \/ Request \/ Stop \/ Pass

TaskSpec == TaskInit /\ [][TaskNext]_tvars
=============================================================================
