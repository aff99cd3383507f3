----------------------------- MODULE Installer -----------------------------
(***************************************************************************)
(* flamingo-agent --install and --uninstall (agent-rust/src/service/       *)
(* windows.rs) against the Service Control Manager and a service that      *)
(* starts, fails, is restarted and stops meanwhile, as ServiceView lets it.*)
(* One action is one SCM call: between two calls everything may change.    *)
(***************************************************************************)
EXTENDS Naturals

CONSTANTS
    Tools,      \* running commands; bound: those that run at once
    Polls,      \* polls of wait_for_state before its deadline
    Console     \* whether an administrator uses the Services console

ASSUME InstallerAssumption == Polls \in Nat /\ Console \in BOOLEAN

VARIABLES
    reg,        \* the registration
    status,     \* the service's state
    asked,      \* a stop was sent to its process
    policy,     \* failure actions: none, on a crash, also on a non-zero exit
    attempts,   \* failures counted by the SCM
    restart,    \* a restart is due
    source,     \* the event source: its key, and the values under it
    pc,         \* where each command is, or how the last one ended
    left        \* its polls left

scm   == <<reg, status, asked, policy, attempts, restart, source>>
tools == <<pc, left>>
vars  == <<reg, status, asked, policy, attempts, restart, source, pc, left>>

InstallPCs   == {"create", "open", "recovery", "flag", "events", "query", "start", "wait"}
UninstallPCs == {"u_open", "u_query", "u_stop", "u_wait", "u_delete", "u_events"}
\* Which ServiceError a command returns is not told apart.
Results == {"ok", "error"}

\* recovery_policy: restart, restart, none.
Restarts == 2

TypeOK ==
    /\ reg \in {"absent", "registered", "marked"}
    /\ status \in {"stopped", "start_pending", "running", "stop_pending"}
    /\ reg = "absent" => status = "stopped"
    /\ asked \in BOOLEAN
    /\ policy \in {"none", "crash", "all"}
    /\ attempts \in 0 .. Restarts
    /\ restart \in BOOLEAN
    /\ source \in {"none", "partial", "full"}
    /\ pc \in [Tools -> Results \cup InstallPCs \cup UninstallPCs]
    /\ left \in [Tools -> 0 .. Polls]

Init ==
    /\ reg = "absent" /\ status = "stopped" /\ asked = FALSE
    /\ policy = "none" /\ attempts = 0 /\ restart = FALSE
    /\ source = "none"
    /\ pc = [t \in Tools |-> "ok"]
    /\ left = [t \in Tools |-> 0]
-----------------------------------------------------------------------------
(* The service and the SCM.                                                 *)

View == INSTANCE ServiceView

RestartsForEver(ending) ==
    /\ reg = "registered"
    /\ CASE ending = "died"   -> policy # "none"
         [] ending = "failed" -> policy = "all"
         [] ending = "ok"     -> FALSE

\* A process that died is a failure, a non-zero exit only with the flag set.
RestartsAfter(ending) ==
    /\ reg = "registered" /\ attempts < Restarts
    /\ CASE ending = "died"   -> policy # "none"
         [] ending = "failed" -> policy = "all"
         [] ending = "ok"     -> FALSE

Counts(ending) ==
    /\ IF RestartsAfter(ending)
       THEN /\ restart' = TRUE
            /\ attempts' = IF attempts < Restarts THEN attempts + 1 ELSE attempts
       ELSE UNCHANGED <<restart, attempts>>
    /\ UNCHANGED <<reg, policy>>

Uncounted == UNCHANGED <<reg, policy, attempts, restart>>

BecomesRunning == View!ShowsRunning /\ Uncounted

\* It was asked to, or the bootstrap fails, or ServiceMain panics.
BeginsToStop == View!ShowsStopPending /\ Uncounted

ReportsStopped ==
    /\ View!ShowsStopped
    /\ \E code \in {"ok", "failed"} : View!MayExit(code) /\ Counts(code)

ServiceDies == View!Dies /\ Counts("died")

ProcessGone == View!ProcessGone /\ Uncounted

\* An administrator in the Services console.
ConsoleStops == Console /\ View!Ask /\ Uncounted

ConsoleStarts ==
    /\ Console
    /\ reg = "registered" /\ View!Begin /\ Uncounted

\* RESTART_DELAY is over; nothing happens if the service is not stopped any more.
Restart ==
    /\ restart /\ restart' = FALSE
    /\ IF reg = "registered" /\ status = "stopped" THEN View!Begin ELSE UNCHANGED <<status, asked>>
    /\ UNCHANGED <<reg, policy, attempts>>

\* FAILURE_RESET_PERIOD has passed without a failure.
GoodDay ==
    /\ status = "running" /\ attempts > 0 /\ attempts' = 0
    /\ UNCHANGED <<reg, status, asked, policy, restart>>

RemovedAtOnce ==
    /\ reg = "marked"
    /\ \A t \in Tools : pc[t] \in Results \cup {"create", "open", "u_open"}
    /\ reg' = "absent" /\ policy' = "none" /\ attempts' = 0 /\ restart' = FALSE
    /\ UNCHANGED <<status, asked>>

\* A registration marked for deletion goes with its process and its last handle.
Removed ==
    /\ reg = "marked" /\ status = "stopped" /\ ~asked
    /\ \A t \in Tools : pc[t] \in Results \cup {"create", "open", "u_open"}
    /\ reg' = "absent" /\ policy' = "none" /\ attempts' = 0 /\ restart' = FALSE
    /\ UNCHANGED <<status, asked>>

ServiceStep ==
    /\ \/ BecomesRunning \/ BeginsToStop \/ ReportsStopped \/ ServiceDies
       \/ ProcessGone \/ ConsoleStops \/ ConsoleStarts \/ Restart \/ GoodDay \/ Removed
    /\ UNCHANGED <<source, tools>>
-----------------------------------------------------------------------------
(* The commands.                                                            *)

Goes(t, from, to) ==
    /\ pc[t] = from
    /\ pc' = [pc EXCEPT ![t] = to]
    /\ UNCHANGED left

GoesWaiting(t, from, to) ==
    /\ pc[t] = from
    /\ pc' = [pc EXCEPT ![t] = to]
    /\ left' = [left EXCEPT ![t] = Polls]

Ends(t, from, r) ==
    /\ pc[t] = from
    /\ pc' = [pc EXCEPT ![t] = r]
    /\ left' = [left EXCEPT ![t] = 0]

Command(t) ==
    /\ pc[t] \in Results
    /\ \E first \in {"create", "u_open"} : Goes(t, pc[t], first)
    /\ UNCHANGED scm

\* Any SCM or registry call may fail; `?` returns the error.
CallFails(t) ==
    /\ pc[t] \notin Results
    /\ Ends(t, pc[t], "error")
    /\ UNCHANGED scm

\* The SCM refuses calls on a registration that is marked or gone, and the
\* start of a service that is not stopped any more (1056).
Refused(t) ==
    /\ \/ pc[t] \in {"open", "recovery", "flag", "start", "u_delete"} /\ reg # "registered"
       \/ pc[t] = "start" /\ status # "stopped"
    /\ Ends(t, pc[t], "error")
    /\ UNCHANGED scm

\* create_service, or else open_service and change_config.
Create(t) ==
    \/ /\ reg = "absent" /\ reg' = "registered"
       /\ Goes(t, "create", "recovery")
       /\ UNCHANGED <<status, asked, policy, attempts, restart, source>>
    \/ reg = "registered" /\ Goes(t, "create", "open") /\ UNCHANGED scm
    \/ reg = "marked" /\ Ends(t, "create", "error") /\ UNCHANGED scm

OpenExisting(t) ==
    /\ reg = "registered" /\ Goes(t, "open", "recovery")
    /\ UNCHANGED scm

SetsPolicy(p) ==
    /\ reg = "registered" /\ policy' = p
    /\ UNCHANGED <<reg, status, asked, attempts, restart, source>>

\* update_failure_actions; the flag of an earlier install stays.
SetRecovery(t) ==
    /\ Goes(t, "recovery", "flag")
    /\ SetsPolicy(IF policy = "all" THEN "all" ELSE "crash")

FlagSkipped(t) ==
    /\ Goes(t, "flag", "events")
    /\ UNCHANGED scm

\* set_failure_actions_on_non_crash_failures(true)
SetFlag(t) ==
    /\ Goes(t, "flag", "events")
    /\ SetsPolicy("all")

SourceBecomes(s) ==
    /\ source' = s
    /\ UNCHANGED <<reg, status, asked, policy, attempts, restart>>

\* What is there is written over, and never taken away.
SourceInPart == SourceBecomes(IF source = "full" THEN "full" ELSE "partial")

KeyWithoutValues(t) == Goes(t, "events", "query") /\ SourceInPart

\* The key and, in set_values, the message file and the types: three calls in
\* one step.  An uninstall that deleted the key between them would have marked
\* the registration before, and no start would follow.
RegisterSource(t) == Goes(t, "events", "query") /\ SourceBecomes("full")

SetValuesFails(t) == Ends(t, "events", "error") /\ SourceInPart

\* Only a fully stopped service is started.
Query(t) ==
    /\ IF status = "stopped" THEN Goes(t, "query", "start")
                             ELSE GoesWaiting(t, "query", "wait")
    /\ UNCHANGED scm

StartService(t) ==
    /\ reg = "registered" /\ status = "stopped"
    /\ GoesWaiting(t, "start", "wait")
    /\ View!Begin
    /\ UNCHANGED <<reg, policy, attempts, restart, source>>

SleepsForEver(t, at) ==
    /\ pc[t] = at
    /\ UNCHANGED tools

\* One turn of wait_for_state: a look, and a sleep if the time is not over.
Sleeps(t, at) ==
    /\ pc[t] = at /\ left[t] > 0
    /\ left' = [left EXCEPT ![t] = @ - 1]
    /\ UNCHANGED pc

WaitRunning(t) ==
    /\ \/ status = "running" /\ Ends(t, "wait", "ok")
       \/ status = "stopped" /\ Ends(t, "wait", "error")
       \/ /\ status \notin {"running", "stopped"}
          /\ \/ Sleeps(t, "wait")
             \/ left[t] = 0 /\ Ends(t, "wait", "error")
    /\ UNCHANGED scm

Open(t) ==
    /\ \/ reg = "absent" /\ Ends(t, "u_open", "error")
       \/ reg # "absent" /\ Goes(t, "u_open", "u_query")
    /\ UNCHANGED scm

QueryStopped(t) ==
    /\ Goes(t, "u_query", IF status = "stopped" THEN "u_delete" ELSE "u_stop")
    /\ UNCHANGED scm

\* A stop that fails is not fatal: it is only the error returned if the wait
\* fails as well.
Stop(t) ==
    /\ GoesWaiting(t, "u_stop", "u_wait")
    /\ View!Ask \/ UNCHANGED <<status, asked>>
    /\ UNCHANGED <<reg, policy, attempts, restart, source>>

WaitStopped(t) ==
    /\ \/ status = "stopped" /\ Goes(t, "u_wait", "u_delete")
       \/ /\ status # "stopped"
          /\ \/ Sleeps(t, "u_wait")
             \/ left[t] = 0 /\ Ends(t, "u_wait", "error")
    /\ UNCHANGED scm

Delete(t) ==
    /\ reg = "registered" /\ reg' = "marked"
    /\ Goes(t, "u_delete", "u_events")
    /\ UNCHANGED <<status, asked, policy, attempts, restart, source>>

\* A key that is not there is no error.
UnregisterSource(t) == Ends(t, "u_events", "ok") /\ SourceBecomes("none")

Install(t) ==
    \/ Create(t) \/ OpenExisting(t) \/ SetRecovery(t) \/ SetFlag(t)
    \/ RegisterSource(t) \/ Query(t) \/ StartService(t) \/ WaitRunning(t)

Uninstall(t) ==
    \/ Open(t) \/ QueryStopped(t) \/ Stop(t) \/ WaitStopped(t)
    \/ Delete(t) \/ UnregisterSource(t)

ToolStep(t) == Install(t) \/ Uninstall(t) \/ Refused(t)

Next ==
    \/ ServiceStep
    \/ \E t \in Tools : Command(t) \/ ToolStep(t) \/ CallFails(t) \/ SetValuesFails(t)

Spec == Init /\ [][Next]_vars

(* A command goes on until it ends, as each call returns.  Nothing is       *)
(* assumed of the service, and no failure that the SCM is free to report.   *)
FairSpec == Spec /\ \A t \in Tools : WF_vars(ToolStep(t))
-----------------------------------------------------------------------------
(* install never starts a service whose failures the SCM would not answer,  *)
(* whatever another command does between its calls.                         *)
StartedServiceRecovers ==
    [][\A t \in Tools : pc[t] = "start" /\ pc'[t] = "wait" => policy = "all"]_vars

(* Nor one whose first event could not be rendered, even if another command *)
(* removes the source meanwhile: "registered before the first start so even *)
(* the first lifecycle event renders" (service/windows.rs:288).             *)
StartedServiceHasSource ==
    [][\A t \in Tools : pc[t] = "start" /\ pc'[t] = "wait" => source = "full"]_vars

(* A command ends, whatever the service does, hung in a pending state or    *)
(* restarting again and again.                                              *)
CommandsEnd == \A t \in Tools : pc[t] \notin Results ~> pc[t] \in Results

(* The SCM restarts a service for ever only if its count of failures goes   *)
(* back time and again, by a good day or with a new registration: "a        *)
(* bounded count keeps a persistently broken deployment from restarting     *)
(* forever" (service/windows.rs:234-236).                                   *)
RestartsAreBounded ==
    []<><<restart /\ ~restart'>>_vars => []<><<attempts > attempts'>>_vars

(* What --uninstall promises (service/windows.rs:298): it stops the service *)
(* if it is running, and then deletes it.                                   *)
DeletesStoppedService ==
    [][\A t \in Tools : pc[t] = "u_delete" /\ pc'[t] = "u_events"
         => status = "stopped"]_vars
=============================================================================
