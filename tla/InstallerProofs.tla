-------------------------- MODULE InstallerProofs --------------------------
(***************************************************************************)
(* Any number of commands, at once and in any order, with any patience:    *)
(* the service that --install starts is one whose failures are answered.   *)
(***************************************************************************)
EXTENDS Installer, TLAPS

\* What a command has set stays set while it holds its handle: only a removed
\* registration forgets it, and none is removed under an open handle.
PolicySet ==
    \A t \in Tools :
        /\ pc[t] = "flag" => policy # "none"
        /\ pc[t] \in {"events", "query", "start"} => policy = "all"

\* The source goes after the registration has been marked, and so has every
\* command that might still start the service.
SourceSet ==
    /\ reg = "registered" =>
          \A t \in Tools : pc[t] \in {"query", "start"} => source = "full"
    /\ \A t \in Tools : pc[t] = "u_events" => reg = "marked"
    /\ reg = "absent" => \A t \in Tools : pc[t] \in Results \cup {"create", "open", "u_open"}

\* Nobody asks what is not registered, and a removal waits for the last handler.
AbsentIsQuiet == reg = "absent" => ~asked

IInv == TypeOK /\ PolicySet /\ SourceSet /\ AbsentIsQuiet

\* However the process ends, the SCM counts at most the failures it answers.
LEMMA CountsBounded ==
    ASSUME TypeOK, NEW ending, Counts(ending)
    PROVE  attempts' \in 0 .. Restarts /\ restart' \in BOOLEAN
  <1>1. CASE RestartsAfter(ending)
    <2>1. attempts < Restarts
      BY <1>1 DEF RestartsAfter
    <2>2. restart' = TRUE /\ attempts' = attempts + 1
      BY <1>1, <2>1 DEF Counts
    <2>3. QED
      BY <2>1, <2>2 DEF TypeOK, Restarts
  <1>2. CASE ~RestartsAfter(ending)
    <2>1. restart' = restart /\ attempts' = attempts
      BY <1>2 DEF Counts
    <2>2. QED
      BY <2>1 DEF TypeOK
  <1>3. QED
    BY <1>1, <1>2

\* A change of what is shown, with or without a failure counted.
LEMMA ViewStepKeeps ==
    ASSUME IInv, UNCHANGED <<reg, policy, source, tools>>,
           View!ViewNext, View!Begin => reg = "registered",
           attempts' \in 0 .. Restarts, restart' \in BOOLEAN
    PROVE  IInv'
  <1>1. /\ status' \in {"stopped", "start_pending", "running", "stop_pending"}
        /\ asked' \in BOOLEAN
        /\ reg = "absent" => status' = "stopped" /\ ~asked'
    BY DEF IInv, TypeOK, AbsentIsQuiet, View!ViewNext, View!Begin, View!Ask, View!ShowsRunning,
           View!ShowsStopPending, View!ShowsStopped, View!Dies, View!ProcessGone
  <1>2. TypeOK'
    BY <1>1 DEF IInv, TypeOK, tools
  <1>3. PolicySet' /\ SourceSet' /\ AbsentIsQuiet'
    BY <1>1 DEF IInv, PolicySet, SourceSet, AbsentIsQuiet, tools
  <1>4. QED
    BY <1>2, <1>3 DEF IInv

LEMMA ServiceStepKeeps ==
    ASSUME IInv, ServiceStep
    PROVE  IInv'
  <1>0. UNCHANGED <<source, tools>> /\ TypeOK
    BY DEF ServiceStep, IInv
  <1>1. CASE BecomesRunning \/ BeginsToStop \/ ProcessGone \/ ConsoleStops \/ ConsoleStarts
    <2>1. /\ UNCHANGED <<reg, policy>> /\ View!ViewNext
          /\ attempts' \in 0 .. Restarts /\ restart' \in BOOLEAN
      BY <1>0, <1>1 DEF BecomesRunning, BeginsToStop, ProcessGone, ConsoleStops, ConsoleStarts, Uncounted,
             View!ViewNext, TypeOK
    <2>2. View!Begin => reg = "registered"
      BY <1>1 DEF BecomesRunning, BeginsToStop, ProcessGone, ConsoleStops, ConsoleStarts, View!Begin,
             View!ShowsRunning, View!ShowsStopPending, View!ProcessGone, View!Ask
    <2>3. QED
      BY <1>0, <2>1, <2>2, ViewStepKeeps
  <1>2. CASE ReportsStopped \/ ServiceDies
    <2>1. PICK ending : Counts(ending)
      BY <1>2 DEF ReportsStopped, ServiceDies
    <2>2. attempts' \in 0 .. Restarts /\ restart' \in BOOLEAN
      BY <1>0, <2>1, CountsBounded
    <2>3. UNCHANGED <<reg, policy>> /\ View!ViewNext /\ ~View!Begin
      BY <1>2, <2>1 DEF ReportsStopped, ServiceDies, Counts, View!ViewNext, View!Begin,
             View!ShowsStopped, View!Dies
    <2>4. QED
      BY <1>0, <2>2, <2>3, ViewStepKeeps
  <1>3. CASE Restart
    <2>1. CASE reg = "registered" /\ status = "stopped"
      <3>1. /\ UNCHANGED <<reg, policy>> /\ View!ViewNext
            /\ attempts' \in 0 .. Restarts /\ restart' \in BOOLEAN
        BY <1>0, <1>3, <2>1 DEF Restart, View!ViewNext, TypeOK
      <3>2. QED
        BY <1>0, <2>1, <3>1, ViewStepKeeps
    <2>2. CASE ~(reg = "registered" /\ status = "stopped")
      BY <1>0, <1>3, <2>2 DEF Restart, IInv, TypeOK, PolicySet, SourceSet, AbsentIsQuiet, tools
    <2>3. QED
      BY <2>1, <2>2
  <1>4. CASE GoodDay
    BY <1>0, <1>4 DEF GoodDay, IInv, TypeOK, PolicySet, SourceSet, AbsentIsQuiet, tools, Restarts
  <1>9. CASE Removed
    <2>1. \A t \in Tools : pc[t] \notin {"flag", "events", "query", "start"}
      BY <1>9 DEF Removed, Results
    <2>2. /\ status = "stopped" /\ reg' = "absent" /\ policy' = "none" /\ ~asked
          /\ attempts' = 0 /\ restart' = FALSE
          /\ UNCHANGED <<status, asked, source, pc, left>>
      BY <1>0, <1>9 DEF Removed, tools
    <2>3. attempts' \in 0 .. Restarts
      BY <2>2 DEF Restarts
    <2>4. restart' \in BOOLEAN
      BY <2>2
    <2>5. /\ reg' \in {"absent", "registered", "marked"}
          /\ policy' \in {"none", "crash", "all"}
          /\ status' = "stopped"
      BY <2>2
    <2>6. TypeOK'
      BY <1>0, <2>2, <2>3, <2>4, <2>5 DEF TypeOK
    <2>7. PolicySet' /\ AbsentIsQuiet'
      BY <2>1, <2>2 DEF PolicySet, AbsentIsQuiet
    <2>8. SourceSet'
      BY <1>9, <2>1, <2>2 DEF Removed, Results, SourceSet
    <2>9. QED
      BY <2>6, <2>7, <2>8 DEF IInv
  <1>10. QED
    BY <1>1, <1>2, <1>3, <1>4, <1>9 DEF ServiceStep

\* A command's call that has the SCM start the process or ask it to stop.
LEMMA CallKeeps ==
    ASSUME IInv, NEW t \in Tools, UNCHANGED <<reg, policy, attempts, restart, source>>,
           \/ reg = "registered" /\ View!Begin /\ GoesWaiting(t, "start", "wait")
           \/ /\ View!Ask \/ UNCHANGED <<status, asked>>
              /\ GoesWaiting(t, "u_stop", "u_wait")
    PROVE  IInv'
  <1>1. asked' \in BOOLEAN
    BY DEF IInv, TypeOK, View!Begin, View!Ask
  <1>2. /\ status' \in {"stopped", "start_pending", "running", "stop_pending"}
        /\ reg = "absent" => status' = "stopped"
    BY DEF IInv, TypeOK, View!Begin, View!Ask
  <1>3. pc[t] \in {"start", "u_stop"} /\ reg # "absent"
    BY DEF IInv, SourceSet, GoesWaiting, Results
  <1>4. /\ pc' \in [Tools -> Results \cup InstallPCs \cup UninstallPCs]
        /\ left' \in [Tools -> 0 .. Polls]
    BY InstallerAssumption DEF IInv, TypeOK, GoesWaiting, InstallPCs, UninstallPCs, Results
  <1>5. TypeOK'
    BY <1>1, <1>2, <1>4 DEF IInv, TypeOK
  <1>6. PolicySet' /\ AbsentIsQuiet'
    BY <1>3 DEF IInv, TypeOK, PolicySet, AbsentIsQuiet, GoesWaiting
  <1>7. SourceSet'
    BY <1>3 DEF IInv, TypeOK, SourceSet, GoesWaiting, Results
  <1>8. QED
    BY <1>5, <1>6, <1>7 DEF IInv

LEMMA InstallKeeps ==
    ASSUME IInv, NEW t \in Tools, Install(t)
    PROVE  IInv'
  <1> USE InstallerAssumption
      DEF IInv, TypeOK, PolicySet, SourceSet, AbsentIsQuiet, scm, Goes, GoesWaiting, Ends, SetsPolicy, SourceBecomes, Sleeps,
          Results, InstallPCs, UninstallPCs
  <1>1. CASE Create(t)
    BY <1>1 DEF Create
  <1>2. CASE OpenExisting(t)
    BY <1>2 DEF OpenExisting
  <1>3. CASE SetRecovery(t)
    BY <1>3 DEF SetRecovery
  <1>4. CASE SetFlag(t)
    BY <1>4 DEF SetFlag
  <1>5. CASE RegisterSource(t)
    BY <1>5 DEF RegisterSource
  <1>6. CASE Query(t)
    BY <1>6 DEF Query
  <1>7. CASE StartService(t)
    <2>1. View!Begin /\ GoesWaiting(t, "start", "wait")
          /\ reg = "registered" /\ UNCHANGED <<reg, policy, attempts, restart, source>>
      BY <1>7 DEF StartService
    <2>2. QED
      BY <2>1, CallKeeps
  <1>8. CASE WaitRunning(t)
    BY <1>8 DEF WaitRunning
  <1>9. QED
    BY <1>1, <1>2, <1>3, <1>4, <1>5, <1>6, <1>7, <1>8 DEF Install

LEMMA UninstallKeeps ==
    ASSUME IInv, NEW t \in Tools, Uninstall(t)
    PROVE  IInv'
  <1> USE InstallerAssumption
      DEF IInv, TypeOK, PolicySet, SourceSet, AbsentIsQuiet, scm, Goes, GoesWaiting, Ends, SourceBecomes, Sleeps,
          Results, InstallPCs, UninstallPCs
  <1>1. CASE Open(t)
    BY <1>1 DEF Open
  <1>2. CASE QueryStopped(t)
    BY <1>2 DEF QueryStopped
  <1>3. CASE Stop(t)
    <2>1. (View!Ask \/ UNCHANGED <<status, asked>>) /\ GoesWaiting(t, "u_stop", "u_wait")
          /\ UNCHANGED <<reg, policy, attempts, restart, source>>
      BY <1>3 DEF Stop
    <2>2. QED
      BY <2>1, CallKeeps
  <1>4. CASE WaitStopped(t)
    BY <1>4 DEF WaitStopped
  <1>5. CASE Delete(t)
    BY <1>5 DEF Delete
  <1>6. CASE UnregisterSource(t)
    BY <1>6 DEF UnregisterSource
  <1>7. QED
    BY <1>1, <1>2, <1>3, <1>4, <1>5, <1>6 DEF Uninstall

LEMMA CommandKeeps ==
    ASSUME IInv, NEW t \in Tools, Command(t) \/ CallFails(t) \/ SetValuesFails(t) \/ Refused(t)
    PROVE  IInv'
  <1> USE InstallerAssumption
      DEF IInv, TypeOK, PolicySet, SourceSet, AbsentIsQuiet, scm, Goes, Ends, Results, InstallPCs, UninstallPCs
  <1>1. CASE Command(t)
    BY <1>1 DEF Command
  <1>2. CASE CallFails(t)
    BY <1>2 DEF CallFails
  <1>3. CASE Refused(t)
    BY <1>3 DEF Refused
  <1>4. CASE SetValuesFails(t)
    BY <1>4 DEF SetValuesFails, SourceInPart, SourceBecomes
  <1>5. QED
    BY <1>1, <1>2, <1>3, <1>4

\* Any step at all.
LEMMA StepKeeps == IInv /\ [Next]_vars => IInv'
  <1>1. IInv /\ Next => IInv'
    BY ServiceStepKeeps, InstallKeeps, UninstallKeeps, CommandKeeps DEF Next, ToolStep
  <1>2. IInv /\ UNCHANGED vars => IInv'
    BY DEF vars, IInv, TypeOK, PolicySet, SourceSet, AbsentIsQuiet
  <1>3. QED
    BY <1>1, <1>2

(* The registration and the commands that hold it, through every step.      *)
THEOREM InstallerInductive == Spec => []IInv
  <1>1. Init => IInv
    <2>1. SUFFICES ASSUME Init PROVE IInv
      OBVIOUS
    <2>2. /\ reg = "absent" /\ status = "stopped" /\ asked = FALSE
          /\ policy = "none" /\ attempts = 0 /\ restart = FALSE
          /\ source = "none"
          /\ pc = [t \in Tools |-> "ok"] /\ left = [t \in Tools |-> 0]
      BY <2>1 DEF Init
    <2>3. attempts \in 0 .. Restarts /\ left \in [Tools -> 0 .. Polls]
      BY <2>2, InstallerAssumption DEF Restarts
    <2>4. TypeOK
      BY <2>2, <2>3 DEF TypeOK, Results
    <2>5. QED
      BY <2>2, <2>4 DEF IInv, PolicySet, SourceSet, AbsentIsQuiet, Results
  <1>2. QED
    BY <1>1, StepKeeps, PTL DEF Spec

(* Every variable keeps its type: a removed service is a stopped one, and    *)
(* the SCM never counts more failures than it answers.                      *)
THEOREM InstallerTypeCorrect == Spec => []TypeOK
  BY InstallerInductive, PTL DEF IInv

(* install never starts a service whose failures the SCM would not answer,  *)
(* for any number of commands running at once.                              *)
THEOREM StartsWithRecovery == Spec => StartedServiceRecovers
  <1>1. IInv /\ [Next]_vars
          => [\A t \in Tools : pc[t] = "start" /\ pc'[t] = "wait" => policy = "all"]_vars
    BY DEF IInv, PolicySet
  <1>2. QED
    BY <1>1, InstallerInductive, PTL DEF Spec, StartedServiceRecovers

(* Nor one without its event source, though commands that remove it run     *)
(* between the registration of the source and the start.                    *)
THEOREM StartsWithSource == Spec => StartedServiceHasSource
  <1>1. ASSUME IInv, Next, NEW t \in Tools, pc[t] = "start", pc'[t] = "wait"
        PROVE  source = "full"
    <2>1. reg = "registered" \/ source = "full"
      <3>1. pc[t] # pc'[t]
        BY <1>1
      <3>2. ~ServiceStep
        BY <3>1 DEF ServiceStep, tools
      <3>3. PICK u \in Tools : Command(u) \/ ToolStep(u) \/ CallFails(u) \/ SetValuesFails(u)
        BY <1>1, <3>2 DEF Next
      <3> USE DEF IInv, TypeOK
      <3>4. CASE Command(u) \/ CallFails(u) \/ SetValuesFails(u) \/ Refused(u)
        BY <1>1, <3>4 DEF Command, CallFails, SetValuesFails, Refused, Goes, Ends, Results
      <3>5. CASE Install(u)
        BY <1>1, <3>5 DEF Install, Create, OpenExisting, SetRecovery, SetFlag, RegisterSource, Query,
                          StartService, WaitRunning, Goes, GoesWaiting, Ends, Sleeps
      <3>6. CASE Uninstall(u)
        BY <1>1, <3>6 DEF Uninstall, Open, QueryStopped, Stop, WaitStopped, Delete, UnregisterSource,
                          Goes, GoesWaiting, Ends, Sleeps
      <3>7. QED
        BY <3>3, <3>4, <3>5, <3>6 DEF ToolStep
    <2>2. QED
      BY <1>1, <2>1 DEF IInv, SourceSet
  <1>2. IInv /\ [Next]_vars
          => [\A t \in Tools : pc[t] = "start" /\ pc'[t] = "wait" => source = "full"]_vars
    BY <1>1
  <1>3. QED
    BY <1>2, InstallerInductive, PTL DEF Spec, StartedServiceHasSource
-----------------------------------------------------------------------------
(* Restarts without an end.  A due restart has cost one of the two attempts, *)
(* and is due once.                                                         *)
Due == restart
One == attempts >= 1
Two == attempts >= 2
Fires == restart /\ ~restart'
Forgets == attempts > attempts'

\* The attempts only grow unless the SCM forgets them, and grow with every restart that falls due.
LEMMA RestartTakesAnAttempt ==
    ASSUME IInv, [Next]_vars
    PROVE  \/ attempts > attempts' /\ vars # vars'
           \/ /\ attempts' >= attempts
              /\ ~restart /\ restart' => attempts' = attempts + 1
  <1>0. attempts \in Nat /\ attempts <= 2
    BY DEF IInv, TypeOK, Restarts
  <1>1. CASE UNCHANGED vars
    BY <1>0, <1>1 DEF vars
  <1>2. ASSUME NEW ending, Counts(ending)
        PROVE  attempts' >= attempts /\ (~restart /\ restart' => attempts' = attempts + 1)
    <2>1. CASE RestartsAfter(ending)
      <3>1. attempts < Restarts
        BY <2>1 DEF RestartsAfter
      <3>2. attempts' = attempts + 1
        BY <1>2, <2>1, <3>1 DEF Counts
      <3>3. QED
        BY <1>0, <3>2
    <2>2. CASE ~RestartsAfter(ending)
      BY <1>0, <1>2, <2>2 DEF Counts
    <2>3. QED
      BY <2>1, <2>2
  <1>3. CASE ServiceStep
    <2>1. CASE BecomesRunning \/ BeginsToStop \/ ProcessGone \/ ConsoleStops \/ ConsoleStarts
      BY <1>0, <2>1 DEF BecomesRunning, BeginsToStop, ProcessGone, ConsoleStops, ConsoleStarts, Uncounted
    <2>2. CASE ReportsStopped \/ ServiceDies
      BY <1>2, <2>2 DEF ReportsStopped, ServiceDies
    <2>3. CASE Restart
      BY <1>0, <2>3 DEF Restart
    <2>4. CASE GoodDay \/ Removed
      <3>1. attempts' = 0 /\ (restart' => restart)
        BY <2>4 DEF GoodDay, Removed
      <3>2. CASE attempts > 0
        BY <1>0, <3>1, <3>2 DEF vars
      <3>3. CASE attempts = 0
        BY <3>1, <3>3
      <3>4. QED
        BY <1>0, <3>2, <3>3
    <2>5. QED
      BY <1>3, <2>1, <2>2, <2>3, <2>4 DEF ServiceStep
  <1>4. ASSUME NEW t \in Tools, Command(t) \/ ToolStep(t) \/ CallFails(t) \/ SetValuesFails(t)
        PROVE  UNCHANGED <<attempts, restart>>
    BY <1>4 DEF Command, ToolStep, CallFails, SetValuesFails, Install, Uninstall, Refused, Create,
       OpenExisting, SetRecovery, SetFlag, RegisterSource, Query, StartService, WaitRunning, Open,
       QueryStopped, Stop, WaitStopped, Delete, UnregisterSource, SetsPolicy, SourceBecomes,
       SourceInPart, scm
  <1>5. QED
    BY <1>0, <1>1, <1>3, <1>4 DEF Next

(* A service that is restarted for ever is forgiven for ever, by good days  *)
(* or by new registrations: the bounded count of recovery_policy ends every *)
(* other series of failures.  No fairness is needed, for what is shown is   *)
(* that something goes on only if another thing does.                       *)
THEOREM RestartsEnd == Spec => RestartsAreBounded
  <1>1. IInv /\ [Next]_vars =>
            \/ <<Forgets>>_vars
            \/ /\ One => One'
               /\ Two => Two'
               /\ ~Due /\ Due' => (~One /\ One') \/ (~Two /\ Two')
    <2>. SUFFICES ASSUME IInv, [Next]_vars, ~<<Forgets>>_vars
                  PROVE  /\ One => One'
                         /\ Two => Two'
                         /\ ~Due /\ Due' => (~One /\ One') \/ (~Two /\ Two')
      OBVIOUS
    <2>1. /\ attempts' >= attempts
          /\ ~restart /\ restart' => attempts' = attempts + 1
      BY RestartTakesAnAttempt DEF Forgets
    <2>2. attempts \in 0 .. 2 /\ attempts' \in 0 .. 2
      <3>1. IInv'
        BY StepKeeps
      <3>2. QED
        BY <3>1 DEF IInv, TypeOK, Restarts
    <2>3. QED
      BY <2>1, <2>2 DEF Due, One, Two
  <1>2. <<Fires>>_vars => Due /\ ~Due'
    BY DEF Fires, Due
  <1>3. Spec => ([]<><<Fires>>_vars => []<><<Forgets>>_vars)
    BY <1>1, <1>2, InstallerInductive, PTL DEF Spec
  <1>4. QED
    BY <1>3 DEF RestartsAreBounded, Fires, Forgets
-----------------------------------------------------------------------------
(* Why a command ends: what is before it only gets less.                    *)

\* The calls a command may still make, at most; the sleeps of a wait apart.
Before ==
    [create |-> 8, open |-> 7, recovery |-> 6, flag |-> 5, events |-> 4, query |-> 3, start |-> 2, wait |-> 1,
     u_open |-> 6, u_query |-> 5, u_stop |-> 4, u_wait |-> 3, u_delete |-> 2, u_events |-> 1,
     ok |-> 0, error |-> 0]

Nearer(t) ==
    \/ Before[pc'[t]] < Before[pc[t]]
    \/ UNCHANGED pc[t] /\ left[t] > 0 /\ left'[t] = left[t] - 1

\* No step sets a command back, and each step of its own brings it nearer to its end.
NoTurningBack ==
    [][\A t \in Tools :
          /\ pc[t] \notin Results => Nearer(t) \/ UNCHANGED <<pc[t], left[t]>>
          /\ ToolStep(t) => Nearer(t)]_vars

\* What a command's own steps do to it and to the others.
LEMMA OwnStep ==
    ASSUME TypeOK, NEW t \in Tools, ToolStep(t) \/ CallFails(t) \/ SetValuesFails(t)
    PROVE  Nearer(t) /\ \A u \in Tools \ {t} : UNCHANGED <<pc[u], left[u]>>
  <1> USE DEF TypeOK, Nearer, Before, Results, Goes, GoesWaiting, Ends, Sleeps
  <1>1. CASE CallFails(t) \/ SetValuesFails(t)
    <2>1. /\ pc[t] \in InstallPCs \cup UninstallPCs
          /\ Ends(t, pc[t], "error")
      BY <1>1 DEF CallFails, SetValuesFails, InstallPCs
    <2>2. QED
      BY <2>1 DEF InstallPCs, UninstallPCs
  <1>2. CASE Refused(t)
    BY <1>2 DEF Refused
  <1>3. CASE Create(t)
    BY <1>3 DEF Create
  <1>4. CASE OpenExisting(t) \/ SetRecovery(t) \/ SetFlag(t) \/ RegisterSource(t)
    BY <1>4 DEF OpenExisting, SetRecovery, SetFlag, RegisterSource
  <1>5. CASE Query(t) \/ StartService(t)
    BY <1>5 DEF Query, StartService
  <1>6. CASE WaitRunning(t) \/ WaitStopped(t)
    BY <1>6 DEF WaitRunning, WaitStopped
  <1>7. CASE Open(t) \/ QueryStopped(t) \/ Stop(t)
    BY <1>7 DEF Open, QueryStopped, Stop
  <1>8. CASE Delete(t) \/ UnregisterSource(t)
    BY <1>8 DEF Delete, UnregisterSource
  <1>9. QED
    BY <1>1, <1>2, <1>3, <1>4, <1>5, <1>6, <1>7, <1>8 DEF ToolStep, Install, Uninstall

(* A command has at most eight calls and Polls sleeps before it, whatever   *)
(* the service and the other commands do; with TypeOK, which bounds its     *)
(* polls, that leaves nothing to CommandsEnd but that its calls return.     *)
THEOREM CommandsOnlyAdvance == Spec => NoTurningBack
  <1> DEFINE Advances ==
        \A t \in Tools :
          /\ pc[t] \notin Results => Nearer(t) \/ UNCHANGED <<pc[t], left[t]>>
          /\ ToolStep(t) => Nearer(t)
  <1>1. ASSUME IInv, Next
        PROVE  Advances
    <2>. SUFFICES ASSUME NEW t \in Tools
                  PROVE  /\ pc[t] \notin Results => Nearer(t) \/ UNCHANGED <<pc[t], left[t]>>
                         /\ ToolStep(t) => Nearer(t)
      OBVIOUS
    <2>1. TypeOK
      BY <1>1 DEF IInv
    <2>2. ToolStep(t) => Nearer(t)
      BY <2>1, OwnStep
    <2>3. CASE ServiceStep
      BY <2>2, <2>3 DEF ServiceStep, tools
    <2>4. ASSUME NEW u \in Tools, ToolStep(u) \/ CallFails(u) \/ SetValuesFails(u)
          PROVE  Nearer(t) \/ UNCHANGED <<pc[t], left[t]>>
      BY <2>1, <2>4, OwnStep
    <2>5. ASSUME NEW u \in Tools, Command(u)
          PROVE  pc[t] \notin Results => UNCHANGED <<pc[t], left[t]>>
      BY <2>1, <2>5 DEF Command, Goes, TypeOK
    <2>6. QED
      BY <1>1, <2>2, <2>3, <2>4, <2>5 DEF Next
  <1> HIDE DEF Advances
  <1>2. IInv /\ [Next]_vars => [Advances]_vars
    BY <1>1
  <1>3. Spec => [][Advances]_vars
    BY <1>2, InstallerInductive, PTL DEF Spec
  <1>4. QED
    BY <1>3 DEF Advances, NoTurningBack
-----------------------------------------------------------------------------
(* The SCM and the service, with the commands that deal with them, take the *)
(* steps of ServiceView and no others, as Service does with its two threads. *)
THEOREM InstallerKeepsView == Spec => View!ViewSpec
  <1>1. Init => View!ViewInit
    BY DEF Init, View!ViewInit
  <1>2. ASSUME Next
        PROVE  View!ViewNext \/ UNCHANGED View!view
    <2>1. CASE ServiceStep
      BY <2>1 DEF ServiceStep, BecomesRunning, BeginsToStop, ReportsStopped, ServiceDies, ProcessGone,
             ConsoleStops, ConsoleStarts, Restart, GoodDay, Removed, View!ViewNext, View!view
    <2>2. ASSUME NEW t \in Tools, StartService(t) \/ Stop(t)
          PROVE  View!ViewNext \/ UNCHANGED View!view
      BY <2>2 DEF StartService, Stop, View!ViewNext, View!view
    <2>3. ASSUME NEW t \in Tools,
                 Command(t) \/ ToolStep(t) \/ CallFails(t) \/ SetValuesFails(t),
                 ~StartService(t), ~Stop(t)
          PROVE  UNCHANGED View!view
      BY <2>3 DEF Command, ToolStep, CallFails, SetValuesFails, Install, Uninstall, Refused, Create,
         OpenExisting, SetRecovery, SetFlag, RegisterSource, Query, WaitRunning, Open,
         QueryStopped, WaitStopped, Delete, UnregisterSource, SetsPolicy, SourceBecomes,
         SourceInPart, scm, View!view
    <2>4. QED
      BY <1>2, <2>1, <2>2, <2>3 DEF Next
  <1>3. UNCHANGED vars => UNCHANGED View!view
    BY DEF vars, View!view
  <1>4. [Next]_vars => [View!ViewNext]_(View!view)
    BY <1>2, <1>3
  <1>5. QED
    BY <1>1, <1>4, PTL DEF Spec, View!ViewSpec
=============================================================================
