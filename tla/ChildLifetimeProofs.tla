------------------------ MODULE ChildLifetimeProofs ------------------------
(***************************************************************************)
(* Proofs about ChildLifetime, for any set of children: who is alive while *)
(* the agent lives, and that on Linux nobody outlives it.                  *)
(***************************************************************************)
EXTENDS ChildLifetime, TLAPS

(* The Linux child is bound from the moment it has armed its signal, and a  *)
(* child that got past the parent check is killed with the agent.           *)
BoundOnceArmed ==
    platform = "linux" =>
        \A c \in Children : proc[c] \in {"armed", "checked", "running"} => c \in bound

KilledWithAgent ==
    platform = "linux" /\ agent = "dead" =>
        \A c \in Children : proc[c] \in {"checked", "running"} => c \in doomed

(* spawn returns Ok only after exec, and on Windows bind_child comes before *)
(* the wait.                                                                *)
SpawnedPastExec ==
    platform = "linux" /\ run \in {"binding", "waiting"} =>
        proc[current] \in {"running", "exited"}

AssignedBeforeWait ==
    platform = "windows" /\ run = "waiting" => current \in bound

IInv ==
    /\ TypeOK
    /\ BoundOnceArmed
    /\ KilledWithAgent
    /\ SpawnedPastExec
    /\ AssignedBeforeWait
    /\ OnlyCurrentLives

(* The agent's half of a step keeps the invariant.                          *)
LEMMA AgentKeeps ==
    ASSUME IInv, AgentStep \/ AgentDies
    PROVE  IInv'
<1> USE ChildAssumption DEF IInv, TypeOK, BoundOnceArmed, KilledWithAgent,
        SpawnedPastExec, AssignedBeforeWait, OnlyCurrentLives,
        Live, Gone, Starting
<1>1. ASSUME NEW c \in Children, Spawn(c) PROVE IInv'
  <2>1. TypeOK'
    BY <1>1 DEF Spawn, Becomes
  <2>2. BoundOnceArmed' /\ KilledWithAgent'
    BY <1>1 DEF Spawn, Becomes
  <2>3. SpawnedPastExec' /\ AssignedBeforeWait'
    BY <1>1 DEF Spawn, Becomes
  <2>4. OnlyCurrentLives'
    BY <1>1 DEF Spawn, Becomes
  <2> QED BY <2>1, <2>2, <2>3, <2>4
<1>2. CASE SpawnFailed
  BY <1>2 DEF SpawnFailed
<1>3. CASE Spawned
  BY <1>3 DEF Spawned
<1>4. CASE BindOk
  BY <1>4 DEF BindOk, FirstJob
<1>5. CASE BindFailed
  BY <1>5 DEF BindFailed, FirstJob, ReturnKilling
<1>6. CASE Completed
  BY <1>6 DEF Completed
<1>7. CASE WaitDropped
  BY <1>7 DEF WaitDropped, ReturnKilling
<1>8. CASE AgentDies
  BY <1>8 DEF AgentDies
<1> QED
  BY <1>1, <1>2, <1>3, <1>4, <1>5, <1>6, <1>7, <1>8 DEF AgentStep

(* So does the children's half.                                             *)
LEMMA ChildKeeps ==
    ASSUME IInv, NEW c \in Children, ChildStep(c)
    PROVE  IInv'
<1> USE ChildAssumption DEF IInv, TypeOK, BoundOnceArmed, KilledWithAgent,
        SpawnedPastExec, AssignedBeforeWait, OnlyCurrentLives,
        Live, Gone, Starting, Becomes
<1>1. CASE Arm(c)
  BY <1>1 DEF Arm
<1>2. CASE StartFails(c)
  BY <1>2 DEF StartFails
<1>3. CASE CheckParent(c)
  BY <1>3 DEF CheckParent
<1>4. CASE Exec(c)
  BY <1>4 DEF Exec
<1>5. CASE Exit(c)
  BY <1>5 DEF Exit
<1>6. CASE Die(c)
  BY <1>6 DEF Die
<1> QED
  BY <1>1, <1>2, <1>3, <1>4, <1>5, <1>6 DEF ChildStep

(* The invariant holds in every reachable state: no order of the agent's    *)
(* calls, its death and the child's start-up breaks it.                     *)
THEOREM ChildInductive == Spec => []IInv
<1>1. Init => IInv
  BY ChildAssumption DEF Init, IInv, TypeOK, BoundOnceArmed, KilledWithAgent,
     SpawnedPastExec, AssignedBeforeWait, OnlyCurrentLives, Live, Gone, Starting
<1>2. IInv /\ [Next]_vars => IInv'
  <2> SUFFICES ASSUME IInv, [Next]_vars PROVE IInv'
    OBVIOUS
  <2>1. CASE AgentStep \/ AgentDies
    BY <2>1, AgentKeeps
  <2>2. ASSUME NEW c \in Children, ChildStep(c) PROVE IInv'
    BY <2>2, ChildKeeps
  <2>3. CASE UNCHANGED vars
    BY <2>3 DEF vars, IInv, TypeOK, BoundOnceArmed, KilledWithAgent,
       SpawnedPastExec, AssignedBeforeWait, OnlyCurrentLives, Live
  <2> QED BY <2>1, <2>2, <2>3 DEF Next
<1> QED BY <1>1, <1>2, PTL DEF Spec

(* Every variable keeps its type, and run_child holds a child whenever it   *)
(* is past the spawn.                                                       *)
THEOREM ChildTypeCorrect == Spec => []TypeOK
BY ChildInductive, PTL DEF IInv

(* No timeout, cancellation, failed bind or panic leaves a living child     *)
(* that is not on its way out.                                              *)
THEOREM NoChildLeftBehind == Spec => []OnlyCurrentLives
BY ChildInductive, PTL DEF IInv

(* run_child never waits for a live child that could outlive the agent.     *)
THEOREM WaitsForBoundOnly == Spec => []WaitedChildIsBound
<1>1. IInv => WaitedChildIsBound
  BY ChildAssumption
  DEF IInv, TypeOK, BoundOnceArmed, SpawnedPastExec, AssignedBeforeWait,
      WaitedChildIsBound, Live, Gone, Starting
<1> QED BY <1>1, ChildInductive, PTL

(* On Linux a dead agent leaves no running child without a kill on its way. *)
THEOREM LinuxLeavesNoOrphan == Spec => []NoOrphanOnLinux
<1>1. IInv => NoOrphanOnLinux
  BY DEF IInv, KilledWithAgent, NoOrphanOnLinux
<1> QED BY <1>1, ChildInductive, PTL
-----------------------------------------------------------------------------
(* What is left of NoOrphan on Windows.                                     *)

\* CreateProcess returns a running process: there is no spawn to wait in.
NoSpawnOnWindows == platform = "windows" => run # "spawning"

\* A child survives the agent only if the agent died on its way to bind_child.
OrphanOnlyBeforeBind ==
    platform = "windows" /\ agent = "dead" =>
        \A c \in Children : Live(c) /\ c \notin doomed => run = "binding" /\ c = current

LEMMA OrphanStep ==
    ASSUME IInv, NoSpawnOnWindows, OrphanOnlyBeforeBind, [Next]_vars
    PROVE  NoSpawnOnWindows' /\ OrphanOnlyBeforeBind'
<1> USE ChildAssumption DEF IInv, TypeOK, NoSpawnOnWindows, OrphanOnlyBeforeBind
<1>1. CASE AgentStep
  BY <1>1 DEF AgentStep, Spawn, SpawnFailed, Spawned, BindOk, BindFailed, Completed, WaitDropped, ReturnKilling
<1>2. CASE AgentDies
  <2>1. NoSpawnOnWindows'
    BY <1>2 DEF AgentDies
  <2>2. SUFFICES ASSUME platform = "windows", NEW c \in Children, Live(c), c \notin doomed, c \notin bound
                 PROVE  run = "binding" /\ c = current
    BY <1>2, <2>1 DEF AgentDies, Live
  <2>3. run # "idle" /\ c = current
    BY <1>2, <2>2 DEF AgentDies, OnlyCurrentLives
  <2>4. run # "waiting"
    BY <2>2, <2>3 DEF AssignedBeforeWait
  <2>5. QED
    BY <2>2, <2>3, <2>4
<1>3. ASSUME NEW c \in Children, ChildStep(c)
      PROVE  NoSpawnOnWindows' /\ OrphanOnlyBeforeBind'
  <2>1. /\ UNCHANGED <<platform, agent, run, current, doomed>>
        /\ Live(c)
        /\ \A d \in Children \ {c} : proc'[d] = proc[d]
    BY <1>3 DEF ChildStep, Arm, StartFails, CheckParent, Exec, Exit, Die, Becomes, Live, Gone
  <2>2. QED
    BY <2>1 DEF Live
<1>4. CASE UNCHANGED vars
  BY <1>4 DEF vars, Live
<1> QED
  BY <1>1, <1>2, <1>3, <1>4 DEF Next

(* On Windows too the agent leaves no more than one child behind, and that  *)
(* one only if it was killed between CreateProcess and the assignment to    *)
(* the job: the whole of the gap that the run child_windows shows.          *)
THEOREM WindowsGapIsTheBind == Spec => []OrphanOnlyBeforeBind
<1>1. Init => NoSpawnOnWindows /\ OrphanOnlyBeforeBind
  BY DEF Init, NoSpawnOnWindows, OrphanOnlyBeforeBind
<1>2. IInv /\ NoSpawnOnWindows /\ OrphanOnlyBeforeBind /\ [Next]_vars
        => NoSpawnOnWindows' /\ OrphanOnlyBeforeBind'
  BY OrphanStep
<1> QED BY <1>1, <1>2, ChildInductive, PTL DEF Spec
=============================================================================
