-------------------------- MODULE AgentLoopProofs --------------------------
(***************************************************************************)
(* The tick loop implements PeriodicTask, for every period, timeout and    *)
(* set of children.  The loop decides by the ticker's deadline, PeriodicTask *)
(* by the time since the last start: the invariant ties the two.           *)
(***************************************************************************)
EXTENDS AgentLoop, TLAPS

\* A tick that is due has waited at least a period since the last one.
DeadlineTellsGap == IF due > 0 THEN gap = Period - due ELSE gap = Period

\* From the securing of the log to the spawn only a rotation unlocks it.
LogKeptLocked == step \in {"rotate", "spawn"} => log = "locked"

IInv == TypeOK /\ DeadlineTellsGap /\ LogKeptLocked

LEMMA LoopInit == Init => IInv
  <1> SUFFICES ASSUME Init PROVE IInv
    OBVIOUS
  <1> USE LoopAssumption DEF Init
  <1>1. due \in -Period .. Period /\ gap \in 0 .. Period /\ left \in 0 .. Timeout
    OBVIOUS
  <1>2. /\ proc \in [Children -> {"none", "started", "writing"}]
        /\ killed \subseteq Children
    OBVIOUS
  <1>3. /\ current \in Children \cup {NoChild}
        /\ current # NoChild <=> step = "wait"
    OBVIOUS
  <1>4. TypeOK
    BY <1>1, <1>2, <1>3 DEF TypeOK, Steps
  <1>5. DeadlineTellsGap /\ LogKeptLocked
    BY DEF DeadlineTellsGap, LogKeptLocked
  <1>6. QED
    BY <1>4, <1>5 DEF IInv

\* The loop itself: a tick moves the deadline by a full period.
LEMMA TickKeeps ==
    ASSUME IInv, TickFires \/ LoopReturns \/ Clock
    PROVE  IInv'
  <1> USE LoopAssumption DEF IInv, TypeOK, DeadlineTellsGap, LogKeptLocked, Steps
  <1>1. CASE TickFires
    BY <1>1 DEF TickFires, NextDue
  <1>2. CASE LoopReturns
    BY <1>2 DEF LoopReturns
  <1>3. CASE Clock
    BY <1>3 DEF Clock
  <1>4. QED
    BY <1>1, <1>2, <1>3

\* The cycle up to the spawn.
LEMMA CycleKeeps ==
    ASSUME IInv,
           \/ CycleFails \/ Collect \/ Secure \/ KeepLog \/ Rotated \/ Resecure
           \/ SpawnFails
    PROVE  IInv'
  <1> USE LoopAssumption DEF IInv, TypeOK, DeadlineTellsGap, LogKeptLocked, Steps, Advance
  <1>1. CASE CycleFails
    BY <1>1 DEF CycleFails, CycleOver
  <1>2. CASE Collect
    BY <1>2 DEF Collect
  <1>3. CASE Secure
    BY <1>3 DEF Secure
  <1>4. CASE KeepLog
    BY <1>4 DEF KeepLog
  <1>5. CASE Rotated
    BY <1>5 DEF Rotated
  <1>6. CASE Resecure
    BY <1>6 DEF Resecure
  <1>7. CASE SpawnFails
    BY <1>7 DEF SpawnFails, CycleOver
  <1>8. QED
    BY <1>1, <1>2, <1>3, <1>4, <1>5, <1>6, <1>7

\* The end of the wait, however it ends.
LEMMA WaitOverKeeps ==
    ASSUME IInv, Completed \/ TimedOut \/ Cancelled \/ WaitFailed \/ Panics
    PROVE  IInv'
  <1> USE LoopAssumption DEF IInv, TypeOK, DeadlineTellsGap, LogKeptLocked, Steps
  <1>1. CASE WaitOver
    BY <1>1 DEF WaitOver, CycleOver, KillIfLive
  <1>2. CASE Panics
    BY <1>2 DEF Panics, CycleOver, KillIfLive
  <1>3. QED
    BY <1>1, <1>2 DEF Completed, TimedOut, Cancelled, WaitFailed

\* The spawn and the child.
LEMMA ChildKeeps ==
    ASSUME IInv, NEW c \in Children,
           Spawn(c) \/ BindFails(c) \/ ChildOpensLog(c) \/ ChildEnds(c)
    PROVE  IInv'
  <1> USE LoopAssumption DEF IInv, TypeOK, DeadlineTellsGap, LogKeptLocked, Steps
  <1>1. CASE Spawn(c)
    BY <1>1 DEF Spawn
  <1>2. CASE BindFails(c)
    BY <1>2 DEF BindFails, CycleOver
  <1>3. CASE ChildOpensLog(c)
    BY <1>3 DEF ChildOpensLog
  <1>4. CASE ChildEnds(c)
    BY <1>4 DEF ChildEnds
  <1>5. QED
    BY <1>1, <1>2, <1>3, <1>4

(* The types, the tie between the deadline and the time since the last      *)
(* tick, and the lock on child.log hold in every reachable state.           *)
THEOREM LoopInductive == Spec => []IInv
  <1>1. IInv /\ [Next]_vars => IInv'
    <2> SUFFICES ASSUME IInv, [Next]_vars PROVE IInv'
      OBVIOUS
    <2>1. CASE Cancel \/ LogDeleted \/ UNCHANGED vars
      BY <2>1 DEF Cancel, LogDeleted, vars, IInv, TypeOK, DeadlineTellsGap,
                  LogKeptLocked, Steps
    <2>2. CASE CycleStep
      BY <2>2, CycleKeeps, WaitOverKeeps, ChildKeeps DEF CycleStep
    <2>3. ASSUME NEW c \in Children, ChildOpensLog(c) \/ ChildEnds(c) PROVE IInv'
      BY <2>3, ChildKeeps
    <2>4. QED
      BY <2>1, <2>2, <2>3, TickKeeps, WaitOverKeeps DEF Next
  <1>2. QED
    BY <1>1, LoopInit, PTL DEF Spec

(* Every variable keeps its type; in particular the loop waits for a child  *)
(* exactly while its cycle is at the wait.                                  *)
THEOREM LoopTypeCorrect == Spec => []TypeOK
  BY LoopInductive, PTL DEF IInv

(* No order of rotation, failures, deletion of the log and children killed  *)
(* earlier lets a child start on a log that is missing or not locked.       *)
THEOREM LogLockedAtSpawn == Spec => SpawnsIntoLockedLog
  <1>1. IInv /\ [Next]_vars =>
            [step = "spawn" /\ step' = "wait" => log = "locked"]_vars
    BY DEF IInv, LogKeptLocked
  <1>2. QED
    BY <1>1, LoopInductive, PTL DEF Spec, SpawnsIntoLockedLog

-----------------------------------------------------------------------------
\* A cycle that is over leaves the task idle, and the rest of it alone.
LEMMA FinishStep ==
    ASSUME IInv, loop = "cycle", loop' = "select", UNCHANGED <<cancelled, gap>>
    PROVE  Task!Finish
  BY DEF Task!Finish

LEMMA TaskStep == IInv /\ [Next]_vars => [Task!TaskNext]_(Task!tvars)
  <1> SUFFICES ASSUME IInv, [Next]_vars
               PROVE  Task!TaskNext \/ UNCHANGED Task!tvars
    OBVIOUS
  <1>1. CASE TickFires
    BY <1>1 DEF TickFires, IInv, DeadlineTellsGap, TypeOK, Task!TaskNext, Task!Start
  <1>2. CASE LoopReturns
    BY <1>2 DEF LoopReturns, Task!TaskNext, Task!Stop
  <1>3. CASE Clock
    BY <1>3 DEF Clock, Task!TaskNext, Task!Pass, Task!tvars
  <1>4. CASE Cancel
    BY <1>4 DEF Cancel, Task!TaskNext, Task!Request
  <1>5. CASE loop = "cycle" /\ loop' = "select" /\ UNCHANGED <<cancelled, gap>>
    BY <1>5, FinishStep DEF Task!TaskNext
  <1>6. CASE UNCHANGED <<loop, cancelled, gap>>
    BY <1>6 DEF Task!tvars
  <1>7. QED
    BY <1>1, <1>2, <1>3, <1>4, <1>5, <1>6
    DEF Next, CycleStep, CycleFails, Collect, Secure, KeepLog, Rotated, Resecure,
        Advance, Spawn, BindFails, SpawnFails, Completed, TimedOut, Cancelled,
        WaitFailed, WaitOver, Panics, CycleOver, ChildOpensLog, ChildEnds, LogDeleted, vars

(* Cycles never overlap, start at least a period apart however late a tick  *)
(* was, and the loop stops only on request and between two cycles.          *)
THEOREM LoopImplementsTask == Spec => ImplementsTask
  <1>1. Init => Task!TaskInit
    BY DEF Init, Task!TaskInit
  <1>2. QED
    BY <1>1, TaskStep, LoopInductive, PTL DEF Spec, ImplementsTask, Task!TaskSpec
-----------------------------------------------------------------------------
(* Children that outlive the wait for them.                                 *)

\* Who is alive and is not waited for has been killed.
LeftoversKilled == \A c \in Children : Live(c) /\ c # current => c \in killed

\* What a rotation meets is at most a child on its way out.
RotatesBesideKilledOnly ==
    [][step = "rotate" /\ step' = "resecure" =>
           \A c \in Children : proc[c] = "writing" => c \in killed]_vars

LEMMA LeftoversStep ==
    ASSUME IInv, LeftoversKilled, [Next]_vars
    PROVE  LeftoversKilled'
  <1> USE LoopAssumption DEF IInv, TypeOK, LeftoversKilled, Live
  <1>1. CASE TickFires \/ LoopReturns \/ Clock \/ Cancel \/ LogDeleted \/ UNCHANGED vars
    BY <1>1 DEF TickFires, LoopReturns, Clock, Cancel, LogDeleted, vars
  <1>2. CASE Collect \/ Secure \/ KeepLog \/ Rotated \/ Resecure
    BY <1>2 DEF Collect, Secure, KeepLog, Rotated, Resecure, Advance
  <1>3. CASE CycleFails \/ SpawnFails
    BY <1>3 DEF CycleFails, SpawnFails, CycleOver
  <1>4. CASE WaitOver
    BY <1>4 DEF WaitOver, CycleOver, KillIfLive
  <1>5. CASE Panics
    BY <1>5 DEF Panics, CycleOver, KillIfLive
  <1>6. ASSUME NEW c \in Children, Spawn(c)
        PROVE  LeftoversKilled'
    BY <1>6 DEF Spawn
  <1>7. ASSUME NEW c \in Children, BindFails(c)
        PROVE  LeftoversKilled'
    BY <1>7 DEF BindFails, CycleOver
  <1>8. ASSUME NEW c \in Children, ChildOpensLog(c) \/ ChildEnds(c)
        PROVE  LeftoversKilled'
    BY <1>8 DEF ChildOpensLog, ChildEnds
  <1>9. QED
    BY <1>1, <1>2, <1>3, <1>4, <1>5, <1>6, <1>7, <1>8
    DEF Next, CycleStep, Completed, TimedOut, Cancelled, WaitFailed

(* No cycle leaves a child to itself: whatever ended it, a child that is    *)
(* alive and not waited for has been killed.  Hence the only writer that a  *)
(* rotation of child.log can meet is one that was killed (child.rs:61,      *)
(* cycle.rs:39): that much is true of what rotation_writer refutes.         *)
THEOREM CyclesKillTheirChildren == Spec => []LeftoversKilled /\ RotatesBesideKilledOnly
  <1>1. Init => LeftoversKilled
    BY DEF Init, LeftoversKilled, Live
  <1>2. IInv /\ LeftoversKilled /\ [Next]_vars => LeftoversKilled'
    BY LeftoversStep
  <1>3. Spec => []LeftoversKilled
    BY <1>1, <1>2, LoopInductive, PTL DEF Spec
  <1>4. IInv /\ LeftoversKilled
          => [step = "rotate" /\ step' = "resecure" =>
                 \A c \in Children : proc[c] = "writing" => c \in killed]_vars
    BY LoopAssumption DEF IInv, TypeOK, LeftoversKilled, Live
  <1>5. Spec => RotatesBesideKilledOnly
    BY <1>3, <1>4, LoopInductive, PTL DEF Spec, RotatesBesideKilledOnly
  <1>6. QED
    BY <1>3, <1>5
=============================================================================
