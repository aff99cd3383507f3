----------------------------- MODULE Instances -----------------------------
(***************************************************************************)
(* Several agents pointed at one log directory: the bootstrap and the end  *)
(* of run_agent_blocking (agent-rust/src/app.rs) around the instance lock  *)
(* (acquire_instance_lock in platform/unix.rs and platform/windows.rs),    *)
(* with the protection of the directory and of the files on the way.       *)
(*                                                                         *)
(* The lock belongs to the open file.  On Linux a forked child shares that *)
(* file until it executes its program, as the standard library opens files *)
(* close-on-exec; on Windows the handle is not inherited.                  *)
(***************************************************************************)
EXTENDS Protection

CONSTANTS
    Nobody

ASSUME InstancesAssumption == Nobody \notin Agents

VARIABLES
    pc,         \* where each agent is in run_agent_blocking
    holder,     \* the agent whose open lock file holds the lock
    forked,     \* the agents with a child between fork and exec
    writers     \* the agents whose log worker has agent.log open

vars == <<pc, holder, forked, writers, protection>>

PCs == {"off", "secure_dir", "lock", "logging", "child_log", "loop", "drop_log", "drop_lock"}

\* The stages of the bootstrap that secure an object, and which.
Object == [secure_dir |-> "dir", logging |-> "agent_log", child_log |-> "child_log"]

TypeOK ==
    /\ ProtectionTypeOK
    /\ pc \in [Agents -> PCs]
    /\ holder \in Agents \cup {Nobody}
    /\ forked \subseteq Agents
    /\ writers \subseteq Agents
    /\ \A a \in forked : pc[a] \in {"loop", "off"}
    /\ \A a \in Agents : task[a] = "none" <=> pc[a] \notin DOMAIN Object

Init ==
    /\ ProtectionInit
    /\ pc = [a \in Agents |-> "off"]
    /\ holder = Nobody
    /\ forked = {} /\ writers = {}

\* A stage is entered at the first of its calls, and left for good.
At(a, from, to) ==
    /\ pc[a] = from /\ pc' = [pc EXCEPT ![a] = to]
    /\ task' = [task EXCEPT ![a] = IF to \in DOMAIN Object THEN First ELSE "none"]
    /\ UNCHANGED <<windows, disk>>

Secured(a) == task[a] = "secured" /\ disk[Object[pc[a]]] # "absent"
-----------------------------------------------------------------------------
\* A start in a place that is free; the child of an earlier process there is gone.
Start(a) ==
    /\ At(a, "off", "secure_dir")
    /\ a \notin forked
    /\ UNCHANGED <<holder, forked, writers>>

\* The next call of secure_dir or secure_file succeeds.
Secure(a) ==
    /\ pc[a] \in DOMAIN Object
    /\ Secures(a, Object[pc[a]])
    /\ UNCHANGED <<pc, holder, forked, writers>>

DirSecured(a) ==
    /\ At(a, "secure_dir", "lock")
    /\ Secured(a)
    /\ UNCHANGED <<holder, forked, writers>>

\* Any stage may also be refused its object, or fail at a call.
DirNotSecured(a) ==
    /\ At(a, "secure_dir", "off")
    /\ UNCHANGED <<holder, forked, writers>>

AcquireShared(a) ==
    /\ At(a, "lock", "logging")
    /\ holder' = a
    /\ UNCHANGED <<forked, writers>>

\* acquire_instance_lock does not wait.
AcquireLock(a) ==
    /\ At(a, "lock", "logging")
    /\ holder = Nobody /\ holder' = a
    /\ UNCHANGED <<forked, writers>>

\* AlreadyRunning, or the lock file cannot be opened or locked.
AcquireFails(a) ==
    /\ At(a, "lock", "off")
    /\ UNCHANGED <<holder, forked, writers>>

\* open_locked opens what secure_file has left, and does not create it again.
OpenLog(a) ==
    /\ At(a, "logging", "child_log")
    /\ Secured(a)
    /\ writers' = writers \cup {a}      \* the worker is started
    /\ UNCHANGED <<holder, forked>>

\* A bad filter or path, no protected file, or a subscriber that is there already.
InitLoggingFails(a) ==
    /\ At(a, "logging", "drop_lock")
    /\ UNCHANGED <<holder, forked, writers>>

\* The protection is read back, to be logged; the runtime is built.
DescribeProtection(a) ==
    /\ At(a, "child_log", "loop")
    /\ Secured(a)
    /\ UNCHANGED <<holder, forked, writers>>

\* From here an error is logged before it ends the agent.
ChildLogFails(a) ==
    /\ At(a, "child_log", "drop_log")
    /\ UNCHANGED <<holder, forked, writers>>

\* The worker finds the log full; the two handlers are detailed in AgentLog.
WriterRotates(a) ==
    /\ a \in writers /\ Rotate
    /\ UNCHANGED <<pc, holder, forked, writers>>

\* The child of a cycle, detailed in AgentLoop.
ChildAppends(a) ==
    /\ pc[a] = "loop" /\ ChildCreates
    /\ UNCHANGED <<pc, holder, forked, writers>>

\* A cycle of the loop spawns a child.
Fork(a) ==
    /\ ~windows
    /\ pc[a] = "loop" /\ a \notin forked
    /\ forked' = forked \cup {a}
    /\ UNCHANGED <<pc, holder, writers, protection>>

\* The lock goes with the last process that has the file open.
Closed(a, open) == holder' = IF holder = a /\ ~open THEN Nobody ELSE holder

ExecKeepingFile(a) ==
    /\ a \in forked
    /\ forked' = forked \ {a}
    /\ UNCHANGED <<pc, holder, writers, protection>>

\* The child executes its program, or leaves or is killed before it does.
ForkEnds(a) ==
    /\ a \in forked
    /\ forked' = forked \ {a}
    /\ Closed(a, pc[a] # "off")
    /\ UNCHANGED <<pc, writers, protection>>

LoopLeavesCycle(a) ==
    /\ At(a, "loop", "drop_log")
    /\ UNCHANGED <<holder, forked, writers>>

\* The loop has returned: no cycle, hence no spawn, is in flight.
LoopReturns(a) ==
    /\ a \notin forked
    /\ At(a, "loop", "drop_log")
    /\ UNCHANGED <<holder, forked, writers>>

LockDroppedFirst(a) ==
    /\ At(a, "drop_log", "drop_lock")
    /\ holder' = Nobody
    /\ UNCHANGED <<forked, writers>>

\* Locals are dropped in reverse: the log guard, which ends the worker, ...
DropLogGuard(a) ==
    /\ At(a, "drop_log", "drop_lock")
    /\ writers' = writers \ {a}
    /\ UNCHANGED <<holder, forked>>

\* ... and then the instance lock.
DropLock(a) ==
    /\ At(a, "drop_lock", "off")
    /\ writers' = writers \ {a}     \* the process ends
    /\ Closed(a, FALSE)
    /\ UNCHANGED forked

\* The process dies without unwinding, wherever it is.
Dies(a) ==
    /\ pc[a] # "off" /\ At(a, pc[a], "off")
    /\ writers' = writers \ {a}
    /\ Closed(a, a \in forked)
    /\ UNCHANGED forked

Step(a) ==
    \/ Start(a) \/ Secure(a) \/ DirSecured(a) \/ DirNotSecured(a)
    \/ AcquireLock(a) \/ AcquireFails(a)
    \/ OpenLog(a) \/ InitLoggingFails(a) \/ DescribeProtection(a) \/ ChildLogFails(a)
    \/ WriterRotates(a) \/ ChildAppends(a) \/ Fork(a) \/ ForkEnds(a)
    \/ LoopReturns(a) \/ DropLogGuard(a) \/ DropLock(a) \/ Dies(a)

\* An administrator takes a file away.
Removed == \E f \in Files : Remove(f) /\ UNCHANGED <<pc, holder, forked, writers>>

Next == Removed \/ \E a \in Agents : Step(a)

Spec == Init /\ [][Next]_vars

(* A forked child gets to exec, or to its death (ChildLifetime).            *)
FairSpec == Spec /\ \A a \in Agents : WF_vars(ForkEnds(a))
-----------------------------------------------------------------------------
(* Two agents never have agent.log open at once, neither during a start     *)
(* nor while one is ending or has just been killed (app.rs:53-54).          *)
OneWriter == \A a, b \in writers : a = b

(* Nor does anybody touch a log file, or start a child, without the lock.   *)
OnlyHolderRuns ==
    \A a \in Agents : pc[a] \in {"logging", "child_log", "loop", "drop_log"} => holder = a

(* The lock of a dead agent comes free by itself, though a child it was     *)
(* just starting may keep it for a while (unix.rs:128-129).                 *)
DeadHolderLetsGo ==
    \A a \in Agents : holder = a /\ pc[a] = "off" ~> holder # a

(* Whatever was found before the first start, whoever starts or dies at     *)
(* once and whatever is taken away meanwhile: an agent that writes agent.log *)
(* does so in a locked directory, and what it writes to, if it is there, is *)
(* locked.  That is the file itself, or on Windows the file it has made     *)
(* through a link that led to nothing (windows.rs:254-259, unix.rs:98-100). *)
RunsProtected ==
    \A a \in Agents :
        /\ pc[a] \notin {"off", "secure_dir"} => disk["dir"] = "locked"
        /\ a \in writers =>
              disk["agent_log"] \in {"absent", "locked"} \cup (IF windows THEN {"followed"} ELSE {})

(* An agent never changes what another user owns, nor a link or what it     *)
(* leads to, but for one case: the missing target of a link under a log     *)
(* file's name is made by CreateFileW.  What an agent makes is born locked; *)
(* only a child may make its own log otherwise (windows.rs:174-180, 272-300, *)
(* unix.rs:71-74).                                                          *)
BornLockedOrLeftAlone ==
    [][\A f \in Objects :
          /\ disk[f] \in {"link", "users"} => disk'[f] \in {disk[f], "absent"}
          /\ disk[f] = "dangling" =>
                \/ disk'[f] \in {"dangling", "absent"}
                \/ disk'[f] = "followed" /\ windows /\ f # "dir"
          /\ disk[f] # "loose" /\ disk'[f] = "loose" =>
                f = "child_log" /\ \E a \in Agents : pc[a] = "loop"]_vars

(* What design.md:589 says of a link planted before the first start: it is  *)
(* "refused before any write"; the checks before touching an object the     *)
(* agent did not create are those of windows.rs:174-180.                    *)
LinksRefused == writers # {} => disk["agent_log"] \notin Links
=============================================================================
