---------------------------- MODULE ChildLifetime ----------------------------
(***************************************************************************)
(* run_child (agent-rust/src/child.rs) with the platform's binding of the  *)
(* child to the agent's own life, and the agent killed at any point.       *)
(*                                                                         *)
(* Linux: the forked child arms its parent-death signal, checks that its   *)
(* parent is still there and executes the program; spawn returns when it   *)
(* has.  Windows: the child runs as soon as it is created and the agent    *)
(* puts it into the kill-on-close job afterwards.                          *)
(*                                                                         *)
(* A slot of Children stands for one process at a time and is used again   *)
(* once that process is gone.                                              *)
(***************************************************************************)
EXTENDS Naturals

CONSTANTS
    Children,   \* process slots; bound: processes that exist at once
    Platforms,  \* the platforms to consider
    NoChild

ASSUME ChildAssumption ==
    /\ Platforms \subseteq {"linux", "windows"}
    /\ NoChild \notin Children

VARIABLES
    platform,   \* chosen once
    agent,      \* the agent process
    run,        \* where run_child is
    current,    \* the Child value run_child holds
    proc,       \* the child processes
    bound,      \* the children the kernel kills when the agent dies
    doomed,     \* the children that have been killed and may not be gone yet
    job         \* Windows: child_job's OnceLock

vars == <<platform, agent, run, current, proc, bound, doomed, job>>

Gone     == {"none", "exited"}
Starting == {"forked", "armed", "checked"}
Live(c)  == proc[c] \notin Gone

TypeOK ==
    /\ platform \in Platforms
    /\ agent \in {"alive", "dead"}
    /\ run \in {"idle", "spawning", "binding", "waiting"}
    /\ current \in Children \cup {NoChild}
    /\ run # "idle" => current \in Children
    /\ proc \in [Children -> Gone \cup Starting \cup {"running"}]
    /\ bound \subseteq Children
    /\ doomed \subseteq Children
    /\ job \in {"unset", "created", "failed"}

Init ==
    /\ platform \in Platforms
    /\ agent = "alive" /\ run = "idle" /\ current = NoChild
    /\ proc = [c \in Children |-> "none"]
    /\ bound = {} /\ doomed = {}
    /\ job = "unset"

Becomes(c, s) == proc' = [proc EXCEPT ![c] = s]
-----------------------------------------------------------------------------
(* The agent's side.                                                        *)

\* run_child returns and drops the Child: kill_on_drop kills it unless reaped.
ReturnKilling ==
    /\ run' = "idle"
    /\ current' = NoChild
    /\ doomed' = IF Live(current) THEN doomed \cup {current} ELSE doomed

\* command.spawn: fork on Linux, CreateProcess on Windows.
Spawn(c) ==
    /\ agent = "alive" /\ run = "idle"
    /\ proc[c] \in Gone
    /\ current' = c
    /\ bound' = bound \ {c} /\ doomed' = doomed \ {c}
    /\ \/ platform = "linux" /\ run' = "spawning" /\ Becomes(c, "forked")
       \/ platform = "windows" /\ run' = "binding" /\ Becomes(c, "running")
    /\ UNCHANGED <<platform, agent, job>>

SpawnFailedRetrying ==
    /\ agent = "alive" /\ run = "spawning"
    /\ proc[current] = "exited"
    /\ current' = NoChild
    /\ UNCHANGED <<platform, agent, run, proc, bound, doomed, job>>

\* The child ended before it could execute the program: SpawnFailed.
SpawnFailed ==
    /\ agent = "alive" /\ run = "spawning"
    /\ proc[current] = "exited"
    /\ run' = "idle" /\ current' = NoChild
    /\ UNCHANGED <<platform, agent, proc, bound, doomed, job>>

\* The child executes the program: spawn returns Ok.
Spawned ==
    /\ agent = "alive" /\ run = "spawning"
    /\ proc[current] = "running"
    /\ run' = "binding"
    /\ UNCHANGED <<platform, agent, current, proc, bound, doomed, job>>

\* child_job: created on first use, and a failure is remembered for good.
FirstJob(outcome) == job' = IF job = "unset" THEN outcome ELSE job

BindIgnoringFailure ==
    /\ agent = "alive" /\ run = "binding"
    /\ \E outcome \in {"created", "failed"} : FirstJob(outcome)
    /\ bound' = IF job' = "created" THEN bound \cup {current} ELSE bound
    /\ run' = "waiting"
    /\ UNCHANGED <<platform, agent, current, proc, doomed>>

\* bind_child succeeds: nothing on Linux, AssignProcessToJobObject on Windows.
BindOk ==
    /\ agent = "alive" /\ run = "binding"
    /\ IF platform = "windows"
       THEN /\ FirstJob("created") /\ job' = "created"
            /\ proc[current] = "running"
            /\ bound' = bound \cup {current}
       ELSE UNCHANGED <<job, bound>>
    /\ run' = "waiting"
    /\ UNCHANGED <<platform, agent, current, proc, doomed>>

\* There is no job, or the process cannot be put into it: start_kill, BindFailed.
BindFailed ==
    /\ agent = "alive" /\ run = "binding" /\ platform = "windows"
    /\ \E outcome \in {"created", "failed"} : FirstJob(outcome)
    /\ ReturnKilling
    /\ UNCHANGED <<platform, agent, proc, bound>>

\* The child has ended and was reaped: Completed.
Completed ==
    /\ agent = "alive" /\ run = "waiting"
    /\ ~Live(current)
    /\ run' = "idle" /\ current' = NoChild
    /\ UNCHANGED <<platform, agent, proc, bound, doomed, job>>

WaitDroppedWithoutKill ==
    /\ agent = "alive" /\ run = "waiting"
    /\ run' = "idle" /\ current' = NoChild
    /\ UNCHANGED <<platform, agent, proc, bound, doomed, job>>

\* The wait ends first: TimedOut, Cancelled or WaitFailed, or the cycle's task panics.
WaitDropped ==
    /\ agent = "alive" /\ run = "waiting"
    /\ ReturnKilling
    /\ UNCHANGED <<platform, agent, proc, bound, job>>

\* The agent is killed or crashes: nothing is dropped, the kernel kills the bound.
AgentDies ==
    /\ agent = "alive"
    /\ agent' = "dead"
    /\ doomed' = doomed \cup {c \in bound : Live(c)}
    /\ UNCHANGED <<platform, run, current, proc, bound, job>>
-----------------------------------------------------------------------------
(* The child's side.                                                        *)

\* prctl(PR_SET_PDEATHSIG, SIGKILL); a parent that is already dead sends nothing.
Arm(c) ==
    /\ proc[c] = "forked"
    /\ Becomes(c, "armed")
    /\ bound' = bound \cup {c}
    /\ UNCHANGED <<platform, agent, run, current, doomed, job>>

\* prctl fails, or later execve does: the error reaches the parent through a pipe.
StartFails(c) ==
    /\ proc[c] \in {"forked", "checked"}
    /\ Becomes(c, "exited")
    /\ UNCHANGED <<platform, agent, run, current, bound, doomed, job>>

CheckSkipped(c) ==
    /\ proc[c] = "armed"
    /\ Becomes(c, "checked")
    /\ UNCHANGED <<platform, agent, run, current, bound, doomed, job>>

\* getppid differs once the parent is gone, and the child leaves.
CheckParent(c) ==
    /\ proc[c] = "armed"
    /\ Becomes(c, IF agent = "alive" THEN "checked" ELSE "exited")
    /\ UNCHANGED <<platform, agent, run, current, bound, doomed, job>>

Exec(c) ==
    /\ proc[c] = "checked"
    /\ Becomes(c, "running")
    /\ UNCHANGED <<platform, agent, run, current, bound, doomed, job>>

\* logger-child finishes by itself; it may also hang and never do so.
Exit(c) ==
    /\ proc[c] = "running"
    /\ Becomes(c, "exited")
    /\ UNCHANGED <<platform, agent, run, current, bound, doomed, job>>

\* A kill takes effect, some time after it was sent.
Die(c) ==
    /\ c \in doomed /\ Live(c)
    /\ Becomes(c, "exited")
    /\ UNCHANGED <<platform, agent, run, current, bound, doomed, job>>

AgentStep ==
    \/ \E c \in Children : Spawn(c)
    \/ SpawnFailed \/ Spawned \/ BindOk \/ BindFailed \/ Completed \/ WaitDropped

ChildStep(c) == Arm(c) \/ StartFails(c) \/ CheckParent(c) \/ Exec(c) \/ Exit(c) \/ Die(c)

Next == AgentStep \/ AgentDies \/ \E c \in Children : ChildStep(c)

Spec == Init /\ [][Next]_vars

(* The kernel schedules a forked child until it executes the program and    *)
(* delivers the signals it has accepted.  Nothing is assumed of the program *)
(* itself, nor that the agent makes progress or ever dies.                  *)
FairSpec ==
    /\ Spec
    /\ \A c \in Children : WF_vars(Arm(c) \/ StartFails(c) \/ CheckParent(c) \/ Exec(c))
                           /\ WF_vars(Die(c))
-----------------------------------------------------------------------------
(* While the agent lives, the only child that is neither gone nor killed is *)
(* the one run_child holds (child.rs:61: "neither a timeout nor a           *)
(* cancellation can leave an orphan").                                      *)
OnlyCurrentLives ==
    agent = "alive" =>
        \A c \in Children : Live(c) /\ c \notin doomed => run # "idle" /\ c = current

(* run_child never waits for a child that could outlive the agent           *)
(* (child.rs:44, BindFailed).                                               *)
WaitedChildIsBound ==
    run = "waiting" /\ Live(current) => current \in bound

(* On Linux no child runs on without a kill on its way once the agent is    *)
(* dead, wherever between fork and exec, or later, the agent died           *)
(* (unix.rs:37 and 52).                                                     *)
NoOrphanOnLinux ==
    platform = "linux" /\ agent = "dead" =>
        \A c \in Children : proc[c] = "running" => c \in doomed

(* Then the dead agent's children do go away, even one that hangs.          *)
DeadAgentLeavesNoChild ==
    platform = "linux" /\ agent = "dead" ~> \A c \in Children : ~Live(c)

(* What child.rs:63-65 says of every platform: a hard kill or a crash of    *)
(* the agent cannot leave an orphan.  Not so on Windows, see the README.    *)
NoOrphan ==
    agent = "dead" => \A c \in Children : proc[c] = "running" => c \in doomed
=============================================================================
