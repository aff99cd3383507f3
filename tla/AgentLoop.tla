----------------------------- MODULE AgentLoop -----------------------------
(***************************************************************************)
(* The tick loop (agent-rust/src/agent.rs), the cycle it runs              *)
(* (agent-rust/src/cycle.rs) and the child each cycle waits for            *)
(* (agent-rust/src/child.rs).                                              *)
(*                                                                         *)
(* Time is discrete.  It may pass between any two steps, so that every     *)
(* step may be late; timers are kept as the time left, which keeps the     *)
(* model finite without a last instant.                                    *)
(***************************************************************************)
EXTENDS Integers

CONSTANTS
    Period,     \* Config.period
    Timeout,    \* Config.child_timeout
    Children,   \* child process slots; bound: processes that exist at once
    NoChild

\* Config::resolve rejects a child_timeout that is not below the period.
ASSUME LoopAssumption ==
    /\ Period \in Nat \ {0}
    /\ Timeout \in 1 .. Period - 1
    /\ NoChild \notin Children

VARIABLES
    loop,       \* the loop: at its select, in a cycle, or returned
    step,       \* where the cycle is
    cancelled,  \* the cancellation token
    due,        \* time until the ticker's deadline; negative when it is missed
    gap,        \* history: time since the last tick, up to Period
    left,       \* time until the child's timeout
    current,    \* the child the cycle waits for
    proc,       \* the child processes
    killed,     \* the children that were killed and may not be gone yet
    log         \* child.log: absent, existing without the lock, or locked

vars == <<loop, step, cancelled, due, gap, left, current, proc, killed, log>>

Steps == {"none", "collect", "secure", "rotate", "resecure", "spawn", "wait"}

TypeOK ==
    /\ loop \in {"select", "cycle", "returned"}
    /\ step \in Steps /\ (step = "none" <=> loop # "cycle")
    /\ cancelled \in BOOLEAN
    /\ due \in -Period .. Period
    /\ gap \in 0 .. Period
    /\ left \in 0 .. Timeout
    /\ current \in Children \cup {NoChild} /\ (current # NoChild <=> step = "wait")
    /\ proc \in [Children -> {"none", "started", "writing"}]
    /\ killed \subseteq Children
    /\ log \in {"absent", "unlocked", "locked"}

Live(c) == proc[c] # "none"

Init ==
    /\ loop = "select" /\ step = "none" /\ cancelled = FALSE
    /\ due = 0 /\ gap = Period /\ left = 0
    /\ current = NoChild
    /\ proc = [c \in Children |-> "none"] /\ killed = {}
    /\ log = "locked"   \* by run_agent_blocking, before the loop
-----------------------------------------------------------------------------
(* The loop: an unbiased select between the token and the ticker.           *)

BurstDue(d) == d + Period

\* MissedTickBehavior::Delay: a late tick moves the following ones.
NextDue(d) == IF d < 0 THEN Period ELSE d + Period

TickFires ==
    /\ loop = "select" /\ due <= 0
    /\ loop' = "cycle" /\ step' = "collect"
    /\ due' = NextDue(due) /\ gap' = 0
    /\ UNCHANGED <<cancelled, left, current, proc, killed, log>>

LoopReturns ==
    /\ loop = "select" /\ cancelled
    /\ loop' = "returned"
    /\ UNCHANGED <<step, cancelled, due, gap, left, current, proc, killed, log>>

CycleOverHoldingChild ==
    /\ loop' = "select" /\ step' = "none"
    /\ left' = 0 /\ UNCHANGED current

\* The cycle's task is over; whatever its result, the loop selects again.
CycleOver ==
    /\ loop' = "select" /\ step' = "none"
    /\ left' = 0 /\ current' = NoChild
-----------------------------------------------------------------------------
(* The cycle, up to the child.                                              *)

ErrorStopsLoop ==
    /\ loop = "cycle" /\ step \in {"collect", "secure", "resecure"}
    /\ loop' = "returned" /\ step' = "none"
    /\ left' = 0 /\ current' = NoChild
    /\ UNCHANGED <<cancelled, due, gap, proc, killed, log>>

\* Collecting metrics or securing the log fails: "cycle failed" is logged.
CycleFails ==
    /\ loop = "cycle" /\ step \in {"collect", "secure", "resecure"}
    /\ CycleOver
    /\ UNCHANGED <<cancelled, due, gap, proc, killed, log>>

Advance(from, to) ==
    /\ loop = "cycle" /\ step = from
    /\ step' = to
    /\ UNCHANGED <<loop, cancelled, due, gap, left, current, proc, killed>>

Collect == Advance("collect", "secure") /\ UNCHANGED log

Secure == Advance("secure", "rotate") /\ log' = "locked"

\* rotate_if_large: the log is small, or the rotation fails and is only logged.
KeepLog == Advance("rotate", "spawn") /\ UNCHANGED log

RotatedNotResecured == Advance("rotate", "spawn") /\ log' = "absent"

Rotated == Advance("rotate", "resecure") /\ log' = "absent"

Resecure == Advance("resecure", "spawn") /\ log' = "locked"
-----------------------------------------------------------------------------
(* run_child.                                                               *)

\* Dropping the Child kills it unless it has ended (kill_on_drop).
KillIfLive(c) == killed' = IF Live(c) THEN killed \cup {c} ELSE killed

Spawn(c) ==
    /\ loop = "cycle" /\ step = "spawn" /\ ~Live(c)
    /\ step' = "wait" /\ current' = c /\ left' = Timeout
    /\ proc' = [proc EXCEPT ![c] = "started"]
    /\ killed' = killed \ {c}
    /\ UNCHANGED <<loop, cancelled, due, gap, log>>

SpawnFails ==
    /\ loop = "cycle" /\ step = "spawn"
    /\ CycleOver
    /\ UNCHANGED <<cancelled, due, gap, proc, killed, log>>

\* The child was started, could not be bound and was killed: BindFailed.
BindFails(c) ==
    /\ loop = "cycle" /\ step = "spawn" /\ ~Live(c)
    /\ proc' = [proc EXCEPT ![c] = "started"]
    /\ killed' = killed \cup {c}
    /\ CycleOver
    /\ UNCHANGED <<cancelled, due, gap, log>>

WaitOver ==
    /\ loop = "cycle" /\ step = "wait"
    /\ KillIfLive(current)
    /\ CycleOver
    /\ UNCHANGED <<cancelled, due, gap, proc, log>>

Completed  == WaitOver /\ ~Live(current)
TimedOut   == WaitOver /\ left = 0
WaitFailed == WaitOver

NotCancelled == FALSE
Cancelled    == WaitOver /\ cancelled

\* A panic anywhere in the cycle's task unwinds it; the loop sees a join error.
Panics ==
    /\ loop = "cycle"
    /\ IF step = "wait" THEN KillIfLive(current) ELSE UNCHANGED killed
    /\ CycleOver
    /\ UNCHANGED <<cancelled, due, gap, proc, log>>
-----------------------------------------------------------------------------
(* The child, the clock, the operator.                                      *)

\* The child opens the log it was given, creating it if it must.
ChildOpensLog(c) ==
    /\ proc[c] = "started"
    /\ proc' = [proc EXCEPT ![c] = "writing"]
    /\ log' = IF log = "absent" THEN "unlocked" ELSE log
    /\ UNCHANGED <<loop, step, cancelled, due, gap, left, current, killed>>

\* It ends by itself, or because a kill takes effect; it may also hang.
ChildEnds(c) ==
    /\ Live(c)
    /\ proc' = [proc EXCEPT ![c] = "none"]
    /\ UNCHANGED <<loop, step, cancelled, due, gap, left, current, killed, log>>

KillTakesEffect(c) == c \in killed /\ ChildEnds(c)

Clock ==
    /\ due' = IF due > -Period THEN due - 1 ELSE due
    /\ gap' = IF gap < Period THEN gap + 1 ELSE gap
    /\ left' = IF left > 0 THEN left - 1 ELSE left
    /\ UNCHANGED <<loop, step, cancelled, current, proc, killed, log>>

\* Ctrl+C, SIGTERM or the service's stop control.
Cancel ==
    /\ ~cancelled
    /\ cancelled' = TRUE
    /\ UNCHANGED <<loop, step, due, gap, left, current, proc, killed, log>>

\* Somebody deletes child.log between two cycles.
LogDeleted ==
    /\ loop = "select" /\ log # "absent"
    /\ log' = "absent"
    /\ UNCHANGED <<loop, step, cancelled, due, gap, left, current, proc, killed>>

CycleStep ==
    \/ CycleFails \/ Collect \/ Secure \/ KeepLog \/ Rotated \/ Resecure
    \/ (\E c \in Children : Spawn(c) \/ BindFails(c)) \/ SpawnFails
    \/ Completed \/ TimedOut \/ Cancelled

Next ==
    \/ TickFires \/ LoopReturns
    \/ CycleStep \/ WaitFailed \/ Panics
    \/ \E c \in Children : ChildOpensLog(c) \/ ChildEnds(c)
    \/ Clock \/ Cancel \/ LogDeleted

Spec == Init /\ [][Next]_vars

(* The runtime polls a task that is ready, and the kernel delivers a kill.   *)
(* The select is unbiased: a branch that is ready time and again is taken   *)
(* in the end, whence strong fairness of LoopReturns.  Neither the clock,   *)
(* nor a child's end, nor an error is fair; CyclesGoOn assumes the clock.   *)
FairSpec ==
    /\ Spec
    /\ WF_vars(TickFires) /\ SF_vars(LoopReturns)
    /\ WF_vars(CycleStep)
    /\ \A c \in Children : WF_vars(KillTakesEffect(c))
-----------------------------------------------------------------------------
(* The loop keeps the promise of PeriodicTask, whatever the cycle does.     *)
Task == INSTANCE PeriodicTask
        WITH task <- CASE loop = "select" -> "idle" [] loop = "cycle" -> "running"
                       [] loop = "returned" -> "stopped",
             since <- gap, requested <- cancelled

ImplementsTask == Task!TaskSpec

(* A child is started with its log in place and locked, also after a        *)
(* rotation and after somebody deleted the log (cycle.rs:40: "the fresh     *)
(* live file is born locked").                                              *)
SpawnsIntoLockedLog ==
    [][step = "spawn" /\ step' = "wait" => log = "locked"]_vars

(* Once cancelled the loop returns, without waiting for the clock or for    *)
(* the child: no timeout has to expire (agent.rs:16-18).                    *)
CancelStopsLoop == cancelled ~> loop = "returned"

(* If time passes and nobody cancels, cycles go on for ever: no error,      *)
(* panic, failed spawn or hung child stops the loop (agent.rs:20).          *)
CyclesGoOn == WF_vars(Clock) => []<><<TickFires>>_vars \/ <>cancelled

(* What cycle.rs:39 says: "Rotation happens between children, so no writer  *)
(* holds the file".                                                         *)
NoWriterDuringRotation ==
    [][step = "rotate" /\ step' = "resecure" =>
           \A c \in Children : proc[c] # "writing"]_vars
=============================================================================
