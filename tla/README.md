# flamingo-agent: specifications and proofs

flamingo-agent is a small monitoring agent. Every `period` seconds it samples the time and
its own memory and starts a short-lived program, `logger-child`, that appends the sample to a
log only administrators can read. It runs in the foreground on Linux and Windows, and as a
Windows service. This directory holds TLA+ specifications of the parts of it that are hard to
test, the TLC configurations that check them on small instances, and proofs, checked by TLAPS,
of the theorems that hold for every instance.

Paths such as `rotation.rs` are relative to `agent-rust/src/`; line numbers are those of the
commit the specifications were written from. `PROJECT.json` maps every definition to its lines.

## 1. The system

| component | source | state | operations | talks to |
|---|---|---|---|---|
| agent.log writer | `rotation.rs`, `logging.rs` | the rotated files, an open handle, a cached size | open, write, rotate, reopen | the queue of `tracing-appender` feeds it from one thread; the file system below may fail at any call |
| child lifetime | `child.rs`, `platform/unix.rs:41-65`, `platform/windows.rs:464-528` | the child process, its binding to the agent, the job object | spawn, bind, wait, kill on drop | called by the cycle; the kernel delivers kills |
| tick loop and cycle | `agent.rs`, `cycle.rs` | the ticker, the cancellation token, where the cycle is, child.log | tick, cycle steps, cancel, return | starts the child, secures and rotates child.log |
| instance lock, bootstrap | `app.rs:43-98`, `platform/*: acquire_instance_lock` | the lock file, the log guard | secure, lock, open logs, run, drop in reverse | other agents on the same directory; forked children that share the lock |
| Windows service | `service/windows.rs:51-211` | the status the SCM shows, the handler's slot, the token | ServiceMain's reports, the control handler | two threads and the SCM; runs the bootstrap and the loop inside |
| service installation | `service/windows.rs:213-353`, `service/eventlog.rs` | the SCM's registration, policy and failure count | `--install`, `--uninstall`, `wait_for_state` | the SCM, the running service, other commands |
| log protection | `platform/*: secure_dir, secure_file` | what is found under each name: nothing, a link (to something or to nothing), another user's, ours loose or locked | create, check, apply, describe | called by the bootstrap, the writer and the cycle; other agents and an administrator in between |
| command line, privilege, relaunch | `main.rs`, `cli.rs`, `app.rs:16-27, 118-210` | a chain of processes, each waiting for the next | parse, check privilege, relaunch, exit code | everything above; the user's answer to the prompt |
| command-line quoting | `platform/winquote.rs` | none | `quote_arg`, `quote_command_line` | the relaunch |
| configuration, metrics | `config.rs`, `metrics.rs` | a validated record; a `Once` | resolve; collect | the loop |
| event log | `service/eventlog.rs` | a registry key and the values under it | register, report, unregister | the installer, the service |
| other platforms' service stub | `service/unsupported.rs` | none | refuse | the command line |
| logger-child | `logger-child/src/main.cpp` | none | parse, append one line, exit | child.log |
| install.ps1, CI, soak check | `install.ps1`, `scripts/`, `.github/` | none | build, copy, install; test | `--install`, `--uninstall` |

What makes each of them hard, and what makes it correct:

- **agent.log writer.** Rotation is several system calls, each of which may fail on its own,
  with the process killed between any two; a failure is swallowed and the next write retries
  from the beginning, with a cached size and a handle that may by then point at a file that has
  been renamed. Correct means: generations stay in order, no hole ever appears in the log, only
  the oldest generation is dropped, files keep to their bound.
- **Child lifetime.** The agent may die between fork and exec, or between creating a process
  and putting it into the job; a child may hang; a timeout races a completion. Correct means:
  nothing outlives the agent, nothing outlives the wait for it.
- **Loop and cycle.** Missed ticks, an unbiased `select!`, panics and errors in a cycle, a stop
  in the middle of one. Correct means: cycles never overlap, keep their distance, never stop the
  loop, and a stop never waits for a timer.
- **Instance lock.** Several agents start, end and die; a forked child shares the lock. Correct
  means: one writer at a time, and a dead agent's lock comes free.
- **Service.** Two threads report states whose order the SCM takes seriously; any report may
  fail. Correct means: no `Running` after `StopPending`, no `StopPending` after `Stopped`, a stop
  is honoured, and exit code 0, which suppresses the recovery, is kept for it.
- **Installation.** A command is a dozen SCM calls, with the service, the SCM's own restarts and
  other commands in between. Correct means: a service is started only with its recovery policy
  and its event source, a command ends, a broken deployment is not restarted for ever,
  `--uninstall` stops what it deletes.
- **Log protection.** Securing an object is several calls, on Windows in another order than on
  Unix; two agents may start at once, one may die half-way, and files are taken away meanwhile.
  Correct means: what is not trusted is left alone, what the agent makes is locked from the first
  moment, and nobody writes into an unprotected log.
- **Command line and relaunch.** A command without privilege starts itself again, elevated, with
  its arguments put into one string, and waits; any process of the chain may die or be refused.
  Correct means: the same arguments arrive, and the exit code tells the caller what happened.

## 2. The modules

| module | models | theorems in |
|---|---|---|
| `Generations` | file-system calls on the files of one rotated log | `AgentLogProofs` |
| `RetainedLog` | abstract: what a rotated log promises its reader | |
| `AgentLog` (extends `Generations`, instantiates `RetainedLog`) | `RotatingWriter` | `AgentLogProofs` |
| `ChildLifetime` | `run_child` with the platform's binding | `ChildLifetimeProofs` |
| `PeriodicTask` | abstract: what the loop promises | |
| `AgentLoop` (instantiates `PeriodicTask`) | `run_loop`, `run_cycle_with`, outcomes of `run_child` | `AgentLoopProofs` |
| `Protection` | `secure_dir`, `secure_file` and the checks they make, call by call | `InstancesProofs` |
| `Instances` (extends `Protection`) | `run_agent_blocking` around the instance lock | `InstancesProofs` |
| `ServiceView` | abstract: the service as the SCM sees it | |
| `Service` (instantiates `ServiceView`) | `run_service` and its control handler | `ServiceProofs` |
| `Installer` (instantiates `ServiceView`) | `install`, `uninstall`, the event source and the SCM's failure actions | `InstallerProofs` |
| `WinQuote` | quoting a command line and parsing it, as functions | `WinQuoteProofs` |
| `Launch` (extends `WinQuote`) | one invocation: command line, privilege, relaunch, exit code | `LaunchProofs` |
| `MC*` | instances for TLC, one or more `.cfg` each | |

The modules are joined by their assumptions. `AgentLoop` takes the kill of a child and the
binding as `ChildLifetime` shows them; `Instances` and `Service` take the loop as one step that
ends after a cancellation, which is `CancelStopsLoop` of `AgentLoop`; `Instances` takes from
`ChildLifetime` that a forked child gets to exec or dies. `Installer` and `Service` meet in
`ServiceView`: the steps of the service in `Installer` are steps of `ServiceView`, and
`ImplementsView` shows that `Service` takes no others, whichever of its reports fail. `Launch`
takes a whole `install`, `uninstall` or agent run as one step, which `Installer` and `Instances`
take apart.

In every module an operator that no other definition uses and that stands directly before
another one with the same parameters (`RenamedByCopy`, `HandlerCancelsFirst`, ...) is a wrong
version of it: a bug someone could have written. Substituted for the right one it makes TLC
refute a property, which shows that the property depends on the code. `PROJECT.json` pairs them
under `mutants`. They are never part of a specification.

### AgentLog and Generations

A file is the set of numbers of the lines it holds and its length. `disk[0]` is the live file,
`disk[k]` is `<stem>.k.log`. `handle` is the slot the open file is in, or `Unlinked`: a handle
follows its file through renames and outlives its deletion. One action is one system call:

| action | code |
|---|---|
| `Open`, `OpenFails` | `RotatingWriter::open`: create and secure, open for append, read the length |
| `Write` | `write`: the decision to rotate, on the cached size |
| `RemoveOldest`, `ShiftGeneration`, `RenameLive` and their failures | `rotate` |
| `Reopen`, `ReopenFails` | `rotate_now`, `open_locked` |
| `Append`, `AppendFails` | `write_all`, whole or cut short |
| `Crash` | the process ends anywhere; only `disk` survives |

`stale` counts the rotations that failed since the handle was last opened. `write` ignores the
result of `rotate_now`, so a failure leads straight to `Append`.

`RetainedLog` is the log without its files: a set of lines that grows at the new end (`Accept`),
shrinks from the old one (`Forget`) and misses a line only while it is empty (`Miss`, the case of
a handle on a deleted file). `AgentLog` maps its files onto it with `OnDisk`; a rename is a
stutter and the deletion of the oldest generation a `Forget`.

### ChildLifetime

Both platforms in one module, chosen in `Init`. The agent's side is `run_child` (`Spawn`,
`Spawned`/`SpawnFailed`, `BindOk`/`BindFailed`, `Completed`/`WaitDropped`), the child's side is
`prepare_child` and exec (`Arm`, `CheckParent`, `StartFails`, `Exec`), then `Exit` if it ever
does. `bound` is what the kernel kills with the agent, `doomed` the kills already sent. On Linux
spawn returns only after exec, since the standard library reads the outcome from a close-on-exec
pipe. On Windows the child runs as soon as it is created. `child_job` keeps its first outcome,
also a failure, for good; putting a child that has already ended into the job fails. The parent
death signal is armed per spawning thread; the runtime's workers are taken to live as long as
the agent.

### AgentLoop and PeriodicTask

`loop` and `step` are the program counters of `run_loop` and `run_cycle_with`. Time is discrete
and may pass between any two steps. `due`, `left` and `gap` are times left or gone by, so no
clock grows without bound; `NextDue` is `MissedTickBehavior::Delay`. Rotating `child.log` is one
action here (its calls are the ones `AgentLog` takes apart; both logs use the same `rotate`).
`log` starts locked because `secure_and_describe_child_log` precedes the loop. A child left from
an earlier cycle stays in `proc` until its kill takes effect, and may open the log as late as
that. `PeriodicTask` has three states and one distance; `Task` maps the loop onto it and
`ImplementsTask` is checked as a property and proved.

### Instances and Protection

`pc[a]` runs through `run_agent_blocking` for every agent: secure the directory, take the lock,
secure and open `agent.log`, secure and describe `child.log`, run, and drop in reverse order of
the two `let` bindings. Any step may fail, and an agent may die anywhere. The lock belongs to the
open file: on Linux a child between fork and exec shares it (`forked`), so the lock of a dead
agent may be held a little longer. The log guard is taken to have ended its worker when it is
dropped.

The three stages that secure an object go through `Protection` call by call; `task[a]` is the next
call. `disk` says what is under each name, in any state before the first start; the platform is
chosen in `Init`, since the sequences differ:

| platform | calls, in order |
|---|---|
| Windows | `CreateDirectory`/`CreateFile` with the descriptor, or found; if found, `CheckReparseAndOwner`; `ApplyDacl` |
| Unix | `CheckLinkAndOwner` (nothing there passes); `CreateWithMode`; `SetMode` |

A link is in one of three states, since on Windows the calls differ in what they make of it: it leads
to something (`"link"`), to nothing (`"dangling"`), or to the file made through it (`"followed"`, in no
initial state). `GetFileAttributesW` and `CreateDirectoryW` look at the link itself. `CreateFileW` with
`OPEN_ALWAYS` goes through it: where there is a target it reports that the file existed, and the link is
checked and refused; where there is none it makes one and reports a new file, so the check is
left out (`FollowLink`, `platform/windows.rs:272-300`). `SetNamedSecurityInfoW` goes through it too,
so `ApplyDacl` leaves a link what it was. On Unix `symlink_metadata` sees every link.

`WriterRotates` and `ChildAppends` are what the log files undergo while agents run (`AgentLog` and
`AgentLoop` in one step each); an administrator may take a file away at any time (`Removed`), but
not the directory. Others may change what is in the directory only until it is locked, and no
agent looks at a file before: what they do is one more initial state.

### Service

`main` is the position of ServiceMain, `handler` that of the control handler; both send status
reports, and `Reported` may lose one where the code ignores the error. `ScmStops` is enabled
while the last report that arrived accepts controls. `outcome` is what becomes the exit code.
Wait hints, checkpoints and the event log, which change nothing the two threads read, are left
out. The bootstrap and the loop inside are one step each.

`ServiceView` keeps the status and whether this process was asked to stop. `View` maps a stop that
is anywhere between the SCM's dispatch and the token onto `asked`.

### Installer

One action per SCM call of a command; any of them may fail (`CallFails`) and some must (`Refused`),
and several commands may run at once. The service takes the steps of `ServiceView`, to which the SCM
adds its count of failures: `MayExit` says with which code it may stop (`CleanExitWasAsked` of
`Service`). `RestartsAfter` is the failure policy applied: two restarts, on a crash as soon as the
actions are set and on a non-zero exit once the flag is; a good day or a new registration resets
the count. `Removed` takes a marked registration away when its process and the last handle are gone. `source` is the
event source: its key may be there without its values, if `set_values` failed or was cut short
(`SetValuesFails`). `wait_for_state` is a bounded number of polls, and it may step over a short
state. Which error a command ends with is not told apart.

### Launch and WinQuote

Process 1 is the caller's own, process `p + 1` the one `p` started with the runas verb. The
command line is a sequence of arguments and an argument a sequence of characters, of which only
those that quoting tells apart have names. `WellFormed`, `Conflicts` and `TimeoutBelowPeriod` are
what clap and `Config::resolve` refuse. `Relaunch` puts the arguments into one line with
`QuoteCommandLine` and has the new process read them back with `ParseCommandLine`, in both of the
known readings of a doubled quote. `handle` is FALSE where ShellExecuteExW succeeds without a
process handle. Anything may die with a code of `CrashCodes`; `PassOn` converts the code into the
byte a process can end with. The SCM is a caller too, with no arguments and privilege. Whether
runas elevates is a property of the machine (`runas_elevates`).

## 3. What is checked

`tlc -config X.cfg M` in this directory, with the configuration and the `MC` module of
`PROJECT.json`. Distinct states: `agent_log` 680 000, `launch` 209 000, `installer` 117 000,
`instances` 73 000, the others a few thousand at most; none takes more than a minute.

| run | module, configuration | shows |
|---|---|---|
| `agent_log` | `MCAgentLog` | the writer keeps order, has no hole, keeps its size bound, drops only the oldest generation, loses lines only after `Keep` failed rotations in a row, and implements `RetainedLog` |
| `agent_log_reopen` | `MCAgentLogReopen.cfg` | **violation** of `WritesReachDisk` |
| `child_lifetime` | `MCChildLifetime` | both platforms: one live child at most that is not being killed; it is bound before it is waited for; on Linux nothing survives the agent |
| `child_windows` | `MCChildLifetimeWindows.cfg` | **violation** of `NoOrphan` |
| `agent_loop` | `MCAgentLoop` | the loop implements `PeriodicTask`, spawns only into a locked log, stops when cancelled and otherwise goes on for ever |
| `rotation_writer` | `MCAgentLoopWriter.cfg` | **violation** of `NoWriterDuringRotation` |
| `service` | `MCService` | order of the reports, honoured stops, no hanging `StopPending`, honest exit code; `Service` implements `ServiceView` |
| `instances` | `MCInstances` | one writer, only the lock's holder runs, a dead holder's lock comes free; who writes does so to a locked file, in a locked directory but for a link that was followed; what is not trusted is left alone, but for such a link; what is made is born locked |
| `planted_link` | `MCInstancesLinks.cfg` | **violation** of `LinksRefused` |
| `installer` | `MCInstaller` | started services recover and have their event source, commands end, restarts go on for ever only with good days or new registrations |
| `uninstall` | `MCUninstall.cfg` | **violation** of `DeletesStoppedService` |
| `launch` | `MCLaunch` | the elevated process gets the caller's arguments; exit code 0 means done (but for a wait that fails unnoticed), 2 to 5 that no command was carried out and nothing is left running; where runas elevates, `--install` and `--uninstall` come back |

### What the violations say

1. **Lines can be lost after failed reopens** (`rotation.rs:81-83, 105-125`). The comment says
writing continues into the current file. After a rename that works and a reopen that does not, the
handle is on generation 1 while the cached size still asks for a rotation on every write; each retry
moves that file up one slot until it is deleted, and then lines go into an unlinked file. It takes
`Keep` failed rotations in a row, `LostOnlyAfterKeepFailures` shows it takes no less.
2. **Windows has a window without a job** (`child.rs:63-65`). A child is created running and is
   put into the job afterwards: an agent killed in between leaves it behind.
3. **A killed child may still write while its log is rotated** (`cycle.rs:39`). `run_child`
   does not wait for a child it has killed.
4. **A link that leads to nothing is followed, not refused** (`platform/windows.rs:293`).
   `design.md:589` has every symbolic link refused before any write, and the comment at
   `platform/windows.rs:174-180` every object the agent did not create checked. Whether the file was there is
   told from the last error of `CreateFileW`, which speaks of the link's target. The agent then runs
   with `agent.log` behind the link; the next start finds a target and refuses. `RunsProtected` and
   `BornLockedOrLeftAlone` say what does hold: the target is born locked, this happens to files on
   Windows only, and every other link is left alone.
5. **`--uninstall` can delete a service that is starting** (`service/windows.rs:315`). It looks
   once; the recovery policy may restart a failed service before the delete.

### Bounds, and why they are enough

- `agent_log`: `Keep = 2` has an older generation that shifts, a live file that is renamed and
  one that is deleted, and lets the handle fall two slots behind; the lengths 1, 2 and 4 against
  a limit of 3 give a line that fits often, once, and never; three faults are one more than
  `Keep`, five lines fill all the slots.
- `child_lifetime`: three slots are the child in hand, one being killed and one gone.
- `agent_loop`: a period of 3 and a timeout of 2 leave room for a cycle that ends in time, one
  that times out and one that overruns; `due` counts a delay up to one period and then stays,
  since the code asks only whether the deadline is past.
- `instances`, `planted_link`: three agents: one that runs, one that ends, one that starts; any state
  of the directory and of both files at first, on both platforms.
- `launch`: three processes are one more than an elevation needs, and enough for a chain where
  runas does not elevate; the arguments are every text of up to `MaxText` = 2 characters, of 4
  among quote, backslash and space, of 6 among quote and backslash (three backslashes before a
  quote and before the end), every pair of short ones, and the command lines clap tells apart.
- `service`: two failing calls: one may hide a report of each thread.
- `installer`: two commands interleave in every way; one poll is enough to be late or in time.
- Counters have names: `MaxLines`, `MaxFaults`, `Children`, `Agents`, `Tools`, `Polls`, `MaxProcs`.

### Fairness

- `ChildLifetime`: the kernel schedules a forked child up to its exec and delivers kills. Not
  assumed: that the program ends, that the agent moves.
- `AgentLoop`: the runtime polls what is ready; the cycle's own steps go on. `LoopReturns` is
  strongly fair, because `select!` picks at random among ready branches, so a branch that is
  ready time and again is taken in the end. The clock is fair only where `CyclesGoOn` says so.
- `Service`: both threads are scheduled, bootstrap and drain end, a process whose dispatcher
  has returned goes away.
- `Instances`: a forked child gets to exec or dies.
- `Installer`: every call of a command returns, with success where the SCM allows it (a failure that
  merely may happen is not fair, or it alone would end every command). Nothing is assumed of the
  service or the SCM.
- `Launch`: a process goes on, its calls return, and the user answers the prompt. Not assumed:
  that an agent's loop ever ends.

`child_lifetime`, `child_windows` and `launch` switch the deadlock check off: an agent that is
dead with no child left, and an invocation whose processes have ended, do nothing more.

## 4. What is proved

`tlapm X.tla`. Every theorem holds for all values of the constants that the module's named
`ASSUME` allows; no theorem has a hypothesis of its own, and no step is left without proof. The
assumptions are what the code checks or the machine gives: a timeout below the period
(`Config::resolve`), arguments that are texts, lines that have a longest one (a `usize` is finite),
a process that died and does not exit with one of the agent's own answers.

The theorems on the properties of the runs:

| module | theorem | states |
|---|---|---|
| `AgentLogProofs` | `TypeCorrect`, `OrderPreserved`, `NoGapEver`, `LossNeedsKeepFailures`, `SizeBounded`, `OnlyOldestLost`, `LogImplements` | `TypeOK`, `OlderIsHigher`, `NoGap`, `LostOnlyAfterKeepFailures`, `SizeBound`, `OnlyOldestDropped`, `ImplementsRetainedLog` |
| `ChildLifetimeProofs` | `ChildTypeCorrect`, `NoChildLeftBehind`, `WaitsForBoundOnly`, `LinuxLeavesNoOrphan` | `TypeOK`, `OnlyCurrentLives`, `WaitedChildIsBound`, `NoOrphanOnLinux` |
| `AgentLoopProofs` | `LoopTypeCorrect`, `LogLockedAtSpawn`, `LoopImplementsTask` | `TypeOK`, `SpawnsIntoLockedLog`, `ImplementsTask` |
| `ServiceProofs` | `ServiceTypeCorrect`, `CleanExitOnlyIfAsked`, `StopPendingStays`, `StoppedStays`, `ServiceImplementsView` | `TypeOK`, `CleanExitWasAsked`, `NeverBackToRunning`, `StoppedIsFinal`, `ImplementsView` |
| `InstancesProofs` | `InstancesTypeCorrect`, `OneWriterOnly`, `HolderRunsOnly`, `RunsProtectedOnly`, `AgentsMakeLocked` | `TypeOK`, `OneWriter`, `OnlyHolderRuns`, `RunsProtected`, `BornLockedOrLeftAlone` |
| `InstallerProofs` | `InstallerTypeCorrect`, `StartsWithRecovery`, `StartsWithSource`, `RestartsEnd` | `TypeOK`, `StartedServiceRecovers`, `StartedServiceHasSource`, `RestartsAreBounded` |
| `LaunchProofs` | `LaunchTypeCorrect`, `ArgumentsSurvive`, `SuccessNeedsTheDeed`, `RefusalsTouchNothing` | `TypeOK`, `SameArguments`, `SuccessMeansDone`, `RefusalMeansUntouched` |

and those that say more than a run checks:

| module | theorem | states |
|---|---|---|
| `WinQuoteProofs` | `RoundTrip` | what `QuoteCommandLine` writes, `ParseCommandLine` reads back, for every sequence of texts, either reading of a doubled quote and nothing replaced but `Surrogate` |
| `ChildLifetimeProofs` | `WindowsGapIsTheBind` | on Windows a dead agent leaves at most the child it was about to put into the job |
| `AgentLoopProofs` | `CyclesKillTheirChildren` | a live child nobody waits for has been killed; a rotation of `child.log` meets no other writer |
| `ServiceProofs` | `ReturnsAfterStopped` | ServiceMain returns without a Stopped shown only if a call to the SCM has failed |
| `ServiceProofs` | `StopPendingHasCause` | while StopPending is shown, one of the two threads is ending the service, or it has ended |
| `InstancesProofs` | `DeadAgentsLockGoes` | a dead agent's lock is kept only by its child before exec, and goes with it |
| `InstallerProofs` | `CommandsOnlyAdvance` | every step of a command brings it nearer to its end; no step of others sets it back |
| `InstallerProofs` | `InstallerKeepsView` | the service in `Installer` takes the steps of `ServiceView` only |
| `LaunchProofs` | `ProcessesOnlyAdvance` | no process goes back to an earlier step |
| `LaunchProofs` | `ChainEndsElevated` | where runas elevates there are two processes at most |

`WindowsGapIsTheBind`, `CyclesKillTheirChildren`, `AgentsMakeLocked` and `LossNeedsKeepFailures`
each give the extent of a violation of section 3: what the refuted statement should have said.
`ReturnsAfterStopped` does so for `design.md:342`, where ServiceMain "always reaches `Stopped`": the
StartPending report is the one whose error is propagated (`service/windows.rs:92`), and when it fails
ServiceMain returns with a status handle and no Stopped. `DeadAgentsLockGoes`, `StopPendingHasCause`, `CommandsOnlyAdvance`,
`ProcessesOnlyAdvance` and `ChainEndsElevated` are what is safety in a liveness property that TLC
checks: with them, only that the enabled step is taken is left to fairness.

Each module but `WinQuoteProofs` proves one inductive invariant `IInv`, on which its theorems rest.

- **AgentLog.** Order and the absence of holes are not inductive: a retry after a failed reopen
  renames the file under the handle, and if some newer file held lines, appending to the older
  one would break both. The missing facts are that the slots below the handle hold no line
  (`HandleIsNewest`) and that the target of the next rename, or of the create, is vacant
  (`TargetVacant`), so no rename overwrites a line. `HandleBehind` ties the handle to the number
  of failures: a rotation moves it at most one slot, which gives `LostOnlyAfterKeepFailures`.
  The size bound needs that while nothing failed the cached size is the file's (`SizeExact`).
  Once calls have failed, `Slack` says by how much the cached size may lag: every failing call lets
  a file, the one in hand or one already rotated, outgrow the limit by one longest line at most,
  and no crash or retry adds to that.
  For `RetainedLog` the same facts say that a line that does not reach the disk finds it empty:
  a handle on a deleted file has nothing newer below it, and what was older went before.
- **ChildLifetime.** A Linux child is bound from `Arm` on, and once past `CheckParent` it is
  doomed if the agent is dead. The invariant is the pair of these, plus that spawn returns only
  after exec.
- **AgentLoop.** The loop decides by the ticker's deadline, `PeriodicTask` by the distance from
  the last start. `DeadlineTellsGap` says that a deadline not yet reached and the distance
  always add up to the period: with it each step of the loop is a step of the task, or none.
- **Service.** Controls are open only between `Running` and the handler's `StopPending`, and the
  token is cancelled only after that; hence ServiceMain cannot overtake the handler. With that
  every report that arrives is one of `ServiceView`'s steps, and one that fails is a stutter.
- **Instances.** From the lock to its drop the agent holds it, and so does its forked child;
  `agent.log` is open only within that stretch. For the protection: what a call goes by has been
  checked before or is a link that was followed (`Checked`; on Unix before it is made as well), only
  links of files are followed and only on Windows (`FollowedWhere`), the directory stays locked for as
  long as an agent that secured it lives (`DirLocked`), and from the end of its `secure_file`
  `agent.log`, or the link in its place, becomes nothing but locked or absent (`LogLocked`), for only
  its one writer makes it.
- **Installer.** The SCM restarts a service only after one of two counted failures (`Restarts`), so
  a third restart needs the count to have gone down in between (`RestartTakesAnAttempt`): restarts
  without end mean forgiving without end, which needs no fairness and is proved in temporal logic
  over three facts, `Due`, `One` and `Two`. What a command has set stays set while it holds its
  handle, since only the removal of a registration forgets a policy and none is removed under an
  open handle. The event source goes only after the registration is marked (`SourceSet`), so a
  command that saw it removed can no longer start the service.
- **WinQuote.** `QuoteArg` and `ParseCommandLine` are folds, and what a fold returns for every
  sequence is a matter of induction. No induction theorem with an operator as its parameter can be
  used here; instead the set of the lengths for which a statement holds is shown to be `Nat`
  (`NatSet`, from the well-foundedness of `<`), and likewise for sequences (`SeqSet`). A fold is
  brought back to a table of its steps (`Run`), of which it is proved that it goes on by one step per
  element (`RunAppend`) and over two parts one after the other (`RunConcat`). The invariant of
  the round trip (`Stretch`): after any part of an argument the reader has that part except for the
  backslashes at its end, and of these it holds as many as the quoter has counted; a quote then
  comes with twice as many and one more, and the end with twice as many (`OneMoreBackslash`,
  `QuotedNext`). An argument without need of quotes is read as it is (`BareArg`), and the line is
  read argument by argument (`ReadNext`).
- **Launch.** One process is at work at a time (`OneAtWork`): those before it wait or are gone.
  Until the loop or the management begins nothing is done (`NothingDoneYet`), so a refusal, passed
  along the chain or made anew, still means that (`RefusedUntouched`). A death is assumed not to
  look like an answer (`LaunchAssumption`). Success is followed along the chain by a second
  invariant (`SuccessIsTrue`): every process has the caller's command, since its arguments differ
  by surrogates at most and no flag has one. That they do, `ArgumentsSurvive`, follows from
  `RoundTrip` at each relaunch, and from the fact that a lossy conversion is not lossy twice
  (`LossyOnce`). An elevated process starts no other one, which ends the chain (`ElevatedStartsNone`).
- **Extents and safety halves.** On Windows a child is unbound only before `bind_child`, and the
  agent's state at its death tells whether it was there (`OrphanOnlyBeforeBind`). `LeftoversKilled`
  needs that a cycle holds a child at its wait only. `ReturnsReported` and `StopUnderWay` go with
  each report of the two threads. The lock of an agent is either on its way to `DropLock` or its
  child's (`LockAccountedFor`).

Only model-checked are the liveness properties that rest on fairness: `DeadAgentLeavesNoChild`,
`CancelStopsLoop`, `CyclesGoOn`, `StopHonoured`, `NoHungStopPending`, `DeadHolderLetsGo`,
`CommandsEnd` and `CommandAnswers`. To use weak or strong fairness a proof has to show that an action
is enabled, and the proof system has no rules for ENABLED. Every other property that a run finds true
is proved. That the specifications are faithful to the code is not proved by anything: it is what
`PROJECT.json` is for.

## 5. What is not modelled

- `install.ps1`: a sequential script around `--uninstall` and `--install`, whose calls `Installer`
  models in any order; building and copying files is I/O. Continuous integration and the soak
  check observe the agent from outside.
- `metrics.rs`: the values of a sample; that a sample may fail is a step of `AgentLoop`.
- `eventlog.rs`: the reports, which are best-effort and change no state anything reads.
- `logger-child`: its sequential parsing of three arguments; `AgentLoop` and `ChildLifetime` have
  the process as its parent sees it.
- The texts of security descriptors, messages on stderr, `--help` and `--version`.
- The queue of `tracing-appender` in front of `agent.log` and its bounded wait on drop.
- `exists()` is taken to tell the truth; where it cannot read the metadata, `rotate` would take
  a generation for missing. A change of `keep` between two runs of the agent is not modelled:
  the generations past a smaller `keep` stay, and the log may then have a hole before them.
- A chain of relaunches where runas does not elevate: nothing in the code ends it, no document says
  that it ends, and `CommandAnswers` leaves it out; the exit codes are checked along it.
- What a run that ends with exit code 5 leaves: the log directory is secured before the lock is found
  taken, which `done` of `Launch` does not count.
- What becomes of the target of a link: one that is there stays, and so does one the agent has made.
  `secure_file` in the cycles, which finds a followed link at `child.log` and refuses it, is one of the
  failing steps of `AgentLoop`.
- What one child appends to `child.log`; it is measured only between children.
- Logging. README.md:192 says that a failed rotation is logged; `RotatingWriter`, which is the
  log, cannot and does not.
- Where runas does not elevate, nothing in the code ends the chain of relaunches; `CommandAnswers`
  is stated where it does, the other properties along such chains too.
- The SCM's patience with wait hints. The capture and the wording of the child's stderr.
- `child.log` deleted during a cycle: `LogDeleted` happens between cycles.

## 6. Plan

1. (done) `Generations`, `AgentLog`: the writer, most of the file-system hazards, and its proofs.
2. (done) `ChildLifetime`, `AgentLoop` against `PeriodicTask`, with proofs.
3. (done) `Service`, `Instances`, `Installer`, with proofs.
4. (done) `WinQuote` and `Launch`: quoting, command line, privilege, relaunch, exit codes; the
   proof that a refusal means that nothing was touched.
5. (done) `Protection` under `Instances`, with proofs; the event source in `Installer`.
6. (done) The abstract specifications `RetainedLog` and `ServiceView`, implemented by `AgentLog`
   and `Service`, and `Installer` composed with the second.
7. Left: `keep` changed between two runs of the agent (`AgentLog` with `keep` as a variable chosen
   in `Open`); the size of `child.log`; the SCM's patience with a slow bootstrap.
8. (done) The round trip of the quoting proved for every text, and with it the theorems on the
   arguments and on exit code 0 without a hypothesis; the bound on the files under failing calls;
   the bounded restarts; the safety half of the liveness properties and the extent of the violations.
