------------------------------- MODULE Launch -------------------------------
(***************************************************************************)
(* What one invocation of the program comes to (main.rs, cli.rs, and the   *)
(* privilege and relaunch part of app.rs): the command line is parsed, a   *)
(* process without privilege starts itself again elevated and waits for    *)
(* that one (relaunch_privileged in platform/windows.rs), and the exit     *)
(* code tells the caller what happened.  Process 1 is the caller's own,    *)
(* process p + 1 the one that p has started.                               *)
(***************************************************************************)
EXTENDS WinQuote

CONSTANTS
    Vectors,        \* the argument vectors a caller may use
    MaxProcs,       \* bound: processes of one invocation
    CrashCodes      \* exit codes, as an i32, of a process that died

OK == 0
FAILURE == 1
USAGE == 2
PRIVILEGE == 3
UNSUPPORTED == 4
ALREADY_RUNNING == 5
STILL_ACTIVE == 259     \* GetExitCodeProcess on a process that has not ended

\* Arguments are texts.  A death is not taken for an answer of the agent; a
\* failure it may look like.
ASSUME LaunchAssumption ==
    /\ Vectors \subseteq Seq(Seq(STRING))
    /\ MaxProcs \in Nat \ {0}
    /\ CrashCodes \subseteq Int \ {OK, USAGE, PRIVILEGE, UNSUPPORTED, ALREADY_RUNNING}

VARIABLES
    windows,        \* the platform
    by_scm,         \* the caller is the service control manager
    runas_elevates, \* what the runas verb starts is elevated (not so with UAC off)
    pc,             \* where each process is
    argv,           \* its arguments, without the program name
    elevated,       \* whether it runs as root, or with an elevated token
    code,           \* its exit code, as an i32
    done,           \* the commands carried out, "run" from the start of the loop
    unchecked       \* a wait failed, and its caller did not look

vars == <<windows, by_scm, runas_elevates, pc, argv, elevated, code, done, unchecked>>
world == <<windows, by_scm, runas_elevates>>

Procs == 1 .. MaxProcs
PCs == {"absent", "parse", "dispatch", "privilege", "relaunch", "wait", "manage",
        "interactive", "running", "gone"}
Commands == {"install", "uninstall", "run"}

(* argv is left to SameArguments: what it may hold is up to the caller.     *)
TypeOK ==
    /\ windows \in BOOLEAN /\ by_scm \in BOOLEAN /\ runas_elevates \in BOOLEAN
    /\ pc \in [Procs -> PCs]
    /\ elevated \in [Procs -> BOOLEAN]
    /\ code \in [Procs -> Int]
    /\ done \subseteq Commands
    /\ unchecked \in BOOLEAN
    /\ \A p \in Procs : pc[p] = "wait" => p + 1 \in Procs /\ pc[p + 1] # "absent"
    /\ \A p \in Procs : pc[p] = "running" => "run" \in done
-----------------------------------------------------------------------------
(* The command line, as clap reads it.                                      *)
Flag(name) == <<name>>
Install   == Flag("--install")
Uninstall == Flag("--uninstall")
Minimum   == Flag("--period-secs") :> 1 @@ Flag("--child-timeout-secs") :> 1
             @@ Flag("--log-max-bytes") :> 1024 @@ Flag("--log-keep") :> 0
Numerals  == Flag("0") :> 0 @@ Flag("3") :> 3 @@ Flag("9") :> 9 @@ Flag("2000") :> 2000
Paths     == {Flag("--child-path"), Flag("--log-dir")}
RuntimeOverrides == DOMAIN Minimum \cup Paths \cup {Flag("--log-level")}
Names     == {Install, Uninstall} \cup RuntimeOverrides

Given(args, name) == \E i \in DOMAIN args : args[i] = name
IsValue(args, i) == i > 1 /\ args[i - 1] \in RuntimeOverrides
Value(args, name, default) ==
    IF Given(args, name) THEN args[1 + CHOOSE i \in DOMAIN args : args[i] = name] ELSE default

InRange(name, value) ==
    /\ value \in DOMAIN Numerals
    /\ Numerals[value] >= Minimum[name]
    /\ name = Flag("--log-keep") => Numerals[value] <= 1000

\* A number in range, a path that is not empty, or a String.
Parses(name, value) ==
    CASE name \in DOMAIN Minimum      -> InRange(name, value)
      [] name \in Paths               -> value # <<>>
      [] name = Flag("--log-level")   -> Surrogate \notin Range(value)

WellFormed(args) ==
    \A i \in DOMAIN args :
        /\ args[i] \in Names \/ IsValue(args, i)
        /\ IsValue(args, i) => args[i] \notin Names
        /\ args[i] \in RuntimeOverrides => i < Len(args)
        /\ \A j \in DOMAIN args : args[i] = args[j] /\ args[i] \in Names => i = j
        /\ IsValue(args, i) => Parses(args[i - 1], args[i])

Conflicts(args) ==
    \/ Given(args, Install) /\ Given(args, Uninstall)
    \/ /\ Given(args, Install) \/ Given(args, Uninstall)
       /\ \E name \in RuntimeOverrides : Given(args, name)

UsageError(args) == ~WellFormed(args) \/ Conflicts(args)

Command(args) ==
    IF Given(args, Install) THEN "install"
    ELSE IF Given(args, Uninstall) THEN "uninstall" ELSE "run"

\* Config::resolve; the defaults are 5 and 4 seconds.
TimeoutBelowPeriod(args) ==
    LET Seconds(name, default) ==
            IF Given(args, name) THEN Numerals[Value(args, name, <<>>)] ELSE default
    IN  Seconds(Flag("--child-timeout-secs"), 4) < Seconds(Flag("--period-secs"), 5)
-----------------------------------------------------------------------------
At(p, from, to) == pc[p] = from /\ pc' = [pc EXCEPT ![p] = to]

Exit(p, from, c) == At(p, from, "gone") /\ code' = [code EXCEPT ![p] = c]

ExitByteDefaultOk(c) == IF c \in 0 .. 255 THEN c ELSE OK

\* u8::try_from, with plain failure for what does not fit.
ExitByte(c) == IF c \in 0 .. 255 THEN c ELSE FAILURE

rest == <<argv, elevated, done, unchecked, world>>

Init ==
    /\ windows \in BOOLEAN /\ by_scm \in BOOLEAN /\ runas_elevates \in BOOLEAN
    /\ \E args \in Vectors :
          /\ argv = [p \in Procs |-> IF p = 1 THEN args ELSE <<>>]
          /\ by_scm => windows /\ args = <<>>       \* registered without arguments
    /\ pc = [p \in Procs |-> IF p = 1 THEN "parse" ELSE "absent"]
    /\ \E e \in BOOLEAN :
          /\ elevated = [p \in Procs |-> p = 1 /\ e]
          /\ by_scm => e
    /\ code = [p \in Procs |-> 0]
    /\ done = {} /\ unchecked = FALSE

\* Only Windows has something to elevate for: privilege_for_service_management.
FirstStep(command) ==
    CASE command = "run" -> "dispatch"
      [] command # "run" /\ windows  -> "privilege"
      [] command # "run" /\ ~windows -> "manage"

\* Cli::parse, and main's choice of a command.
Parse(p) ==
    /\ IF UsageError(argv[p]) THEN Exit(p, "parse", USAGE)
       ELSE At(p, "parse", FirstStep(Command(argv[p]))) /\ UNCHANGED code
    /\ UNCHANGED rest

\* Without an SCM a bare invocation is always interactive.
NoDispatcher(p) ==
    /\ ~windows
    /\ At(p, "dispatch", "privilege")
    /\ UNCHANGED <<code, rest>>

\* Started from a shell, which error 1063 tells.
NotAService(p) ==
    /\ windows /\ ~(by_scm /\ p = 1)
    /\ At(p, "dispatch", "privilege")
    /\ UNCHANGED <<code, rest>>

\* The dispatcher has returned; what became of the service is the SCM's to tell.
RanAsService(p) ==
    /\ by_scm /\ p = 1
    /\ Exit(p, "dispatch", OK)
    /\ UNCHANGED rest

DispatcherFails(p) ==
    /\ windows
    /\ Exit(p, "dispatch", FAILURE)
    /\ UNCHANGED rest

PrivilegeInverted(p) ==
    /\ IF ~elevated[p]
       THEN At(p, "privilege", IF Command(argv[p]) = "run" THEN "interactive" ELSE "manage")
       ELSE At(p, "privilege", "relaunch")
    /\ UNCHANGED <<code, rest>>

\* require_privilege
CheckPrivilege(p) ==
    /\ IF elevated[p]
       THEN At(p, "privilege", IF Command(argv[p]) = "run" THEN "interactive" ELSE "manage")
       ELSE At(p, "privilege", "relaunch")
    /\ UNCHANGED <<code, rest>>

PrivilegeUnknown(p) ==
    /\ windows
    /\ Exit(p, "privilege", FAILURE)
    /\ UNCHANGED rest

\* The arguments go into one string, from which the new process reads its own.
Handover ==
    [doubled \in BOOLEAN |->
        [args \in Vectors \cup {[i \in DOMAIN v |-> Lossy(v[i])] : v \in Vectors} |->
            ParseCommandLine(QuoteCommandLine(args), doubled)]]

NoHandleIsRefusal(p, handle, doubled) ==
    /\ windows /\ p + 1 \in Procs
    /\ pc[p] = "relaunch" /\ pc[p + 1] = "absent"
    /\ pc' = [pc EXCEPT ![p] = IF handle THEN "wait" ELSE "gone", ![p + 1] = "parse"]
    /\ argv' = [argv EXCEPT ![p + 1] = Handover[doubled][argv[p]]]
    /\ elevated' = [elevated EXCEPT ![p + 1] = runas_elevates \/ elevated[p]]
    /\ code' = IF handle THEN code ELSE [code EXCEPT ![p] = PRIVILEGE]
    /\ UNCHANGED <<done, unchecked, world>>

\* ShellExecuteExW has started process p + 1; handle tells whether p can wait for it.
Relaunch(p, handle, doubled) ==
    /\ windows /\ p + 1 \in Procs
    /\ pc[p] = "relaunch" /\ pc[p + 1] = "absent"
    /\ pc' = [pc EXCEPT ![p] = IF handle THEN "wait" ELSE "gone", ![p + 1] = "parse"]
    /\ argv' = [argv EXCEPT ![p + 1] = Handover[doubled][argv[p]]]
    /\ elevated' = [elevated EXCEPT ![p + 1] = runas_elevates \/ elevated[p]]
    /\ code' = IF handle THEN code ELSE [code EXCEPT ![p] = FAILURE]
    /\ UNCHANGED <<done, unchecked, world>>

RefusalIgnored(p) ==
    /\ windows
    /\ At(p, "relaunch", "wait")
    /\ UNCHANGED <<code, rest>>

\* It has started nothing: declined, blocked by policy, or an error.
RelaunchRefused(p) ==
    /\ windows
    /\ \E c \in {PRIVILEGE, FAILURE} : Exit(p, "relaunch", c)
    /\ UNCHANGED rest

\* Unix: the user is told to use sudo.
RelaunchUnsupported(p) ==
    /\ ~windows
    /\ Exit(p, "relaunch", PRIVILEGE)
    /\ UNCHANGED rest

\* The wait is over and the elevated run's exit code is passed on.
PassOn(p) ==
    /\ pc[p] = "wait" /\ pc[p + 1] = "gone"
    /\ Exit(p, "wait", ExitByte(code[p + 1]))
    /\ UNCHANGED rest

\* WaitForSingleObject or GetExitCodeProcess fails, and neither result is looked at.
WaitFails(p) ==
    /\ \E c \in {STILL_ACTIVE, 0} : Exit(p, "wait", ExitByte(c))
    /\ unchecked' = TRUE
    /\ UNCHANGED <<argv, elevated, done, world>>

\* service::install or service::uninstall has succeeded.
Managed(p) ==
    /\ windows
    /\ Exit(p, "manage", OK)
    /\ done' = done \cup {Command(argv[p])}
    /\ UNCHANGED <<argv, elevated, unchecked, world>>

\* It has failed, perhaps half-way.
ManageFails(p) ==
    /\ windows
    /\ Exit(p, "manage", FAILURE)
    /\ UNCHANGED rest

\* Elsewhere there is nothing to manage.
Unsupported(p) ==
    /\ ~windows
    /\ Exit(p, "manage", UNSUPPORTED)
    /\ UNCHANGED rest

\* run_interactive: the handler, the configuration and the bootstrap.
AgentStarts(p) ==
    /\ TimeoutBelowPeriod(argv[p])
    /\ At(p, "interactive", "running")
    /\ done' = done \cup {"run"}
    /\ UNCHANGED <<argv, elevated, code, unchecked, world>>

AgentFails(p) ==
    /\ \E c \in {FAILURE} \cup (IF TimeoutBelowPeriod(argv[p]) THEN {ALREADY_RUNNING} ELSE {}) :
          Exit(p, "interactive", c)
    /\ UNCHANGED rest

\* Ctrl-C has stopped the loop.
AgentStops(p) ==
    /\ Exit(p, "running", OK)
    /\ UNCHANGED rest

\* Killed, or a panic on the main thread.
Dies(p) ==
    /\ pc[p] \notin {"absent", "gone"}
    /\ \E c \in CrashCodes : Exit(p, pc[p], c)
    /\ UNCHANGED rest

\* The steps a process takes by itself, its calls succeeding or failing.
Goes(p) ==
    \/ Parse(p) \/ NoDispatcher(p) \/ NotAService(p) \/ RanAsService(p) \/ CheckPrivilege(p)
    \/ (\E handle, doubled \in BOOLEAN : Relaunch(p, handle, doubled))
    \/ RelaunchUnsupported(p) \/ PassOn(p) \/ Managed(p)
    \/ ManageFails(p) \/ Unsupported(p)

Next == \E p \in Procs :
    \/ Goes(p) \/ DispatcherFails(p) \/ PrivilegeUnknown(p) \/ RelaunchRefused(p)
    \/ WaitFails(p) \/ AgentStarts(p) \/ AgentFails(p) \/ AgentStops(p) \/ Dies(p)

Spec == Init /\ [][Next]_vars

(* A process goes on, a call it makes comes back, and the user answers the  *)
(* prompt.  Nothing is assumed of the loop: it ends when it is stopped.     *)
FairSpec == Spec /\ \A p \in Procs : WF_vars(Goes(p))
-----------------------------------------------------------------------------
(* The elevated process is asked for what the caller asked for, however the *)
(* arguments are spelled and whichever way "" is read (winquote.rs:90-94);  *)
(* only half a surrogate pair is not carried over (winquote.rs:41).         *)
SameArguments ==
    \A p \in Procs \ {1} :
        pc[p] # "absent" => argv[p] = [i \in DOMAIN argv[1] |-> Lossy(argv[1][i])]

(* Exit code 0 means that the command was carried out, though it may be by  *)
(* a process two windows away; the one exception is a wait that fails       *)
(* unnoticed (windows.rs:587-588), and the SCM does not read the code.      *)
SuccessMeansDone ==
    pc[1] = "gone" /\ code[1] = OK /\ ~unchecked /\ ~by_scm => Command(argv[1]) \in done

(* Exit codes 2 to 5 promise that no command was carried out, no loop begun *)
(* and nothing left running (README.md:157-158: declining the prompt exits  *)
(* with code 3).  Before exit code 5 the log directory has been secured,    *)
(* which `done` does not count (app.rs:49-56).                              *)
RefusalMeansUntouched ==
    pc[1] = "gone" /\ code[1] \in USAGE .. ALREADY_RUNNING =>
        done = {} /\ \A p \in Procs : pc[p] \in {"absent", "gone"}

(* --install and --uninstall always come back to the caller, and elevate    *)
(* once: an elevated process never relaunches, where runas elevates.        *)
CommandAnswers ==
    runas_elevates /\ Command(argv[1]) # "run" ~> pc[1] = "gone"
=============================================================================
