---------------------------- MODULE LaunchProofs ----------------------------
(***************************************************************************)
(* What arrives at a relaunched process and what the exit codes promise,   *)
(* for any number of relaunches, any argument vectors and any exit codes   *)
(* of processes that died.                                                 *)
(***************************************************************************)
EXTENDS Launch, WinQuoteProofs

Idle == {"absent", "wait", "gone"}

\* One process at a time is at work: those before it wait or are gone, none is after it.
OneAtWork ==
    \A p, q \in Procs :
        /\ p < q /\ pc[q] # "absent" => pc[p] \in {"wait", "gone"}
        /\ p < q /\ pc[p] \notin Idle => pc[q] = "absent"

\* Until the loop or the management has begun there is nothing done, ...
NothingDoneYet == \A p \in Procs : pc[p] \notin Idle \cup {"running"} => done = {}

\* ... and a refusal comes from a process whose successors have refused or died undone.
RefusedUntouched ==
    \A p \in Procs : pc[p] = "gone" /\ code[p] \in USAGE .. ALREADY_RUNNING =>
        done = {} /\ \A q \in Procs : p < q => pc[q] \in {"absent", "gone"}

IInv == TypeOK /\ OneAtWork /\ NothingDoneYet /\ RefusedUntouched

(* Success and plain failure are no refusals.                               *)
LEMMA CodesApart ==
    /\ OK \in Int /\ FAILURE \in Int
    /\ OK \notin USAGE .. ALREADY_RUNNING /\ FAILURE \notin USAGE .. ALREADY_RUNNING
  BY DEF OK, FAILURE, USAGE, ALREADY_RUNNING

(* What one process does keeps its own state in its type.                   *)
LEMMA ExitKeeps ==
    ASSUME IInv, NEW p \in Procs, NEW c \in Int, NEW from \in PCs \ {"absent", "gone"},
           Exit(p, from, c), done' = done, world' = world, unchecked' \in BOOLEAN,
           elevated' = elevated,
           c \in USAGE .. ALREADY_RUNNING =>
               done = {} /\ \A q \in Procs : p < q => pc[q] \in {"absent", "gone"}
    PROVE  IInv'
  <1> USE LaunchAssumption DEF IInv, Exit, At, Procs
  <1>1. TypeOK'
    BY DEF TypeOK, PCs, world
  <1>2. OneAtWork'
    BY DEF OneAtWork, TypeOK, Idle, PCs
  <1>3. NothingDoneYet'
    BY DEF NothingDoneYet, TypeOK, Idle
  <1>4. RefusedUntouched'
    BY DEF RefusedUntouched, TypeOK
  <1>5. QED
    BY <1>1, <1>2, <1>3, <1>4

(* Moving on between two of the steps before anything is done.              *)
LEMMA MoveKeeps ==
    ASSUME IInv, NEW p \in Procs,
           NEW from \in PCs \ {"absent", "gone", "wait", "running"},
           NEW to \in PCs \ {"absent", "gone", "wait", "running"},
           At(p, from, to), UNCHANGED <<code, rest>>
    PROVE  IInv'
  <1> USE LaunchAssumption DEF IInv, At, Procs, rest, world
  <1>1. TypeOK'
    BY DEF TypeOK, PCs
  <1>2. OneAtWork'
    BY DEF OneAtWork, TypeOK, Idle, PCs
  <1>3. NothingDoneYet'
    BY DEF NothingDoneYet, TypeOK, Idle
  <1>4. RefusedUntouched'
    BY DEF RefusedUntouched, TypeOK, OneAtWork, Idle
  <1>5. QED
    BY <1>1, <1>2, <1>3, <1>4

(* Doing something: installing, removing, or starting the loop.             *)
LEMMA DoneKeeps ==
    ASSUME IInv, NEW p \in Procs,
           \/ Managed(p)
           \/ AgentStarts(p)
    PROVE  IInv'
  <1> USE LaunchAssumption DEF IInv, At, Exit, Procs, rest, world, Managed, AgentStarts
  <1>0. /\ pc[p] \in {"manage", "interactive"}
        /\ Command(argv[p]) \in Commands
    BY DEF Command, Commands
  <1>1. TypeOK'
    BY <1>0, CodesApart DEF TypeOK, PCs, Commands
  <1>2. OneAtWork'
    BY <1>0 DEF OneAtWork, TypeOK, Idle, PCs
  <1>3. NothingDoneYet'
    BY <1>0 DEF NothingDoneYet, OneAtWork, TypeOK, Idle
  <1>4. RefusedUntouched'
    <2>. SUFFICES ASSUME NEW r \in Procs, pc'[r] = "gone", code'[r] \in USAGE .. ALREADY_RUNNING
                  PROVE  done' = {} /\ \A q \in Procs : r < q => pc'[q] \in {"absent", "gone"}
      BY DEF RefusedUntouched
    <2>1. r # p /\ pc[r] = "gone" /\ code[r] = code'[r]
      BY <1>0, CodesApart DEF TypeOK
    <2>2. ~(r < p)
      BY <1>0, <2>1 DEF RefusedUntouched
    <2>3. ~(p < r)
      BY <1>0, <2>1 DEF OneAtWork, Idle
    <2>4. QED
      BY <2>1, <2>2, <2>3
  <1>5. QED
    BY <1>1, <1>2, <1>3, <1>4

(* Starting the next process, with or without a handle to wait on.          *)
LEMMA RelaunchKeeps ==
    ASSUME IInv, NEW p \in Procs, NEW handle \in BOOLEAN, NEW doubled \in BOOLEAN,
           Relaunch(p, handle, doubled)
    PROVE  IInv'
  <1> USE LaunchAssumption DEF IInv, Procs, rest, world, Relaunch
  <1>0. pc' = [[pc EXCEPT ![p] = IF handle THEN "wait" ELSE "gone"] EXCEPT ![p + 1] = "parse"]
    OBVIOUS
  <1>1. TypeOK'
    <2>1. pc' \in [Procs -> PCs] /\ code' \in [Procs -> Int]
      BY CodesApart DEF TypeOK, PCs
    <2>2. elevated' \in [Procs -> BOOLEAN]
      <3>1. runas_elevates \/ elevated[p] \in BOOLEAN
        BY DEF TypeOK
      <3>2. QED
        BY <3>1 DEF TypeOK
    <2>3. \A q \in Procs : pc'[q] = "wait" => q + 1 \in Procs /\ pc'[q + 1] # "absent"
      BY DEF TypeOK
    <2>4. \A q \in Procs : pc'[q] = "running" => "run" \in done'
      BY DEF TypeOK
    <2>5. QED
      BY <2>1, <2>2, <2>3, <2>4 DEF TypeOK
  <1>6. \A q \in Procs :
            /\ pc'[q] = IF q = p + 1 THEN "parse"
                        ELSE IF q = p THEN (IF handle THEN "wait" ELSE "gone") ELSE pc[q]
            /\ code'[q] = IF q = p /\ ~handle THEN FAILURE ELSE code[q]
            /\ done' = done
    BY DEF TypeOK
  <1>7. \A q \in Procs : /\ q < p => pc[q] \in {"wait", "gone"}
                         /\ p < q => pc[q] = "absent"
                         /\ p # p + 1
    BY DEF OneAtWork, Idle
  <1>2. OneAtWork'
    <2>. SUFFICES ASSUME NEW r \in Procs, NEW q \in Procs, r < q
                  PROVE  /\ pc'[q] # "absent" => pc'[r] \in {"wait", "gone"}
                         /\ pc'[r] \notin Idle => pc'[q] = "absent"
      BY DEF OneAtWork
    <2>1. CASE q = p + 1
      <3>1. r = p \/ r < p
        BY <2>1
      <3>2. QED
        BY <2>1, <3>1, <1>6, <1>7 DEF Idle
    <2>2. CASE q < p + 1
      <3>1. r < p
        BY <2>2
      <3>2. QED
        BY <2>2, <3>1, <1>6, <1>7 DEF Idle
    <2>3. CASE q > p + 1
      <3>1. p < q /\ q # p /\ q # p + 1
        BY <2>3
      <3>2. pc'[q] = "absent"
        BY <3>1, <1>6, <1>7
      <3>3. QED
        BY <3>2
    <2>4. QED
      BY <2>1, <2>2, <2>3
  <1>3. NothingDoneYet'
    BY DEF NothingDoneYet, TypeOK, Idle
  <1>4. RefusedUntouched'
    <2>. SUFFICES ASSUME NEW r \in Procs, pc'[r] = "gone", code'[r] \in USAGE .. ALREADY_RUNNING
                  PROVE  done' = {} /\ \A q \in Procs : r < q => pc'[q] \in {"absent", "gone"}
      BY DEF RefusedUntouched
    <2>1. r # p /\ r # p + 1 /\ pc[r] = "gone" /\ code[r] = code'[r]
      <3>0. /\ r = p + 1 => pc'[r] = "parse"
            /\ r = p => /\ handle => pc'[r] = "wait"
                        /\ ~handle => code'[r] = FAILURE
        <4>. HIDE DEF IInv, Relaunch
        <4>1. QED
          BY <1>6, <1>7
      <3>1. r # p + 1
        BY <3>0
      <3>2. r # p
        BY <3>0, CodesApart
      <3>3. QED
        BY <3>1, <3>2, <1>6
    <2>2. ~(r < p) /\ ~(p < r)
      BY <2>1, <1>7 DEF RefusedUntouched
    <2>3. QED
      BY <2>1, <2>2
  <1>5. QED
    BY <1>1, <1>2, <1>3, <1>4

LEMMA AgentsCodesAreInts == {OK, FAILURE, USAGE, PRIVILEGE, UNSUPPORTED, ALREADY_RUNNING} \subseteq Int
  BY DEF OK, FAILURE, USAGE, PRIVILEGE, UNSUPPORTED, ALREADY_RUNNING

\* An elevated run's code reaches the caller unchanged, or as plain failure.
LEMMA PassedOn == \A c \in Int : ExitByte(c) \in Int /\ ExitByte(c) \in {c, FAILURE}
  BY CodesApart DEF ExitByte

(* A process at work, before the loop or the management has begun, may give *)
(* any answer; one that waits or has been at work may not refuse.           *)
LEMMA EndKeeps ==
    ASSUME IInv, NEW p \in Procs, NEW c \in Int,
           NEW from \in PCs \ {"absent", "gone"}, Exit(p, from, c),
           from \in {"wait", "running"} => c \notin USAGE .. ALREADY_RUNNING,
           done' = done, world' = world, unchecked' \in BOOLEAN, elevated' = elevated
    PROVE  IInv'
  <1>1. c \in USAGE .. ALREADY_RUNNING =>
            done = {} /\ \A q \in Procs : p < q => pc[q] \in {"absent", "gone"}
    BY DEF IInv, OneAtWork, NothingDoneYet, Idle, Exit, At, PCs
  <1>2. QED
    BY <1>1, ExitKeeps

LEMMA NextKeeps ==
    ASSUME IInv, NEW p \in Procs,
           \/ Goes(p) \/ DispatcherFails(p) \/ PrivilegeUnknown(p) \/ RelaunchRefused(p)
           \/ WaitFails(p) \/ AgentStarts(p) \/ AgentFails(p) \/ AgentStops(p) \/ Dies(p)
    PROVE  IInv'
  <1> USE AgentsCodesAreInts DEF rest
  <1>0. unchecked \in BOOLEAN
    BY DEF IInv, TypeOK
  <1>1. CASE Parse(p)
    <2>1. CASE UsageError(argv[p])
      <3>1. Exit(p, "parse", USAGE)
        BY <1>1, <2>1 DEF Parse
      <3>2. "parse" \in PCs \ {"absent", "gone"} /\ "parse" \notin {"wait", "running"}
        BY DEF PCs
      <3>3. QED
        BY <1>0, <1>1, <3>1, <3>2, EndKeeps DEF Parse
    <2>2. CASE ~UsageError(argv[p])
      <3>1. PICK to \in {"dispatch", "privilege", "manage"} : At(p, "parse", to) /\ UNCHANGED code
        BY <1>1, <2>2 DEF Parse, FirstStep
      <3>2. QED
        BY <1>1, <3>1, MoveKeeps DEF Parse, PCs
    <2>3. QED
      BY <2>1, <2>2
  <1>2. CASE NoDispatcher(p) \/ NotAService(p)
    BY <1>2, MoveKeeps DEF NoDispatcher, NotAService, PCs
  <1>3. CASE RanAsService(p)
    BY <1>0, <1>3, EndKeeps DEF RanAsService, PCs
  <1>4. CASE DispatcherFails(p)
    BY <1>0, <1>4, EndKeeps DEF DispatcherFails, PCs
  <1>5. CASE CheckPrivilege(p)
    <2>1. PICK to \in {"interactive", "manage", "relaunch"} : At(p, "privilege", to)
      BY <1>5 DEF CheckPrivilege
    <2>2. QED
      BY <1>5, <2>1, MoveKeeps DEF CheckPrivilege, PCs
  <1>6. CASE PrivilegeUnknown(p)
    BY <1>0, <1>6, EndKeeps DEF PrivilegeUnknown, PCs
  <1>7. CASE \E handle, doubled \in BOOLEAN : Relaunch(p, handle, doubled)
    BY <1>7, RelaunchKeeps
  <1>8. CASE RelaunchRefused(p)
    BY <1>0, <1>8, EndKeeps DEF RelaunchRefused, PCs
  <1>9. CASE RelaunchUnsupported(p)
    BY <1>0, <1>9, EndKeeps DEF RelaunchUnsupported, PCs
  <1>10. CASE PassOn(p)
    <2> DEFINE c == ExitByte(code[p + 1])
    <2>1. p + 1 \in Procs /\ code[p + 1] \in Int
      BY <1>10 DEF PassOn, IInv, TypeOK
    <2>2. c \in Int /\ c \in {code[p + 1], FAILURE}
      BY <2>1, PassedOn
    <2>3. c \in USAGE .. ALREADY_RUNNING =>
              done = {} /\ \A q \in Procs : p + 1 < q => pc[q] \in {"absent", "gone"}
      BY <1>10, <2>1, <2>2, CodesApart DEF PassOn, IInv, RefusedUntouched
    <2>4. \A q \in Procs : p < q => q = p + 1 \/ p + 1 < q
      BY LaunchAssumption DEF Procs
    <2>5. c \in USAGE .. ALREADY_RUNNING =>
              done = {} /\ \A q \in Procs : p < q => pc[q] \in {"absent", "gone"}
      BY <1>10, <2>3, <2>4 DEF PassOn
    <2>6. Exit(p, "wait", c)
      BY <1>10 DEF PassOn
    <2>7. QED
      BY <1>0, <1>10, <2>2, <2>5, <2>6, ExitKeeps DEF PassOn, PCs
  <1>11. CASE WaitFails(p)
    <2>1. PICK c \in {STILL_ACTIVE, 0} : Exit(p, "wait", ExitByte(c))
      BY <1>11 DEF WaitFails
    <2>2. ExitByte(c) \in Int /\ ExitByte(c) \notin USAGE .. ALREADY_RUNNING
      BY DEF ExitByte, STILL_ACTIVE, FAILURE, USAGE, ALREADY_RUNNING
    <2>3. QED
      BY <1>11, <2>1, <2>2, EndKeeps DEF WaitFails, PCs
  <1>12. CASE Managed(p) \/ AgentStarts(p)
    BY <1>12, DoneKeeps
  <1>13. CASE ManageFails(p)
    BY <1>0, <1>13, EndKeeps DEF ManageFails, PCs
  <1>18. CASE Unsupported(p)
    BY <1>0, <1>18, EndKeeps DEF Unsupported, PCs
  <1>14. CASE AgentFails(p)
    <2>1. PICK c \in {FAILURE, ALREADY_RUNNING} : Exit(p, "interactive", c)
      BY <1>14 DEF AgentFails
    <2>2. QED
      BY <1>0, <1>14, <2>1, EndKeeps DEF AgentFails, PCs
  <1>15. CASE AgentStops(p)
    BY <1>0, <1>15, CodesApart, EndKeeps DEF AgentStops, PCs
  <1>16. CASE Dies(p)
    <2>1. PICK c \in CrashCodes : Exit(p, pc[p], c)
      BY <1>16 DEF Dies
    <2>2. c \in Int /\ c \notin USAGE .. ALREADY_RUNNING
      BY LaunchAssumption DEF OK, USAGE, PRIVILEGE, UNSUPPORTED, ALREADY_RUNNING
    <2>3. pc[p] \in PCs \ {"absent", "gone"}
      BY <1>16 DEF Dies, IInv, TypeOK
    <2>4. QED
      BY <1>0, <1>16, <2>1, <2>2, <2>3, EndKeeps DEF Dies
  <1>19. QED
    BY <1>1, <1>2, <1>3, <1>4, <1>5, <1>6, <1>7, <1>8, <1>9, <1>10, <1>11, <1>12, <1>13,
       <1>14, <1>15, <1>16, <1>18 DEF Goes

(* One process works at a time and the invariant holds along every chain of *)
(* relaunches.                                                              *)
THEOREM LaunchInductive == Spec => []IInv
  <1>1. Init => IInv
    <2>. SUFFICES ASSUME Init PROVE IInv
      OBVIOUS
    <2>1. TypeOK
      <3>1. elevated \in [Procs -> BOOLEAN]
        <4>1. PICK e \in BOOLEAN : elevated = [p \in Procs |-> p = 1 /\ e]
          BY DEF Init
        <4>2. \A p \in Procs : (p = 1 /\ e) \in BOOLEAN
          BY Zenon
        <4>3. QED
          BY <4>1, <4>2
      <3>2. pc \in [Procs -> PCs] /\ code \in [Procs -> Int] /\ done \subseteq Commands
        BY DEF Init, PCs
      <3>3. \A p \in Procs : pc[p] \notin {"wait", "running"}
        BY DEF Init
      <3>4. QED
        BY <3>1, <3>2, <3>3 DEF Init, TypeOK
    <2>2. OneAtWork /\ NothingDoneYet /\ RefusedUntouched
      BY LaunchAssumption DEF Init, OneAtWork, NothingDoneYet, RefusedUntouched, Idle, Procs
    <2>3. QED
      BY <2>1, <2>2 DEF IInv
  <1>2. IInv /\ [Next]_vars => IInv'
    <2>1. IInv /\ Next => IInv'
      BY NextKeeps DEF Next
    <2>2. IInv /\ UNCHANGED vars => IInv'
      BY DEF vars, world, IInv, TypeOK, OneAtWork, NothingDoneYet, RefusedUntouched
    <2>3. QED
      BY <2>1, <2>2
  <1>3. QED
    BY <1>1, <1>2, PTL DEF Spec

(* Every variable but argv keeps its type, and a process that waits has     *)
(* started the one it waits for.                                            *)
THEOREM LaunchTypeCorrect == Spec => []TypeOK
  BY LaunchInductive, PTL DEF IInv

(* Exit codes 2 to 5 mean that nothing was done and nothing runs on.        *)
THEOREM RefusalsTouchNothing == Spec => []RefusalMeansUntouched
  <1>1. IInv => RefusalMeansUntouched
    BY LaunchAssumption DEF IInv, RefusedUntouched, RefusalMeansUntouched, Procs
  <1>2. QED
    BY <1>1, LaunchInductive, PTL
-----------------------------------------------------------------------------
(* The arguments of every process are the caller's.                         *)

\* A String's lossy form is not lossy any more.
LEMMA LossyOnce ==
    ASSUME NEW args \in Seq(Seq(STRING))
    PROVE  args \in Seq(Seq(Chars)) /\ LossyAll(args) \in Seq(Seq(Chars))
           /\ LossyAll(LossyAll(args)) = LossyAll(args)
  <1>1. args \in Seq(Seq(Chars))
    <2>1. STRING \subseteq Chars
      BY DEF Chars
    <2>2. Seq(STRING) \subseteq Seq(Chars)
      BY <2>1, SeqMonotonic
    <2>3. QED
      BY <2>2, SeqMonotonic
  <1>2. LossyAll(args) \in Seq(Seq(Chars)) /\ DOMAIN args = DOMAIN LossyAll(args)
    BY <1>1, <1>1, LossyAllNext, EmptySeq DEF LossyAll
  <1>3. ASSUME NEW i \in DOMAIN args
        PROVE  Lossy(Lossy(args[i])) = Lossy(args[i])
    BY DEF Lossy, Surrogate, Replacement
  <1>4. LossyAll(LossyAll(args)) = LossyAll(args)
    BY <1>3 DEF LossyAll
  <1>5. QED
    BY <1>1, <1>2, <1>4

\* What a process is started with, by one that has the caller's arguments.
LEMMA HandedOver ==
    ASSUME NEW args \in Vectors, NEW doubled \in BOOLEAN, NEW given \in {args, LossyAll(args)}
    PROVE  Handover[doubled][given] = LossyAll(args)
  <1>1. args \in Seq(Seq(STRING))
    BY LaunchAssumption
  <1>2. given \in Vectors \cup {[i \in DOMAIN v |-> Lossy(v[i])] : v \in Vectors}
    BY DEF LossyAll
  <1>3. Handover[doubled][given] = ParseCommandLine(QuoteCommandLine(given), doubled)
    BY <1>2 DEF Handover
  <1>4. given \in Seq(Seq(Chars)) /\ LossyAll(given) = LossyAll(args)
    BY <1>1, LossyOnce
  <1>5. QED
    BY <1>3, <1>4, RoundTrip

\* The caller's own arguments never change, and those after it have them.
ArgumentsKept == DOMAIN argv = Procs /\ argv[1] \in Vectors /\ SameArguments

\* No step but a relaunch brings a process into being or touches an argument.
LEMMA OnlyRelaunchStarts ==
    ASSUME TypeOK, NEW p \in Procs,
           \/ Goes(p) \/ DispatcherFails(p) \/ PrivilegeUnknown(p) \/ RelaunchRefused(p)
           \/ WaitFails(p) \/ AgentStarts(p) \/ AgentFails(p) \/ AgentStops(p) \/ Dies(p),
           ~\E handle, doubled \in BOOLEAN : Relaunch(p, handle, doubled)
    PROVE  argv' = argv /\ \A q \in Procs : pc'[q] # "absent" => pc[q] # "absent"
  <1>1. argv' = argv
    BY DEF Goes, Parse, NoDispatcher, NotAService, RanAsService, CheckPrivilege,
       RelaunchUnsupported, PassOn, Managed, ManageFails, Unsupported, DispatcherFails,
       PrivilegeUnknown, RelaunchRefused, WaitFails, AgentStarts, AgentFails, AgentStops, Dies, rest
  <1>2. \E from, to : from # "absent" /\ At(p, from, to)
    BY DEF Goes, Parse, NoDispatcher, NotAService, RanAsService, CheckPrivilege,
       RelaunchUnsupported, PassOn, Managed, ManageFails, Unsupported, DispatcherFails,
       PrivilegeUnknown, RelaunchRefused, WaitFails, AgentStarts, AgentFails, AgentStops, Dies, Exit
  <1>3. QED
    BY <1>1, <1>2 DEF At, TypeOK

\* A relaunch hands over the arguments the process itself has.
LEMMA RelaunchKeepsArguments ==
    ASSUME TypeOK, ArgumentsKept, NEW p \in Procs, NEW handle \in BOOLEAN,
           NEW doubled \in BOOLEAN, Relaunch(p, handle, doubled)
    PROVE  ArgumentsKept'
  <1>1. p + 1 \in Procs /\ p + 1 # p /\ p + 1 # 1 /\ 1 \in Procs
    BY LaunchAssumption DEF Relaunch, Procs
  <1>2. argv' = [argv EXCEPT ![p + 1] = Handover[doubled][argv[p]]]
    BY DEF Relaunch
  <1>3. \A q \in Procs \ {1} : pc[q] # "absent" => argv[q] = LossyAll(argv[1])
    BY DEF ArgumentsKept, SameArguments, LossyAll
  <1>4. argv[p] \in {argv[1], LossyAll(argv[1])} /\ argv[1] \in Vectors
    BY <1>3 DEF Relaunch, ArgumentsKept
  <1>5. Handover[doubled][argv[p]] = LossyAll(argv[1])
    BY <1>4, HandedOver
  <1>6. DOMAIN argv' = Procs /\ argv'[1] = argv[1] /\ argv'[p + 1] = LossyAll(argv[1])
        /\ \A q \in Procs : q # p + 1 => argv'[q] = argv[q]
    BY <1>1, <1>2, <1>5 DEF ArgumentsKept
  <1>7. \A q \in Procs : q # p + 1 /\ pc'[q] # "absent" => pc[q] # "absent"
    BY <1>1 DEF Relaunch, TypeOK
  <1>8. \A q \in Procs \ {1} : pc'[q] # "absent" => argv'[q] = LossyAll(argv'[1])
    BY <1>3, <1>6, <1>7
  <1>9. QED
    BY <1>4, <1>6, <1>8 DEF ArgumentsKept, SameArguments, LossyAll

(* Every process down a chain of relaunches is asked for what the caller    *)
(* asked for, whatever characters its arguments are made of (winquote.rs).  *)
THEOREM ArgumentsSurvive == Spec => []SameArguments
  <1>1. Init => ArgumentsKept
    <2>. SUFFICES ASSUME Init PROVE ArgumentsKept
      OBVIOUS
    <2>1. PICK args \in Vectors : argv = [p \in Procs |-> IF p = 1 THEN args ELSE <<>>]
      BY DEF Init
    <2>2. 1 \in Procs
      BY LaunchAssumption DEF Procs
    <2>3. DOMAIN argv = Procs /\ argv[1] \in Vectors
      BY <2>1, <2>2
    <2>4. \A p \in Procs \ {1} : pc[p] = "absent"
      BY DEF Init
    <2>5. QED
      BY <2>3, <2>4 DEF ArgumentsKept, SameArguments
  <1>2. IInv /\ ArgumentsKept /\ [Next]_vars => ArgumentsKept'
    <2>. SUFFICES ASSUME IInv, ArgumentsKept, [Next]_vars PROVE ArgumentsKept'
      OBVIOUS
    <2>1. TypeOK
      BY DEF IInv
    <2>2. CASE UNCHANGED vars
      BY <2>2 DEF vars, ArgumentsKept, SameArguments
    <2>3. ASSUME NEW p \in Procs, NEW handle \in BOOLEAN, NEW doubled \in BOOLEAN,
                 Relaunch(p, handle, doubled)
          PROVE  ArgumentsKept'
      BY <2>1, <2>3, RelaunchKeepsArguments
    <2>4. ASSUME NEW p \in Procs,
                 argv' = argv /\ \A q \in Procs : pc'[q] # "absent" => pc[q] # "absent"
          PROVE  ArgumentsKept'
      BY <2>4 DEF ArgumentsKept, SameArguments
    <2>5. CASE Next
      BY <2>1, <2>3, <2>4, <2>5, OnlyRelaunchStarts DEF Next
    <2>6. QED
      BY <2>2, <2>5
  <1>3. ArgumentsKept => SameArguments
    BY DEF ArgumentsKept
  <1>4. QED
    BY <1>1, <1>2, <1>3, LaunchInductive, PTL DEF Spec
-----------------------------------------------------------------------------
(* Exit code 0.                                                             *)

\* Nothing but half a surrogate pair changes on the way, hence no flag does.
LEMMA FlagsSurvive ==
    ASSUME NEW x \in Seq(STRING), NEW s, s \notin {Surrogate, Replacement}
    PROVE  Lossy(x) = Flag(s) <=> x = Flag(s)
  <1> DEFINE C == STRING \cup {s, Replacement}
  <1>1. x \in Seq(C) /\ Len(x) \in Nat /\ DOMAIN x = 1 .. Len(x)
    BY LenProperties, SeqMonotonic
  <1>2. \A i \in 1 .. Len(x) : x[i] \in C
    BY <1>1, ElementOfSeq
  <1>3. Lossy(x) = [i \in 1 .. Len(x) |-> IF x[i] = Surrogate THEN Replacement ELSE x[i]]
    BY <1>1 DEF Lossy
  <1> HIDE DEF C
  <1>4. Lossy(x) \in Seq(C) /\ Len(Lossy(x)) = Len(x)
    <2>1. Replacement \in C
      BY DEF C
    <2>2. QED
      BY <1>1, <1>2, <1>3, <2>1
  <1>5. Flag(s) \in Seq(C) /\ Len(Flag(s)) = 1 /\ Flag(s)[1] = s
    <2>1. s \in C
      BY DEF C
    <2>2. QED
      BY <2>1 DEF Flag
  <1>6. ASSUME NEW y \in Seq(C)
        PROVE  y = Flag(s) <=> Len(y) = 1 /\ y[1] = s
    <2>1. ASSUME Len(y) = 1, y[1] = s
          PROVE  y = Flag(s)
      <3>1. Len(y) = Len(Flag(s)) /\ \A i \in 1 .. Len(y) : y[i] = Flag(s)[i]
        BY <1>5, <2>1
      <3>2. QED
        BY <1>5, <3>1, SeqEqual
    <2>2. QED
      BY <1>5, <2>1
  <1>7. ASSUME Len(x) = 1
        PROVE  Lossy(x)[1] = s <=> x[1] = s
    <2>1. Lossy(x)[1] = IF x[1] = Surrogate THEN Replacement ELSE x[1]
      BY <1>3, <1>7
    <2>2. QED
      BY <2>1
  <1>8. QED
    BY <1>1, <1>4, <1>6, <1>7

LEMMA SameCommand ==
    ASSUME NEW v \in Seq(Seq(STRING))
    PROVE  Command([i \in DOMAIN v |-> Lossy(v[i])]) = Command(v)
  <1> DEFINE w == [i \in DOMAIN v |-> Lossy(v[i])]
  <1>1. ASSUME NEW s, s \notin {Surrogate, Replacement}
        PROVE  Given(w, Flag(s)) <=> Given(v, Flag(s))
    <2>1. \A i \in DOMAIN v : v[i] \in Seq(STRING)
      OBVIOUS
    <2>2. \A i \in DOMAIN v : w[i] = Flag(s) <=> v[i] = Flag(s)
      BY <1>1, <2>1, FlagsSurvive
    <2>3. DOMAIN w = DOMAIN v
      OBVIOUS
    <2>4. QED
      BY <2>2, <2>3 DEF Given
  <1>2. {"--install", "--uninstall"} \cap {Surrogate, Replacement} = {}
    BY DEF Surrogate, Replacement
  <1>3. /\ Given(w, Install) <=> Given(v, Install)
        /\ Given(w, Uninstall) <=> Given(v, Uninstall)
    BY <1>1, <1>2 DEF Install, Uninstall
  <1>4. QED
    BY <1>3 DEF Command

\* The loop is entered for its own command, and success follows what was done.
SuccessIsTrue ==
    /\ DOMAIN argv = Procs /\ argv[1] \in Seq(Seq(STRING))
    /\ \A p \in Procs : pc[p] \in {"interactive", "running"} => Command(argv[p]) = "run"
    /\ \A p \in Procs : pc[p] = "gone" /\ code[p] = OK /\ ~unchecked /\ ~(by_scm /\ p = 1)
            => Command(argv[1]) \in done

LEMMA ExitIsTrue ==
    ASSUME TypeOK, SuccessIsTrue, NEW p \in Procs, NEW c \in Int,
           pc[p] # "absent", Exit(p, pc[p], c), argv' = argv, done \subseteq done', by_scm' = by_scm,
           unchecked => unchecked',
           c = OK /\ ~unchecked' /\ ~(by_scm /\ p = 1) => Command(argv[1]) \in done'
    PROVE  SuccessIsTrue'
  <1>1. \A q \in Procs : /\ pc'[q] = IF q = p THEN "gone" ELSE pc[q]
                         /\ code'[q] = IF q = p THEN c ELSE code[q]
    BY DEF TypeOK, Exit, At
  <1>2. QED
    BY <1>1 DEF SuccessIsTrue

LEMMA MoveIsTrue ==
    ASSUME TypeOK, SuccessIsTrue, NEW p \in Procs, NEW to \in PCs \ {"gone"},
           At(p, pc[p], to), argv' = argv, code' = code, done \subseteq done', by_scm' = by_scm,
           unchecked' = unchecked, to \in {"interactive", "running"} => Command(argv[p]) = "run"
    PROVE  SuccessIsTrue'
  <1>1. \A q \in Procs : pc'[q] = IF q = p THEN to ELSE pc[q]
    BY DEF TypeOK, At
  <1>2. QED
    BY <1>1 DEF SuccessIsTrue

LEMMA RelaunchIsTrue ==
    ASSUME TypeOK, SuccessIsTrue, NEW p \in Procs, NEW handle \in BOOLEAN, NEW doubled \in BOOLEAN,
           Relaunch(p, handle, doubled)
    PROVE  SuccessIsTrue'
  <1> USE DEF Relaunch, world
  <1>1. p + 1 \in Procs /\ p + 1 # p /\ p + 1 # 1
    BY LaunchAssumption DEF Procs
  <1>2. pc' = [[pc EXCEPT ![p] = IF handle THEN "wait" ELSE "gone"] EXCEPT ![p + 1] = "parse"]
    OBVIOUS
  <1>3. \A q \in Procs :
            /\ pc'[q] = IF q = p + 1 THEN "parse"
                        ELSE IF q = p THEN (IF handle THEN "wait" ELSE "gone") ELSE pc[q]
            /\ code'[q] = IF q = p /\ ~handle THEN FAILURE ELSE code[q]
    BY <1>1, <1>2 DEF TypeOK
  <1>4. DOMAIN argv' = Procs /\ \A q \in Procs : q # p + 1 => argv'[q] = argv[q]
    BY DEF SuccessIsTrue
  <1>5. done' = done /\ unchecked' = unchecked /\ by_scm' = by_scm
    OBVIOUS
  <1>6. FAILURE # OK /\ 1 \in Procs
    BY LaunchAssumption DEF FAILURE, OK, Procs
  <1>7. QED
    <2> HIDE DEF Relaunch, world
    <2>1. \A q \in Procs : pc'[q] \in {"interactive", "running"} => Command(argv'[q]) = "run"
      BY <1>3, <1>4 DEF SuccessIsTrue
    <2>2. ASSUME NEW q \in Procs, pc'[q] = "gone", code'[q] = OK, ~unchecked', ~(by_scm' /\ q = 1)
          PROVE  Command(argv'[1]) \in done'
      <3>1. pc[q] = "gone" /\ code[q] = OK
        BY <1>3, <1>6, <2>2
      <3>2. argv'[1] = argv[1]
        BY <1>1, <1>4, <1>6
      <3>3. QED
        BY <1>5, <2>2, <3>1, <3>2 DEF SuccessIsTrue
    <2>3. argv'[1] \in Seq(Seq(STRING))
      BY <1>1, <1>4, <1>6 DEF SuccessIsTrue
    <2>4. QED
      BY <1>4, <2>1, <2>2, <2>3 DEF SuccessIsTrue

\* Every process has been asked for the command the caller asked for.
LEMMA OneCommand ==
    ASSUME SuccessIsTrue, SameArguments, NEW p \in Procs, pc[p] # "absent"
    PROVE  Command(argv[p]) = Command(argv[1])
  BY SameCommand DEF SuccessIsTrue, SameArguments

LEMMA StepIsTrue ==
    ASSUME TypeOK, SuccessIsTrue, SameArguments, NEW p \in Procs,
           \/ Goes(p) \/ DispatcherFails(p) \/ PrivilegeUnknown(p) \/ RelaunchRefused(p)
           \/ WaitFails(p) \/ AgentStarts(p) \/ AgentFails(p) \/ AgentStops(p) \/ Dies(p)
    PROVE  SuccessIsTrue'
  <1> USE DEF rest, world
  <1>1. pc[p] # "absent" => Command(argv[p]) = Command(argv[1])
    BY OneCommand
  <1>2. ASSUME NEW from, NEW c \in Int, from # "absent", Exit(p, from, c), UNCHANGED rest, c # OK
        PROVE  SuccessIsTrue'
    BY <1>2, ExitIsTrue DEF Exit, At
  <1>3. ASSUME NEW from, NEW to \in PCs \ {"gone", "interactive", "running"},
               At(p, from, to), code' = code, UNCHANGED rest
        PROVE  SuccessIsTrue'
    BY <1>3, MoveIsTrue DEF At
  <1>4. /\ {FAILURE, USAGE, PRIVILEGE, UNSUPPORTED, ALREADY_RUNNING} \subseteq Int \ {OK}
        /\ OK \in Int
    BY DEF OK, FAILURE, USAGE, PRIVILEGE, UNSUPPORTED, ALREADY_RUNNING
  <1>5. CASE Parse(p)
    <2>1. CASE UsageError(argv[p])
      BY <1>2, <1>4, <1>5, <2>1 DEF Parse
    <2>2. CASE ~UsageError(argv[p])
      <3>1. FirstStep(Command(argv[p])) \in {"dispatch", "privilege", "manage"}
        BY DEF FirstStep, Command
      <3>2. QED
        BY <1>3, <1>5, <2>2, <3>1 DEF Parse, PCs
    <2>3. QED
      BY <2>1, <2>2
  <1>6. CASE NoDispatcher(p) \/ NotAService(p)
    BY <1>3, <1>6 DEF NoDispatcher, NotAService, PCs
  <1>7. CASE RanAsService(p)
    BY <1>4, <1>7, ExitIsTrue DEF RanAsService, Exit, At
  <1>8. CASE DispatcherFails(p) \/ PrivilegeUnknown(p) \/ RelaunchRefused(p)
             \/ RelaunchUnsupported(p) \/ ManageFails(p) \/ Unsupported(p)
    BY <1>2, <1>4, <1>8 DEF DispatcherFails, PrivilegeUnknown, RelaunchRefused, RelaunchUnsupported,
       ManageFails, Unsupported
  <1>9. CASE CheckPrivilege(p)
    <2>1. PICK to \in {"interactive", "manage", "relaunch"} :
              At(p, "privilege", to) /\ (to = "interactive" => Command(argv[p]) = "run")
      BY <1>9 DEF CheckPrivilege
    <2>2. QED
      BY <1>9, <2>1, MoveIsTrue DEF CheckPrivilege, PCs, At
  <1>10. CASE \E handle, doubled \in BOOLEAN : Relaunch(p, handle, doubled)
    BY <1>10, RelaunchIsTrue
  <1>11. CASE PassOn(p)
    <2> DEFINE c == ExitByte(code[p + 1])
    <2>1. p + 1 \in Procs /\ p + 1 # 1 /\ pc[p + 1] = "gone" /\ code[p + 1] \in Int
      BY <1>11, LaunchAssumption DEF PassOn, TypeOK, Procs
    <2>2. c \in Int /\ (c = OK => code[p + 1] = OK)
      BY <2>1, <1>4, PassedOn
    <2>3. c = OK /\ ~unchecked => Command(argv[1]) \in done
      BY <2>1, <2>2 DEF SuccessIsTrue
    <2>4. Exit(p, "wait", c) /\ UNCHANGED rest
      BY <1>11 DEF PassOn
    <2>5. QED
      <3> HIDE DEF c
      <3>1. QED
        BY <2>2, <2>3, <2>4, ExitIsTrue DEF Exit, At
  <1>12. CASE WaitFails(p)
    <2>1. PICK c \in {STILL_ACTIVE, 0} : Exit(p, "wait", ExitByte(c))
      BY <1>12 DEF WaitFails
    <2>2. c \in Int /\ ExitByte(c) \in Int
      BY PassedOn DEF STILL_ACTIVE
    <2>3. QED
      BY <1>12, <2>1, <2>2, ExitIsTrue DEF WaitFails, Exit, At
  <1>13. CASE Managed(p)
    <2>1. pc[p] = "manage" /\ Exit(p, "manage", OK)
      BY <1>13 DEF Managed, Exit, At
    <2>2. Command(argv[1]) \in done' /\ done \subseteq done'
      BY <1>1, <1>13, <2>1 DEF Managed
    <2>3. QED
      BY <1>4, <1>13, <2>1, <2>2, ExitIsTrue DEF Managed
  <1>14. CASE AgentStarts(p)
    <2>1. pc[p] = "interactive" /\ At(p, "interactive", "running")
      BY <1>14 DEF AgentStarts, At
    <2>2. Command(argv[p]) = "run"
      BY <2>1 DEF SuccessIsTrue
    <2>3. QED
      BY <1>14, <2>1, <2>2, MoveIsTrue DEF AgentStarts, PCs
  <1>15. CASE AgentFails(p)
    <2>1. PICK c \in {FAILURE, ALREADY_RUNNING} : Exit(p, "interactive", c)
      BY <1>15 DEF AgentFails
    <2>2. QED
      BY <1>2, <1>4, <1>15, <2>1 DEF AgentFails
  <1>16. CASE AgentStops(p)
    <2>1. pc[p] = "running" /\ Exit(p, "running", OK)
      BY <1>16 DEF AgentStops, Exit, At
    <2>2. Command(argv[1]) \in done
      BY <1>1, <2>1 DEF SuccessIsTrue, TypeOK
    <2>3. QED
      BY <1>4, <1>16, <2>1, <2>2, ExitIsTrue DEF AgentStops
  <1>17. CASE Dies(p)
    <2>1. PICK c \in CrashCodes : Exit(p, pc[p], c)
      BY <1>17 DEF Dies
    <2>2. c \in Int /\ c # OK
      BY LaunchAssumption
    <2>3. QED
      BY <1>2, <1>17, <2>1, <2>2 DEF Dies
  <1>18. QED
    BY <1>5, <1>6, <1>7, <1>8, <1>9, <1>10, <1>11, <1>12, <1>13, <1>14, <1>15, <1>16, <1>17 DEF Goes

(* Exit code 0 means that the command was carried out, along any chain of   *)
(* relaunches and whoever died on the way.                                  *)
THEOREM SuccessNeedsTheDeed == Spec => []SuccessMeansDone
  <1>1. Init => SuccessIsTrue
    <2>. SUFFICES ASSUME Init PROVE SuccessIsTrue
      OBVIOUS
    <2>1. PICK args \in Vectors : argv = [p \in Procs |-> IF p = 1 THEN args ELSE <<>>]
      BY DEF Init
    <2>2. 1 \in Procs /\ args \in Seq(Seq(STRING))
      BY LaunchAssumption DEF Procs
    <2>3. DOMAIN argv = Procs /\ argv[1] = args
      BY <2>1, <2>2
    <2>4. \A p \in Procs : pc[p] \in {"parse", "absent"}
      BY DEF Init
    <2>5. QED
      BY <2>2, <2>3, <2>4 DEF SuccessIsTrue
  <1>2. IInv /\ SameArguments /\ SuccessIsTrue /\ [Next]_vars => SuccessIsTrue'
    <2>1. IInv /\ SameArguments /\ SuccessIsTrue /\ Next => SuccessIsTrue'
      BY StepIsTrue DEF Next, IInv
    <2>2. SuccessIsTrue /\ UNCHANGED vars => SuccessIsTrue'
      BY DEF vars, world, SuccessIsTrue
    <2>3. QED
      BY <2>1, <2>2
  <1>3. SuccessIsTrue => SuccessMeansDone
    BY LaunchAssumption DEF SuccessIsTrue, SuccessMeansDone, Procs
  <1>4. QED
    BY <1>1, <1>2, <1>3, LaunchInductive, ArgumentsSurvive, PTL DEF Spec
-----------------------------------------------------------------------------
(* Why --install and --uninstall come back.                                 *)

\* How far a process has got.
Stage ==
    [absent |-> 0, parse |-> 1, dispatch |-> 2, privilege |-> 3, relaunch |-> 4, manage |-> 4,
     interactive |-> 4, wait |-> 5, running |-> 5, gone |-> 6]

\* A process never goes back to what it has done.
OnlyForward == [][\A p \in Procs : pc'[p] # pc[p] => Stage[pc[p]] < Stage[pc'[p]]]_vars

LEMMA StageGrows ==
    ASSUME TypeOK, NEW p \in Procs,
           \/ Goes(p) \/ DispatcherFails(p) \/ PrivilegeUnknown(p) \/ RelaunchRefused(p)
           \/ WaitFails(p) \/ AgentStarts(p) \/ AgentFails(p) \/ AgentStops(p) \/ Dies(p)
    PROVE  \A q \in Procs : pc'[q] # pc[q] => Stage[pc[q]] < Stage[pc'[q]]
  <1> USE DEF TypeOK, PCs, Stage, Exit, At
  <1>1. CASE Parse(p)
    BY <1>1 DEF Parse, FirstStep
  <1>2. CASE NoDispatcher(p) \/ NotAService(p) \/ CheckPrivilege(p)
    BY <1>2 DEF NoDispatcher, NotAService, CheckPrivilege
  <1>3. CASE RanAsService(p) \/ RelaunchUnsupported(p) \/ Managed(p) \/ ManageFails(p) \/ Unsupported(p)
    BY <1>3 DEF RanAsService, RelaunchUnsupported, Managed, ManageFails, Unsupported
  <1>4. ASSUME NEW handle \in BOOLEAN, NEW doubled \in BOOLEAN, Relaunch(p, handle, doubled)
        PROVE  \A q \in Procs : pc'[q] # pc[q] => Stage[pc[q]] < Stage[pc'[q]]
    <2>1. p + 1 # p /\ p + 1 \in Procs
      BY <1>4, LaunchAssumption DEF Relaunch, Procs
    <2>2. /\ pc[p] = "relaunch" /\ pc[p + 1] = "absent"
          /\ pc'[p] \in {"wait", "gone"} /\ pc'[p + 1] = "parse"
          /\ \A q \in Procs \ {p, p + 1} : pc'[q] = pc[q]
      BY <1>4, <2>1 DEF Relaunch
    <2>3. QED
      BY <2>2
  <1>5. CASE PassOn(p) \/ WaitFails(p)
    BY <1>5 DEF PassOn, WaitFails
  <1>6. CASE DispatcherFails(p) \/ PrivilegeUnknown(p) \/ RelaunchRefused(p)
    BY <1>6 DEF DispatcherFails, PrivilegeUnknown, RelaunchRefused
  <1>7. CASE AgentStarts(p) \/ AgentFails(p) \/ AgentStops(p)
    BY <1>7 DEF AgentStarts, AgentFails, AgentStops
  <1>8. CASE Dies(p)
    <2>1. pc[p] \in PCs \ {"absent", "gone"} /\ pc' = [pc EXCEPT ![p] = "gone"]
      BY <1>8 DEF Dies
    <2>2. QED
      BY <2>1
  <1>9. QED
    BY <1>1, <1>2, <1>3, <1>4, <1>5, <1>6, <1>7, <1>8 DEF Goes

(* No process goes round in a circle: each makes at most five steps before  *)
(* it is gone, so a command that does not come back waits for its loop, or  *)
(* for a process it has started.                                            *)
THEOREM ProcessesOnlyAdvance == Spec => OnlyForward
  <1> DEFINE Forward == \A p \in Procs : pc'[p] # pc[p] => Stage[pc[p]] < Stage[pc'[p]]
  <1>1. IInv /\ Next => Forward
    BY StageGrows DEF IInv, Next
  <1> HIDE DEF Forward
  <1>2. IInv /\ [Next]_vars => [Forward]_vars
    BY <1>1
  <1>3. Spec => [][Forward]_vars
    BY <1>2, LaunchInductive, PTL DEF Spec
  <1>4. QED
    BY <1>3 DEF OnlyForward, Forward

\* Where runas elevates there are two processes at most, however many there may be.
ElevatesOnce == runas_elevates => \A p \in Procs : p > 2 => pc[p] = "absent"

\* Those that a process starts are elevated, and an elevated one starts none.
ElevatedStartsNone ==
    /\ ElevatesOnce
    /\ runas_elevates => \A p \in Procs : p > 1 /\ pc[p] # "absent" => elevated[p]
    /\ \A p \in Procs : elevated[p] => pc[p] \notin {"relaunch", "wait"}

LEMMA ElevationStep ==
    ASSUME TypeOK, ElevatedStartsNone, NEW p \in Procs,
           \/ Goes(p) \/ DispatcherFails(p) \/ PrivilegeUnknown(p) \/ RelaunchRefused(p)
           \/ WaitFails(p) \/ AgentStarts(p) \/ AgentFails(p) \/ AgentStops(p) \/ Dies(p)
    PROVE  ElevatedStartsNone'
  <1>1. CASE \E handle, doubled \in BOOLEAN : Relaunch(p, handle, doubled)
    <2>1. PICK handle \in BOOLEAN, doubled \in BOOLEAN : Relaunch(p, handle, doubled)
      BY <1>1
    <2>2. p \in Nat /\ p >= 1 /\ p + 1 \in Procs /\ p + 1 # p /\ Procs \subseteq Nat
      BY <2>1, LaunchAssumption DEF Relaunch, Procs
    <2>3. /\ pc[p] = "relaunch"
          /\ pc'[p] \in {"wait", "gone"} /\ pc'[p + 1] = "parse"
          /\ \A q \in Procs \ {p, p + 1} : pc'[q] = pc[q]
          /\ elevated'[p + 1] = (runas_elevates \/ elevated[p])
          /\ \A q \in Procs \ {p + 1} : elevated'[q] = elevated[q]
          /\ runas_elevates' = runas_elevates
      BY <2>1, <2>2 DEF Relaunch, TypeOK, world
    <2>4. ~elevated[p]
      BY <2>3 DEF ElevatedStartsNone
    <2>5. runas_elevates => p = 1
      BY <2>2, <2>3, <2>4 DEF ElevatedStartsNone
    <2>6. ElevatesOnce'
      BY <2>2, <2>3, <2>5 DEF ElevatesOnce, ElevatedStartsNone
    <2>7. (runas_elevates => \A q \in Procs : q > 1 /\ pc[q] # "absent" => elevated[q])'
      BY <2>2, <2>3, <2>5 DEF ElevatedStartsNone
    <2>8. (\A q \in Procs : elevated[q] => pc[q] \notin {"relaunch", "wait"})'
      BY <2>2, <2>3, <2>4 DEF ElevatedStartsNone
    <2>9. QED
      BY <2>6, <2>7, <2>8 DEF ElevatedStartsNone
  <1>2. CASE ~\E handle, doubled \in BOOLEAN : Relaunch(p, handle, doubled)
    <2>1. \A q \in Procs : pc'[q] # "absent" => pc[q] # "absent"
      BY <1>2, OnlyRelaunchStarts
    <2>2. UNCHANGED <<elevated, runas_elevates>>
      BY <1>2 DEF Goes, Parse, NoDispatcher, NotAService, RanAsService, CheckPrivilege,
         RelaunchUnsupported, PassOn, Managed, ManageFails, Unsupported, DispatcherFails,
         PrivilegeUnknown, RelaunchRefused, WaitFails, AgentStarts, AgentFails, AgentStops, Dies, rest, world
    <2>3. ElevatesOnce'
      BY <2>1, <2>2 DEF ElevatedStartsNone, ElevatesOnce
    <2>4. (runas_elevates => \A q \in Procs : q > 1 /\ pc[q] # "absent" => elevated[q])'
      BY <2>1, <2>2 DEF ElevatedStartsNone
    <2>5. PICK from, to : /\ At(p, from, to)
                          /\ to \in {"relaunch", "wait"} => ~elevated[p]
      BY <1>2 DEF Goes, Parse, FirstStep, NoDispatcher, NotAService, RanAsService, CheckPrivilege,
         RelaunchUnsupported, PassOn, Managed, ManageFails, Unsupported, DispatcherFails,
         PrivilegeUnknown, RelaunchRefused, WaitFails, AgentStarts, AgentFails, AgentStops, Dies, Exit
    <2>6. (\A q \in Procs : elevated[q] => pc[q] \notin {"relaunch", "wait"})'
      BY <2>2, <2>5 DEF At, TypeOK, ElevatedStartsNone
    <2>7. QED
      BY <2>3, <2>4, <2>6 DEF ElevatedStartsNone
  <1>3. QED
    BY <1>1, <1>2

(* An elevated process never relaunches, so where the runas verb elevates   *)
(* the user is asked once and the chain ends with the second process        *)
(* (app.rs:118-127); nothing is claimed where it does not.                  *)
THEOREM ChainEndsElevated == Spec => []ElevatesOnce
  <1>1. Init => ElevatedStartsNone
    <2>. SUFFICES ASSUME Init PROVE ElevatedStartsNone
      OBVIOUS
    <2>1. \A p \in Procs : pc[p] = IF p = 1 THEN "parse" ELSE "absent"
      BY DEF Init
    <2>2. \A p \in Procs : p > 1 => p # 1
      BY LaunchAssumption DEF Procs
    <2>3. \A p \in Procs : p > 2 => p # 1
      BY LaunchAssumption DEF Procs
    <2>4. QED
      BY <2>1, <2>2, <2>3 DEF ElevatedStartsNone, ElevatesOnce
  <1>2. IInv /\ ElevatedStartsNone /\ [Next]_vars => ElevatedStartsNone'
    <2>1. IInv /\ ElevatedStartsNone /\ Next => ElevatedStartsNone'
      BY ElevationStep DEF IInv, Next
    <2>2. ElevatedStartsNone /\ UNCHANGED vars => ElevatedStartsNone'
      BY DEF vars, world, ElevatedStartsNone, ElevatesOnce
    <2>3. QED
      BY <2>1, <2>2
  <1>3. ElevatedStartsNone => ElevatesOnce
    BY DEF ElevatedStartsNone
  <1>4. QED
    BY <1>1, <1>2, <1>3, LaunchInductive, PTL DEF Spec
=============================================================================
