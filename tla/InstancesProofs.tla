-------------------------- MODULE InstancesProofs --------------------------
(***************************************************************************)
(* Mutual exclusion of the agents on one log directory, for any set of     *)
(* agents, with and without inheritance of the lock by a forked child.     *)
(***************************************************************************)
EXTENDS Instances, TLAPS

\* From the lock to its drop the agent holds it, and so does a child it is starting.
HoldersHold ==
    /\ \A a \in Agents :
          pc[a] \in {"logging", "child_log", "loop", "drop_log", "drop_lock"} => holder = a
    /\ \A a \in forked : holder = a

\* The log is open only inside that stretch.
WritersInside == \A a \in writers : pc[a] \in {"child_log", "loop", "drop_log"}

\* What the agent goes by has been checked, on Unix before it is made as well, or
\* is a link that was followed.
Checked ==
    \A a \in Agents :
        pc[a] \in DOMAIN Object /\ (task[a] \in {"apply", "secured"} \/ (~windows /\ task[a] = "create"))
            => disk[Object[pc[a]]] \notin Untrusted \ {"followed"}

\* Only a file's link is followed, and only on Windows.
FollowedWhere ==
    \A f \in Objects : disk[f] = "followed" => windows /\ f # "dir"

\* The directory, once secured by an agent that lives, stays locked, ...
DirLocked ==
    \A a \in Agents :
        pc[a] \notin {"off", "secure_dir"} \/ (pc[a] = "secure_dir" /\ task[a] = "secured")
            => disk["dir"] = "locked"

\* ... and agent.log, or the link it was found to be, nothing but locked or absent.
LogLocked ==
    \A a \in Agents :
        a \in writers \/ (pc[a] = "logging" /\ task[a] = "secured")
            => disk["agent_log"] \in {"absent", "locked", "followed"}

IInv ==
    /\ TypeOK /\ HoldersHold /\ WritersInside
    /\ Checked /\ FollowedWhere /\ DirLocked /\ LogLocked
-----------------------------------------------------------------------------
LEMMA ObjectOfStage ==
    /\ DOMAIN Object = {"secure_dir", "logging", "child_log"}
    /\ Object["secure_dir"] = "dir"
    /\ Object["logging"] = "agent_log"
    /\ Object["child_log"] = "child_log"
    /\ \A s \in DOMAIN Object : Object[s] \in Objects
  BY DEF Object, Objects, Files

\* A link whose missing target the agent makes.
Follows(f) == windows /\ f # "dir" /\ disk[f] = "dangling" /\ disk'[f] = "followed"

\* A call moves its agent on by one, and makes of the object nothing but a locked
\* one, unless it follows a link.
LEMMA SecuresEffect ==
    ASSUME ProtectionTypeOK, NEW a \in Agents, NEW f \in Objects, Secures(a, f)
    PROVE  /\ windows' = windows
           /\ task[a] # "none" /\ task' \in [Agents -> Tasks]
           /\ \A b \in Agents \ {a} : task'[b] = task[b]
           /\ task'[a] \in Tasks \ {"none"}
           /\ disk' \in [Objects -> States]
           /\ \A g \in Objects : disk'[g] # disk[g] =>
                /\ g = f
                /\ \/ Follows(g)
                   \/ /\ disk'[g] = "locked"
                      /\ disk[g] # "absent" => task[a] = "apply" /\ (windows => disk[g] \notin Links)
           /\ task'[a] = "secured" =>
                task[a] = "apply" /\ (disk'[f] = "locked" \/ (disk[f] \in Links /\ disk'[f] = disk[f]))
           /\ task'[a] = "apply" => disk'[f] \notin Untrusted \/ task[a] = "create"
           /\ task'[a] = "apply" /\ windows => disk'[f] \notin Untrusted \ {"followed"}
           /\ task'[a] = "create" => ~windows /\ disk'[f] \notin Untrusted
           /\ task'[a] = "apply" /\ ~windows => task[a] = "create"
  <1> USE DEF ProtectionTypeOK, Calls, Becomes, Tasks, States, Untrusted, Links, Follows
  <1>1. CASE f = "dir" /\ CreateDirectory(a)
    BY <1>1 DEF CreateDirectory, CreateOrFind, Secures
  <1>2. CASE CreateFile(a, f)
    BY <1>2 DEF CreateFile, FollowLink, CreateOrFind, Secures, Files
  <1>3. CASE CheckReparseAndOwner(a, f)
    BY <1>3 DEF CheckReparseAndOwner, Secures
  <1>4. CASE ApplyDacl(a, f)
    BY <1>4 DEF ApplyDacl, Secures
  <1>5. CASE CheckLinkAndOwner(a, f)
    BY <1>5 DEF CheckLinkAndOwner, Secures
  <1>6. CASE CreateWithMode(a, f)
    BY <1>6 DEF CreateWithMode, Secures
  <1>7. CASE SetMode(a, f)
    BY <1>7 DEF SetMode, Secures
  <1>8. QED
    BY <1>1, <1>2, <1>3, <1>4, <1>5, <1>6, <1>7 DEF Secures

\* A change of stage touches no object, and only its agent's task.
LEMMA StageEffect ==
    ASSUME TypeOK, NEW a \in Agents, NEW from, NEW to \in PCs, At(a, from, to)
    PROVE  /\ pc[a] = from /\ pc'[a] = to /\ pc' \in [Agents -> PCs]
           /\ \A b \in Agents \ {a} : pc'[b] = pc[b] /\ task'[b] = task[b]
           /\ task' \in [Agents -> Tasks]
           /\ to \in DOMAIN Object => task'[a] = First
           /\ to \notin DOMAIN Object => task'[a] = "none"
           /\ windows' = windows /\ disk' = disk
  BY DEF TypeOK, ProtectionTypeOK, At, Tasks, First

LEMMA SecureKeeps ==
    ASSUME IInv, NEW a \in Agents, Secure(a)
    PROVE  IInv'
  <1> DEFINE f == Object[pc[a]]
  <1>1. /\ f \in Objects /\ pc[a] \in DOMAIN Object /\ ProtectionTypeOK /\ Secures(a, f)
        /\ UNCHANGED <<pc, holder, forked, writers>>
    BY ObjectOfStage DEF Secure, IInv, TypeOK
  <1>2. /\ windows' = windows
        /\ task[a] # "none" /\ task' \in [Agents -> Tasks]
        /\ \A b \in Agents \ {a} : task'[b] = task[b]
        /\ task'[a] \in Tasks \ {"none"}
        /\ disk' \in [Objects -> States]
        /\ \A g \in Objects : disk'[g] # disk[g] => g = f /\ (disk'[g] = "locked" \/ Follows(g))
        /\ task'[a] = "secured" =>
             task[a] = "apply" /\ (disk'[f] = "locked" \/ (disk[f] \in Links /\ disk'[f] = disk[f]))
        /\ task'[a] = "apply" => disk'[f] \notin Untrusted \/ task[a] = "create"
        /\ task'[a] = "apply" /\ windows => disk'[f] \notin Untrusted \ {"followed"}
        /\ task'[a] = "create" => ~windows /\ disk'[f] \notin Untrusted
        /\ task'[a] = "apply" /\ ~windows => task[a] = "create"
    BY <1>1, SecuresEffect
  <1> HIDE DEF f
  <1>3. TypeOK'
    BY <1>1, <1>2 DEF IInv, TypeOK, ProtectionTypeOK
  <1>4. HoldersHold' /\ WritersInside'
    BY <1>1 DEF IInv, HoldersHold, WritersInside
  <1>5. Checked'
    <2> SUFFICES ASSUME NEW b \in Agents, pc[b] \in DOMAIN Object,
                        task'[b] \in {"apply", "secured"} \/ (~windows /\ task'[b] = "create")
                 PROVE  disk'[Object[pc[b]]] \notin Untrusted \ {"followed"}
      BY <1>1, <1>2 DEF Checked
    <2>1. CASE b = a
      BY <2>1, <1>1, <1>2, ObjectOfStage DEF IInv, Checked, f, Untrusted, Links, Follows
    <2>2. CASE b # a
      BY <2>2, <1>1, <1>2, ObjectOfStage DEF IInv, Checked, Untrusted, Links, Follows
    <2>3. QED
      BY <2>1, <2>2
  <1>6. DirLocked'
    <2>1. "dir" \in Objects
      BY DEF Objects
    <2>2. QED
      BY <2>1, <1>1, <1>2, ObjectOfStage
         DEF IInv, DirLocked, Checked, FollowedWhere, Follows, f, Untrusted, Links
  <1>7. LogLocked'
    <2>1. "agent_log" \in Objects
      BY DEF Objects, Files
    <2>2. QED
      BY <2>1, <1>1, <1>2, ObjectOfStage DEF IInv, LogLocked, Checked, Follows, f, Untrusted, Links
  <1>8. FollowedWhere'
    BY <1>1, <1>2 DEF IInv, FollowedWhere, Follows
  <1>9. QED
    BY <1>3, <1>4, <1>5, <1>6, <1>7, <1>8 DEF IInv

\* Every stage but the securing itself leaves the objects alone.
LEMMA StageKeeps ==
    ASSUME IInv, NEW a \in Agents, NEW from, NEW to \in PCs, At(a, from, to),
           to \notin {"off", "secure_dir"} =>
                from \notin {"off", "secure_dir"} \/ (from = "secure_dir" /\ Secured(a)),
           writers' \ {a} \subseteq writers,
           a \in writers' => a \in writers \/ (from = "logging" /\ Secured(a))
    PROVE  Checked' /\ FollowedWhere' /\ DirLocked' /\ LogLocked'
  <1>1. /\ pc[a] = from /\ pc'[a] = to
        /\ \A b \in Agents \ {a} : pc'[b] = pc[b] /\ task'[b] = task[b]
        /\ to \in DOMAIN Object => task'[a] = First
        /\ to \notin DOMAIN Object => task'[a] = "none"
        /\ windows' = windows /\ disk' = disk
    BY StageEffect DEF IInv
  <1>2. Checked'
    BY <1>1 DEF IInv, Checked, First
  <1>3. DirLocked'
    BY <1>1, ObjectOfStage DEF IInv, DirLocked, First, Secured
  <1>4. LogLocked'
    BY <1>1, ObjectOfStage DEF IInv, LogLocked, First, Secured
  <1>5. FollowedWhere'
    BY <1>1 DEF IInv, FollowedWhere
  <1>6. QED
    BY <1>2, <1>3, <1>4, <1>5

\* What an administrator, a writer or a child does to a file.
LEMMA FileKeeps ==
    ASSUME IInv, UNCHANGED <<pc, holder, forked, writers, windows, task>>,
           NEW f \in Files, NEW s \in {"absent", "loose", "locked"},
           Becomes(f, s), s = "loose" => f = "child_log"
    PROVE  IInv'
  <1> USE DEF IInv, Becomes
  <1>1. /\ disk' \in [Objects -> States]
        /\ \A g \in Objects \ {f} : disk'[g] = disk[g]
        /\ disk'[f] = s /\ s \notin Untrusted
    BY DEF TypeOK, ProtectionTypeOK, Objects, States, Untrusted, Links
  <1>2. f \in {"agent_log", "child_log"} /\ {"dir", "agent_log", "child_log"} = Objects
    BY DEF Files, Objects
  <1>3. TypeOK'
    BY <1>1 DEF TypeOK, ProtectionTypeOK
  <1>4. HoldersHold' /\ WritersInside'
    BY DEF HoldersHold, WritersInside
  <1>5. Checked'
    BY <1>1, ObjectOfStage DEF Checked
  <1>6. DirLocked' /\ LogLocked' /\ FollowedWhere'
    BY <1>1, <1>2 DEF DirLocked, LogLocked, FollowedWhere
  <1>7. QED
    BY <1>3, <1>4, <1>5, <1>6

LEMMA StepKeeps ==
    ASSUME IInv, NEW a \in Agents, Step(a)
    PROVE  IInv'
  <1> DEFINE Lock == TypeOK' /\ HoldersHold' /\ WritersInside'
             Disk == Checked' /\ FollowedWhere' /\ DirLocked' /\ LogLocked'
  <1>0. TypeOK /\ ProtectionTypeOK
    BY DEF IInv, TypeOK
  <1>1. CASE Start(a)
    <2>1. At(a, "off", "secure_dir") /\ "secure_dir" \in PCs
      BY <1>1 DEF Start, PCs
    <2>2. /\ pc[a] = "off" /\ pc'[a] = "secure_dir" /\ pc' \in [Agents -> PCs]
          /\ \A b \in Agents \ {a} : pc'[b] = pc[b] /\ task'[b] = task[b]
          /\ task' \in [Agents -> Tasks]
          /\ "secure_dir" \in DOMAIN Object => task'[a] = First
          /\ "secure_dir" \notin DOMAIN Object => task'[a] = "none"
          /\ windows' = windows /\ disk' = disk
      BY <1>0, <2>1, StageEffect
    <2>3. Lock
      BY <1>0, <1>1, <2>2, ObjectOfStage, InstancesAssumption
         DEF Start, Closed, IInv, TypeOK, ProtectionTypeOK, HoldersHold, WritersInside, First
    <2>4. Disk
      BY <1>1, <2>1, StageKeeps DEF Start
    <2>5. QED
      BY <2>3, <2>4 DEF IInv
  <1>2. CASE DirSecured(a)
    <2>1. At(a, "secure_dir", "lock") /\ "lock" \in PCs
      BY <1>2 DEF DirSecured, PCs
    <2>2. /\ pc[a] = "secure_dir" /\ pc'[a] = "lock" /\ pc' \in [Agents -> PCs]
          /\ \A b \in Agents \ {a} : pc'[b] = pc[b] /\ task'[b] = task[b]
          /\ task' \in [Agents -> Tasks]
          /\ "lock" \in DOMAIN Object => task'[a] = First
          /\ "lock" \notin DOMAIN Object => task'[a] = "none"
          /\ windows' = windows /\ disk' = disk
      BY <1>0, <2>1, StageEffect
    <2>3. Lock
      BY <1>0, <1>2, <2>2, ObjectOfStage, InstancesAssumption
         DEF DirSecured, Closed, IInv, TypeOK, ProtectionTypeOK, HoldersHold, WritersInside, First
    <2>4. Disk
      BY <1>2, <2>1, StageKeeps DEF DirSecured
    <2>5. QED
      BY <2>3, <2>4 DEF IInv
  <1>3. CASE DirNotSecured(a)
    <2>1. At(a, "secure_dir", "off") /\ "off" \in PCs
      BY <1>3 DEF DirNotSecured, PCs
    <2>2. /\ pc[a] = "secure_dir" /\ pc'[a] = "off" /\ pc' \in [Agents -> PCs]
          /\ \A b \in Agents \ {a} : pc'[b] = pc[b] /\ task'[b] = task[b]
          /\ task' \in [Agents -> Tasks]
          /\ "off" \in DOMAIN Object => task'[a] = First
          /\ "off" \notin DOMAIN Object => task'[a] = "none"
          /\ windows' = windows /\ disk' = disk
      BY <1>0, <2>1, StageEffect
    <2>3. Lock
      BY <1>0, <1>3, <2>2, ObjectOfStage, InstancesAssumption
         DEF DirNotSecured, Closed, IInv, TypeOK, ProtectionTypeOK, HoldersHold, WritersInside, First
    <2>4. Disk
      BY <1>3, <2>1, StageKeeps DEF DirNotSecured
    <2>5. QED
      BY <2>3, <2>4 DEF IInv
  <1>4. CASE AcquireLock(a)
    <2>1. At(a, "lock", "logging") /\ "logging" \in PCs
      BY <1>4 DEF AcquireLock, PCs
    <2>2. /\ pc[a] = "lock" /\ pc'[a] = "logging" /\ pc' \in [Agents -> PCs]
          /\ \A b \in Agents \ {a} : pc'[b] = pc[b] /\ task'[b] = task[b]
          /\ task' \in [Agents -> Tasks]
          /\ "logging" \in DOMAIN Object => task'[a] = First
          /\ "logging" \notin DOMAIN Object => task'[a] = "none"
          /\ windows' = windows /\ disk' = disk
      BY <1>0, <2>1, StageEffect
    <2>3. Lock
      BY <1>0, <1>4, <2>2, ObjectOfStage, InstancesAssumption
         DEF AcquireLock, Closed, IInv, TypeOK, ProtectionTypeOK, HoldersHold, WritersInside, First
    <2>4. Disk
      BY <1>4, <2>1, StageKeeps DEF AcquireLock
    <2>5. QED
      BY <2>3, <2>4 DEF IInv
  <1>5. CASE AcquireFails(a)
    <2>1. At(a, "lock", "off") /\ "off" \in PCs
      BY <1>5 DEF AcquireFails, PCs
    <2>2. /\ pc[a] = "lock" /\ pc'[a] = "off" /\ pc' \in [Agents -> PCs]
          /\ \A b \in Agents \ {a} : pc'[b] = pc[b] /\ task'[b] = task[b]
          /\ task' \in [Agents -> Tasks]
          /\ "off" \in DOMAIN Object => task'[a] = First
          /\ "off" \notin DOMAIN Object => task'[a] = "none"
          /\ windows' = windows /\ disk' = disk
      BY <1>0, <2>1, StageEffect
    <2>3. Lock
      BY <1>0, <1>5, <2>2, ObjectOfStage, InstancesAssumption
         DEF AcquireFails, Closed, IInv, TypeOK, ProtectionTypeOK, HoldersHold, WritersInside, First
    <2>4. Disk
      BY <1>5, <2>1, StageKeeps DEF AcquireFails
    <2>5. QED
      BY <2>3, <2>4 DEF IInv
  <1>6. CASE OpenLog(a)
    <2>1. At(a, "logging", "child_log") /\ "child_log" \in PCs
      BY <1>6 DEF OpenLog, PCs
    <2>2. /\ pc[a] = "logging" /\ pc'[a] = "child_log" /\ pc' \in [Agents -> PCs]
          /\ \A b \in Agents \ {a} : pc'[b] = pc[b] /\ task'[b] = task[b]
          /\ task' \in [Agents -> Tasks]
          /\ "child_log" \in DOMAIN Object => task'[a] = First
          /\ "child_log" \notin DOMAIN Object => task'[a] = "none"
          /\ windows' = windows /\ disk' = disk
      BY <1>0, <2>1, StageEffect
    <2>3. Lock
      BY <1>0, <1>6, <2>2, ObjectOfStage, InstancesAssumption
         DEF OpenLog, Closed, IInv, TypeOK, ProtectionTypeOK, HoldersHold, WritersInside, First
    <2>4. Disk
      BY <1>6, <2>1, StageKeeps DEF OpenLog
    <2>5. QED
      BY <2>3, <2>4 DEF IInv
  <1>7. CASE InitLoggingFails(a)
    <2>1. At(a, "logging", "drop_lock") /\ "drop_lock" \in PCs
      BY <1>7 DEF InitLoggingFails, PCs
    <2>2. /\ pc[a] = "logging" /\ pc'[a] = "drop_lock" /\ pc' \in [Agents -> PCs]
          /\ \A b \in Agents \ {a} : pc'[b] = pc[b] /\ task'[b] = task[b]
          /\ task' \in [Agents -> Tasks]
          /\ "drop_lock" \in DOMAIN Object => task'[a] = First
          /\ "drop_lock" \notin DOMAIN Object => task'[a] = "none"
          /\ windows' = windows /\ disk' = disk
      BY <1>0, <2>1, StageEffect
    <2>3. Lock
      BY <1>0, <1>7, <2>2, ObjectOfStage, InstancesAssumption
         DEF InitLoggingFails, Closed, IInv, TypeOK, ProtectionTypeOK, HoldersHold, WritersInside, First
    <2>4. Disk
      BY <1>7, <2>1, StageKeeps DEF InitLoggingFails
    <2>5. QED
      BY <2>3, <2>4 DEF IInv
  <1>8. CASE DescribeProtection(a)
    <2>1. At(a, "child_log", "loop") /\ "loop" \in PCs
      BY <1>8 DEF DescribeProtection, PCs
    <2>2. /\ pc[a] = "child_log" /\ pc'[a] = "loop" /\ pc' \in [Agents -> PCs]
          /\ \A b \in Agents \ {a} : pc'[b] = pc[b] /\ task'[b] = task[b]
          /\ task' \in [Agents -> Tasks]
          /\ "loop" \in DOMAIN Object => task'[a] = First
          /\ "loop" \notin DOMAIN Object => task'[a] = "none"
          /\ windows' = windows /\ disk' = disk
      BY <1>0, <2>1, StageEffect
    <2>3. Lock
      BY <1>0, <1>8, <2>2, ObjectOfStage, InstancesAssumption
         DEF DescribeProtection, Closed, IInv, TypeOK, ProtectionTypeOK, HoldersHold, WritersInside, First
    <2>4. Disk
      BY <1>8, <2>1, StageKeeps DEF DescribeProtection
    <2>5. QED
      BY <2>3, <2>4 DEF IInv
  <1>9. CASE ChildLogFails(a)
    <2>1. At(a, "child_log", "drop_log") /\ "drop_log" \in PCs
      BY <1>9 DEF ChildLogFails, PCs
    <2>2. /\ pc[a] = "child_log" /\ pc'[a] = "drop_log" /\ pc' \in [Agents -> PCs]
          /\ \A b \in Agents \ {a} : pc'[b] = pc[b] /\ task'[b] = task[b]
          /\ task' \in [Agents -> Tasks]
          /\ "drop_log" \in DOMAIN Object => task'[a] = First
          /\ "drop_log" \notin DOMAIN Object => task'[a] = "none"
          /\ windows' = windows /\ disk' = disk
      BY <1>0, <2>1, StageEffect
    <2>3. Lock
      BY <1>0, <1>9, <2>2, ObjectOfStage, InstancesAssumption
         DEF ChildLogFails, Closed, IInv, TypeOK, ProtectionTypeOK, HoldersHold, WritersInside, First
    <2>4. Disk
      BY <1>9, <2>1, StageKeeps DEF ChildLogFails
    <2>5. QED
      BY <2>3, <2>4 DEF IInv
  <1>10. CASE LoopReturns(a)
    <2>1. At(a, "loop", "drop_log") /\ "drop_log" \in PCs
      BY <1>10 DEF LoopReturns, PCs
    <2>2. /\ pc[a] = "loop" /\ pc'[a] = "drop_log" /\ pc' \in [Agents -> PCs]
          /\ \A b \in Agents \ {a} : pc'[b] = pc[b] /\ task'[b] = task[b]
          /\ task' \in [Agents -> Tasks]
          /\ "drop_log" \in DOMAIN Object => task'[a] = First
          /\ "drop_log" \notin DOMAIN Object => task'[a] = "none"
          /\ windows' = windows /\ disk' = disk
      BY <1>0, <2>1, StageEffect
    <2>3. Lock
      BY <1>0, <1>10, <2>2, ObjectOfStage, InstancesAssumption
         DEF LoopReturns, Closed, IInv, TypeOK, ProtectionTypeOK, HoldersHold, WritersInside, First
    <2>4. Disk
      BY <1>10, <2>1, StageKeeps DEF LoopReturns
    <2>5. QED
      BY <2>3, <2>4 DEF IInv
  <1>11. CASE DropLogGuard(a)
    <2>1. At(a, "drop_log", "drop_lock") /\ "drop_lock" \in PCs
      BY <1>11 DEF DropLogGuard, PCs
    <2>2. /\ pc[a] = "drop_log" /\ pc'[a] = "drop_lock" /\ pc' \in [Agents -> PCs]
          /\ \A b \in Agents \ {a} : pc'[b] = pc[b] /\ task'[b] = task[b]
          /\ task' \in [Agents -> Tasks]
          /\ "drop_lock" \in DOMAIN Object => task'[a] = First
          /\ "drop_lock" \notin DOMAIN Object => task'[a] = "none"
          /\ windows' = windows /\ disk' = disk
      BY <1>0, <2>1, StageEffect
    <2>3. Lock
      BY <1>0, <1>11, <2>2, ObjectOfStage, InstancesAssumption
         DEF DropLogGuard, Closed, IInv, TypeOK, ProtectionTypeOK, HoldersHold, WritersInside, First
    <2>4. Disk
      BY <1>11, <2>1, StageKeeps DEF DropLogGuard
    <2>5. QED
      BY <2>3, <2>4 DEF IInv
  <1>12. CASE DropLock(a)
    <2>1. At(a, "drop_lock", "off") /\ "off" \in PCs
      BY <1>12 DEF DropLock, PCs
    <2>2. /\ pc[a] = "drop_lock" /\ pc'[a] = "off" /\ pc' \in [Agents -> PCs]
          /\ \A b \in Agents \ {a} : pc'[b] = pc[b] /\ task'[b] = task[b]
          /\ task' \in [Agents -> Tasks]
          /\ "off" \in DOMAIN Object => task'[a] = First
          /\ "off" \notin DOMAIN Object => task'[a] = "none"
          /\ windows' = windows /\ disk' = disk
      BY <1>0, <2>1, StageEffect
    <2>3. Lock
      BY <1>0, <1>12, <2>2, ObjectOfStage, InstancesAssumption
         DEF DropLock, Closed, IInv, TypeOK, ProtectionTypeOK, HoldersHold, WritersInside, First
    <2>4. Disk
      BY <1>12, <2>1, StageKeeps DEF DropLock
    <2>5. QED
      BY <2>3, <2>4 DEF IInv
  <1>13. CASE Dies(a)
    <2>1. At(a, pc[a], "off") /\ "off" \in PCs
      BY <1>13 DEF Dies, PCs
    <2>2. /\ pc[a] = pc[a] /\ pc'[a] = "off" /\ pc' \in [Agents -> PCs]
          /\ \A b \in Agents \ {a} : pc'[b] = pc[b] /\ task'[b] = task[b]
          /\ task' \in [Agents -> Tasks]
          /\ "off" \in DOMAIN Object => task'[a] = First
          /\ "off" \notin DOMAIN Object => task'[a] = "none"
          /\ windows' = windows /\ disk' = disk
      BY <1>0, <2>1, StageEffect
    <2>3. Lock
      BY <1>0, <1>13, <2>2, ObjectOfStage, InstancesAssumption
         DEF Dies, Closed, IInv, TypeOK, ProtectionTypeOK, HoldersHold, WritersInside, First
    <2>4. Disk
      BY <1>13, <2>1, StageKeeps DEF Dies
    <2>5. QED
      BY <2>3, <2>4 DEF IInv
  <1>14. CASE Secure(a)
    BY <1>14, SecureKeeps
  <1>15. CASE WriterRotates(a)
    <2>1. PICK s \in {"absent", "locked"} : Becomes("agent_log", s)
      BY <1>15 DEF WriterRotates, Rotate
    <2>2. QED
      BY <1>15, <2>1, FileKeeps DEF WriterRotates, Rotate, Files
  <1>16. CASE ChildAppends(a)
    BY <1>16, FileKeeps DEF ChildAppends, ChildCreates, Files
  <1>17. CASE Fork(a)
    BY <1>0, <1>17 DEF Fork, protection, IInv, TypeOK, ProtectionTypeOK, HoldersHold, WritersInside,
                         Checked, FollowedWhere, DirLocked, LogLocked
  <1>18. CASE ForkEnds(a)
    BY <1>0, <1>18, InstancesAssumption
       DEF ForkEnds, Closed, protection, IInv, TypeOK, ProtectionTypeOK, HoldersHold, WritersInside,
           Checked, FollowedWhere, DirLocked, LogLocked
  <1>19. QED
    BY <1>1, <1>2, <1>3, <1>4, <1>5, <1>6, <1>7, <1>8, <1>9, <1>10, <1>11, <1>12, <1>13, <1>14, <1>15, <1>16, <1>17, <1>18 DEF Step

LEMMA NextKeeps ==
    ASSUME IInv, Next
    PROVE  IInv'
  <1>1. CASE Removed
    BY <1>1, FileKeeps DEF Removed, Remove
  <1>2. CASE \E a \in Agents : Step(a)
    BY <1>2, StepKeeps
  <1>3. QED
    BY <1>1, <1>2 DEF Next

(* The lock's holder is the one agent, dead or alive, that may touch the logs. *)
THEOREM InstancesInductive == Spec => []IInv
  <1>1. Init => IInv
    BY InstancesAssumption, ObjectOfStage
       DEF Init, ProtectionInit, IInv, TypeOK, ProtectionTypeOK, HoldersHold, WritersInside,
           Checked, FollowedWhere, DirLocked, LogLocked, PCs, Tasks
  <1>2. IInv /\ [Next]_vars => IInv'
    <2>1. IInv /\ UNCHANGED vars => IInv'
      BY DEF vars, protection, IInv, TypeOK, ProtectionTypeOK, HoldersHold, WritersInside,
             Checked, FollowedWhere, DirLocked, LogLocked
    <2>2. QED
      BY <2>1, NextKeeps
  <1>3. QED
    BY <1>1, <1>2, PTL DEF Spec

(* Every variable keeps its type, and an agent that is starting or ending   *)
(* has no child between fork and exec.                                      *)
THEOREM InstancesTypeCorrect == Spec => []TypeOK
  BY InstancesInductive, PTL DEF IInv

(* Two agents never have agent.log open at once.                            *)
THEOREM OneWriterOnly == Spec => []OneWriter
  <1>1. IInv => OneWriter
    BY DEF IInv, TypeOK, HoldersHold, WritersInside, OneWriter
  <1>2. QED
    BY <1>1, InstancesInductive, PTL

(* Nobody secures the child log or runs the loop without the lock.          *)
THEOREM HolderRunsOnly == Spec => []OnlyHolderRuns
  <1>1. IInv => OnlyHolderRuns
    BY DEF IInv, HoldersHold, OnlyHolderRuns
  <1>2. QED
    BY <1>1, InstancesInductive, PTL

(* Who writes agent.log does so in a locked directory, to a locked file,    *)
(* which on Windows may be the target it has made for a link it followed.   *)
THEOREM RunsProtectedOnly == Spec => []RunsProtected
  <1>1. IInv => RunsProtected
    BY DEF IInv, DirLocked, LogLocked, FollowedWhere, RunsProtected, Objects, Files
  <1>2. QED
    BY <1>1, InstancesInductive, PTL

(* Whatever was found: an agent never changes another user's object nor a   *)
(* link, whose missing target alone it may make, on Windows and under the   *)
(* name of a file; what it makes is locked from the first moment.           *)
THEOREM AgentsMakeLocked == Spec => BornLockedOrLeftAlone
  <1> DEFINE Born ==
        \A f \in Objects :
          /\ disk[f] \in {"link", "users"} => disk'[f] \in {disk[f], "absent"}
          /\ disk[f] = "dangling" =>
                \/ disk'[f] \in {"dangling", "absent"}
                \/ disk'[f] = "followed" /\ windows /\ f # "dir"
          /\ disk[f] # "loose" /\ disk'[f] = "loose" =>
                f = "child_log" /\ \E a \in Agents : pc[a] = "loop"
  <1>1. ASSUME IInv, NEW a \in Agents, Secure(a)
        PROVE  Born
    <2> DEFINE g == Object[pc[a]]
    <2>1. g \in Objects /\ ProtectionTypeOK /\ Secures(a, g) /\ pc[a] \in DOMAIN Object
      BY <1>1, ObjectOfStage DEF Secure, IInv, TypeOK
    <2>2. \A f \in Objects : disk'[f] # disk[f] =>
            /\ f = g
            /\ \/ Follows(f)
               \/ disk'[f] = "locked" /\ (disk[f] # "absent" => task[a] = "apply")
      BY <2>1, SecuresEffect
    <2>3. task[a] = "apply" => disk[g] \notin Untrusted \ {"followed"}
      BY <1>1, <2>1 DEF IInv, Checked
    <2> HIDE DEF g
    <2>4. QED
      BY <2>2, <2>3 DEF Untrusted, Links, Follows
  <1>2. ASSUME IInv, NEW a \in Agents, WriterRotates(a)
        PROVE  Born
    BY <1>2 DEF WriterRotates, Rotate, Becomes, IInv, LogLocked, TypeOK, ProtectionTypeOK, Untrusted
  <1>3. ASSUME IInv, NEW a \in Agents, ChildAppends(a)
        PROVE  Born
    BY <1>3 DEF ChildAppends, ChildCreates, Becomes, IInv, TypeOK, ProtectionTypeOK, Untrusted
  <1>4. ASSUME IInv, Removed
        PROVE  Born
    BY <1>4 DEF Removed, Remove, Becomes, IInv, TypeOK, ProtectionTypeOK, Untrusted
  <1>5. ASSUME NEW a \in Agents, Step(a), ~Secure(a), ~WriterRotates(a), ~ChildAppends(a)
        PROVE  disk' = disk
    BY <1>5 DEF Step, Start, DirSecured, DirNotSecured, AcquireLock, AcquireFails, OpenLog,
                InitLoggingFails, DescribeProtection, ChildLogFails, Fork, ForkEnds, LoopReturns,
                DropLogGuard, DropLock, Dies, At, protection
  <1>6. IInv /\ [Next]_vars => [Born]_vars
    <2>1. disk' = disk => Born
      OBVIOUS
    <2> HIDE DEF Born
    <2>2. ASSUME IInv, Next
          PROVE  Born
      BY <2>2, <2>1, <1>1, <1>2, <1>3, <1>4, <1>5 DEF Next
    <2>3. QED
      BY <2>2
  <1>7. QED
    BY <1>6, InstancesInductive, PTL DEF Spec, BornLockedOrLeftAlone
-----------------------------------------------------------------------------
(* The lock of a dead agent.                                                *)

\* Whose lock it is has it to drop yet, or a child that shares it.
LockAccountedFor ==
    \A a \in Agents : holder = a =>
        pc[a] \in {"logging", "child_log", "loop", "drop_log", "drop_lock"} \/ a \in forked

LEMMA LockStep ==
    ASSUME IInv, LockAccountedFor, [Next]_vars
    PROVE  LockAccountedFor'
  <1> USE InstancesAssumption DEF IInv, TypeOK, HoldersHold, LockAccountedFor
  <1>1. ASSUME NEW a \in Agents, Start(a) \/ DirSecured(a) \/ DirNotSecured(a) \/ AcquireFails(a)
        PROVE  LockAccountedFor'
    BY <1>1 DEF Start, DirSecured, DirNotSecured, AcquireFails, At
  <1>2. ASSUME NEW a \in Agents, AcquireLock(a)
        PROVE  LockAccountedFor'
    BY <1>2 DEF AcquireLock, At
  <1>3. ASSUME NEW a \in Agents, OpenLog(a) \/ InitLoggingFails(a) \/ DescribeProtection(a) \/ ChildLogFails(a)
        PROVE  LockAccountedFor'
    BY <1>3 DEF OpenLog, InitLoggingFails, DescribeProtection, ChildLogFails, At
  <1>4. ASSUME NEW a \in Agents, LoopReturns(a) \/ DropLogGuard(a)
        PROVE  LockAccountedFor'
    BY <1>4 DEF LoopReturns, DropLogGuard, At
  <1>5. ASSUME NEW a \in Agents, Fork(a)
        PROVE  LockAccountedFor'
    BY <1>5 DEF Fork
  <1>6. ASSUME NEW a \in Agents, ForkEnds(a)
        PROVE  LockAccountedFor'
    BY <1>6 DEF ForkEnds, Closed
  <1>7. ASSUME NEW a \in Agents, DropLock(a) \/ Dies(a)
        PROVE  LockAccountedFor'
    BY <1>7 DEF DropLock, Dies, At, Closed
  <1>8. CASE UNCHANGED <<pc, holder, forked>>
    BY <1>8
  <1>9. QED
    BY <1>1, <1>2, <1>3, <1>4, <1>5, <1>6, <1>7, <1>8
    DEF Next, Step, Removed, Secure, WriterRotates, ChildAppends, vars

\* What keeps a dead agent's lock, and when it stops to.
OnlyAChildKeepsIt ==
    /\ [](\A a \in Agents : holder = a /\ pc[a] = "off" => a \in forked)
    /\ [][\A a \in Agents : a \in forked /\ pc[a] = "off" /\ a \notin forked' => holder' # a]_vars

(* The lock of an agent that is gone is kept by a child between fork and    *)
(* exec and by nothing else, and is free as soon as that child is past its  *)
(* exec or dead: no agent is refused for longer than that.                  *)
THEOREM DeadAgentsLockGoes == Spec => OnlyAChildKeepsIt
  <1>1. Init => LockAccountedFor
    BY InstancesAssumption DEF Init, LockAccountedFor
  <1>2. IInv /\ LockAccountedFor /\ [Next]_vars => LockAccountedFor'
    BY LockStep
  <1>3. LockAccountedFor => \A a \in Agents : holder = a /\ pc[a] = "off" => a \in forked
    BY DEF LockAccountedFor
  <1> DEFINE Frees == \A a \in Agents : a \in forked /\ pc[a] = "off" /\ a \notin forked' => holder' # a
  <1>4. IInv /\ [Next]_vars => [Frees]_vars
    <2>. SUFFICES ASSUME IInv, Next, NEW a \in Agents, a \in forked, pc[a] = "off", a \notin forked'
                  PROVE  holder' # a
      BY DEF Frees
    <2>1. PICK b \in Agents : ForkEnds(b)
      BY DEF Next, Step, Removed, Start, Secure, DirSecured, DirNotSecured, AcquireLock, AcquireFails,
             OpenLog, InitLoggingFails, DescribeProtection, ChildLogFails, WriterRotates, ChildAppends,
             Fork, LoopReturns, DropLogGuard, DropLock, Dies
    <2>2. a = b
      BY <2>1 DEF ForkEnds
    <2>3. QED
      BY <2>1, <2>2, InstancesAssumption DEF ForkEnds, Closed
  <1> HIDE DEF Frees
  <1>5. Spec => [](\A a \in Agents : holder = a /\ pc[a] = "off" => a \in forked)
    BY <1>1, <1>2, <1>3, InstancesInductive, PTL DEF Spec
  <1>6. Spec => [][Frees]_vars
    BY <1>4, InstancesInductive, PTL DEF Spec
  <1>7. QED
    BY <1>5, <1>6 DEF OnlyAChildKeepsIt, Frees
=============================================================================
