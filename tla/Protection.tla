----------------------------- MODULE Protection -----------------------------
(***************************************************************************)
(* How the log directory and the two log files are protected: secure_dir,  *)
(* secure_file and what they call, in platform/windows.rs and              *)
(* platform/unix.rs.  Each is a sequence of system calls, and between two  *)
(* of them another agent, or an administrator, may act.                    *)
(***************************************************************************)
CONSTANTS
    Agents      \* agent processes; bound: those that exist at once

VARIABLES
    windows,    \* the platform
    disk,       \* what is found under each name
    task        \* the next call of each agent that secures an object

protection == <<windows, disk, task>>

Files   == {"agent_log", "child_log"}
Objects == {"dir"} \cup Files

\* A link to something, to nothing, or to the locked file made through it; then
\* what another user owns; ours, with rights for others; locked.
Links     == {"link", "dangling", "followed"}
Untrusted == Links \cup {"users"}
States    == {"absent", "loose", "locked"} \cup Untrusted
Tasks     == {"none", "create", "check", "apply", "secured"}

ProtectionTypeOK ==
    /\ windows \in BOOLEAN
    /\ disk \in [Objects -> States]
    /\ task \in [Agents -> Tasks]

\* Whatever there is before the first start; a link followed by an earlier agent now
\* leads to something.
ProtectionInit ==
    /\ windows \in BOOLEAN
    /\ disk \in [Objects -> States \ {"followed"}]
    /\ disk["dir"] \in {"absent", "dangling"} => \A f \in Files : disk[f] = "absent"
    /\ task = [a \in Agents |-> "none"]

\* The call an agent that secures an object begins with.
First == IF windows THEN "create" ELSE "check"

Calls(a, from, to) == task[a] = from /\ task' = [task EXCEPT ![a] = to]

Becomes(f, s) == disk' = [disk EXCEPT ![f] = s]
-----------------------------------------------------------------------------
(* Windows: only what was there before is checked.                          *)

CreateOrFind(a, f) ==
    /\ windows
    /\ \/ disk[f] = "absent" /\ Becomes(f, "locked") /\ Calls(a, "create", "apply")
       \/ disk[f] # "absent" /\ UNCHANGED disk /\ Calls(a, "create", "check")

\* CreateDirectoryW finds a link, whatever it leads to.
CreateDirectory(a) == CreateOrFind(a, "dir")

\* CreateFileW goes through a link: where that leads to nothing, it makes a locked
\* file there, ERROR_ALREADY_EXISTS is not set, and the link is not checked.
FollowLink(a, f) ==
    /\ windows
    /\ Calls(a, "create", "apply")
    /\ disk[f] = "dangling" /\ Becomes(f, "followed")

\* An existing file that denies the open is found all the same.
CreateFile(a, f) ==
    /\ f \in Files
    /\ FollowLink(a, f) \/ (disk[f] # "dangling" /\ CreateOrFind(a, f))

OwnerUnchecked(a, f) ==
    /\ windows
    /\ Calls(a, "check", "apply")
    /\ disk[f] \notin {"absent"} \cup Links
    /\ UNCHANGED disk

\* No reparse point, and owned by Administrators or SYSTEM.
CheckReparseAndOwner(a, f) ==
    /\ windows
    /\ Calls(a, "check", "apply")
    /\ disk[f] \notin {"absent"} \cup Untrusted
    /\ UNCHANGED disk

KeepDacl(a, f) ==
    /\ windows
    /\ Calls(a, "apply", "secured")
    /\ disk[f] # "absent" /\ UNCHANGED disk

\* SetNamedSecurityInfoW goes through a link too: the DACL is its target's.
ApplyDacl(a, f) ==
    /\ windows
    /\ Calls(a, "apply", "secured")
    /\ disk[f] \notin {"absent", "dangling"}
    /\ IF disk[f] \in Links THEN UNCHANGED disk ELSE Becomes(f, "locked")
-----------------------------------------------------------------------------
(* Unix: the check comes first, and what is not there passes it.            *)

CheckLinkAndOwner(a, f) ==
    /\ ~windows
    /\ Calls(a, "check", "create")
    /\ disk[f] \notin Untrusted
    /\ UNCHANGED disk

CreateWithMode(a, f) ==
    /\ ~windows
    /\ Calls(a, "create", "apply")
    /\ IF disk[f] = "absent" THEN Becomes(f, "locked") ELSE UNCHANGED disk

SetMode(a, f) ==
    /\ ~windows
    /\ Calls(a, "apply", "secured")
    /\ disk[f] # "absent" /\ Becomes(f, "locked")
-----------------------------------------------------------------------------
Secures(a, f) ==
    /\ \/ f = "dir" /\ CreateDirectory(a)
       \/ CreateFile(a, f)
       \/ CheckReparseAndOwner(a, f)
       \/ ApplyDacl(a, f)
       \/ CheckLinkAndOwner(a, f)
       \/ CreateWithMode(a, f)
       \/ SetMode(a, f)
    /\ UNCHANGED windows

\* An administrator takes a file away.
Remove(f) ==
    /\ f \in Files /\ disk[f] # "absent"
    /\ Becomes(f, "absent")
    /\ UNCHANGED <<windows, task>>

\* The writer of agent.log renames it, or the link, away and makes it anew, or fails to.
Rotate ==
    /\ \E s \in {"absent", "locked"} : Becomes("agent_log", s)
    /\ UNCHANGED <<windows, task>>

\* A child finds its log gone, and opens it as any other file.
ChildCreates ==
    /\ disk["child_log"] = "absent" /\ Becomes("child_log", "loose")
    /\ UNCHANGED <<windows, task>>
=============================================================================
