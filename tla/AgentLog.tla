------------------------------ MODULE AgentLog ------------------------------
(***************************************************************************)
(* agent.log: the RotatingWriter of agent-rust/src/rotation.rs as the log  *)
(* worker thread drives it.  One action is one file-system call, because   *)
(* each may fail on its own and the agent may be killed between any two.   *)
(*                                                                         *)
(* Lines are numbered in the order they are accepted.  The process may     *)
(* crash at any point and be started again; files survive, the handle and  *)
(* the cached size do not.                                                 *)
(***************************************************************************)
EXTENDS Generations

CONSTANTS
    MaxBytes,   \* RotationPolicy.max_bytes
    Lens,       \* the lengths a formatted line can have
    MaxLines,   \* bound: lines accepted in a behaviour
    MaxFaults   \* bound: failing file-system calls in a behaviour

ASSUME LogAssumption ==
    /\ MaxBytes \in Nat \ {0}
    /\ Lens \subseteq Nat \ {0} /\ \E longest \in Lens : \A len \in Lens : len <= longest
    /\ MaxLines \in Nat
    /\ MaxFaults \in Nat

VARIABLES
    disk,       \* the files, by slot
    pc,         \* where the writer is
    index,      \* rotate's loop variable
    handle,     \* the slot RotatingWriter.file points into
    size,       \* RotatingWriter.size
    pending,    \* length of the line being written
    written,    \* history: lines accepted so far, the number of the newest
    stale,      \* history: failed rotations since the last good (re)open
    faults      \* history: failed file-system calls so far

vars == <<disk, pc, index, handle, size, pending, written, stale, faults>>

PCs == {"down", "idle", "remove", "shift", "reopen", "append"}

TypeOK ==
    /\ disk \in [Slots -> File]
    /\ pc \in PCs
    /\ index \in Nat /\ (pc = "shift" => index < Keep)
    /\ handle \in 0 .. Unlinked
    /\ size \in Nat
    /\ pending \in Nat /\ (pc \in PCs \ {"down", "idle"} => pending \in Lens)
    /\ written \in Nat
    /\ stale \in 0 .. Keep + 1
    /\ faults \in Nat

Init ==
    /\ disk = [i \in Slots |-> Gone]
    /\ pc = "down"
    /\ index = 0 /\ handle = 0 /\ size = 0 /\ pending = 0
    /\ written = 0 /\ stale = 0 /\ faults = 0
-----------------------------------------------------------------------------
(* A failing call: rotate_now returns Err, write ignores it and goes on.    *)

Fault ==
    /\ faults < MaxFaults
    /\ faults' = faults + 1

GiveUpRotation ==
    /\ Fault
    /\ pc' = "append"
    /\ index' = 0
    /\ stale' = IF stale > Keep THEN stale ELSE stale + 1

\* RotatingWriter::open, at start-up: the size is what the file already holds.
Open ==
    /\ pc = "down"
    /\ disk' = Created(disk)
    /\ pc' = "idle"
    /\ handle' = 0
    /\ size' = disk[0].bytes
    /\ stale' = 0
    /\ UNCHANGED <<index, pending, written, faults>>

\* The file was created but locking or opening it failed: start-up fails.
OpenFails ==
    /\ pc = "down"
    /\ Fault
    /\ disk' = Created(disk)
    /\ UNCHANGED <<pc, index, handle, size, pending, written, stale>>

RotatesAfterTheFact(len) == size > MaxBytes

NeedsRotation(len) == size > 0 /\ size + len > MaxBytes

\* RotatingWriter::write, up to the decision to rotate first.
Write(len) ==
    /\ pc = "idle"
    /\ written < MaxLines
    /\ pending' = len
    /\ pc' = IF NeedsRotation(len) THEN "remove" ELSE "append"
    /\ UNCHANGED <<disk, index, handle, size, written, stale, faults>>

RemoveOldestClosingFirst ==
    /\ pc = "remove"
    /\ disk' = Removed(disk, Keep)
    /\ handle' = Unlinked
    /\ IF Keep = 0 THEN pc' = "reopen" /\ index' = 0
                   ELSE pc' = "shift" /\ index' = FirstShift
    /\ UNCHANGED <<size, pending, written, stale, faults>>

\* The generation past keep goes; with keep = 0 that is the live file itself.
RemoveOldest ==
    /\ pc = "remove"
    /\ disk' = Removed(disk, Keep)
    /\ handle' = HandleAfterRemove(handle, Keep)
    /\ IF Keep = 0 THEN pc' = "reopen" /\ index' = 0
                   ELSE pc' = "shift" /\ index' = FirstShift
    /\ UNCHANGED <<size, pending, written, stale, faults>>

RemoveFails ==
    /\ pc = "remove"
    /\ GiveUpRotation
    /\ UNCHANGED <<disk, handle, size, pending, written>>

RenameSlot(i) ==
    IF disk[i].present
    THEN /\ disk' = Renamed(disk, i)
         /\ handle' = HandleAfterRename(handle, i)
    ELSE UNCHANGED <<disk, handle>>

\* One turn of the loop over the older generations; a missing one is skipped.
ShiftGeneration ==
    /\ pc = "shift" /\ index > 0
    /\ RenameSlot(index)
    /\ index' = index - 1
    /\ UNCHANGED <<pc, size, pending, written, stale, faults>>

\* The live file becomes generation 1; a missing one is not an error.
RenameLive ==
    /\ pc = "shift" /\ index = 0
    /\ RenameSlot(0)
    /\ pc' = "reopen"
    /\ UNCHANGED <<index, size, pending, written, stale, faults>>

RenameFails ==
    /\ pc = "shift"
    /\ index > 0 => disk[index].present
    /\ GiveUpRotation
    /\ UNCHANGED <<disk, handle, size, pending, written>>

\* open_locked after a successful rotate: a new live file, the old handle dropped.
Reopen ==
    /\ pc = "reopen"
    /\ disk' = Created(disk)
    /\ handle' = 0
    /\ size' = 0
    /\ stale' = 0
    /\ pc' = "append"
    /\ UNCHANGED <<index, pending, written, faults>>

\* The writer keeps the handle it had, which now points at a rotated file.
ReopenFails ==
    /\ pc = "reopen"
    /\ GiveUpRotation
    /\ disk' \in {disk, Created(disk)}
    /\ UNCHANGED <<handle, size, pending, written>>

\* write_all into whatever file the handle is on.
Append ==
    /\ pc = "append"
    /\ written' = written + 1
    /\ disk' = IF handle = Unlinked THEN disk
               ELSE Appended(disk, handle, written + 1, pending)
    /\ size' = size + pending
    /\ pc' = "idle"
    /\ pending' = 0
    /\ UNCHANGED <<index, handle, stale, faults>>

\* write_all fails after a part of the line: the bytes stay, size does not count them.
AppendFails ==
    /\ pc = "append"
    /\ Fault
    /\ \E torn \in 0 .. pending - 1 :
          disk' = IF handle = Unlinked THEN disk
                  ELSE Torn(disk, handle, torn)
    /\ pc' = "idle"
    /\ pending' = 0
    /\ UNCHANGED <<index, handle, size, written, stale>>

\* The process is killed, or stops, between any two calls.
Crash ==
    /\ pc # "down"
    /\ pc' = "down"
    /\ index' = 0 /\ handle' = 0 /\ size' = 0 /\ pending' = 0 /\ stale' = 0
    /\ UNCHANGED <<disk, written, faults>>

Next ==
    \/ Open \/ OpenFails
    \/ \E len \in Lens : Write(len)
    \/ RemoveOldest \/ RemoveFails
    \/ ShiftGeneration \/ RenameLive \/ RenameFails
    \/ Reopen \/ ReopenFails
    \/ Append \/ AppendFails
    \/ Crash

Spec == Init /\ [][Next]_vars
-----------------------------------------------------------------------------
(* Every line of a higher generation is older than every line of a lower    *)
(* one, whatever failed or crashed on the way (rotation.rs:4: "older         *)
(* generations shift up by one").                                           *)
OlderIsHigher ==
    \A i, j \in Slots : i < j =>
        \A a \in disk[i].lines, b \in disk[j].lines : b < a

(* The log on disk never has a hole: if a line is there, so is every line   *)
(* accepted after it.  A crash or a failing call in the middle of a         *)
(* rotation, and the retries that follow, lose only from the old end.       *)
NoGap ==
    \A a \in OnDisk(disk) : \A n \in a .. written : n \in OnDisk(disk)

(* New lines stop reaching the disk only after Keep failed rotations in a   *)
(* row: until then the handle is on a file of the log (rotation.rs:81-83,    *)
(* "writing continues into the current file").                              *)
LostOnlyAfterKeepFailures ==
    pc # "down" /\ handle = Unlinked => stale >= Keep

(* As long as no call has failed, no file exceeds max_bytes unless a single *)
(* line does, across restarts too (RotationPolicy::max_bytes: "rotate       *)
(* before a write would take the live file past this size").  Every failing *)
(* call lets a file outgrow that by one more line at most: a torn write,    *)
(* which size does not count (rotation.rs:126), or a write that goes on     *)
(* after a failed rotation.                                                 *)
Bounded(f) == f.bytes <= MaxBytes \/ \E l \in f.lines : f.lines = {l}
Longest    == CHOOSE len \in Lens : \A other \in Lens : other <= len
Limit      == IF MaxBytes > Longest THEN MaxBytes ELSE Longest
SizeBound  ==
    \A i \in Slots : /\ faults = 0 => Bounded(disk[i])
                     /\ disk[i].bytes <= Limit + faults * Longest

(* No step loses a line, except the deletion of the oldest generation.      *)
OnlyOldestDropped ==
    [][OnDisk(disk) \ OnDisk(disk') \subseteq disk[Keep].lines]_vars

(* The files together are one log that forgets from its old end only, over  *)
(* failures, retries and restarts (rotation.rs:1-6, 81-83).                 *)
Retained == INSTANCE RetainedLog WITH retained <- OnDisk(disk)
ImplementsRetainedLog == Retained!LogSpec

(* What rotation.rs:81-83 says of a failed reopen: a line is accepted only  *)
(* into a file of the log.  The code does not keep this.                    *)
WritesReachDisk ==
    [][written' > written => written' \in OnDisk(disk')]_vars
=============================================================================
