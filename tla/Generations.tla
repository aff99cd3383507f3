---------------------------- MODULE Generations ----------------------------
(***************************************************************************)
(* The files of one rotated log (agent-rust/src/rotation.rs): the live     *)
(* file is slot 0, <stem>.k.log is slot k.  A file is what the properties  *)
(* tell apart: the numbers of the lines it holds and its length in bytes.  *)
(* The operators are the file-system calls of rotate and open_locked.      *)
(***************************************************************************)
EXTENDS Integers

CONSTANT Keep       \* RotationPolicy.keep: rotated generations to keep

ASSUME KeepAssumption == Keep \in Nat

Slots    == 0 .. Keep
Unlinked == Keep + 1    \* where an open handle points once its file is deleted

File  == [present : BOOLEAN, lines : SUBSET Nat, bytes : Nat]
Gone  == [present |-> FALSE, lines |-> {}, bytes |-> 0]

CreatedAnew(d) == [d EXCEPT ![0] = [present |-> TRUE, lines |-> {}, bytes |-> 0]]

\* platform::secure_file: create the live file if it is missing, keep it if not.
Created(d) == [d EXCEPT ![0].present = TRUE]

\* fs::remove_file; a missing file is not an error to rotate.
Removed(d, i) == [d EXCEPT ![i] = Gone]

RenamedByCopy(d, i) == [d EXCEPT ![i + 1] = d[i]]

\* fs::rename of slot i onto slot i + 1: the target is replaced if it exists.
Renamed(d, i) == [d EXCEPT ![i + 1] = d[i], ![i] = Gone]

\* write_all appends a line of n bytes, or only n bytes of one.
Appended(d, i, line, n) ==
    [d EXCEPT ![i] = [present |-> d[i].present, lines |-> d[i].lines \cup {line},
                      bytes |-> d[i].bytes + n]]
Torn(d, i, n) ==
    [d EXCEPT ![i] = [present |-> d[i].present, lines |-> d[i].lines,
                      bytes |-> d[i].bytes + n]]

\* An open handle follows its file through a rename, and outlives its deletion.
HandleAfterRemove(h, i) == IF h = i THEN Unlinked ELSE h
HandleAfterRename(h, i) ==
    IF h = i THEN i + 1 ELSE IF h = i + 1 THEN Unlinked ELSE h

FirstShiftLive     == 0
FirstShiftPastKeep == Keep

\* The shift loop runs from the oldest generation that stays to the live file.
FirstShift == Keep - 1

\* Every line that some file of the log holds.
OnDisk(d) == UNION { d[i].lines : i \in Slots }
=============================================================================
