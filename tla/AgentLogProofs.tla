--------------------------- MODULE AgentLogProofs ---------------------------
(***************************************************************************)
(* Safety of agent.log for every Keep, MaxBytes, set of line lengths and   *)
(* bound.  The order and the absence of holes are not inductive on their   *)
(* own: a retry after a failed reopen renames the file under the handle,   *)
(* so the invariant also says that no line is in a slot below the handle   *)
(* and that the target of the next rename is vacant.                       *)
(***************************************************************************)
EXTENDS AgentLog, TLAPS

\* Lines are numbered up to written.
Numbered == \A i \in Slots : disk[i].lines \subseteq 1 .. written

\* A missing file holds nothing.
AbsentIsEmpty == \A i \in Slots : ~disk[i].present => disk[i] = Gone

\* The handle is on a file, and all slots newer than that file are without lines.
HandleIsNewest ==
    /\ pc \in PCs \ {"down"} /\ handle # Unlinked => disk[handle].present
    /\ \A i \in Slots : i < handle => disk[i].lines = {}
    /\ pc = "down" => handle = 0

\* The next rename, or the next create, finds its target vacant.
TargetVacant ==
    /\ pc = "shift" => ~disk[index + 1].present
    /\ pc = "reopen" => ~disk[0].present

\* Each rotation moves the handle by at most one slot.
HandleBehind ==
    /\ pc \in {"idle", "append", "remove"} => handle <= stale
    /\ pc = "shift" /\ handle <= index => handle <= stale
    /\ handle <= stale + 1

\* While nothing has failed the cached size is the live file's.
SizeExact ==
    faults = 0 /\ pc \in {"idle", "append"} =>
        /\ handle # Unlinked
        /\ size = disk[handle].bytes
        /\ pc = "append" => size = 0 \/ size + pending <= MaxBytes

\* A file of no bytes holds no line.
BytesCount == \A i \in Slots : disk[i].bytes = 0 => disk[i].lines = {}

IInv ==
    /\ TypeOK
    /\ Numbered /\ AbsentIsEmpty
    /\ OlderIsHigher /\ NoGap
    /\ HandleIsNewest /\ TargetVacant /\ HandleBehind

\* While nothing has failed a file that is too large holds one line.
CleanBound == faults = 0 => \A i \in Slots : Bounded(disk[i])

\* What failing calls can add to a file, what size may fall short by, and what
\* the write that is about to be made leaves room for.
Slack ==
    /\ \A i \in Slots : disk[i].bytes <= Limit + faults * Longest
    /\ pc # "down" /\ handle # Unlinked => disk[handle].bytes <= size + faults * Longest
    /\ pc = "append" /\ handle # Unlinked =>
          disk[handle].bytes + pending <= Limit + faults * Longest

SizeInv == SizeExact /\ BytesCount /\ CleanBound /\ Slack
-----------------------------------------------------------------------------

LEMMA InOnDisk ==
    ASSUME NEW d, NEW n
    PROVE  n \in OnDisk(d) <=> \E i \in Slots : n \in d[i].lines
  BY DEF OnDisk

\* secure_file never touches the content of a file.
LEMMA CreatedFacts ==
    ASSUME NEW d \in [Slots -> File]
    PROVE  /\ Created(d) \in [Slots -> File]
           /\ Created(d)[0].present
           /\ \A i \in Slots : /\ Created(d)[i].lines = d[i].lines
                               /\ Created(d)[i].bytes = d[i].bytes
                               /\ d[i].present => Created(d)[i].present
                               /\ i # 0 => Created(d)[i] = d[i]
  <1>1. 0 \in Slots
    BY KeepAssumption DEF Slots
  <1>2. \A i \in Slots :
          Created(d)[i] = IF i = 0 THEN [d[0] EXCEPT !.present = TRUE] ELSE d[i]
    BY <1>1 DEF Created
  <1>3. d[0] \in File
    BY <1>1
  <1>4. /\ [d[0] EXCEPT !.present = TRUE] \in File
        /\ [d[0] EXCEPT !.present = TRUE].present
        /\ [d[0] EXCEPT !.present = TRUE].lines = d[0].lines
        /\ [d[0] EXCEPT !.present = TRUE].bytes = d[0].bytes
    BY <1>3 DEF File
  <1>5. Created(d) = [i \in Slots |-> Created(d)[i]]
    BY DEF Created
  <1>6. Created(d) \in [Slots -> File]
    BY <1>2, <1>4, <1>5
  <1>7. QED
    BY <1>1, <1>2, <1>4, <1>6

LEMMA RemovedFacts ==
    ASSUME NEW d \in [Slots -> File], NEW k \in Slots
    PROVE  /\ Removed(d, k) \in [Slots -> File]
           /\ Removed(d, k)[k] = Gone
           /\ \A i \in Slots : i # k => Removed(d, k)[i] = d[i]
  BY DEF Removed, File, Gone

LEMMA RenamedFacts ==
    ASSUME NEW d \in [Slots -> File], NEW k \in Slots, k < Keep
    PROVE  /\ Renamed(d, k) \in [Slots -> File]
           /\ Renamed(d, k)[k] = Gone
           /\ Renamed(d, k)[k + 1] = d[k]
           /\ \A i \in Slots : i \notin {k, k + 1} => Renamed(d, k)[i] = d[i]
  BY KeepAssumption DEF Renamed, File, Gone, Slots

LEMMA AppendedFacts ==
    ASSUME NEW d \in [Slots -> File], NEW k \in Slots, NEW line \in Nat, NEW n \in Nat
    PROVE  /\ Appended(d, k, line, n) \in [Slots -> File]
           /\ Appended(d, k, line, n)[k].present = d[k].present
           /\ Appended(d, k, line, n)[k].lines = d[k].lines \cup {line}
           /\ Appended(d, k, line, n)[k].bytes = d[k].bytes + n
           /\ \A i \in Slots : i # k => Appended(d, k, line, n)[i] = d[i]
  <1>1. d[k] \in File
    OBVIOUS
  <1>2. QED
    BY <1>1 DEF Appended, File

LEMMA TornFacts ==
    ASSUME NEW d \in [Slots -> File], NEW k \in Slots, NEW n \in Nat
    PROVE  /\ Torn(d, k, n) \in [Slots -> File]
           /\ Torn(d, k, n)[k].present = d[k].present
           /\ Torn(d, k, n)[k].lines = d[k].lines
           /\ Torn(d, k, n)[k].bytes = d[k].bytes + n
           /\ \A i \in Slots : i # k => Torn(d, k, n)[i] = d[i]
  <1>1. d[k] \in File
    OBVIOUS
  <1>2. QED
    BY <1>1 DEF Torn, File

LEMMA GoneFacts == ~Gone.present /\ Gone.lines = {} /\ Gone.bytes = 0
  BY DEF Gone

\* There is a longest line, and every failing call leaves room for one more.
LEMMA LimitFacts ==
    /\ Longest \in Nat /\ \A len \in Lens : len <= Longest
    /\ Limit \in Nat /\ Longest <= Limit /\ MaxBytes <= Limit
    /\ \A n \in Nat : n * Longest \in Nat /\ (n + 1) * Longest = n * Longest + Longest
    /\ 0 * Longest = 0
  <1>1. Longest \in Lens /\ \A len \in Lens : len <= Longest
    BY LogAssumption DEF Longest
  <1>2. Longest \in Nat /\ MaxBytes \in Nat
    BY <1>1, LogAssumption
  <1>3. Limit \in Nat /\ Longest <= Limit /\ MaxBytes <= Limit
    <2> HIDE DEF Longest
    <2>1. QED
      BY <1>2 DEF Limit
  <1>4. \A n \in Nat : n * Longest \in Nat /\ (n + 1) * Longest = n * Longest + Longest
    BY <1>2
  <1>5. QED
    BY <1>1, <1>2, <1>3, <1>4
-----------------------------------------------------------------------------
LEMMA InitIInv == Init => IInv /\ SizeInv
  <1> SUFFICES ASSUME Init PROVE IInv /\ SizeInv
    OBVIOUS
  <1>1. TypeOK
    BY KeepAssumption DEF Init, TypeOK, PCs, Slots, Unlinked, File, Gone
  <1>2. \A i \in Slots : disk[i] = Gone /\ disk[i].lines = {} /\ disk[i].bytes = 0
    BY DEF Init, Gone
  <1>3. Numbered /\ AbsentIsEmpty /\ OlderIsHigher /\ BytesCount
    BY <1>2 DEF Numbered, AbsentIsEmpty, OlderIsHigher, BytesCount
  <1>4. NoGap
    BY <1>2, InOnDisk DEF NoGap
  <1>5. HandleIsNewest /\ TargetVacant /\ HandleBehind /\ SizeExact
    BY <1>2 DEF Init, HandleIsNewest, TargetVacant, HandleBehind, SizeExact
  <1>6. CleanBound
    BY <1>2, LogAssumption DEF CleanBound, Bounded
  <1>7. Slack
    <2>1. faults = 0 /\ pc = "down"
      BY DEF Init
    <2>2. QED
      BY <1>2, <2>1, LimitFacts DEF Slack
  <1>8. QED
    BY <1>1, <1>3, <1>4, <1>5, <1>6, <1>7 DEF IInv, SizeInv
-----------------------------------------------------------------------------
(* The content of the files: numbering, order, no hole.                     *)
Content == Numbered /\ OlderIsHigher /\ NoGap

\* A step that adds, moves and deletes no line keeps the content invariants.
LEMMA SameContent ==
    ASSUME Content, written' = written,
           \A i \in Slots : disk'[i].lines = disk[i].lines
    PROVE  Content'
  <1>1. Numbered'
    BY DEF Content, Numbered
  <1>2. OlderIsHigher'
    BY DEF Content, OlderIsHigher
  <1>3. NoGap'
    BY InOnDisk DEF Content, NoGap
  <1>4. QED
    BY <1>1, <1>2, <1>3 DEF Content

\* Deleting the oldest generation: what is newer than a line that stays, stays.
LEMMA RemoveContent ==
    ASSUME IInv, disk' = Removed(disk, Keep), written' = written
    PROVE  Content'
  <1>1. disk \in [Slots -> File] /\ Keep \in Slots /\ written \in Nat
    BY KeepAssumption DEF IInv, TypeOK, Slots
  <1>2. /\ disk'[Keep].lines = {}
        /\ \A i \in Slots : i # Keep => disk'[i].lines = disk[i].lines
    BY <1>1, RemovedFacts, GoneFacts
  <1>3. Numbered'
    BY <1>2 DEF IInv, Numbered
  <1>4. OlderIsHigher'
    BY <1>2 DEF IInv, OlderIsHigher
  <1>5. NoGap'
    <2> SUFFICES ASSUME NEW a \in OnDisk(disk'), NEW n \in a .. written
                 PROVE  n \in OnDisk(disk')
      BY DEF NoGap
    <2>1. PICK i \in Slots : i # Keep /\ a \in disk[i].lines
      BY <1>2, InOnDisk
    <2>2. a \in Nat
      BY <2>1, <1>1 DEF File
    <2>3. n \in OnDisk(disk)
      BY <2>1, InOnDisk DEF IInv, NoGap
    <2>4. PICK j \in Slots : n \in disk[j].lines
      BY <2>3, InOnDisk
    <2>5. j # Keep
      <3> SUFFICES ASSUME j = Keep PROVE FALSE
        OBVIOUS
      <3>1. i < j
        BY <2>1, KeepAssumption DEF Slots
      <3>2. n < a
        BY <3>1, <2>1, <2>4 DEF IInv, OlderIsHigher
      <3>3. QED
        BY <3>2, <2>2, <1>1
    <2>6. QED
      BY <2>4, <2>5, <1>2, InOnDisk
  <1>6. QED
    BY <1>3, <1>4, <1>5 DEF Content

\* Renaming onto a vacant slot moves lines and loses none.
LEMMA RenameContent ==
    ASSUME IInv, NEW k \in Slots, k < Keep, disk[k + 1].lines = {},
           disk' = Renamed(disk, k), written' = written
    PROVE  Content' /\ OnDisk(disk') = OnDisk(disk)
  <1>1. disk \in [Slots -> File] /\ k + 1 \in Slots /\ k \in Int
    BY KeepAssumption DEF IInv, TypeOK, Slots
  <1>2. /\ disk'[k].lines = {}
        /\ disk'[k + 1].lines = disk[k].lines
        /\ \A i \in Slots : i \notin {k, k + 1} => disk'[i].lines = disk[i].lines
    BY <1>1, RenamedFacts, GoneFacts
  <1>3. OnDisk(disk') = OnDisk(disk)
    <2>1. \A n : n \in OnDisk(disk') <=> n \in OnDisk(disk)
      BY <1>1, <1>2, InOnDisk
    <2>2. QED
      BY <2>1
  <1>4. Numbered'
    BY <1>1, <1>2 DEF IInv, Numbered
  <1>5. OlderIsHigher'
    <2> SUFFICES ASSUME NEW i \in Slots, NEW j \in Slots, i < j,
                        NEW a \in disk'[i].lines, NEW b \in disk'[j].lines
                 PROVE  b < a
      BY DEF OlderIsHigher
    <2>1. i \in Int /\ j \in Int
      BY DEF Slots
    <2>2. i # k /\ j # k
      BY <1>2
    <2>3. PICK i0 \in Slots : a \in disk[i0].lines /\ i0 = IF i = k + 1 THEN k ELSE i
      BY <1>2, <2>2
    <2>4. PICK j0 \in Slots : b \in disk[j0].lines /\ j0 = IF j = k + 1 THEN k ELSE j
      BY <1>2, <2>2
    <2>5. i0 < j0
      BY <1>1, <2>1, <2>2, <2>3, <2>4
    <2>6. QED
      BY <2>3, <2>4, <2>5 DEF IInv, OlderIsHigher
  <1>6. NoGap'
    BY <1>3 DEF IInv, NoGap
  <1>7. QED
    BY <1>3, <1>4, <1>5, <1>6 DEF Content

\* The newest line goes into a slot below which no slot holds a line.
LEMMA AppendContent ==
    ASSUME IInv, Append
    PROVE  Content'
  <1>1. /\ disk \in [Slots -> File] /\ written \in Nat /\ written' = written + 1
        /\ handle \in 0 .. Unlinked
    BY DEF IInv, TypeOK, Append
  <1>2. CASE handle = Unlinked
    <2>1. disk' = disk /\ \A i \in Slots : disk[i].lines = {}
      BY <1>2, KeepAssumption DEF Append, IInv, HandleIsNewest, Slots, Unlinked
    <2>2. OnDisk(disk') = {}
      BY <2>1, InOnDisk
    <2>3. QED
      BY <2>1, <2>2 DEF Content, Numbered, OlderIsHigher, NoGap
  <1>3. CASE handle # Unlinked
    <2>1. handle \in Slots
      BY <1>1, <1>3, KeepAssumption DEF Slots, Unlinked
    <2>2. /\ disk'[handle].lines = disk[handle].lines \cup {written + 1}
          /\ \A i \in Slots : i # handle => disk'[i].lines = disk[i].lines
      <3>1. /\ disk' = Appended(disk, handle, written + 1, pending)
            /\ written + 1 \in Nat /\ pending \in Nat
        BY <1>1, <1>3 DEF Append, IInv, TypeOK
      <3>2. QED
        BY <1>1, <2>1, <3>1, AppendedFacts
    <2>3. \A i \in Slots : i < handle => disk'[i].lines = {}
      BY <2>2, <2>1 DEF IInv, HandleIsNewest, Slots
    <2>4. Numbered'
      BY <1>1, <2>2 DEF IInv, Numbered
    <2>5. OlderIsHigher'
      <3> SUFFICES ASSUME NEW i \in Slots, NEW j \in Slots, i < j,
                          NEW a \in disk'[i].lines, NEW b \in disk'[j].lines
                   PROVE  b < a
        BY DEF OlderIsHigher
      <3>1. i \in Int /\ j \in Int /\ handle \in Int
        BY <2>1 DEF Slots
      <3>2. handle <= i /\ handle < j
        BY <2>3, <3>1
      <3>3. b \in disk[j].lines /\ b \in 1 .. written
        BY <2>2, <3>1, <3>2 DEF IInv, Numbered
      <3>4. CASE a = written + 1
        BY <3>3, <3>4, <1>1
      <3>5. CASE a # written + 1
        BY <2>2, <3>3, <3>5 DEF IInv, OlderIsHigher
      <3>6. QED
        BY <3>4, <3>5
    <2>6. NoGap'
      <3>1. \A n : n \in OnDisk(disk') <=> n \in OnDisk(disk) \/ n = written + 1
        BY <2>1, <2>2, InOnDisk
      <3>2. \A n \in OnDisk(disk) : n \in Nat
        BY <1>1, InOnDisk DEF File
      <3> SUFFICES ASSUME NEW a \in OnDisk(disk'), NEW n \in a .. written'
                   PROVE  n \in OnDisk(disk')
        BY DEF NoGap
      <3>3. CASE n = written + 1
        BY <3>1, <3>3
      <3>4. CASE n # written + 1
        BY <1>1, <3>1, <3>2, <3>4 DEF IInv, NoGap
      <3>5. QED
        BY <3>3, <3>4
    <2>7. QED
      BY <2>4, <2>5, <2>6 DEF Content
  <1>4. QED
    BY <1>2, <1>3
\* Append adds its line to one file, or to none.
LEMMA AppendedLines ==
    ASSUME IInv, Append, NEW i \in Slots
    PROVE  /\ disk'[i].lines \subseteq disk[i].lines \cup {written + 1}
           /\ disk[i].lines \subseteq disk'[i].lines
  <1>1. CASE handle = Unlinked
    BY <1>1 DEF Append
  <1>2. CASE handle # Unlinked
    <2>1. /\ disk \in [Slots -> File] /\ written + 1 \in Nat /\ pending \in Nat
          /\ handle \in Slots
      BY <1>2, KeepAssumption DEF Append, IInv, TypeOK, Slots, Unlinked
    <2>2. disk' = Appended(disk, handle, written + 1, pending)
      BY <1>2 DEF Append
    <2>3. /\ disk'[handle].lines = disk[handle].lines \cup {written + 1}
          /\ \A j \in Slots : j # handle => disk'[j] = disk[j]
      BY <2>1, <2>2, AppendedFacts
    <2>4. QED
      BY <2>3
  <1>3. QED
    BY <1>1, <1>2
-----------------------------------------------------------------------------
\* What the actions other than the renames, the deletion and Append do to files.
Untouched == \A i \in Slots : /\ disk'[i].lines = disk[i].lines
                              /\ disk[i].present => disk'[i].present
                              /\ disk'[i].present \/ disk'[i] = disk[i]

LEMMA DiskSteps ==
    ASSUME IInv, [Next]_vars, ~RemoveOldest, ~ShiftGeneration, ~RenameLive, ~Append
    PROVE  disk' \in [Slots -> File] /\ Untouched
  <1>1. disk \in [Slots -> File] /\ 0 \in Slots
    BY KeepAssumption DEF IInv, TypeOK, Slots
  <1>2. CASE disk' = disk
    BY <1>1, <1>2 DEF Untouched
  <1>3. CASE disk' = Created(disk)
    <2>1. \A i \in Slots : i = 0 \/ Created(disk)[i] = disk[i]
      BY <1>1, CreatedFacts
    <2>2. QED
      BY <1>1, <1>3, <2>1, CreatedFacts DEF Untouched
  <1>4. CASE AppendFails
    <2>1. PICK torn \in 0 .. pending - 1 :
             disk' = IF handle = Unlinked THEN disk ELSE Torn(disk, handle, torn)
      BY <1>4 DEF AppendFails
    <2>2. CASE handle = Unlinked
      BY <1>1, <2>1, <2>2 DEF Untouched
    <2>3. CASE handle # Unlinked
      <3>1. handle \in Slots /\ disk[handle] \in File /\ disk[handle].present
        BY <1>1, <1>4, <2>3, KeepAssumption
        DEF IInv, TypeOK, HandleIsNewest, Slots, Unlinked, AppendFails, PCs
      <3>2. torn \in Nat
        BY <2>1 DEF IInv, TypeOK
      <3>3. QED
        <4>1. disk' = Torn(disk, handle, torn)
          BY <2>1, <2>3
        <4>2. /\ disk' \in [Slots -> File]
              /\ disk'[handle].present /\ disk'[handle].lines = disk[handle].lines
              /\ \A i \in Slots : i # handle => disk'[i] = disk[i]
          BY <1>1, <3>1, <3>2, <4>1, TornFacts
        <4>3. QED
          BY <1>1, <3>1, <4>2 DEF Untouched
    <2>4. QED
      BY <2>2, <2>3
  <1>5. QED
    BY <1>2, <1>3, <1>4
    DEF Next, vars, Open, OpenFails, Write, RemoveFails, RenameFails, Reopen,
        ReopenFails, Crash

LEMMA ContentStep == IInv /\ [Next]_vars => Content'
  <1> SUFFICES ASSUME IInv, [Next]_vars PROVE Content'
    OBVIOUS
  <1>0. Content
    BY DEF IInv, Content
  <1>1. CASE RemoveOldest
    BY <1>1, RemoveContent DEF RemoveOldest
  <1>2. CASE ShiftGeneration \/ RenameLive
    <2> DEFINE k == index
    <2>1. k \in Slots /\ k < Keep /\ k + 1 \in Slots /\ written' = written
      BY <1>2, KeepAssumption DEF IInv, TypeOK, Slots, ShiftGeneration, RenameLive
    <2>2. disk[k + 1].lines = {}
      BY <1>2, <2>1, GoneFacts
      DEF IInv, AbsentIsEmpty, TargetVacant, ShiftGeneration, RenameLive
    <2>3. disk' = disk \/ disk' = Renamed(disk, k)
      BY <1>2 DEF ShiftGeneration, RenameLive, RenameSlot
    <2>4. QED
      BY <1>0, <2>1, <2>2, <2>3, RenameContent, SameContent
  <1>3. CASE Append
    BY <1>3, AppendContent
  <1>4. CASE ~RemoveOldest /\ ~ShiftGeneration /\ ~RenameLive /\ ~Append
    <2>1. written' = written
      BY <1>4
      DEF Next, vars, Open, OpenFails, Write, RemoveFails, RenameFails, Reopen,
          ReopenFails, AppendFails, Crash, GiveUpRotation, Fault
    <2>2. QED
      BY <1>0, <1>4, <2>1, DiskSteps, SameContent DEF Untouched
  <1>5. QED
    BY <1>1, <1>2, <1>3, <1>4
-----------------------------------------------------------------------------
Rename == ShiftGeneration \/ RenameLive

\* Where a rename's slot and target are, and what the step does to the handle.
LEMMA RenameStep ==
    ASSUME IInv, Rename
    PROVE  /\ index \in Slots /\ index < Keep /\ index + 1 \in Slots
           /\ disk[index + 1].lines = {}
           /\ handle # index + 1
           /\ disk' \in [Slots -> File]
           /\ \A i \in Slots : i \notin {index, index + 1} => disk'[i] = disk[i]
           /\ disk[index].present =>
                 /\ disk'[index] = Gone
                 /\ disk'[index + 1] = disk[index]
                 /\ handle' = IF handle = index THEN index + 1 ELSE handle
           /\ ~disk[index].present => disk' = disk /\ handle' = handle
           /\ ~disk'[index].present
  <1>1. /\ disk \in [Slots -> File] /\ pc = "shift"
        /\ index \in Slots /\ index < Keep /\ index + 1 \in Slots
        /\ handle \in 0 .. Keep + 1
    BY KeepAssumption
    DEF IInv, TypeOK, Slots, Unlinked, Rename, ShiftGeneration, RenameLive
  <1>2. ~disk[index + 1].present /\ disk[index + 1].lines = {}
    BY <1>1, GoneFacts DEF IInv, TargetVacant, AbsentIsEmpty
  <1>3. handle # index + 1
    BY <1>1, <1>2, KeepAssumption DEF IInv, HandleIsNewest, PCs, Slots, Unlinked
  <1>4. RenameSlot(index)
    BY DEF Rename, ShiftGeneration, RenameLive
  <1>5. CASE disk[index].present
    <2>1. /\ disk' = Renamed(disk, index)
          /\ handle' = IF handle = index THEN index + 1 ELSE handle
      BY <1>3, <1>4, <1>5 DEF RenameSlot, HandleAfterRename
    <2>2. QED
      BY <1>1, <1>2, <1>3, <1>5, <2>1, RenamedFacts, GoneFacts
  <1>6. CASE ~disk[index].present
    BY <1>1, <1>2, <1>3, <1>4, <1>6 DEF RenameSlot
  <1>7. QED
    BY <1>5, <1>6

LEMMA TypeStep == IInv /\ [Next]_vars => TypeOK'
  <1> SUFFICES ASSUME IInv, [Next]_vars PROVE TypeOK'
    OBVIOUS
  <1>1. TypeOK
    BY DEF IInv
  <1>2. disk' \in [Slots -> File]
    <2>1. CASE RemoveOldest
      BY <1>1, <2>1, RemovedFacts, KeepAssumption DEF RemoveOldest, TypeOK, Slots
    <2>2. CASE Rename
      BY <2>2, RenameStep
    <2>3. CASE Append
      <3>1. CASE handle = Unlinked
        BY <1>1, <2>3, <3>1 DEF Append, TypeOK
      <3>2. CASE handle # Unlinked
        <4>1. handle \in Slots /\ disk[handle] \in File /\ written + 1 \in Nat
          BY <1>1, <3>2, KeepAssumption DEF TypeOK, Slots, Unlinked
        <4>2. QED
          BY <1>1, <2>3, <3>2, <4>1, AppendedFacts DEF Append, TypeOK
      <3>3. QED
        BY <3>1, <3>2
    <2>4. QED
      BY <2>1, <2>2, <2>3, DiskSteps DEF Rename
  <1>3. (pc' \in PCs /\ index' \in Nat /\ (pc' = "shift" => index' < Keep))
    BY <1>1, KeepAssumption, RenameStep
    DEF TypeOK, PCs, Next, vars, Rename, Open, OpenFails, Write, RemoveOldest,
        RemoveFails, ShiftGeneration, RenameLive, RenameFails, Reopen, ReopenFails,
        Append, AppendFails, Crash, GiveUpRotation, FirstShift
  <1>4. handle' \in 0 .. Unlinked
    <2>1. CASE Rename
      BY <1>1, <2>1, RenameStep, KeepAssumption DEF TypeOK, Slots, Unlinked
    <2>2. CASE ~Rename
      BY <1>1, <2>2, KeepAssumption
      DEF TypeOK, Unlinked, Next, vars, Rename, Open, OpenFails, Write, RemoveOldest,
          RemoveFails, RenameFails, Reopen, ReopenFails, Append, AppendFails, Crash,
          HandleAfterRemove
    <2>3. QED
      BY <2>1, <2>2
  <1>5. size' \in Nat /\ written' \in Nat
    <2>1. \A i \in Slots : disk[i].bytes \in Nat
      BY <1>1 DEF TypeOK, File
    <2>2. 0 \in Slots
      BY KeepAssumption DEF Slots
    <2>3. QED
      BY <1>1, <2>1, <2>2
      DEF TypeOK, Next, vars, Open, OpenFails, Write, RemoveOldest, RemoveFails,
          ShiftGeneration, RenameLive, RenameFails, Reopen, ReopenFails, Append,
          AppendFails, Crash
  <1>6. pending' \in Nat /\ (pc' \in PCs \ {"down", "idle"} => pending' \in Lens)
    BY <1>1, LogAssumption
    DEF TypeOK, PCs, Next, vars, Open, OpenFails, Write, RemoveOldest, RemoveFails,
        ShiftGeneration, RenameLive, RenameFails, Reopen, ReopenFails, Append,
        AppendFails, Crash, GiveUpRotation
  <1>7. stale' \in 0 .. Keep + 1 /\ faults' \in Nat
    BY <1>1, KeepAssumption
    DEF TypeOK, Next, vars, Open, OpenFails, Write, RemoveOldest, RemoveFails,
        ShiftGeneration, RenameLive, RenameFails, Reopen, ReopenFails, Append,
        AppendFails, Crash, GiveUpRotation, Fault
  <1>8. QED
    BY <1>2, <1>3, <1>4, <1>5, <1>6, <1>7 DEF TypeOK
-----------------------------------------------------------------------------
\* Append as a step on the file under the handle.
LEMMA AppendStep ==
    ASSUME IInv, Append, handle # Unlinked
    PROVE  /\ handle \in Slots
           /\ disk'[handle].present
           /\ disk'[handle].lines = disk[handle].lines \cup {written + 1}
           /\ disk'[handle].bytes = disk[handle].bytes + pending
           /\ \A i \in Slots : i # handle => disk'[i] = disk[i]
  <1>1. /\ handle \in Slots /\ disk \in [Slots -> File]
        /\ written + 1 \in Nat /\ pending \in Nat
        /\ disk' = Appended(disk, handle, written + 1, pending)
        /\ disk[handle].present
    BY KeepAssumption
    DEF IInv, TypeOK, HandleIsNewest, Append, Slots, Unlinked, PCs
  <1>2. QED
    BY <1>1, AppendedFacts

LEMMA AbsentStep == IInv /\ [Next]_vars => AbsentIsEmpty'
  <1> SUFFICES ASSUME IInv, [Next]_vars PROVE AbsentIsEmpty'
    OBVIOUS
  <1>0. AbsentIsEmpty /\ disk \in [Slots -> File]
    BY DEF IInv, TypeOK
  <1>1. CASE RemoveOldest
    BY <1>0, <1>1, RemovedFacts, GoneFacts, KeepAssumption
    DEF RemoveOldest, AbsentIsEmpty, Slots
  <1>2. CASE Rename
    BY <1>0, <1>2, RenameStep DEF AbsentIsEmpty
  <1>3. CASE Append
    <2>1. CASE handle = Unlinked
      BY <1>0, <1>3, <2>1 DEF Append, AbsentIsEmpty
    <2>2. CASE handle # Unlinked
      BY <1>0, <1>3, <2>2, AppendStep DEF AbsentIsEmpty
    <2>3. QED
      BY <2>1, <2>2
  <1>4. CASE ~RemoveOldest /\ ~Rename /\ ~Append
    BY <1>0, <1>4, DiskSteps DEF Rename, Untouched, AbsentIsEmpty
  <1>5. QED
    BY <1>1, <1>2, <1>3, <1>4

LEMMA HandleStep == IInv /\ [Next]_vars => HandleIsNewest' /\ TargetVacant'
  <1> SUFFICES ASSUME IInv, [Next]_vars PROVE HandleIsNewest' /\ TargetVacant'
    OBVIOUS
  <1>0. /\ TypeOK /\ AbsentIsEmpty /\ HandleIsNewest /\ TargetVacant
        /\ disk \in [Slots -> File] /\ 0 \in Slots /\ Keep \in Slots
    BY KeepAssumption DEF IInv, TypeOK, Slots
  <1>1. CASE RemoveOldest
    <2>1. /\ ~disk'[Keep].present /\ disk'[Keep].lines = {}
          /\ \A i \in Slots : i # Keep => disk'[i] = disk[i]
          /\ handle' = IF handle = Keep THEN Keep + 1 ELSE handle
          /\ pc = "remove" /\ pc' # "down"
          /\ pc' = "shift" => index' + 1 = Keep
          /\ pc' = "reopen" => Keep = 0
      BY <1>0, <1>1, RemovedFacts, GoneFacts, KeepAssumption
      DEF RemoveOldest, HandleAfterRemove, Unlinked, FirstShift
    <2>2. handle' # Unlinked => disk'[handle'].present
      BY <1>0, <2>1, KeepAssumption
      DEF TypeOK, HandleIsNewest, PCs, Slots, Unlinked
    <2>3. \A i \in Slots : i < handle' => disk'[i].lines = {}
      BY <1>0, <2>1, KeepAssumption DEF TypeOK, HandleIsNewest, Slots, Unlinked
    <2>4. TargetVacant'
      BY <2>1 DEF TargetVacant
    <2>5. QED
      BY <2>1, <2>2, <2>3, <2>4 DEF HandleIsNewest, Unlinked
  <1>2. CASE Rename
    <2>1. pc = "shift" /\ pc' # "down" /\ handle \in 0 .. Keep + 1
      BY <1>0, <1>2 DEF Rename, ShiftGeneration, RenameLive, TypeOK, Unlinked
    <2>2. handle' # Unlinked => disk'[handle'].present
      BY <1>0, <1>2, <2>1, RenameStep, KeepAssumption
      DEF HandleIsNewest, PCs, Slots, Unlinked
    <2>3. \A i \in Slots : i < handle' => disk'[i].lines = {}
      <3>1. \A i \in Slots : i \in Int
        BY DEF Slots
      <3>2. handle \in Int /\ index \in Int
        BY <2>1, <1>0 DEF TypeOK
      <3>3. CASE ~disk[index].present
        BY <1>0, <1>2, <3>3, RenameStep DEF HandleIsNewest
      <3>4. CASE disk[index].present
        <4> SUFFICES ASSUME NEW i \in Slots, i < handle' PROVE disk'[i].lines = {}
          OBVIOUS
        <4>1. CASE i = index
          BY <1>2, <3>4, <4>1, RenameStep, GoneFacts
        <4>2. CASE i = index + 1
          <5>1. index < handle
            BY <1>2, <3>1, <3>2, <3>4, <4>2, RenameStep
          <5>2. QED
            BY <1>0, <1>2, <3>4, <4>2, <5>1, RenameStep DEF HandleIsNewest
        <4>3. CASE i \notin {index, index + 1}
          <5>1. i < handle
            BY <1>2, <3>1, <3>2, <3>4, <4>3, RenameStep
          <5>2. QED
            BY <1>0, <1>2, <4>3, <5>1, RenameStep DEF HandleIsNewest
        <4>4. QED
          BY <4>1, <4>2, <4>3
      <3>5. QED
        BY <3>3, <3>4
    <2>4. TargetVacant'
      <3>1. \/ pc' = "shift" /\ index' + 1 = index
            \/ pc' = "reopen" /\ index = 0
        BY <1>0, <1>2 DEF Rename, ShiftGeneration, RenameLive, TypeOK
      <3>2. QED
        BY <1>2, <3>1, RenameStep DEF TargetVacant
    <2>5. QED
      BY <2>1, <2>2, <2>3, <2>4 DEF HandleIsNewest, Unlinked
  <1>3. CASE Append
    <2>1. pc' = "idle" /\ pc = "append" /\ handle' = handle
      BY <1>3 DEF Append
    <2>2. CASE handle = Unlinked
      BY <1>0, <1>3, <2>1, <2>2 DEF Append, HandleIsNewest, TargetVacant, Unlinked
    <2>3. CASE handle # Unlinked
      <3>1. \A i \in Slots : i < handle => i # handle
        BY <1>0 DEF TypeOK, Slots
      <3>2. QED
        BY <1>0, <1>3, <2>1, <2>3, <3>1, AppendStep
        DEF HandleIsNewest, TargetVacant, Unlinked
    <2>4. QED
      BY <2>2, <2>3
  <1>4. CASE ~RemoveOldest /\ ~Rename /\ ~Append
    <2>1. Untouched
      BY <1>4, DiskSteps DEF Rename
    <2>2. \/ handle' = handle /\ (pc' = pc \/ (pc \in PCs \ {"down"} /\ pc' # "down"))
             /\ pc' \notin {"shift", "reopen"}
          \/ handle' = 0 /\ disk' = Created(disk) /\ pc' \notin {"shift", "reopen"}
          \/ handle' = 0 /\ pc' = "down"
          \/ handle' = handle /\ pc' = pc /\ disk' = disk /\ index' = index
      <3>1. CASE Open \/ Reopen
        BY <3>1 DEF Open, Reopen
      <3>2. CASE OpenFails \/ AppendFails
        BY <3>2 DEF OpenFails, AppendFails, PCs
      <3>6. ASSUME NEW len \in Lens, Write(len)
            PROVE  handle' = handle /\ pc = "idle" /\ pc' \in {"remove", "append"}
        BY <3>6 DEF Write
      <3>3. CASE RemoveFails \/ RenameFails \/ ReopenFails
        BY <3>3 DEF RemoveFails, RenameFails, ReopenFails, GiveUpRotation, PCs
      <3>4. CASE Crash \/ UNCHANGED vars
        BY <3>4 DEF Crash, vars
      <3>5. QED
        BY <1>4, <3>1, <3>2, <3>3, <3>4, <3>6 DEF Next, Rename, PCs
    <2>3. \A i \in Slots : i \in Nat /\ ~(i < 0)
      BY DEF Slots
    <2>4. CASE /\ handle' = handle
               /\ pc' = pc \/ (pc \in PCs \ {"down"} /\ pc' # "down")
               /\ pc' \notin {"shift", "reopen"}
      <3>1. handle # Unlinked => handle \in Slots
        BY <1>0, KeepAssumption DEF TypeOK, Slots, Unlinked
      <3>2. QED
        BY <1>0, <2>1, <2>4, <3>1 DEF HandleIsNewest, TargetVacant, Untouched, Unlinked
    <2>5. CASE handle' = 0 /\ disk' = Created(disk) /\ pc' \notin {"shift", "reopen"}
      BY <1>0, <2>3, <2>5, CreatedFacts DEF HandleIsNewest, TargetVacant
    <2>6. CASE handle' = 0 /\ pc' = "down"
      BY <2>3, <2>6 DEF HandleIsNewest, TargetVacant
    <2>7. CASE handle' = handle /\ pc' = pc /\ disk' = disk /\ index' = index
      BY <1>0, <2>7 DEF HandleIsNewest, TargetVacant, Unlinked
    <2>8. QED
      BY <2>2, <2>4, <2>5, <2>6, <2>7
  <1>5. QED
    BY <1>1, <1>2, <1>3, <1>4

LEMMA BehindStep == IInv /\ [Next]_vars => HandleBehind'
  <1> SUFFICES ASSUME IInv, [Next]_vars PROVE HandleBehind'
    OBVIOUS
  <1>0. TypeOK /\ HandleBehind /\ handle \in Nat /\ stale \in Nat /\ handle <= Keep + 1
    BY KeepAssumption DEF IInv, TypeOK, Unlinked
  <1>1. CASE Rename
    <2>1. handle' \in {handle, index + 1} /\ (handle' # handle => handle = index)
      BY <1>1, RenameStep
    <2>2. QED
      BY <1>0, <1>1, <2>1, RenameStep, KeepAssumption
      DEF TypeOK, HandleBehind, Rename, ShiftGeneration, RenameLive
  <1>2. CASE RemoveOldest
    BY <1>0, <1>2, KeepAssumption
    DEF TypeOK, HandleBehind, RemoveOldest, HandleAfterRemove, Unlinked, FirstShift
  <1>3. CASE RemoveFails \/ RenameFails \/ ReopenFails
    BY <1>0, <1>3, KeepAssumption
    DEF TypeOK, HandleBehind, RemoveFails, RenameFails, ReopenFails, GiveUpRotation
  <1>4. CASE Open \/ OpenFails \/ Reopen \/ Crash
    BY <1>0, <1>4 DEF TypeOK, HandleBehind, Open, OpenFails, Reopen, Crash
  <1>5. CASE (\E len \in Lens : Write(len)) \/ Append \/ AppendFails \/ UNCHANGED vars
    BY <1>0, <1>5 DEF HandleBehind, Write, Append, AppendFails, vars
  <1>6. QED
    BY <1>1, <1>2, <1>3, <1>4, <1>5 DEF Next, Rename

THEOREM Inductive == Spec => []IInv
  <1>1. Init => IInv
    BY InitIInv
  <1>2. IInv /\ [Next]_vars => IInv'
    BY TypeStep, ContentStep, AbsentStep, HandleStep, BehindStep DEF IInv, Content
  <1>3. QED
    BY <1>1, <1>2, PTL DEF Spec
-----------------------------------------------------------------------------
(* The size of the files.                                                   *)

LEMMA BytesStep == IInv /\ BytesCount /\ [Next]_vars => BytesCount'
  <1> SUFFICES ASSUME IInv, BytesCount, [Next]_vars PROVE BytesCount'
    OBVIOUS
  <1>0. disk \in [Slots -> File] /\ Keep \in Slots
    BY KeepAssumption DEF IInv, TypeOK, Slots
  <1>1. CASE RemoveOldest
    BY <1>0, <1>1, RemovedFacts, GoneFacts DEF RemoveOldest, BytesCount
  <1>2. CASE Rename
    BY <1>2, RenameStep, GoneFacts DEF BytesCount
  <1>3. CASE Append
    <2>1. CASE handle = Unlinked
      BY <1>3, <2>1 DEF Append, BytesCount
    <2>2. CASE handle # Unlinked
      <3>1. disk[handle].bytes \in Nat /\ pending \in Nat \ {0}
        BY <1>0, <1>3, <2>2, AppendStep, LogAssumption DEF IInv, TypeOK, File, PCs, Append
      <3>2. disk'[handle].bytes # 0
        BY <1>3, <2>2, <3>1, AppendStep
      <3>3. QED
        BY <1>3, <2>2, <3>2, AppendStep DEF BytesCount
    <2>3. QED
      BY <2>1, <2>2
  <1>4. CASE AppendFails
    <2>1. PICK torn \in 0 .. pending - 1 :
             disk' = IF handle = Unlinked THEN disk ELSE Torn(disk, handle, torn)
      BY <1>4 DEF AppendFails
    <2>2. CASE handle = Unlinked
      BY <2>1, <2>2 DEF BytesCount
    <2>3. CASE handle # Unlinked
      <3>1. handle \in Slots /\ torn \in Nat /\ disk[handle].bytes \in Nat
        BY <1>0, <2>1, <2>3, KeepAssumption DEF IInv, TypeOK, Slots, Unlinked, File
      <3>2. /\ disk'[handle].lines = disk[handle].lines
            /\ disk'[handle].bytes = disk[handle].bytes + torn
            /\ \A i \in Slots : i # handle => disk'[i] = disk[i]
        BY <1>0, <2>1, <2>3, <3>1, TornFacts
      <3>3. disk'[handle].bytes = 0 => disk[handle].bytes = 0
        BY <3>1, <3>2
      <3>4. disk'[handle].bytes = 0 => disk'[handle].lines = {}
        BY <3>1, <3>2, <3>3 DEF BytesCount
      <3>5. QED
        BY <3>2, <3>4 DEF BytesCount
    <2>4. QED
      BY <2>2, <2>3
  <1>5. CASE disk' = disk \/ disk' = Created(disk)
    BY <1>0, <1>5, CreatedFacts DEF BytesCount
  <1>6. QED
    BY <1>1, <1>2, <1>3, <1>4, <1>5
    DEF Next, vars, Rename, Open, OpenFails, Write, RemoveFails, RenameFails, Reopen,
        ReopenFails, Crash

LEMMA ExactStep == IInv /\ BytesCount /\ SizeExact /\ [Next]_vars => SizeExact'
  <1> SUFFICES ASSUME IInv, BytesCount, SizeExact, [Next]_vars, faults' = 0,
                      pc' \in {"idle", "append"}
               PROVE  /\ handle' # Unlinked
                      /\ size' = disk'[handle'].bytes
                      /\ pc' = "append" => size' = 0 \/ size' + pending' <= MaxBytes
    BY DEF SizeExact
  <1>0. /\ disk \in [Slots -> File] /\ 0 \in Slots /\ faults \in Nat
        /\ pc = "down" => handle = 0
    BY KeepAssumption DEF IInv, TypeOK, Slots, HandleIsNewest
  <1>1. CASE Open
    BY <1>0, <1>1, CreatedFacts, KeepAssumption DEF Open, Unlinked
  <1>2. ASSUME NEW len \in Lens, Write(len)
        PROVE  /\ handle' # Unlinked
               /\ size' = disk'[handle'].bytes
               /\ pc' = "append" => size' = 0 \/ size' + pending' <= MaxBytes
    <2>1. len \in Nat /\ size \in Nat /\ MaxBytes \in Nat
      BY LogAssumption DEF IInv, TypeOK
    <2>2. QED
      BY <1>2, <2>1 DEF Write, SizeExact, NeedsRotation, Unlinked
  <1>3. CASE Reopen
    <2>1. disk[0] = Gone
      BY <1>0, <1>3 DEF Reopen, IInv, TargetVacant, AbsentIsEmpty
    <2>2. QED
      BY <1>0, <1>3, <2>1, CreatedFacts, GoneFacts, KeepAssumption DEF Reopen, Unlinked
  <1>4. CASE Append
    <2>1. handle # Unlinked /\ size = disk[handle].bytes
      BY <1>0, <1>4 DEF Append, SizeExact
    <2>2. QED
      BY <1>4, <2>1, AppendStep DEF Append, Unlinked
  <1>5. CASE OpenFails \/ RemoveFails \/ RenameFails \/ ReopenFails \/ AppendFails
    <2>1. faults' = faults + 1
      BY <1>5
      DEF OpenFails, RemoveFails, RenameFails, ReopenFails, AppendFails,
          GiveUpRotation, Fault
    <2>2. QED
      BY <1>0, <2>1
  <1>6. CASE UNCHANGED vars
    BY <1>6 DEF vars, SizeExact, Unlinked
  <1>7. CASE RemoveOldest \/ Rename \/ Crash
    BY <1>7 DEF RemoveOldest, Rename, ShiftGeneration, RenameLive, Crash
  <1>8. QED
    BY <1>1, <1>2, <1>3, <1>4, <1>5, <1>6, <1>7 DEF Next, Rename

LEMMA BoundStep ==
    IInv /\ BytesCount /\ SizeExact /\ CleanBound /\ [Next]_vars => CleanBound'
  <1> SUFFICES ASSUME IInv, BytesCount, SizeExact, CleanBound, [Next]_vars, faults' = 0,
                      NEW i \in Slots
               PROVE  Bounded(disk'[i])
    BY DEF CleanBound
  <1>0. /\ disk \in [Slots -> File] /\ Keep \in Slots /\ faults \in Nat /\ MaxBytes \in Nat
        /\ Bounded(Gone)
    BY KeepAssumption, LogAssumption, GoneFacts DEF IInv, TypeOK, Slots, Bounded
  <1>1. faults = 0 /\ \A j \in Slots : Bounded(disk[j])
    BY <1>0
    DEF CleanBound, Next, vars, Open, OpenFails, Write, RemoveOldest, RemoveFails,
        ShiftGeneration, RenameLive, RenameFails, Reopen, ReopenFails, Append,
        AppendFails, Crash, GiveUpRotation, Fault
  <1>2. CASE RemoveOldest
    BY <1>0, <1>1, <1>2, RemovedFacts DEF RemoveOldest
  <1>3. CASE Rename
    BY <1>0, <1>1, <1>3, RenameStep
  <1>4. CASE Append
    <2>1. handle # Unlinked /\ size = disk[handle].bytes
          /\ (size = 0 \/ size + pending <= MaxBytes)
      BY <1>1, <1>4 DEF Append, SizeExact
    <2>2. CASE i # handle
      BY <1>1, <1>4, <2>1, <2>2, AppendStep
    <2>3. CASE i = handle /\ size = 0
      <3>1. disk'[i].lines = {written + 1}
        BY <1>4, <2>1, <2>3, AppendStep DEF BytesCount
      <3>2. QED
        BY <3>1 DEF Bounded
    <2>4. CASE i = handle /\ size + pending <= MaxBytes
      BY <1>4, <2>1, <2>4, AppendStep DEF Bounded
    <2>5. QED
      BY <2>1, <2>2, <2>3, <2>4
  <1>5. CASE disk' = disk \/ disk' = Created(disk)
    BY <1>0, <1>1, <1>5, CreatedFacts DEF Bounded
  <1>6. CASE AppendFails
    BY <1>0, <1>1, <1>6 DEF AppendFails, Fault
  <1>7. QED
    BY <1>2, <1>3, <1>4, <1>5, <1>6
    DEF Next, vars, Rename, Open, OpenFails, Write, RemoveFails, RenameFails, Reopen,
        ReopenFails, Crash
\* The slack grows with the failing calls, by one line each.
LEMMA SlackStep == IInv /\ Slack /\ [Next]_vars => Slack'
  <1> SUFFICES ASSUME IInv, Slack, [Next]_vars PROVE Slack'
    OBVIOUS
  <1> DEFINE E == faults * Longest
             F == faults' * Longest
  <1>0. /\ disk \in [Slots -> File] /\ 0 \in Slots /\ Keep \in Slots /\ faults \in Nat
        /\ size \in Nat /\ pending \in Nat /\ handle \in 0 .. Unlinked
        /\ \A i \in Slots : disk[i].bytes \in Nat
    BY KeepAssumption DEF IInv, TypeOK, Slots, File
  <1>1. /\ Longest \in Nat /\ Limit \in Nat /\ Longest <= Limit /\ MaxBytes <= Limit
        /\ \A len \in Lens : len \in Nat /\ len <= Longest
        /\ E \in Nat /\ (faults' = faults => F = E)
        /\ (faults' = faults + 1 => F = E + Longest)
    BY <1>0, LimitFacts, LogAssumption
  <1>2. handle # Unlinked => handle \in Slots
    BY <1>0, KeepAssumption DEF Slots, Unlinked
  <1>3. /\ \A i \in Slots : disk[i].bytes <= Limit + E
        /\ pc # "down" /\ handle # Unlinked => disk[handle].bytes <= size + E
        /\ pc = "append" /\ handle # Unlinked => disk[handle].bytes + pending <= Limit + E
    BY DEF Slack
  <1>4. pc \in {"remove", "shift", "reopen", "append"} => pending <= Longest
    BY <1>1 DEF IInv, TypeOK, PCs
  <1> HIDE DEF E, F
  <1> SUFFICES
        /\ \A i \in Slots : disk'[i].bytes <= Limit + F
        /\ pc' # "down" /\ handle' # Unlinked => disk'[handle'].bytes <= size' + F
        /\ pc' = "append" /\ handle' # Unlinked => disk'[handle'].bytes + pending' <= Limit + F
    <2>1. Longest' = Longest /\ Limit' = Limit
      BY DEF Longest, Limit
    <2>2. QED
      BY <2>1 DEF Slack, F, Unlinked
  <1>5. CASE Open
    BY <1>0, <1>1, <1>3, <1>5, CreatedFacts DEF Open
  <1>6. CASE OpenFails
    BY <1>0, <1>1, <1>3, <1>6, CreatedFacts DEF OpenFails, Fault
  <1>7. ASSUME NEW len \in Lens, Write(len)
        PROVE  /\ \A i \in Slots : disk'[i].bytes <= Limit + F
               /\ pc' # "down" /\ handle' # Unlinked => disk'[handle'].bytes <= size' + F
               /\ pc' = "append" /\ handle' # Unlinked =>
                     disk'[handle'].bytes + pending' <= Limit + F
    <2>1. /\ disk' = disk /\ handle' = handle /\ size' = size /\ pending' = len /\ F = E
          /\ pc = "idle" /\ pc' \in {"remove", "append"}
      BY <1>1, <1>7 DEF Write
    <2>2. pc' = "append" => size = 0 \/ size + len <= MaxBytes
      <3>1. MaxBytes \in Nat /\ len \in Nat
        BY <1>1, LogAssumption
      <3>2. QED
        BY <1>0, <1>7, <3>1 DEF Write, NeedsRotation
    <2>3. MaxBytes \in Nat /\ len \in Nat /\ len <= Longest
      BY <1>1, LogAssumption
    <2>4. QED
      BY <1>0, <1>1, <1>2, <1>3, <2>1, <2>2, <2>3
  <1>8. CASE RemoveOldest
    BY <1>0, <1>1, <1>2, <1>3, <1>8, RemovedFacts, GoneFacts DEF RemoveOldest, HandleAfterRemove
  <1>9. CASE Rename
    <2>1. /\ F = E /\ size' = size /\ pc = "shift" /\ pc' \in {"shift", "reopen"}
      BY <1>1, <1>9 DEF Rename, ShiftGeneration, RenameLive
    <2>2. \A i \in Slots : disk'[i].bytes <= Limit + E
      BY <1>0, <1>1, <1>3, <1>9, RenameStep, GoneFacts
    <2>3. handle' # Unlinked => handle # Unlinked /\ disk'[handle'].bytes = disk[handle].bytes
      BY <1>0, <1>2, <1>9, RenameStep, KeepAssumption DEF Slots, Unlinked
    <2>4. QED
      BY <1>3, <2>1, <2>2, <2>3
  <1>10. CASE Reopen
    <2>1. disk[0].bytes = 0
      BY <1>0, <1>10, GoneFacts DEF Reopen, IInv, TargetVacant, AbsentIsEmpty
    <2>2. QED
      BY <1>0, <1>1, <1>3, <1>4, <1>10, <2>1, CreatedFacts DEF Reopen
  <1>11. CASE RemoveFails \/ RenameFails \/ ReopenFails
    <2>1. /\ faults' = faults + 1 /\ handle' = handle /\ size' = size /\ pending' = pending
          /\ disk' \in {disk, Created(disk)} /\ pc \in {"remove", "shift", "reopen"}
      BY <1>11 DEF RemoveFails, RenameFails, ReopenFails, GiveUpRotation, Fault
    <2>2. \A i \in Slots : disk'[i].bytes = disk[i].bytes
      BY <1>0, <2>1, CreatedFacts
    <2>3. F = E + Longest /\ pending <= Longest
      BY <1>1, <1>4, <2>1
    <2>4. QED
      BY <1>0, <1>1, <1>2, <1>3, <2>1, <2>2, <2>3
  <1>12. CASE Append
    <2>1. F = E /\ size' = size + pending /\ pc' = "idle" /\ handle' = handle /\ pc = "append"
      BY <1>1, <1>12 DEF Append
    <2>2. CASE handle = Unlinked
      BY <1>3, <1>12, <2>1, <2>2 DEF Append
    <2>3. CASE handle # Unlinked
      BY <1>0, <1>1, <1>2, <1>3, <1>12, <2>1, <2>3, AppendStep
    <2>4. QED
      BY <2>2, <2>3
  <1>13. CASE AppendFails
    <2>1. PICK torn \in 0 .. pending - 1 :
             disk' = IF handle = Unlinked THEN disk ELSE Torn(disk, handle, torn)
      BY <1>13 DEF AppendFails
    <2>2. /\ F = E + Longest /\ size' = size /\ pc' = "idle" /\ handle' = handle
          /\ pc = "append" /\ torn \in Nat /\ torn <= pending /\ pending <= Longest
      BY <1>0, <1>1, <1>4, <1>13, <2>1 DEF AppendFails, Fault
    <2>3. CASE handle = Unlinked
      BY <1>0, <1>1, <1>3, <2>1, <2>2, <2>3
    <2>4. CASE handle # Unlinked
      <3>1. /\ disk'[handle].bytes = disk[handle].bytes + torn
            /\ \A i \in Slots : i # handle => disk'[i] = disk[i]
        BY <1>0, <1>2, <2>1, <2>2, <2>4, TornFacts
      <3>2. QED
        BY <1>0, <1>1, <1>2, <1>3, <2>2, <2>4, <3>1
    <2>5. QED
      BY <2>3, <2>4
  <1>14. CASE Crash
    BY <1>1, <1>3, <1>14 DEF Crash
  <1>15. CASE UNCHANGED vars
    BY <1>1, <1>3, <1>15 DEF vars
  <1>16. QED
    BY <1>5, <1>6, <1>7, <1>8, <1>9, <1>10, <1>11, <1>12, <1>13, <1>14, <1>15 DEF Next, Rename
-----------------------------------------------------------------------------
(* The variables of the writer always have their types, whatever fails.     *)
THEOREM TypeCorrect == Spec => []TypeOK
  BY Inductive, PTL DEF IInv

(* However rotations fail, are retried or are cut short by a crash, higher  *)
(* generations hold only older lines.                                       *)
THEOREM OrderPreserved == Spec => []OlderIsHigher
  BY Inductive, PTL DEF IInv

(* The lines on disk are always the newest ones, without a hole.            *)
THEOREM NoGapEver == Spec => []NoGap
  BY Inductive, PTL DEF IInv

(* The writer loses its file only after Keep consecutive failed rotations.  *)
THEOREM LossNeedsKeepFailures == Spec => []LostOnlyAfterKeepFailures
  <1>1. IInv => LostOnlyAfterKeepFailures
    BY KeepAssumption
    DEF IInv, TypeOK, HandleBehind, LostOnlyAfterKeepFailures, Unlinked
  <1>2. QED
    BY <1>1, Inductive, PTL

(* Without failing calls no file outgrows max_bytes, except by one line,    *)
(* and every failing call adds one line at most to what a file may hold.    *)
THEOREM SizeBounded == Spec => []SizeBound
  <1>1. Init => SizeInv
    BY InitIInv
  <1>2. IInv /\ SizeInv /\ [Next]_vars => SizeInv'
    BY BytesStep, ExactStep, BoundStep, SlackStep DEF SizeInv
  <1>3. SizeInv => SizeBound
    BY DEF SizeInv, CleanBound, Slack, SizeBound
  <1>4. QED
    BY <1>1, <1>2, <1>3, Inductive, PTL DEF Spec

(* Every step keeps every line, but for the deletion of the oldest file.    *)
THEOREM OnlyOldestLost == Spec => OnlyOldestDropped
  <1>1. IInv /\ [Next]_vars => [OnDisk(disk) \ OnDisk(disk') \subseteq disk[Keep].lines]_vars
    <2> SUFFICES ASSUME IInv, [Next]_vars
                 PROVE  OnDisk(disk) \ OnDisk(disk') \subseteq disk[Keep].lines
      OBVIOUS
    <2>0. disk \in [Slots -> File] /\ Keep \in Slots
      BY KeepAssumption DEF IInv, TypeOK, Slots
    <2>1. CASE RemoveOldest
      BY <2>0, <2>1, RemovedFacts, InOnDisk DEF RemoveOldest
    <2>2. CASE Rename
      <3>1. CASE disk[index].present
        <4>1. disk' = Renamed(disk, index) /\ written' = written
          BY <2>2, <3>1 DEF Rename, ShiftGeneration, RenameLive, RenameSlot
        <4>2. QED
          BY <2>2, <4>1, RenameStep, RenameContent
      <3>2. CASE ~disk[index].present
        BY <2>2, <3>2, RenameStep
      <3>3. QED
        BY <3>1, <3>2
    <2>3. CASE Append
      <3>1. \A i \in Slots : disk[i].lines \subseteq disk'[i].lines
        BY <2>3, AppendStep DEF Append
      <3>2. QED
        BY <3>1, InOnDisk
    <2>4. CASE ~RemoveOldest /\ ~Rename /\ ~Append
      BY <2>4, DiskSteps, InOnDisk DEF Rename, Untouched
    <2>5. QED
      BY <2>1, <2>2, <2>3, <2>4
  <1>2. QED
    BY <1>1, Inductive, PTL DEF Spec, OnlyOldestDropped
-----------------------------------------------------------------------------
(* The files as one log.                                                    *)

LEMMA RetainedStep ==
    ASSUME IInv, Content', [Next]_vars
    PROVE  [Retained!LogNext]_<<OnDisk(disk), written>>
  <1>0. /\ disk \in [Slots -> File] /\ Keep \in Slots
        /\ written \in Nat /\ \A n \in OnDisk(disk) : n \in 1 .. written
    BY KeepAssumption, InOnDisk DEF IInv, TypeOK, Numbered, Slots
  <1>1. CASE Append
    <2>0. /\ \A n \in OnDisk(disk') : n \in OnDisk(disk) \/ n = written + 1
          /\ OnDisk(disk) \subseteq OnDisk(disk')
      <3>1. \A i \in Slots : /\ disk'[i].lines \subseteq disk[i].lines \cup {written + 1}
                             /\ disk[i].lines \subseteq disk'[i].lines
        BY <1>1, AppendedLines
      <3>2. QED
        BY <3>1, InOnDisk
    <2>1. CASE written + 1 \in OnDisk(disk')
      <3>1. OnDisk(disk') = OnDisk(disk) \cup {written + 1}
        BY <2>0, <2>1
      <3>2. QED
        BY <1>1, <3>1 DEF Append, Retained!LogNext, Retained!Accept
    <2>2. CASE written + 1 \notin OnDisk(disk')
      <3>1. OnDisk(disk') = OnDisk(disk)
        BY <2>0, <2>2
      <3>2. \A a \in OnDisk(disk') : \A n \in a .. written + 1 : n \in OnDisk(disk')
        BY <1>1 DEF Append, Content, NoGap
      <3>3. \A a \in OnDisk(disk) : written + 1 \in a .. written + 1
        BY <1>0
      <3>4. OnDisk(disk) = {}
        BY <2>2, <3>1, <3>2, <3>3
      <3>5. QED
        BY <1>1, <3>1, <3>4 DEF Append, Retained!LogNext, Retained!Miss
    <2>3. QED
      BY <2>1, <2>2
  <1>2. CASE ~Append
    <2>1. written' = written
      BY <1>2 DEF Next, vars, Open, OpenFails, Write, RemoveOldest, RemoveFails, ShiftGeneration,
          RenameLive, RenameFails, Reopen, ReopenFails, AppendFails, Crash
    <2>2. OnDisk(disk') \subseteq OnDisk(disk)
      <3>1. CASE RemoveOldest
        BY <1>0, <3>1, RemovedFacts, GoneFacts, InOnDisk DEF RemoveOldest
      <3>2. CASE Rename
        <4>1. CASE disk[index].present
          <5>1. disk' = Renamed(disk, index) /\ written' = written
            BY <3>2, <4>1 DEF Rename, ShiftGeneration, RenameLive, RenameSlot
          <5>2. QED
            BY <3>2, <5>1, RenameStep, RenameContent
        <4>2. CASE ~disk[index].present
          BY <3>2, <4>2 DEF Rename, ShiftGeneration, RenameLive, RenameSlot
        <4>3. QED
          BY <4>1, <4>2
      <3>3. CASE ~RemoveOldest /\ ~Rename
        BY <1>2, <3>3, DiskSteps, InOnDisk DEF Rename, Untouched
      <3>4. QED
        BY <3>1, <3>2, <3>3
    <2>3. ASSUME NEW old \in OnDisk(disk) \ OnDisk(disk'), NEW kept \in OnDisk(disk')
          PROVE  old < kept
      <3>1. old \in 1 .. written /\ kept \in 1 .. written
        BY <1>0, <2>2
      <3>2. old \notin kept .. written
        BY <2>1 DEF Content, NoGap
      <3>3. QED
        BY <3>1, <3>2, <1>0
    <2>4. QED
      BY <2>1, <2>2, <2>3 DEF Retained!LogNext, Retained!Forget
  <1>3. QED
    BY <1>1, <1>2

(* The rotated files, failures, retries and restarts included, are a log    *)
(* that forgets from its old end only.                                      *)
THEOREM LogImplements == Spec => ImplementsRetainedLog
  <1>1. Init => Retained!LogInit
    <2> SUFFICES ASSUME Init PROVE OnDisk(disk) = {} /\ written = 0
      BY DEF Retained!LogInit
    <2>1. \A i \in Slots : disk[i].lines = {}
      BY GoneFacts DEF Init
    <2>2. QED
      BY <2>1, InOnDisk DEF Init
  <1>2. IInv /\ [Next]_vars => [Retained!LogNext]_<<OnDisk(disk), written>>
    BY ContentStep, RetainedStep
  <1>3. QED
    BY <1>1, <1>2, Inductive, PTL DEF Spec, ImplementsRetainedLog, Retained!LogSpec
=============================================================================
