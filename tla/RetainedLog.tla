---------------------------- MODULE RetainedLog ----------------------------
(***************************************************************************)
(* What a rotated log promises its reader (agent-rust/src/rotation.rs:1-6  *)
(* and 81-83), whatever fails, is retried or is cut short: it forgets from *)
(* its old end only, and it misses a new line only when it has nothing     *)
(* left.  How much it keeps is not said here.                              *)
(***************************************************************************)
EXTENDS Naturals

VARIABLES
    retained,   \* the lines in the log, numbered as they were accepted
    written     \* the number of the newest line

LogInit == retained = {} /\ written = 0

Accept ==
    /\ written' = written + 1
    /\ retained' = retained \cup {written + 1}

Miss ==
    /\ retained = {}
    /\ written' = written + 1
    /\ UNCHANGED retained

Forget ==
    /\ retained' \subseteq retained
    /\ \A old \in retained \ retained', kept \in retained' : old < kept
    /\ UNCHANGED written

LogNext == Accept \/ Miss \/ Forget

LogSpec == LogInit /\ [][LogNext]_<<retained, written>>
=============================================================================
