---------------------------- MODULE MCInstances ----------------------------
(* Instances with three agents: one that holds the lock, one that is dying  *)
(* and one that starts.                                                     *)
EXTENDS Instances
=============================================================================
