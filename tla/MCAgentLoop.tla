---------------------------- MODULE MCAgentLoop ----------------------------
(* AgentLoop with two process slots: the child being waited for and one     *)
(* killed earlier that has not gone yet.                                    *)
EXTENDS AgentLoop
=============================================================================
