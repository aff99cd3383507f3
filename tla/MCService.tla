------------------------------ MODULE MCService ------------------------------
(* Service with two failing calls to the SCM: one in the handler and one in *)
(* ServiceMain.                                                             *)
EXTENDS Service
=============================================================================
