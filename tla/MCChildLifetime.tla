--------------------------- MODULE MCChildLifetime ---------------------------
(* ChildLifetime with three process slots: the child being run and two      *)
(* killed ones that linger.                                                 *)
EXTENDS ChildLifetime, TLC

ChildSymmetry == Permutations(Children)
=============================================================================
