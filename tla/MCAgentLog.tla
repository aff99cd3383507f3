----------------------------- MODULE MCAgentLog -----------------------------
(* AgentLog with two generations: enough for a shift of an older file, a    *)
(* rename of the live one and a handle two renames behind.                  *)
EXTENDS AgentLog

MCLens == {1, 2, 4}     \* fits often, fits once, never fits with another
=============================================================================
