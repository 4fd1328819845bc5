--------------------------- MODULE MCRunLifecycle ---------------------------
(***************************************************************************)
(* Two runs for TLC: a root request with a child, two requests of one      *)
(* group (the second queued behind the first, or planned into a group that *)
(* closes before its launch), with and without a worker session.  No       *)
(* symmetry set: the model has temporal properties.                        *)
(***************************************************************************)
EXTENDS RunLifecycle
=============================================================================
