-------------------------- MODULE MCArtifactDelivery --------------------------
(***************************************************************************)
(* ArtifactDelivery for TLC: two calls for one file of a run, a call for   *)
(* the same file by the next run of the lineage, and a forced call for     *)
(* another file.  The memory holds one key, so that the second evicts the  *)
(* first.                                                                  *)
(***************************************************************************)
EXTENDS ArtifactDelivery

CONSTANTS c1, c2, c3, c4, r1, r2, f1, f2

MCRunOf  == [c \in Call |-> IF c = c3 THEN r2 ELSE r1]
MCFileOf == [c \in Call |-> IF c = c4 THEN f2 ELSE f1]
==============================================================================
