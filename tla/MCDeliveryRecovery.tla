-------------------------- MODULE MCDeliveryRecovery --------------------------
(***************************************************************************)
(* DeliveryRecovery for TLC: a request and the replies that reopen its     *)
(* group, and two crashes, so that a restart meets what an earlier restart *)
(* left.                                                                   *)
(***************************************************************************)
EXTENDS DeliveryRecovery
==============================================================================
