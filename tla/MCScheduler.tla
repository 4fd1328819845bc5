----------------------------- MODULE MCScheduler -----------------------------
(***************************************************************************)
(* Scheduler for TLC, with one schedule.  One that the daemon drives is    *)
(* due at the times 1 and 2: the clock passes the second while the first   *)
(* firing works, or reaches it before the first was noticed.  One that is  *)
(* due once has a retry: a legacy one of the daemon, or one with a         *)
(* contract whose process crontab starts, or one of the Windows Task       *)
(* Scheduler.                                                              *)
(***************************************************************************)
EXTENDS Scheduler

Only(d, times, c, n, h) ==
  [s \in Schedule |-> [driver |-> d, due |-> times, contract |-> c, retries |-> n,
                     byHand |-> h]]

MCTables ==
  { Only("internal", {1, 2}, TRUE, 0, TRUE),
    Only("internal", {1}, FALSE, 1, TRUE),
    Only("system_crontab", {1}, TRUE, 1, TRUE),
    Only("system_schtasks", {1}, TRUE, 0, FALSE) }
=============================================================================
