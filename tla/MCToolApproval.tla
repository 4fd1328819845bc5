---------------------------- MODULE MCToolApproval ----------------------------
(***************************************************************************)
(* ToolApproval for TLC.  One run on Telegram whose calls ask twice: all   *)
(* answering sides, the timers and the abort race for a request while what *)
(* is left of the one before is still about.  Or two runs of a group, from *)
(* the WebUI and from Slack, which hand each other their scopes.           *)
(***************************************************************************)
EXTENDS ToolApproval

CONSTANTS r1, r2

OneOnTelegram == [r \in Run |-> IF r = r1 THEN "telegram" ELSE "none"]
WebAndSlack   == [r \in Run |-> IF r = r1 THEN "webui" ELSE "slack"]
AllSources    == {OneOnTelegram, WebAndSlack}
==============================================================================
