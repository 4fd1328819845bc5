----------------------------- MODULE ToolApproval -----------------------------
(***************************************************************************)
(* How a tool call of an agent run gets its approval: the agent loop       *)
(* (agent/index.ts), the dispatcher (tools/dispatcher.ts), the approval    *)
(* registry (runs/approval-registry.ts), the synthetic approvals of the    *)
(* review pass (runs/approval.ts), and the four places a user can answer:  *)
(* the WebSocket (api/ws/stream.ts), the HTTP API (api/routes/channels.ts),*)
(* Telegram and Slack (the approval-handler.ts of each).                   *)
(*                                                                         *)
(* A request is one promise with several ways to settle it: the resolve    *)
(* callback handed to the channels, the timer, the abort of the run's      *)
(* signal.  Each answering side keeps a map of its own, keyed by run, and  *)
(* the registry row is written by all of them.                             *)
(*                                                                         *)
(* The runs are those of one request group: they execute one at a time     *)
(* (RunLifecycle!OneAtATime), share the approval scopes of the group, and  *)
(* are cancelled together.  A delivered answer, which turns "cancelled"    *)
(* into "completed" (RunLifecycle!NextStatus), is left to that module: the *)
(* signal of a run here is aborted exactly when its status is Stopped.     *)
(***************************************************************************)
EXTENDS Naturals, FiniteSets

CONSTANTS Run,        \* the runs of the request group
          NoRun,
          Sources,    \* the groups considered: run |-> source, "none" for no run
          Kinds,      \* the kinds of request that are made
          Fallback,   \* the decision of a synthetic request that times out
          Anonymous,  \* whether WebUI clients answer without an approvalId
          MaxAsk,     \* bound: requests made in all
          MaxTools    \* bound: tool calls in one round of the model

ASSUME ApprovalAssumption ==
  /\ NoRun \notin Run
  /\ Sources \subseteq [Run -> {"webui", "telegram", "slack", "none"}]
  /\ Kinds \subseteq {"approval", "screen", "synthetic"}
  /\ Fallback \in {"allow_once", "deny"} /\ Anonymous \in BOOLEAN
  /\ MaxAsk \in Nat /\ MaxTools \in Nat

Approval == 1 .. MaxAsk
Allow    == {"allow_once", "allow_run"}
Decision == Allow \cup {"deny"}

VARIABLES
  source,     \* root_runs.source of the run
  status,     \* root_runs.status of the run
  pc,         \* where the agent loop of the run stands
  left,       \* the tool calls of the round that are not dispatched yet
  asked,      \* how many requests have been made
  askedBy,    \* the run of a request
  kind,       \* its kind
  row,        \* approval_registry.status; "unregistered" for a synthetic one
  verdict,    \* how the promise was settled, "none" while it is pending
  due,        \* the requests whose expires_at has passed
  pending,    \* pendingInteractionKinds: run |-> request, 0 for none
  scopeRun,   \* runApprovalScopes has the group
  scopeOnce,  \* runSingleApprovalScopes has the group
  wsRun,      \* pendingApprovals of the WebSocket by run: request or 0
  wsId,       \* pendingApprovals of the WebSocket by approvalId
  entry,      \* `pending' of the channel handler: run |-> context or 0
  entryTimer, \* the timeout of that entry: the request that set it, or 0
  context,    \* the aggregate a request was put in, named by its first item
  sending,    \* Telegram requests whose message is being sent or edited
  inherited,  \* existing?.timeout captured before that await
  timers,     \* the armed Telegram timers, named by the request
  clicks      \* <<context, decision>>: Telegram callbacks before they resolve

agent      == <<pc, left>>
requests   == <<source, asked, askedBy, kind>>
dispatcher == <<row, verdict, pending, scopeRun, scopeOnce, status>>
websocket  == <<wsRun, wsId>>
channel    == <<entry, entryTimer, timers>>
inflight   == <<context, sending, inherited, clicks>>
vars == <<agent, requests, dispatcher, due, websocket, channel, inflight>>

Telegram == {r \in Run : source[r] = "telegram"}
Slack    == {r \in Run : source[r] = "slack"}
Active  == {"queued", "running", "awaiting_approval", "awaiting_user"}
Stopped == {"cancelled", "interrupted"}
RowStatus == {"none", "unregistered", "requested", "approved", "consumed",
              "denied", "expired", "superseded"}

TypeOK ==
  /\ source \in Sources
  /\ status \in [Run -> Active \cup Stopped \cup {"none", "completed", "failed"}]
  /\ pc \in [Run -> {"new", "queued", "head", "tools", "waiting", "executing", "over"}]
  /\ left \in [Run -> 0 .. MaxTools]
  /\ asked \in 0 .. MaxAsk
  /\ askedBy \in [Approval -> Run \cup {NoRun}]
  /\ kind \in [Approval -> {"none", "approval", "screen", "synthetic"}]
  /\ row \in [Approval -> RowStatus]
  /\ verdict \in [Approval -> Decision \cup {"none", "timeout", "abort"}]
  /\ due \subseteq Approval
  /\ pending \in [Run -> 0 .. MaxAsk]
  /\ scopeRun \in BOOLEAN /\ scopeOnce \in BOOLEAN
  /\ wsRun \in [Run -> 0 .. MaxAsk] /\ wsId \subseteq Approval
  /\ entry \in [Run -> 0 .. MaxAsk] /\ entryTimer \in [Run -> 0 .. MaxAsk]
  /\ context \in [Approval -> 0 .. MaxAsk]
  /\ sending \subseteq Approval /\ inherited \in [Approval -> 0 .. MaxAsk]
  /\ timers \subseteq Approval /\ clicks \subseteq Approval \X Decision

Init ==
  /\ source \in Sources
  /\ status = [r \in Run |-> "none"] /\ pc = [r \in Run |-> "new"]
  /\ left = [r \in Run |-> 0]
  /\ asked = 0 /\ askedBy = [a \in Approval |-> NoRun]
  /\ kind = [a \in Approval |-> "none"] /\ row = [a \in Approval |-> "none"]
  /\ verdict = [a \in Approval |-> "none"] /\ due = {}
  /\ pending = [r \in Run |-> 0] /\ scopeRun = FALSE /\ scopeOnce = FALSE
  /\ wsRun = [r \in Run |-> 0] /\ wsId = {}
  /\ entry = [r \in Run |-> 0] /\ entryTimer = [r \in Run |-> 0]
  /\ context = [a \in Approval |-> 0] /\ sending = {}
  /\ inherited = [a \in Approval |-> 0] /\ timers = {} /\ clicks = {}

------------------------------------------------------------------------------
(* Rows and runs *)

Asked(r)  == {a \in 1 .. asked : askedBy[a] = r}
Timed(a)  == kind[a] # "screen"
Late(a)   == a \in due
Goto(r, l) == pc' = [pc EXCEPT ![r] = l]

\* The request the run waits for: its last one, as calls are sequential.
Current(r) == CHOOSE a \in Asked(r) : \A b \in Asked(r) : b <= a

\* resolveApprovalRegistryDecision accepts a decision on a live row only.
Accepts(a) == row[a] = "requested" /\ ~Late(a)

\* Mutant: the UPDATE of the expiry forgets that the row may be decided.
ExpiredRowAlways(a) == "expired"

\* expireApprovalRegistryRequest, and the same inside a late resolve.
ExpiredRow(a) == IF row[a] = "requested" THEN "expired" ELSE row[a]

\* The row after a decision that was not accepted.
RefusedRow(a) == IF Late(a) THEN ExpiredRow(a) ELSE row[a]

\* updateRunStatus: the terminal states are locked.
SetStatus(r, s) == [status EXCEPT ![r] = IF @ \in Active THEN s ELSE @]

\* cancelRootRun: every active run of the group is aborted and cancelled;
\* run.cancelled drops its pending interaction and, when it was the last
\* active one, the scopes.  With no active run nothing happens.
CancelGroup(r) ==
  LET live == {q \in Run : status[q] \in Active} IN
  /\ status' = [q \in Run |-> IF q \in live THEN "cancelled" ELSE status[q]]
  /\ pending' = [q \in Run |-> IF q \in live \cup {r} THEN 0 ELSE pending[q]]
  /\ scopeRun' = (scopeRun /\ live = {})
  /\ scopeOnce' = (scopeOnce /\ live = {})

\* Mutant: an approval leaves the run's status as it is.
FinishApprovalQuiet(r, d) ==
  IF d = "deny" THEN CancelGroup(r)
  ELSE /\ pending' = [pending EXCEPT ![r] = 0]
       /\ scopeRun' = (scopeRun \/ d = "allow_run")
       /\ UNCHANGED <<status, scopeOnce>>

\* finishApproval
FinishApproval(r, d) ==
  IF d = "deny" THEN CancelGroup(r)
  ELSE /\ status' = SetStatus(r, "running")
       /\ pending' = [pending EXCEPT ![r] = 0]
       /\ scopeRun' = (scopeRun \/ d = "allow_run")
       /\ UNCHANGED scopeOnce

\* Mutant: the callback does not look at the registry's answer.
ResolveUnaccepted(a, d, v) ==
  /\ row' = [row EXCEPT ![a] = IF ~Accepts(a) THEN RefusedRow(a)
                               ELSE IF d = "deny" THEN "denied" ELSE "consumed"]
  /\ verdict' = [verdict EXCEPT ![a] = IF d = "deny" THEN v ELSE d]
  /\ FinishApproval(askedBy[a], d)

\* The resolve callback of requestApproval; v is the verdict of a denial.
ResolveRegistered(a, d, v) ==
  IF Accepts(a)
  THEN /\ row' = [row EXCEPT ![a] = IF d = "deny" THEN "denied" ELSE "consumed"]
       /\ verdict' = [verdict EXCEPT ![a] = IF d = "deny" THEN v ELSE d]
       /\ FinishApproval(askedBy[a], d)
  ELSE /\ row' = [row EXCEPT ![a] = RefusedRow(a)]
       /\ UNCHANGED <<verdict, pending, scopeRun, scopeOnce, status>>

\* The resolve callback of requestSyntheticApproval.
ResolveSynthetic(a, d, v) ==
  /\ verdict' = [verdict EXCEPT ![a] = IF d = "deny" THEN v ELSE d]
  /\ IF d = "deny" THEN CancelGroup(askedBy[a])
                   ELSE UNCHANGED <<pending, scopeRun, scopeOnce, status>>
  /\ UNCHANGED row

\* if (!resolved) ...
Resolve(a, d, v) ==
  IF verdict[a] # "none" THEN UNCHANGED dispatcher
  ELSE IF kind[a] = "synthetic" THEN ResolveSynthetic(a, d, v)
  ELSE ResolveRegistered(a, d, v)

\* resolveApprovalAggregate: of the items of a context at most one is pending.
ResolveAll(c, d, v) ==
  LET open == {a \in 1 .. asked : context[a] = c /\ verdict[a] = "none"} IN
  IF open = {} THEN UNCHANGED dispatcher
  ELSE Resolve(CHOOSE a \in open : TRUE, d, v)

\* The listeners of approval.resolved: the WebSocket forgets the run and the
\* ids, the channel handlers the run's entry and its timer.
EmitResolved(r, ids) ==
  /\ wsRun' = [wsRun EXCEPT ![r] = 0]
  /\ wsId' = wsId \ ids
  /\ entry' = [entry EXCEPT ![r] = 0]
  /\ entryTimer' = [entryTimer EXCEPT ![r] = 0]
  /\ timers' = timers \ {entryTimer[r]}

------------------------------------------------------------------------------
(* The agent loop *)

\* A run enters the group's queue (RunLifecycle!Launch, Enqueue).
Arrive(r) ==
  /\ pc[r] = "new" /\ source[r] # "none"
  /\ status' = [status EXCEPT ![r] = "queued"]
  /\ Goto(r, "queued")
  /\ UNCHANGED <<left, requests, row, verdict, pending, scopeRun, scopeOnce, due,
                 websocket, channel, inflight>>

\* Its turn: no other run of the group executes.
Begin(r) ==
  /\ pc[r] = "queued"
  /\ \A q \in Run \ {r} : pc[q] \in {"new", "queued", "over"}
  /\ status' = SetStatus(r, "running")
  /\ Goto(r, "head")
  /\ UNCHANGED <<left, requests, row, verdict, pending, scopeRun, scopeOnce, due,
                 websocket, channel, inflight>>

\* The head of a round: the model names the tools to call.
Round(r, n) ==
  /\ pc[r] = "head" /\ status[r] \notin Stopped
  /\ left' = [left EXCEPT ![r] = n]
  /\ Goto(r, "tools")
  /\ UNCHANGED <<requests, dispatcher, due, websocket, channel, inflight>>

\* The loop ends: the signal was aborted (the status is locked), the run
\* completes, fails or stops by itself, or it leaves a question to the user
\* (moveRunToAwaitingUser, a blocked follow-up of start.ts) and stays active.
\* With the last active run of the group the scopes go
\* (clearApprovalScopesForCompletedRun), but nothing of a run that still awaits.
Finish(r, s) ==
  /\ pc[r] = "head"
  /\ status' = SetStatus(r, s)
  /\ pending' = [pending EXCEPT ![r] = IF s = "awaiting_user" THEN @ ELSE 0]
  /\ LET others == \E q \in Run \ {r} : status[q] \in Active
         keep   == s = "awaiting_user" \/ status[r] \notin Active \/ others
     IN scopeRun' = (scopeRun /\ keep) /\ scopeOnce' = (scopeOnce /\ keep)
  /\ Goto(r, "over")
  /\ UNCHANGED <<left, requests, row, verdict, due, websocket, channel, inflight>>

\* for (const tu of pendingToolUses): the signal is not looked at in between.
EndRound(r) ==
  /\ pc[r] = "tools" /\ left[r] = 0
  /\ Goto(r, "head")
  /\ UNCHANGED <<left, requests, dispatcher, due, websocket, channel, inflight>>

\* dispatch of a tool that needs no approval.
DispatchFree(r) ==
  /\ pc[r] = "tools" /\ left[r] > 0
  /\ left' = [left EXCEPT ![r] = @ - 1]
  /\ Goto(r, "executing")
  /\ UNCHANGED <<requests, dispatcher, due, websocket, channel, inflight>>

\* dispatch refuses before it asks: unknown tool, isolated extension,
\* duplicate call, capability policy.
DispatchRefused(r) ==
  /\ pc[r] = "tools" /\ left[r] > 0
  /\ left' = [left EXCEPT ![r] = @ - 1]
  /\ UNCHANGED <<pc, requests, dispatcher, due, websocket, channel, inflight>>

\* requestApproval finds a scope: allow_run stays, a single one is used up.
DispatchScoped(r) ==
  /\ pc[r] = "tools" /\ left[r] > 0
  /\ scopeRun \/ scopeOnce
  /\ scopeOnce' = (scopeOnce /\ scopeRun)
  /\ left' = [left EXCEPT ![r] = @ - 1]
  /\ Goto(r, "executing")
  /\ UNCHANGED <<requests, row, verdict, pending, scopeRun, status, due, websocket,
                 channel, inflight>>

\* The approval.request listeners: the WebSocket takes the resolver under the
\* run and the id; Telegram and Slack put the item in the run's aggregate.
\* Slack sets its entry at once, Telegram after its message was sent.
Announce(a, r, k) ==
  /\ wsRun' = [wsRun EXCEPT ![r] = a]
  /\ wsId' = IF k = "synthetic" THEN wsId ELSE wsId \cup {a}
  /\ context' = IF r \in Telegram \cup Slack
                THEN [context EXCEPT ![a] = IF entry[r] = 0 THEN a ELSE entry[r]]
                ELSE context
  /\ entry' = IF r \in Slack THEN [entry EXCEPT ![r] = context'[a]] ELSE entry
  /\ sending' = IF r \in Telegram THEN sending \cup {a} ELSE sending
  /\ inherited' = IF r \in Telegram THEN [inherited EXCEPT ![a] = entryTimer[r]] ELSE inherited
  /\ UNCHANGED <<entryTimer, timers, clicks>>

\* requestApproval, to its promise: the row, the pending interaction, the
\* status of the run, the announcement.  An open row of the same tool is
\* superseded; the model knows the kind of a request for its tool.
RequestApproval(r, k) ==
  LET a == asked + 1 IN
  /\ pc[r] = "tools" /\ left[r] > 0 /\ asked < MaxAsk
  /\ ~scopeRun /\ ~scopeOnce
  /\ k \in Kinds \ {"synthetic"}
  /\ asked' = a
  /\ askedBy' = [askedBy EXCEPT ![a] = r] /\ kind' = [kind EXCEPT ![a] = k]
  /\ row' = [b \in Approval |->
               IF b = a THEN "requested"
               ELSE IF b \in Asked(r) /\ kind[b] = k /\ row[b] = "requested"
                    THEN "superseded" ELSE row[b]]
  /\ pending' = [pending EXCEPT ![r] = a]
  /\ status' = SetStatus(r, IF k = "screen" THEN "awaiting_user" ELSE "awaiting_approval")
  /\ left' = [left EXCEPT ![r] = @ - 1]
  /\ Goto(r, "waiting")
  /\ Announce(a, r, k)
  /\ UNCHANGED <<source, verdict, scopeRun, scopeOnce, due>>

\* requestSyntheticApproval, asked by the review pass between two rounds,
\* unless an earlier one was approved for the whole run (syntheticApprovalScopes).
RequestSynthetic(r) ==
  LET a == asked + 1 IN
  /\ \A b \in Asked(r) : ~(kind[b] = "synthetic" /\ verdict[b] = "allow_run")
  /\ pc[r] = "head" /\ status[r] \notin Stopped
  /\ "synthetic" \in Kinds /\ asked < MaxAsk
  /\ asked' = a
  /\ askedBy' = [askedBy EXCEPT ![a] = r] /\ kind' = [kind EXCEPT ![a] = "synthetic"]
  /\ row' = [row EXCEPT ![a] = "unregistered"]
  /\ status' = SetStatus(r, "awaiting_approval")
  /\ Goto(r, "waiting")
  /\ Announce(a, r, "synthetic")
  /\ UNCHANGED <<source, left, verdict, pending, scopeRun, scopeOnce, due>>

\* The promise is settled: a denied call returns to the round, an allowed one
\* is executed unless the tool policy or the rate limit refuses it.
Proceed(r) ==
  /\ pc[r] = "waiting" /\ kind[Current(r)] # "synthetic" /\ verdict[Current(r)] # "none"
  /\ \/ verdict[Current(r)] \in Allow /\ Goto(r, "executing")
     \/ Goto(r, "tools")
  /\ UNCHANGED <<left, requests, dispatcher, due, websocket, channel, inflight>>

\* Mutant: the continuation forgets to tell a denial from an approval.
ProceedSyntheticAnyway(r) ==
  /\ pc[r] = "waiting" /\ kind[Current(r)] = "synthetic" /\ verdict[Current(r)] # "none"
  /\ scopeRun' = scopeRun /\ scopeOnce' = ~scopeRun
  /\ status' = SetStatus(r, "running")
  /\ Goto(r, "head")
  /\ UNCHANGED <<left, requests, row, verdict, pending, due, websocket, channel, inflight>>

\* runSyntheticApprovalPass and applySyntheticApprovalContinuation: an
\* approval becomes a scope, unless the signal was aborted.
ProceedSynthetic(r) ==
  LET v == verdict[Current(r)] IN
  /\ pc[r] = "waiting" /\ kind[Current(r)] = "synthetic" /\ v # "none"
  /\ IF v \in Allow /\ status[r] \notin Stopped
     THEN /\ scopeRun' = (scopeRun \/ v = "allow_run")
          /\ scopeOnce' = (v # "allow_run" /\ (scopeOnce \/ ~scopeRun))
          /\ status' = SetStatus(r, "running")
     ELSE UNCHANGED <<scopeRun, scopeOnce, status>>
  /\ Goto(r, "head")
  /\ UNCHANGED <<left, requests, row, verdict, pending, due, websocket, channel, inflight>>

\* tool.execute returns or throws.
ToolDone(r) ==
  /\ pc[r] = "executing"
  /\ Goto(r, "tools")
  /\ UNCHANGED <<left, requests, dispatcher, due, websocket, channel, inflight>>

------------------------------------------------------------------------------
(* Time *)

\* expires_at of a request passes; requests of a kind are due in their order.
Elapse(a) ==
  /\ a \in 1 .. asked /\ a \notin due /\ Timed(a)
  /\ \A b \in 1 .. a - 1 : kind[b] = kind[a] => b \in due
  /\ due' = due \cup {a}
  /\ UNCHANGED <<agent, requests, dispatcher, websocket, channel, inflight>>

\* Mutant: the timer gives up on a row that was decided elsewhere.
TimeoutIfOpen(a) ==
  /\ a \in due /\ verdict[a] = "none" /\ kind[a] = "approval" /\ row[a] = "requested"
  /\ row' = [row EXCEPT ![a] = "expired"]
  /\ verdict' = [verdict EXCEPT ![a] = "timeout"]
  /\ FinishApproval(askedBy[a], "deny")
  /\ EmitResolved(askedBy[a], {a})
  /\ UNCHANGED <<agent, requests, due, inflight>>

\* The timer of requestApproval: the row is expired if nobody decided it, the
\* run is cancelled, the listeners are told.
Timeout(a) ==
  /\ a \in due /\ verdict[a] = "none" /\ kind[a] = "approval"
  /\ row' = [row EXCEPT ![a] = ExpiredRow(a)]
  /\ verdict' = [verdict EXCEPT ![a] = "timeout"]
  /\ FinishApproval(askedBy[a], "deny")
  /\ EmitResolved(askedBy[a], {a})
  /\ UNCHANGED <<agent, requests, due, inflight>>

\* The timer of requestSyntheticApproval, with its configured fallback.
SyntheticTimeout(a) ==
  /\ a \in due /\ verdict[a] = "none" /\ kind[a] = "synthetic"
  /\ verdict' = [verdict EXCEPT ![a] = IF Fallback = "deny" THEN "timeout" ELSE Fallback]
  /\ IF Fallback = "deny" THEN CancelGroup(askedBy[a])
     ELSE status' = SetStatus(askedBy[a], "running") /\ UNCHANGED <<pending, scopeRun, scopeOnce>>
  /\ EmitResolved(askedBy[a], {})
  /\ UNCHANGED <<agent, requests, row, due, inflight>>

------------------------------------------------------------------------------
(* Stopping the group *)

\* Mutant: the abort listener settles the promise and leaves the row.
AbortPromiseOnly ==
  /\ verdict' = [a \in Approval |->
                   IF a <= asked /\ verdict[a] = "none" /\ status[askedBy[a]] \in Active
                   THEN "abort" ELSE verdict[a]]
  /\ UNCHANGED row

\* The abort listeners.  A run that asked when its signal was already aborted
\* has none that fires, and is not among the active ones.  No
\* approval.resolved is emitted: the WebSocket and the channels keep theirs.
AbortAll ==
  LET hit == {a \in 1 .. asked : verdict[a] = "none" /\ status[askedBy[a]] \in Active} IN
  /\ verdict' = [a \in Approval |-> IF a \in hit THEN "abort" ELSE verdict[a]]
  /\ row' = [a \in Approval |->
               IF a \in hit THEN (IF Accepts(a) THEN "denied" ELSE RefusedRow(a)) ELSE row[a]]

\* A user cancels (cancelRootRun).
Cancel(r) ==
  /\ status[r] \in Active
  /\ AbortAll
  /\ CancelGroup(r)
  /\ UNCHANGED <<agent, requests, due, websocket, channel, inflight>>

\* cleanupStaleRunStates: "interrupted" emits no event the dispatcher hears.
CleanupStale ==
  /\ \E r \in Run : status[r] \in Active
  /\ AbortAll
  /\ status' = [q \in Run |-> IF status[q] \in Active THEN "interrupted" ELSE status[q]]
  /\ pending' = [q \in Run |-> IF status[q] \in Active THEN 0 ELSE pending[q]]
  /\ UNCHANGED <<agent, requests, scopeRun, scopeOnce, due, websocket, channel, inflight>>

------------------------------------------------------------------------------
(* Answers from the WebUI *)

\* resolvePendingInteraction: decides the row and finishes the approval.  Only
\* a denial that aborts the run settles the promise, by its abort listener.
ResolvePending(r, d) ==
  LET a == pending[r] IN
  /\ row' = [row EXCEPT ![a] = IF d = "deny" THEN "denied" ELSE "consumed"]
  /\ verdict' = [verdict EXCEPT ![a] =
                   IF d = "deny" /\ status[r] \in Active THEN "abort" ELSE @]
  /\ FinishApproval(r, d)

\* The resolver an answer reaches: the one of the named request, else the
\* run's; 0 if the WebSocket has neither.
WsResolver(r, a) == IF a \in wsId THEN a ELSE wsRun[r]

\* resolveWebUiApprovalResponse for request a (0: the message names none).
WsRespond(r, a, d) ==
  /\ a \in IF Anonymous THEN {0} \cup Asked(r) ELSE Asked(r)
  /\ IF WsResolver(r, a) # 0
     THEN Resolve(WsResolver(r, a), d, "deny")
     ELSE pending[r] # 0 /\ Accepts(pending[r]) /\ ResolvePending(r, d)
  /\ EmitResolved(r, {a})
  /\ UNCHANGED <<agent, requests, due, inflight>>

\* The fallback of a late answer: the registry refuses and expires the row.
WsRespondLate(r) ==
  /\ wsRun[r] = 0 /\ pending[r] # 0 /\ row[pending[r]] = "requested" /\ Late(pending[r])
  /\ row' = [row EXCEPT ![pending[r]] = "expired"]
  /\ UNCHANGED <<agent, requests, verdict, pending, scopeRun, scopeOnce, status, due,
                 websocket, channel, inflight>>

\* respondToApproval of the HTTP API: the row is decided and the listeners are
\* told; nobody calls the resolver.
HttpRespond(a, d) ==
  /\ a \in 1 .. asked /\ row[a] = "requested"
  /\ row' = [row EXCEPT ![a] = IF Late(a) THEN "expired"
                               ELSE IF d = "deny" THEN "denied" ELSE "approved"]
  /\ IF Late(a) THEN UNCHANGED <<websocket, channel>> ELSE EmitResolved(askedBy[a], {a})
  /\ UNCHANGED <<agent, requests, verdict, pending, scopeRun, scopeOnce, status, due, inflight>>

------------------------------------------------------------------------------
(* Answers from Telegram and Slack *)

\* The message was sent or edited: a timer is armed unless the entry found
\* before the await had one, and the entry is set whatever happened since.
TelegramSent(a) ==
  LET r     == askedBy[a]
      timer == IF inherited[a] # 0 THEN inherited[a]
               ELSE IF kind[a] = "screen" THEN 0 ELSE a
  IN
  /\ a \in sending
  /\ sending' = sending \ {a}
  /\ entry' = [entry EXCEPT ![r] = context[a]]
  /\ entryTimer' = [entryTimer EXCEPT ![r] = timer]
  /\ timers' = IF timer = a THEN timers \cup {a} ELSE timers
  /\ UNCHANGED <<agent, requests, dispatcher, due, websocket, context, inherited, clicks>>

\* The message could not be sent: no entry; the request keeps waiting.
TelegramSendFails(a) ==
  /\ a \in sending
  /\ sending' = sending \ {a}
  /\ UNCHANGED <<agent, requests, dispatcher, due, websocket, channel, context, inherited, clicks>>

\* A Telegram timer fires: it denies whatever the run's entry holds now.  That
\* of a synthetic request has a delay of its own, unrelated to its expiry.
TelegramTimeout(a) ==
  LET r == askedBy[a] IN
  /\ a \in timers /\ (Late(a) \/ kind[a] = "synthetic")
  /\ IF entry[r] = 0
     THEN timers' = timers \ {a} /\ UNCHANGED <<dispatcher, websocket, entry, entryTimer>>
     ELSE /\ ResolveAll(entry[r], "deny", "timeout")
          /\ wsRun' = [wsRun EXCEPT ![r] = 0]
          /\ wsId' = wsId \ {b \in Approval : context[b] = entry[r]}
          /\ entry' = [entry EXCEPT ![r] = 0] /\ entryTimer' = [entryTimer EXCEPT ![r] = 0]
          /\ timers' = timers \ {a}
  /\ UNCHANGED <<agent, requests, due, inflight>>

\* A Telegram button: the entry is taken, then the message is edited.
TelegramClick(r, d) ==
  /\ r \in Telegram /\ entry[r] # 0
  /\ clicks' = clicks \cup {<<entry[r], d>>}
  /\ entry' = [entry EXCEPT ![r] = 0]
  /\ entryTimer' = [entryTimer EXCEPT ![r] = 0]
  /\ timers' = timers \ {entryTimer[r]}
  /\ UNCHANGED <<agent, requests, dispatcher, due, websocket, context, sending, inherited>>

\* After the edits: the items are resolved and the listeners told.
TelegramResolve(c, d) ==
  /\ <<c, d>> \in clicks
  /\ clicks' = clicks \ {<<c, d>>}
  /\ ResolveAll(c, d, "deny")
  /\ EmitResolved(askedBy[c], {a \in Approval : context[a] = c})
  /\ UNCHANGED <<agent, requests, due, context, sending, inherited>>

\* resolveSlackApproval: a button or a thread message, without an await.
SlackRespond(r, d) ==
  /\ r \in Slack /\ entry[r] # 0
  /\ ResolveAll(entry[r], d, "deny")
  /\ EmitResolved(r, {a \in Approval : context[a] = entry[r]})
  /\ UNCHANGED <<agent, requests, due, inflight>>

------------------------------------------------------------------------------
Answer ==
  \/ \E r \in Run, a \in 0 .. asked, d \in Decision : WsRespond(r, a, d)
  \/ \E r \in Run : WsRespondLate(r)
  \/ \E a \in 1 .. asked, d \in Decision : HttpRespond(a, d)
  \/ \E r \in Run, d \in Decision : TelegramClick(r, d) \/ SlackRespond(r, d)

Step(r) ==
  \/ Arrive(r) \/ Begin(r) \/ EndRound(r)
  \/ \E s \in {"completed", "failed", "cancelled", "awaiting_user"} : Finish(r, s)
  \/ \E n \in 1 .. MaxTools : Round(r, n)
  \/ DispatchFree(r) \/ DispatchRefused(r) \/ DispatchScoped(r)
  \/ \E k \in Kinds : RequestApproval(r, k)
  \/ RequestSynthetic(r) \/ Proceed(r) \/ ProceedSynthetic(r) \/ ToolDone(r)

Next ==
  \/ \E r \in Run : Step(r) \/ Cancel(r)
  \/ CleanupStale
  \/ \E a \in 1 .. asked : Elapse(a) \/ Timeout(a) \/ SyntheticTimeout(a)
                           \/ TelegramSent(a) \/ TelegramSendFails(a) \/ TelegramTimeout(a)
  \/ \E c \in 1 .. asked, d \in Decision : TelegramResolve(c, d)
  \/ Answer

\* The event loop runs the timers: a request's deadline passes and its timer
\* fires.  Nothing makes a user answer.
Fairness == \A a \in Approval : WF_vars(Elapse(a)) /\ WF_vars(Timeout(a) \/ SyntheticTimeout(a))

Spec == Init /\ [][Next]_vars /\ Fairness

------------------------------------------------------------------------------
(* Properties *)

\* A call is let through only by a row that one decision approved and that
\* this call consumed: whatever the timer, the four answering sides and the
\* abort do to the row before.
GrantIsConsumed ==
  \A a \in 1 .. asked : kind[a] # "synthetic" /\ verdict[a] \in Allow => row[a] = "consumed"

\* A row that still asks belongs to the call its run is waiting in, and the
\* dispatcher knows it: no settled request leaves an open row behind, so a
\* late answer finds nothing to approve and no row is ever superseded.
OpenRowIsAwaited ==
  \A a \in 1 .. asked : row[a] \in {"requested", "superseded"} =>
    /\ row[a] = "requested" /\ verdict[a] = "none"
    /\ pc[askedBy[a]] = "waiting" /\ Current(askedBy[a]) = a /\ pending[askedBy[a]] = a

\* A run shows as awaiting only for a reason: it is inside a request that is
\* still open or whose answer it is about to take up, or its loop ended with a
\* question to the user.  No run goes on working, and none that is over asks
\* for an approval, under a status that a settled request left behind.
AwaitingHasRequest ==
  \A r \in Run : status[r] \in {"awaiting_approval", "awaiting_user"} =>
    \/ pc[r] = "waiting" /\ (verdict[Current(r)] = "none" \/ kind[Current(r)] = "synthetic")
    \/ pc[r] = "over" /\ status[r] = "awaiting_user"

\* A scope of the group goes back to an approval: allow_run to a consumed row
\* or a synthetic approval of that kind, a single one to a synthetic approval
\* or its timeout's fallback.  No denied, expired or aborted request opens one.
ScopeWasGranted ==
  /\ scopeRun => \E a \in 1 .. asked : row[a] = "consumed" \/ (row[a] = "unregistered" /\ verdict[a] = "allow_run")
  /\ scopeOnce => \E a \in 1 .. asked : row[a] = "unregistered" /\ verdict[a] = "allow_once"

\* What the registry decided stays decided: an approval, a denial and an
\* expiry survive the late answers and the timer that come after them.
RowIsFinal ==
  [][\A a \in Approval : row[a] \notin {"none", "requested"} => row'[a] = row[a]]_vars

\* A request with a deadline is settled in the end, whoever answers or not,
\* and however the run was cancelled in between.
TimedRequestSettles ==
  \A a \in Approval : (kind[a] \in {"approval", "synthetic"}) ~> (verdict[a] # "none")
==============================================================================
