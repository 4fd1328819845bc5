-------------------------- MODULE ToolApprovalProofs --------------------------
(***************************************************************************)
(* Whatever the answering sides, the timers and the aborts do, in any      *)
(* order, for any runs and any number of requests: a decided row stays as  *)
(* it is, a tool is only let through by a row that was consumed, an open   *)
(* row has a run that waits for it, a waiting run has a request, and a     *)
(* scope that lets tools through was granted.                              *)
(*                                                                         *)
(* GrantIsConsumed needs to know that the number a new request takes is    *)
(* unused (Fresh): the maps of the WebSocket and of the channels may hold  *)
(* any number, and an answer to an unused one must do nothing. All steps   *)
(* but the two that ask are Orderly: they settle at most one request, by   *)
(* the rules of the registry.                                              *)
(*                                                                         *)
(* OpenRowIsAwaited and AwaitingHasRequest rest on one tool executing at a *)
(* time: while a run waits, its request is the last one of all, so at most *)
(* one promise is open and the run it resumes is the one that waits        *)
(* (WaitInv). Every step settles requests and leaves the runs where they   *)
(* are (Settles), moves one run (Loops) or asks (Asks).                    *)
(***************************************************************************)
EXTENDS ToolApproval, TLAPS

Verdict == Decision \cup {"none", "timeout", "abort"}
Kind    == {"none", "approval", "screen", "synthetic"}

\* The types of what the properties are about.
CoreTypes ==
  /\ asked \in 0 .. MaxAsk
  /\ kind \in [Approval -> Kind]
  /\ row \in [Approval -> RowStatus]
  /\ verdict \in [Approval -> Verdict]

Fresh ==
  \A a \in Approval : a > asked => row[a] = "none" /\ verdict[a] = "none" /\ kind[a] = "none"

IndInv == CoreTypes /\ Fresh /\ GrantIsConsumed

\* What a step other than a request may do to rows and promises.
Orderly ==
  /\ asked' = asked /\ kind' = kind
  /\ row' \in [Approval -> RowStatus] /\ verdict' \in [Approval -> Verdict]
  /\ \A b \in Approval :
       /\ row[b] # "requested" => row'[b] = row[b]
       /\ b > asked => verdict'[b] = "none"
       /\ kind[b] # "synthetic" /\ verdict'[b] \in Allow => row'[b] = "consumed"

\* Init establishes the invariant.
LEMMA InitInv == Init => IndInv
<1> SUFFICES ASSUME Init PROVE IndInv
  OBVIOUS
<1>1. CoreTypes
  BY ApprovalAssumption DEF Init, CoreTypes, Kind, RowStatus, Verdict
<1>2. Fresh
  BY DEF Init, Fresh
<1>3. GrantIsConsumed
  BY ApprovalAssumption DEF Init, GrantIsConsumed
<1>4. QED BY <1>1, <1>2, <1>3 DEF IndInv

\* GrantIsConsumed in a form that does not mention the last request.
LEMMA GrantOfAny ==
  ASSUME IndInv, NEW b \in Approval, kind[b] # "synthetic", verdict[b] \in Allow
  PROVE  row[b] = "consumed"
<1>1. b <= asked
  BY DEF IndInv, Fresh, CoreTypes, Approval, Allow
<1>2. b \in 1 .. asked
  BY <1>1 DEF Approval, IndInv, CoreTypes
<1>3. QED BY <1>2 DEF IndInv, GrantIsConsumed

\* A step that leaves requests, rows and promises alone.
LEMMA IdleIsOrderly ==
  ASSUME IndInv, asked' = asked, kind' = kind, row' = row, verdict' = verdict
  PROVE  Orderly
BY GrantOfAny DEF Orderly, IndInv, CoreTypes, Fresh, Allow

\* An orderly step keeps the invariant.
LEMMA OrderlyStep ==
  ASSUME IndInv, Orderly PROVE IndInv'
<1>1. CoreTypes'
  BY DEF IndInv, CoreTypes, Orderly
<1>2. Fresh'
  BY DEF IndInv, CoreTypes, Fresh, Orderly
<1>3. GrantIsConsumed'
  BY ApprovalAssumption DEF IndInv, CoreTypes, GrantIsConsumed, Orderly, Approval
<1>4. QED BY <1>1, <1>2, <1>3 DEF IndInv

\* The resolve callbacks are orderly, also for a number nobody has asked under.
LEMMA ResolveIsOrderly ==
  ASSUME IndInv, asked' = asked, kind' = kind, NEW a, NEW d \in Decision,
         NEW v \in {"deny", "timeout"}, Resolve(a, d, v)
  PROVE  Orderly
<1>1. CASE verdict[a] # "none"
  BY <1>1, IdleIsOrderly DEF Resolve, dispatcher
<1>2. CASE verdict[a] = "none" /\ kind[a] = "synthetic"
  <2>1. row' = row /\ verdict' = [verdict EXCEPT ![a] = IF d = "deny" THEN v ELSE d]
    BY <1>2 DEF Resolve, ResolveSynthetic
  <2>2. (IF d = "deny" THEN v ELSE d) \in Verdict
    BY DEF Verdict, Decision, Allow
  <2>3. QED BY <1>2, <2>1, <2>2, GrantOfAny DEF Orderly, IndInv, CoreTypes, Fresh
<1>3. CASE verdict[a] = "none" /\ kind[a] # "synthetic"
  <2>1. ResolveRegistered(a, d, v)
    BY <1>3 DEF Resolve
  <2>2. CASE Accepts(a)
    <3>1. /\ row[a] = "requested"
          /\ row' = [row EXCEPT ![a] = IF d = "deny" THEN "denied" ELSE "consumed"]
          /\ verdict' = [verdict EXCEPT ![a] = IF d = "deny" THEN v ELSE d]
      BY <2>1, <2>2 DEF ResolveRegistered, Accepts
    <3>2. (IF d = "deny" THEN v ELSE d) \in Verdict /\ (IF d = "deny" THEN "denied" ELSE "consumed") \in RowStatus
      BY DEF Verdict, Decision, Allow, RowStatus
    <3>3. (IF d = "deny" THEN v ELSE d) \in Allow => d # "deny"
      BY DEF Allow
    <3>4. QED BY <3>1, <3>2, <3>3, GrantOfAny DEF Orderly, IndInv, CoreTypes, Fresh
  <2>3. CASE ~Accepts(a)
    <3>1. verdict' = verdict /\ row' = [row EXCEPT ![a] = RefusedRow(a)]
      BY <2>1, <2>3 DEF ResolveRegistered
    <3>2. RefusedRow(a) = row[a] \/ (row[a] = "requested" /\ RefusedRow(a) = "expired")
      BY DEF RefusedRow, ExpiredRow
    <3>3. QED BY <3>1, <3>2, GrantOfAny DEF Orderly, IndInv, CoreTypes, Fresh, RowStatus, Allow
  <2>4. QED BY <2>2, <2>3
<1>4. QED BY <1>1, <1>2, <1>3

\* So is the answer to all items of a channel's message.
LEMMA ResolveAllIsOrderly ==
  ASSUME IndInv, asked' = asked, kind' = kind, NEW c, NEW d \in Decision,
         NEW v \in {"deny", "timeout"}, ResolveAll(c, d, v)
  PROVE  Orderly
<1> DEFINE open == {a \in 1 .. asked : context[a] = c /\ verdict[a] = "none"}
<1>1. CASE open = {}
  BY <1>1, IdleIsOrderly DEF ResolveAll, dispatcher
<1>2. CASE open # {}
  <2>1. Resolve(CHOOSE a \in open : TRUE, d, v)
    BY <1>2 DEF ResolveAll
  <2>2. QED BY <2>1, ResolveIsOrderly
<1>3. QED BY <1>1, <1>2

\* The abort listeners settle open requests only, and deny or expire their rows.
LEMMA AbortIsOrderly ==
  ASSUME IndInv, asked' = asked, kind' = kind, AbortAll PROVE Orderly
<1> DEFINE hit == {a \in 1 .. asked : verdict[a] = "none" /\ status[askedBy[a]] \in Active}
<1>1. /\ verdict' = [a \in Approval |-> IF a \in hit THEN "abort" ELSE verdict[a]]
      /\ row' = [a \in Approval |->
                   IF a \in hit THEN (IF Accepts(a) THEN "denied" ELSE RefusedRow(a)) ELSE row[a]]
  BY DEF AbortAll
<1>2. ASSUME NEW a \in Approval
      PROVE  /\ row'[a] \in RowStatus
             /\ row[a] # "requested" => row'[a] = row[a]
  BY <1>1 DEF Accepts, RefusedRow, ExpiredRow, RowStatus, IndInv, CoreTypes
<1>3. ASSUME NEW a \in Approval, kind[a] # "synthetic", verdict'[a] \in Allow PROVE row'[a] = "consumed"
  <2>1. verdict'[a] = verdict[a] /\ verdict[a] \in Allow /\ a \notin hit
    BY <1>1, <1>3 DEF Allow
  <2>2. QED BY <2>1, <1>1, <1>3, GrantOfAny
<1>4. ASSUME NEW a \in Approval PROVE verdict'[a] \in Verdict /\ (a > asked => verdict'[a] = "none")
  BY <1>1 DEF Verdict, IndInv, CoreTypes, Fresh, Approval
<1>5. row' \in [Approval -> RowStatus] /\ verdict' \in [Approval -> Verdict]
  BY <1>1, <1>2, <1>4
<1>6. QED BY <1>2, <1>3, <1>4, <1>5 DEF Orderly

\* A row that is open and goes to a decision or to its expiry, its promise
\* untouched or aborted.
LEMMA RowOnlyIsOrderly ==
  ASSUME IndInv, asked' = asked, kind' = kind, NEW a, NEW s \in RowStatus, row[a] = "requested",
         row' = [row EXCEPT ![a] = s], NEW w \in {"abort", verdict[a]},
         verdict' = [verdict EXCEPT ![a] = w]
  PROVE  Orderly
<1>1. ASSUME NEW b \in Approval, kind[b] # "synthetic", verdict'[b] \in Allow PROVE row'[b] = "consumed"
  <2>1. CASE b = a
    <3>1. verdict[b] \in Allow
      BY <1>1, <2>1 DEF IndInv, CoreTypes, Allow
    <3>2. QED BY <3>1, <1>1, <2>1, GrantOfAny
  <2>2. CASE b # a
    BY <1>1, <2>2, GrantOfAny DEF IndInv, CoreTypes
  <2>3. QED BY <2>1, <2>2
<1>2. ASSUME NEW b \in Approval, b > asked PROVE verdict'[b] = "none"
  BY <1>2 DEF IndInv, CoreTypes, Fresh
<1>3. row' \in [Approval -> RowStatus] /\ verdict' \in [Approval -> Verdict]
  BY DEF IndInv, CoreTypes, Verdict
<1>4. QED BY <1>1, <1>2, <1>3 DEF Orderly, IndInv, CoreTypes

\* Every answer is orderly.
LEMMA AnswerIsOrderly == ASSUME IndInv, Answer PROVE Orderly
<1>1. ASSUME NEW r \in Run, NEW a \in 0 .. asked, NEW d \in Decision, WsRespond(r, a, d) PROVE Orderly
  <2>1. asked' = asked /\ kind' = kind
    BY <1>1 DEF WsRespond, requests
  <2>2. CASE WsResolver(r, a) # 0
    <3>1. Resolve(WsResolver(r, a), d, "deny")
      BY <1>1, <2>2 DEF WsRespond
    <3>2. QED BY <2>1, <3>1, ResolveIsOrderly
  <2>3. CASE WsResolver(r, a) = 0
    <3>1. Accepts(pending[r]) /\ ResolvePending(r, d)
      BY <1>1, <2>3 DEF WsRespond
    <3> DEFINE s == IF d = "deny" THEN "denied" ELSE "consumed"
               w == IF d = "deny" /\ status[r] \in Active THEN "abort" ELSE verdict[pending[r]]
    <3>2. /\ row[pending[r]] = "requested"
          /\ row' = [row EXCEPT ![pending[r]] = s]
          /\ verdict' = [verdict EXCEPT ![pending[r]] = w]
      BY <3>1 DEF Accepts, ResolvePending
    <3>3. s \in RowStatus /\ w \in {"abort", verdict[pending[r]]}
      BY DEF RowStatus
    <3> HIDE DEF s, w
    <3>4. QED BY <2>1, <3>2, <3>3, RowOnlyIsOrderly
  <2>4. QED BY <2>2, <2>3
<1>2. ASSUME NEW r \in Run, WsRespondLate(r) PROVE Orderly
  <2>1. /\ asked' = asked /\ kind' = kind /\ row[pending[r]] = "requested"
        /\ row' = [row EXCEPT ![pending[r]] = "expired"] /\ verdict' = verdict
    BY <1>2 DEF WsRespondLate, requests
  <2>2. QED BY <2>1, GrantOfAny DEF Orderly, IndInv, CoreTypes, Fresh, RowStatus, Allow
<1>3. ASSUME NEW a \in 1 .. asked, NEW d \in Decision, HttpRespond(a, d) PROVE Orderly
  <2> DEFINE s == IF Late(a) THEN "expired" ELSE IF d = "deny" THEN "denied" ELSE "approved"
  <2>1. /\ asked' = asked /\ kind' = kind /\ row[a] = "requested"
        /\ row' = [row EXCEPT ![a] = s] /\ verdict' = verdict
    BY <1>3 DEF HttpRespond, requests
  <2>2. s \in RowStatus
    BY DEF RowStatus
  <2> HIDE DEF s
  <2>3. QED BY <2>1, <2>2, GrantOfAny DEF Orderly, IndInv, CoreTypes, Fresh, Allow
<1>4. ASSUME NEW r \in Run, NEW d \in Decision, TelegramClick(r, d) PROVE Orderly
  BY <1>4, IdleIsOrderly DEF TelegramClick, requests, dispatcher
<1>5. ASSUME NEW r \in Run, NEW d \in Decision, SlackRespond(r, d) PROVE Orderly
  BY <1>5, ResolveAllIsOrderly DEF SlackRespond, requests
<1>6. QED BY <1>1, <1>2, <1>3, <1>4, <1>5 DEF Answer

\* So is every timer, and every stop of the group.
LEMMA TimerIsOrderly ==
  ASSUME IndInv, NEW a \in 1 .. asked,
         \/ Elapse(a) \/ Timeout(a) \/ SyntheticTimeout(a)
         \/ TelegramSent(a) \/ TelegramSendFails(a) \/ TelegramTimeout(a)
  PROVE  Orderly
<1>1. CASE Elapse(a) \/ TelegramSent(a) \/ TelegramSendFails(a)
  BY <1>1, IdleIsOrderly DEF Elapse, TelegramSent, TelegramSendFails, requests, dispatcher
<1>2. CASE Timeout(a)
  <2>1. /\ asked' = asked /\ kind' = kind /\ row' = [row EXCEPT ![a] = ExpiredRow(a)]
        /\ verdict' = [verdict EXCEPT ![a] = "timeout"]
    BY <1>2 DEF Timeout, requests
  <2>2. ExpiredRow(a) = row[a] \/ (row[a] = "requested" /\ ExpiredRow(a) = "expired")
    BY DEF ExpiredRow
  <2>3. a \in Approval /\ ~(a > asked)
    BY ApprovalAssumption DEF IndInv, CoreTypes, Approval
  <2>4. QED BY <2>1, <2>2, <2>3, GrantOfAny DEF Orderly, IndInv, CoreTypes, Fresh, RowStatus, Verdict, Allow
<1>3. CASE SyntheticTimeout(a)
  <2> DEFINE w == IF Fallback = "deny" THEN "timeout" ELSE Fallback
  <2>1. /\ asked' = asked /\ kind' = kind /\ row' = row /\ kind[a] = "synthetic"
        /\ verdict' = [verdict EXCEPT ![a] = w]
    BY <1>3 DEF SyntheticTimeout, requests
  <2>2. w \in Verdict
    BY ApprovalAssumption DEF Verdict, Decision, Allow
  <2>3. a \in Approval /\ ~(a > asked)
    BY ApprovalAssumption DEF IndInv, CoreTypes, Approval
  <2> HIDE DEF w
  <2>4. QED BY <2>1, <2>2, <2>3, GrantOfAny DEF Orderly, IndInv, CoreTypes, Fresh
<1>4. CASE TelegramTimeout(a)
  <2>1. asked' = asked /\ kind' = kind
    BY <1>4 DEF TelegramTimeout, requests
  <2>2. CASE entry[askedBy[a]] = 0
    BY <1>4, <2>1, <2>2, IdleIsOrderly DEF TelegramTimeout, dispatcher
  <2>3. CASE entry[askedBy[a]] # 0
    <3>1. ResolveAll(entry[askedBy[a]], "deny", "timeout")
      BY <1>4, <2>3 DEF TelegramTimeout
    <3>2. QED BY <2>1, <3>1, ResolveAllIsOrderly DEF Decision
  <2>4. QED BY <2>2, <2>3
<1>5. QED BY <1>1, <1>2, <1>3, <1>4

\* A step that asks: its number is fresh, other rows are kept or superseded.
Asks(r) == (\E k \in Kinds : RequestApproval(r, k)) \/ RequestSynthetic(r)

\* What both ways of asking have in common.
LEMMA AskFacts ==
  ASSUME IndInv, NEW r \in Run, Asks(r)
  PROVE  /\ asked + 1 \in Approval /\ asked' = asked + 1 /\ verdict' = verdict
         /\ \E k \in Kinds : kind' = [kind EXCEPT ![asked + 1] = k]
         /\ row' \in [Approval -> RowStatus]
         /\ \A b \in Approval : b # asked + 1 /\ row[b] # "requested" => row'[b] = row[b]
<1>1. ASSUME NEW k \in Kinds, RequestApproval(r, k)
      PROVE  /\ asked < MaxAsk /\ asked' = asked + 1 /\ verdict' = verdict
             /\ kind' = [kind EXCEPT ![asked + 1] = k]
             /\ row' \in [Approval -> RowStatus]
             /\ \A b \in Approval : b # asked + 1 /\ row[b] # "requested" => row'[b] = row[b]
  BY <1>1 DEF RequestApproval, RowStatus, IndInv, CoreTypes
<1>2. ASSUME RequestSynthetic(r)
      PROVE  /\ asked < MaxAsk /\ asked' = asked + 1 /\ verdict' = verdict
             /\ "synthetic" \in Kinds /\ kind' = [kind EXCEPT ![asked + 1] = "synthetic"]
             /\ row' \in [Approval -> RowStatus]
             /\ \A b \in Approval : b # asked + 1 /\ row[b] # "requested" => row'[b] = row[b]
  BY <1>2 DEF RequestSynthetic, RowStatus, IndInv, CoreTypes
<1>3. asked < MaxAsk => asked + 1 \in Approval
  BY ApprovalAssumption DEF Approval, IndInv, CoreTypes
<1>4. QED BY <1>1, <1>2, <1>3 DEF Asks

\* Asking keeps the invariant.
LEMMA AskStep == ASSUME IndInv, NEW r \in Run, Asks(r) PROVE IndInv'
<1> USE AskFacts
<1>1. CoreTypes'
  BY ApprovalAssumption DEF IndInv, CoreTypes, Approval, Kind
<1>2. Fresh'
  <2> SUFFICES ASSUME NEW b \in Approval, b > asked + 1
               PROVE  row'[b] = "none" /\ verdict'[b] = "none" /\ kind'[b] = "none"
    BY DEF Fresh
  <2>1. b > asked /\ b # asked + 1
    BY DEF IndInv, CoreTypes, Approval
  <2>2. QED BY <2>1 DEF IndInv, Fresh, CoreTypes
<1>3. GrantIsConsumed'
  <2> SUFFICES ASSUME NEW b \in 1 .. asked + 1, kind'[b] # "synthetic", verdict'[b] \in Allow
               PROVE  row'[b] = "consumed"
    BY DEF GrantIsConsumed
  <2>1. b \in Approval /\ (b # asked + 1 => b \in 1 .. asked)
    BY ApprovalAssumption DEF IndInv, CoreTypes, Approval
  <2>2. b # asked + 1
    BY <2>1 DEF IndInv, Fresh, CoreTypes, Allow
  <2>3. kind[b] # "synthetic" /\ verdict[b] \in Allow
    BY <2>1, <2>2 DEF IndInv, CoreTypes
  <2>4. row[b] = "consumed"
    BY <2>1, <2>3, GrantOfAny
  <2>5. QED BY <2>1, <2>2, <2>4
<1>4. QED BY <1>1, <1>2, <1>3 DEF IndInv

\* The statuses a loop ends with.
Ending == {"completed", "failed", "cancelled", "awaiting_user"}

\* Every step is orderly or asks.
LEMMA StepShape ==
  ASSUME IndInv, [Next]_vars PROVE Orderly \/ \E r \in Run : Asks(r)
<1>1. ASSUME NEW r \in Run, Step(r) PROVE Orderly \/ Asks(r)
  <2>1. CASE Asks(r)
    BY <2>1
  <2>2. CASE \/ Arrive(r) \/ Begin(r) \/ (\E s \in Ending : Finish(r, s)) \/ EndRound(r)
             \/ (\E n \in 1 .. MaxTools : Round(r, n))
             \/ DispatchFree(r) \/ DispatchRefused(r) \/ DispatchScoped(r)
             \/ Proceed(r) \/ ProceedSynthetic(r) \/ ToolDone(r)
    <3>1. asked' = asked /\ kind' = kind /\ row' = row /\ verdict' = verdict
      BY <2>2 DEF Arrive, Begin, Finish, EndRound, Round, DispatchFree, DispatchRefused,
                  DispatchScoped, Proceed, ProceedSynthetic, ToolDone, requests, dispatcher
    <3>2. QED BY <3>1, IdleIsOrderly
  <2>3. QED BY <1>1, <2>1, <2>2 DEF Step, Asks, Ending
<1>2. ASSUME NEW r \in Run, Cancel(r) PROVE Orderly
  BY <1>2, AbortIsOrderly DEF Cancel, requests
<1>3. CASE CleanupStale
  BY <1>3, AbortIsOrderly DEF CleanupStale, requests
<1>4. ASSUME NEW c \in 1 .. asked, NEW d \in Decision, TelegramResolve(c, d) PROVE Orderly
  BY <1>4, ResolveAllIsOrderly DEF TelegramResolve, requests
<1>5. CASE UNCHANGED vars
  BY <1>5, IdleIsOrderly DEF vars, requests, dispatcher
<1>6. QED BY <1>1, <1>2, <1>3, <1>4, <1>5, TimerIsOrderly, AnswerIsOrderly DEF Next

\* The invariant holds in every reachable state.
THEOREM RequestsAreAccounted == Spec => []IndInv
<1>1. IndInv /\ [Next]_vars => IndInv'
  BY StepShape, OrderlyStep, AskStep
<1>2. QED BY InitInv, <1>1, PTL DEF Spec

\* A tool is let through only by a registry row that was approved and consumed
\* (requestApproval of the dispatcher).
THEOREM GrantsAreConsumed == Spec => []GrantIsConsumed
<1>1. IndInv => GrantIsConsumed
  BY DEF IndInv
<1>2. QED BY RequestsAreAccounted, <1>1, PTL

\* No late answer, timer, abort or newer request changes a row that is decided.
THEOREM DecidedRowsStay == Spec => RowIsFinal
<1>1. IndInv /\ [Next]_vars =>
        [\A a \in Approval : row[a] \notin {"none", "requested"} => row'[a] = row[a]]_vars
  <2> SUFFICES ASSUME IndInv, [Next]_vars, NEW a \in Approval, row[a] \notin {"none", "requested"}
               PROVE  row'[a] = row[a]
    OBVIOUS
  <2>1. CASE Orderly
    BY <2>1 DEF Orderly
  <2>2. ASSUME NEW r \in Run, Asks(r) PROVE row'[a] = row[a]
    <3>1. asked + 1 > asked
      BY DEF IndInv, CoreTypes
    <3>2. a # asked + 1
      BY <3>1, <2>2, AskFacts DEF IndInv, Fresh
    <3>3. QED BY <2>2, <3>2, AskFacts
  <2>3. QED BY <2>1, <2>2, StepShape
<1>2. QED BY RequestsAreAccounted, <1>1, PTL DEF Spec, RowIsFinal

------------------------------------------------------------------------------
(* Open requests *)

\* The types of the run, of its status and of the maps an answer goes through.
RunTypes ==
  /\ status \in [Run -> Active \cup Stopped \cup {"none", "completed", "failed"}]
  /\ pc \in [Run -> {"new", "queued", "head", "tools", "waiting", "executing", "over"}]
  /\ askedBy \in [Approval -> Run \cup {NoRun}]
  /\ pending \in [Run -> 0 .. MaxAsk]
  /\ wsRun \in [Run -> 0 .. MaxAsk] /\ wsId \subseteq Approval

Executing == {"head", "tools", "waiting", "executing"}
Awaiting  == {"awaiting_approval", "awaiting_user"}
Refusal   == {"deny", "timeout", "abort"}

\* The runs of a group execute one at a time.
OneExecutes == \A q, r \in Run : pc[q] \in Executing /\ pc[r] \in Executing => q = r

\* A request belongs to a run that has arrived; only a synthetic one has no row.
\* A refused one has stopped its run.
OwnedInv ==
  \A a \in 1 .. asked :
    /\ askedBy[a] \in Run /\ pc[askedBy[a]] # "new"
    /\ kind[a] = "synthetic" <=> row[a] = "unregistered"
    /\ verdict[a] \in Refusal => status[askedBy[a]] \notin Active

\* While a run waits nobody else can ask: the request it waits for is the last
\* one of all, and no other promise is pending.
OpenInv ==
  /\ \A r \in Run : pc[r] = "waiting" => asked # 0 /\ askedBy[asked] = r
  /\ \A a \in 1 .. asked : verdict[a] = "none" => a = asked /\ pc[askedBy[a]] = "waiting"
  /\ \A a \in 1 .. asked : /\ row[a] # "superseded"
                           /\ row[a] = "requested" => verdict[a] = "none" /\ pending[askedBy[a]] = a
  /\ \A r \in Run : pending[r] # 0 => pending[r] <= asked /\ askedBy[pending[r]] = r

AwaitInv ==
  \A r \in Run : status[r] \in Awaiting =>
    \/ pc[r] = "waiting" /\ (verdict[asked] = "none" \/ kind[asked] = "synthetic")
    \/ pc[r] = "over" /\ status[r] = "awaiting_user"

WaitInv == IndInv /\ RunTypes /\ OneExecutes /\ OwnedInv /\ OpenInv /\ AwaitInv /\ ScopeWasGranted

RunStatus == Active \cup Stopped \cup {"none", "completed", "failed"}

\* What a step may do that neither asks nor moves an agent loop: it settles the
\* last request or decides its row, if it is open, and stops runs or lets the
\* run of the request go on.
Settles ==
  /\ asked' = asked /\ askedBy' = askedBy /\ kind' = kind /\ pc' = pc
  /\ status' \in [Run -> RunStatus] /\ pending' \in [Run -> 0 .. MaxAsk]
  /\ \A b \in Approval : b # asked => row'[b] = row[b] /\ verdict'[b] = verdict[b]
  /\ asked # 0 =>
       /\ \/ row'[asked] = row[asked]
          \/ row[asked] = "requested" /\ row'[asked] \in {"consumed", "approved", "denied", "expired"}
       /\ \/ verdict'[asked] = verdict[asked]
          \/ /\ verdict[asked] = "none" /\ row'[asked] # "requested"
             /\ verdict'[asked] \in Refusal => status'[askedBy[asked]] \notin Active
             /\ kind[asked] # "synthetic" => status'[askedBy[asked]] \notin Awaiting
       /\ row'[asked] = "requested" => pending'[askedBy[asked]] = pending[askedBy[asked]]
  /\ \A q \in Run : /\ \/ status'[q] = status[q]
                       \/ status[q] \in Active /\ status'[q] \in {"running", "cancelled", "interrupted"}
                    /\ pending'[q] \in {0, pending[q]}
  /\ scopeRun' => scopeRun \/ (asked # 0 /\ row'[asked] = "consumed")
  /\ scopeOnce' => scopeOnce

\* The last request is one of those that were made.
LEMMA LastAsked ==
  ASSUME WaitInv
  PROVE  /\ asked \in Nat /\ \A a \in 1 .. asked : a \in Approval
         /\ asked # 0 => asked \in 1 .. asked /\ asked \in Approval /\ askedBy[asked] \in Run
<1>1. asked \in Nat /\ \A a \in 1 .. asked : a \in Approval
  BY ApprovalAssumption DEF WaitInv, IndInv, CoreTypes, Approval
<1>2. asked # 0 => asked \in 1 .. asked
  BY <1>1
<1>3. QED BY <1>1, <1>2 DEF WaitInv, OwnedInv

\* A promise that is pending is that of the last request.
LEMMA PendingIsLast ==
  ASSUME WaitInv, NEW a \in Approval, verdict[a] = "none", kind[a] # "none" \/ row[a] # "none"
  PROVE  a = asked /\ asked # 0 /\ a \in 1 .. asked
<1>1. a \in 1 .. asked
  BY ApprovalAssumption DEF WaitInv, IndInv, CoreTypes, Fresh, Approval
<1>2. QED BY <1>1, LastAsked DEF WaitInv, OpenInv

\* Nothing of the request changes.
LEMMA IdleSettles ==
  ASSUME WaitInv, UNCHANGED <<requests, dispatcher, pc>> PROVE Settles
<1>1. status' \in [Run -> RunStatus] /\ pending' \in [Run -> 0 .. MaxAsk]
  BY DEF WaitInv, RunTypes, RunStatus, dispatcher
<1>2. QED BY <1>1 DEF Settles, requests, dispatcher

\* What cancelRootRun does to the runs of the group.
LEMMA CancelFacts ==
  ASSUME WaitInv, NEW r, CancelGroup(r)
  PROVE  /\ status' \in [Run -> RunStatus] /\ pending' \in [Run -> 0 .. MaxAsk]
         /\ \A q \in Run : /\ status'[q] \notin Active /\ pending'[q] \in {0, pending[q]}
                           /\ \/ status'[q] = status[q]
                              \/ status[q] \in Active /\ status'[q] = "cancelled"
         /\ (scopeRun' => scopeRun) /\ (scopeOnce' => scopeOnce)
<1> DEFINE live == {q \in Run : status[q] \in Active}
<1>1. /\ status' = [q \in Run |-> IF q \in live THEN "cancelled" ELSE status[q]]
      /\ pending' = [q \in Run |-> IF q \in live \cup {r} THEN 0 ELSE pending[q]]
      /\ scopeRun' = (scopeRun /\ live = {})
      /\ scopeOnce' = (scopeOnce /\ live = {})
  BY DEF CancelGroup
<1>2. (scopeRun' => scopeRun) /\ (scopeOnce' => scopeOnce)
  BY <1>1, Zenon
<1>3. status' \in [Run -> RunStatus]
  BY <1>1 DEF RunStatus, Stopped, WaitInv, RunTypes
<1>4. pending' \in [Run -> 0 .. MaxAsk]
  BY <1>1, ApprovalAssumption DEF WaitInv, RunTypes
<1>5. \A q \in Run : /\ status'[q] \notin Active /\ pending'[q] \in {0, pending[q]}
                     /\ \/ status'[q] = status[q]
                        \/ status[q] \in Active /\ status'[q] = "cancelled"
  BY <1>1 DEF Active
<1>6. QED BY <1>2, <1>3, <1>4, <1>5

\* What the rows and the promises look like when only the last request changes.
LEMMA AtLast ==
  ASSUME WaitInv, asked # 0, NEW x, NEW w,
         row' = [row EXCEPT ![asked] = x], verdict' = [verdict EXCEPT ![asked] = w]
  PROVE  /\ row'[asked] = x /\ verdict'[asked] = w
         /\ \A b \in Approval : b # asked => row'[b] = row[b] /\ verdict'[b] = verdict[b]
BY LastAsked DEF WaitInv, IndInv, CoreTypes

\* The last request is refused and its group cancelled.
LEMMA DenialSettles ==
  ASSUME WaitInv, UNCHANGED <<requests, pc>>, asked # 0, verdict[asked] = "none", NEW x, NEW w,
         row' = [row EXCEPT ![asked] = x], verdict' = [verdict EXCEPT ![asked] = w],
         \/ x = row[asked] /\ row[asked] # "requested"
         \/ row[asked] = "requested" /\ x \in {"denied", "expired"},
         w \in Refusal \/ w = "none",
         CancelGroup(askedBy[asked])
  PROVE  Settles
<1>1. askedBy[asked] \in Run
  BY LastAsked
<1>2. status'[askedBy[asked]] \notin Active /\ status'[askedBy[asked]] \notin Awaiting
  BY <1>1, CancelFacts DEF Active, Awaiting
<1>3. QED BY <1>1, <1>2, CancelFacts, AtLast DEF Settles, requests

\* The last request is registered and approved.
LEMMA ApprovalSettles ==
  ASSUME WaitInv, UNCHANGED <<requests, pc>>, asked # 0, verdict[asked] = "none", NEW w, NEW d \in Allow,
         row[asked] = "requested", row' = [row EXCEPT ![asked] = "consumed"],
         verdict' = [verdict EXCEPT ![asked] = w], w \in Allow \cup {"none"},
         FinishApproval(askedBy[asked], d)
  PROVE  Settles
<1> DEFINE r == askedBy[asked]
<1>1. r \in Run
  BY LastAsked
<1>2. /\ status' = [status EXCEPT ![r] = IF @ \in Active THEN "running" ELSE @]
      /\ pending' = [pending EXCEPT ![r] = 0] /\ scopeOnce' = scopeOnce
  BY DEF FinishApproval, Allow, SetStatus
<1> HIDE DEF r
<1>3. status' \in [Run -> RunStatus] /\ pending' \in [Run -> 0 .. MaxAsk]
  BY <1>1, <1>2, ApprovalAssumption DEF RunStatus, Active, WaitInv, RunTypes
<1>4. \A q \in Run : /\ status'[q] = status[q] \/ (status[q] \in Active /\ status'[q] = "running")
                     /\ pending'[q] \in {0, pending[q]}
  BY <1>1, <1>2 DEF WaitInv, RunTypes
<1>5. status'[r] \notin Awaiting
  BY <1>1, <1>2 DEF WaitInv, RunTypes, Active, Awaiting
<1>6. row'[asked] = "consumed" /\ verdict'[asked] = w
      /\ \A b \in Approval : b # asked => row'[b] = row[b] /\ verdict'[b] = verdict[b]
  BY AtLast
<1>7. w \notin Refusal
  BY DEF Allow, Refusal
<1>8. QED BY <1>2, <1>3, <1>4, <1>5, <1>6, <1>7 DEF Settles, requests, r

\* A row is decided or expires, and the promise is left alone.
LEMMA RowSettles ==
  ASSUME WaitInv, UNCHANGED <<requests, pc, verdict, pending, scopeRun, scopeOnce, status>>,
         NEW a \in Approval, row[a] = "requested", NEW x \in {"consumed", "approved", "denied", "expired"},
         row' = [row EXCEPT ![a] = x]
  PROVE  Settles
<1>1. a \in 1 .. asked
  BY ApprovalAssumption DEF WaitInv, IndInv, CoreTypes, Fresh, Approval
<1>2. verdict[a] = "none"
  BY <1>1 DEF WaitInv, OpenInv
<1>3. a = asked /\ asked # 0
  BY <1>1, <1>2, PendingIsLast
<1>4. row'[asked] = x /\ \A b \in Approval : b # asked => row'[b] = row[b]
  BY <1>3 DEF WaitInv, IndInv, CoreTypes
<1>5. status' \in [Run -> RunStatus] /\ pending' \in [Run -> 0 .. MaxAsk]
  BY DEF WaitInv, RunTypes, RunStatus
<1>6. QED BY <1>3, <1>4, <1>5 DEF Settles, requests

\* A synthetic request is approved.
LEMMA SyntheticSettles ==
  ASSUME WaitInv, UNCHANGED <<requests, pc, row, pending, scopeRun, scopeOnce>>, asked # 0,
         verdict[asked] = "none", kind[asked] = "synthetic", NEW d \in Allow,
         verdict' = [verdict EXCEPT ![asked] = d],
         status' = status \/ status' = SetStatus(askedBy[asked], "running")
  PROVE  Settles
<1> DEFINE r == askedBy[asked]
<1>1. r \in Run /\ asked \in 1 .. asked /\ asked \in Approval
  BY LastAsked
<1>2. row[asked] = "unregistered"
  BY <1>1 DEF WaitInv, OwnedInv
<1>3. /\ verdict'[asked] = d
      /\ \A b \in Approval : b # asked => verdict'[b] = verdict[b]
  BY <1>1 DEF WaitInv, IndInv, CoreTypes
<1> HIDE DEF r
<1>4. status' \in [Run -> RunStatus] /\ pending' \in [Run -> 0 .. MaxAsk]
  BY <1>1, ApprovalAssumption DEF RunStatus, Active, WaitInv, RunTypes, SetStatus
<1>5. \A q \in Run : status'[q] = status[q] \/ (status[q] \in Active /\ status'[q] = "running")
  BY <1>1 DEF WaitInv, RunTypes, SetStatus
<1>6. d \notin Refusal
  BY DEF Allow, Refusal
<1>7. QED BY <1>2, <1>3, <1>4, <1>5, <1>6 DEF Settles, requests

\* The abort listeners, together with the stop of the active runs.
LEMMA StopSettles ==
  ASSUME WaitInv, UNCHANGED <<requests, pc>>, AbortAll,
         status' \in [Run -> RunStatus], pending' \in [Run -> 0 .. MaxAsk],
         \A q \in Run : IF status[q] \in Active THEN status'[q] \in Stopped /\ pending'[q] = 0
                        ELSE status'[q] = status[q] /\ pending'[q] = pending[q],
         scopeRun' => scopeRun, scopeOnce' => scopeOnce
  PROVE  Settles
<1> DEFINE hit == {a \in 1 .. asked : verdict[a] = "none" /\ status[askedBy[a]] \in Active}
<1>1. /\ verdict' = [a \in Approval |-> IF a \in hit THEN "abort" ELSE verdict[a]]
      /\ row' = [a \in Approval |->
                   IF a \in hit THEN (IF Accepts(a) THEN "denied" ELSE RefusedRow(a)) ELSE row[a]]
  BY DEF AbortAll
<1>2. \A b \in Approval : b # asked => b \notin hit
  BY PendingIsLast DEF WaitInv, OpenInv
<1>3. \A b \in Approval : b # asked => row'[b] = row[b] /\ verdict'[b] = verdict[b]
  <2> HIDE DEF hit
  <2>1. QED BY <1>1, <1>2
<1>4. \A q \in Run : status'[q] \notin Active /\ status'[q] \notin Awaiting
  BY DEF Active, Stopped, Awaiting
<1>5. \A q \in Run : /\ \/ status'[q] = status[q]
                        \/ status[q] \in Active /\ status'[q] \in {"running", "cancelled", "interrupted"}
                     /\ pending'[q] \in {0, pending[q]}
  BY DEF Stopped
<1>6. ASSUME asked # 0
      PROVE  /\ \/ row'[asked] = row[asked]
                \/ row[asked] = "requested" /\ row'[asked] \in {"consumed", "approved", "denied", "expired"}
             /\ verdict'[asked] = verdict[asked] \/ (verdict[asked] = "none" /\ row'[asked] # "requested")
             /\ row'[asked] = "requested" => pending'[askedBy[asked]] = pending[askedBy[asked]]
  <2>1. asked \in Approval /\ asked \in 1 .. asked /\ askedBy[asked] \in Run
    BY <1>6, LastAsked
  <2>2. CASE asked \in hit
    <3>1. row'[asked] = IF Accepts(asked) THEN "denied" ELSE RefusedRow(asked)
      BY <1>1, <2>1, <2>2
    <3>2. \/ row'[asked] = row[asked] /\ row[asked] # "requested"
          \/ row[asked] = "requested" /\ row'[asked] \in {"denied", "expired"}
      BY <3>1 DEF Accepts, RefusedRow, ExpiredRow
    <3>3. verdict[asked] = "none"
      BY <2>2
    <3>4. QED BY <3>2, <3>3
  <2>3. CASE asked \notin hit
    <3>1. row'[asked] = row[asked] /\ verdict'[asked] = verdict[asked]
      BY <1>1, <2>1, <2>3
    <3>2. row[asked] = "requested" => status[askedBy[asked]] \notin Active
      BY <2>1, <2>3 DEF WaitInv, OpenInv
    <3>3. QED BY <2>1, <3>1, <3>2
  <2>4. QED BY <2>2, <2>3
<1>7. asked # 0 => askedBy[asked] \in Run
  BY LastAsked
<1> HIDE DEF hit
<1>8. QED BY <1>3, <1>4, <1>5, <1>6, <1>7 DEF Settles, requests

\* The resolve callbacks, for whatever number the WebSocket or a channel holds.
LEMMA ResolveSettles ==
  ASSUME WaitInv, UNCHANGED <<requests, pc>>, NEW a \in Approval, NEW d \in Decision,
         NEW v \in {"deny", "timeout"}, Resolve(a, d, v)
  PROVE  Settles
<1>1. CASE verdict[a] # "none"
  BY <1>1, IdleSettles DEF Resolve
<1>2. CASE verdict[a] = "none" /\ kind[a] = "none" /\ row[a] = "none"
  <2>1. ResolveRegistered(a, d, v) /\ ~Accepts(a) /\ RefusedRow(a) = row[a]
    BY <1>2 DEF Resolve, Accepts, RefusedRow, ExpiredRow
  <2>2. row' = row /\ UNCHANGED <<verdict, pending, scopeRun, scopeOnce, status>>
    BY <2>1 DEF ResolveRegistered, WaitInv, IndInv, CoreTypes
  <2>3. QED BY <2>2, IdleSettles DEF dispatcher
<1>3. CASE verdict[a] = "none" /\ ~(kind[a] = "none" /\ row[a] = "none")
  <2>1. a = asked /\ asked # 0 /\ asked \in 1 .. asked /\ asked \in Approval
    BY <1>3, PendingIsLast
  <2>2. d = "deny" \/ d \in Allow
    BY DEF Decision
  <2>3. CASE kind[a] = "synthetic"
    <3>1. row' = row /\ row[asked] = "unregistered" /\ ResolveSynthetic(a, d, v)
      BY <1>3, <2>1, <2>3 DEF Resolve, ResolveSynthetic, WaitInv, OwnedInv
    <3>2. CASE d = "deny"
      <4>1. row' = [row EXCEPT ![asked] = row[asked]]
        BY <3>1 DEF WaitInv, IndInv, CoreTypes
      <4>2. verdict' = [verdict EXCEPT ![asked] = v] /\ CancelGroup(askedBy[asked])
        BY <2>1, <3>1, <3>2 DEF ResolveSynthetic
      <4>3. v \in Refusal
        BY DEF Refusal
      <4>4. QED BY <1>3, <2>1, <3>1, <4>1, <4>2, <4>3, DenialSettles
    <3>3. CASE d # "deny"
      <4>1. verdict' = [verdict EXCEPT ![asked] = d] /\ UNCHANGED <<pending, scopeRun, scopeOnce, status>>
        BY <2>1, <3>1, <3>3 DEF ResolveSynthetic
      <4>2. QED BY <1>3, <2>1, <2>2, <2>3, <3>1, <3>3, <4>1, SyntheticSettles
    <3>4. QED BY <3>2, <3>3
  <2>4. CASE kind[a] # "synthetic"
    <3>1. ResolveRegistered(a, d, v)
      BY <1>3, <2>4 DEF Resolve
    <3>2. CASE Accepts(a) /\ d = "deny"
      <4>1. /\ row' = [row EXCEPT ![asked] = "denied"] /\ verdict' = [verdict EXCEPT ![asked] = v]
            /\ CancelGroup(askedBy[asked]) /\ row[asked] = "requested"
        BY <2>1, <3>1, <3>2 DEF ResolveRegistered, FinishApproval, Accepts
      <4>2. v \in Refusal
        BY DEF Refusal
      <4>3. QED BY <1>3, <2>1, <4>1, <4>2, DenialSettles
    <3>3. CASE Accepts(a) /\ d # "deny"
      <4>1. /\ row' = [row EXCEPT ![asked] = "consumed"] /\ verdict' = [verdict EXCEPT ![asked] = d]
            /\ FinishApproval(askedBy[asked], d) /\ row[asked] = "requested"
        BY <2>1, <3>1, <3>3 DEF ResolveRegistered, Accepts
      <4>2. QED BY <1>3, <2>1, <2>2, <3>3, <4>1, ApprovalSettles
    <3>4. CASE ~Accepts(a)
      <4>1. row' = [row EXCEPT ![a] = RefusedRow(a)] /\ UNCHANGED <<verdict, pending, scopeRun, scopeOnce, status>>
        BY <3>1, <3>4 DEF ResolveRegistered
      <4>2. CASE row[a] = "requested"
        <5>1. RefusedRow(a) = "expired"
          BY <3>4, <4>2 DEF RefusedRow, ExpiredRow, Accepts
        <5>2. QED BY <4>1, <4>2, <5>1, RowSettles
      <4>3. CASE row[a] # "requested"
        <5>1. RefusedRow(a) = row[a]
          BY <4>3 DEF RefusedRow, ExpiredRow
        <5>2. row' = row
          BY <4>1, <5>1 DEF WaitInv, IndInv, CoreTypes
        <5>3. QED BY <4>1, <5>2, IdleSettles DEF dispatcher
      <4>4. QED BY <4>2, <4>3
    <3>5. QED BY <3>2, <3>3, <3>4
  <2>5. QED BY <2>3, <2>4
<1>4. QED BY <1>1, <1>2, <1>3

\* The answer to all items of a channel's message.
LEMMA ResolveAllSettles ==
  ASSUME WaitInv, UNCHANGED <<requests, pc>>, NEW c, NEW d \in Decision,
         NEW v \in {"deny", "timeout"}, ResolveAll(c, d, v)
  PROVE  Settles
<1> DEFINE open == {a \in 1 .. asked : context[a] = c /\ verdict[a] = "none"}
<1>1. CASE open = {}
  BY <1>1, IdleSettles DEF ResolveAll
<1>2. CASE open # {}
  <2> DEFINE a == CHOOSE a \in open : TRUE
  <2>1. a \in open /\ Resolve(a, d, v)
    BY <1>2 DEF ResolveAll
  <2>2. a \in Approval
    BY <2>1, LastAsked
  <2> HIDE DEF a
  <2>3. QED BY <2>1, <2>2, ResolveSettles
<1>3. QED BY <1>1, <1>2

\* The types of the WebSocket's maps survive the listeners of approval.resolved.
LEMMA EmitTypes ==
  ASSUME WaitInv, NEW r, NEW ids, EmitResolved(r, ids)
  PROVE  wsRun' \in [Run -> 0 .. MaxAsk] /\ wsId' \subseteq Approval
<1>1. 0 \in 0 .. MaxAsk /\ wsRun \in [Run -> 0 .. MaxAsk] /\ wsId \subseteq Approval
  BY ApprovalAssumption DEF WaitInv, RunTypes
<1>2. wsRun' = [wsRun EXCEPT ![r] = 0] /\ wsId' = wsId \ ids
  BY DEF EmitResolved
<1>3. QED BY <1>1, <1>2

WsTypes == wsRun' \in [Run -> 0 .. MaxAsk] /\ wsId' \subseteq Approval

\* Every answer settles the last request or nothing.
LEMMA AnswerSettles == ASSUME WaitInv, Answer PROVE Settles /\ WsTypes
<1>0. WaitInv /\ UNCHANGED websocket => WsTypes
  BY DEF WsTypes, websocket, WaitInv, RunTypes
<1>1. ASSUME NEW r \in Run, NEW a \in 0 .. asked, NEW d \in Decision, WsRespond(r, a, d)
      PROVE  Settles /\ WsTypes
  <2>1. UNCHANGED <<requests, pc>> /\ WsTypes
    BY <1>1, EmitTypes DEF WsRespond, agent, WsTypes
  <2>2. CASE WsResolver(r, a) # 0
    <3>1. Resolve(WsResolver(r, a), d, "deny")
      BY <1>1, <2>2 DEF WsRespond
    <3>2. WsResolver(r, a) \in Approval
      BY <2>2, ApprovalAssumption DEF WsResolver, WaitInv, RunTypes, Approval
    <3>3. QED BY <2>1, <3>1, <3>2, ResolveSettles
  <2>3. CASE WsResolver(r, a) = 0
    <3>1. pending[r] # 0 /\ row[pending[r]] = "requested" /\ ResolvePending(r, d)
      BY <1>1, <2>3 DEF WsRespond, Accepts
    <3>2. pending[r] \in 1 .. asked /\ askedBy[pending[r]] = r /\ pending[r] \in Approval
      BY <3>1, LastAsked DEF WaitInv, OpenInv, RunTypes
    <3>3. verdict[pending[r]] = "none"
      BY <3>1, <3>2 DEF WaitInv, OpenInv
    <3>4. pending[r] = asked /\ asked # 0
      BY <3>1, <3>2, <3>3, PendingIsLast
    <3>5. d = "deny" \/ d \in Allow
      BY DEF Decision
    <3>6. CASE d = "deny"
      <4> DEFINE w == IF status[r] \in Active THEN "abort" ELSE "none"
      <4>1. /\ row' = [row EXCEPT ![asked] = "denied"] /\ verdict' = [verdict EXCEPT ![asked] = w]
            /\ CancelGroup(askedBy[asked]) /\ row[asked] = "requested" /\ verdict[asked] = "none"
        BY <3>1, <3>2, <3>3, <3>4, <3>6 DEF ResolvePending, FinishApproval
      <4>2. w \in Refusal \/ w = "none"
        BY DEF Refusal
      <4> HIDE DEF w
      <4>3. QED BY <2>1, <3>4, <4>1, <4>2, DenialSettles
    <3>7. CASE d # "deny"
      <4>1. /\ row' = [row EXCEPT ![asked] = "consumed"] /\ verdict' = [verdict EXCEPT ![asked] = "none"]
            /\ FinishApproval(askedBy[asked], d) /\ row[asked] = "requested" /\ verdict[asked] = "none"
        BY <3>1, <3>2, <3>3, <3>4, <3>7 DEF ResolvePending
      <4>2. QED BY <2>1, <3>4, <3>5, <3>7, <4>1, ApprovalSettles
    <3>8. QED BY <2>1, <3>6, <3>7
  <2>4. QED BY <2>1, <2>2, <2>3
<1>2. ASSUME NEW r \in Run, WsRespondLate(r) PROVE Settles /\ WsTypes
  <2>1. /\ UNCHANGED <<requests, pc, verdict, pending, scopeRun, scopeOnce, status, websocket>>
        /\ row[pending[r]] = "requested" /\ row' = [row EXCEPT ![pending[r]] = "expired"] /\ pending[r] # 0
    BY <1>2 DEF WsRespondLate, agent
  <2>2. pending[r] \in Approval
    BY <2>1, ApprovalAssumption DEF WaitInv, RunTypes, Approval
  <2>3. QED BY <1>0, <2>1, <2>2, RowSettles
<1>3. ASSUME NEW a \in 1 .. asked, NEW d \in Decision, HttpRespond(a, d) PROVE Settles /\ WsTypes
  <2> DEFINE x == IF Late(a) THEN "expired" ELSE IF d = "deny" THEN "denied" ELSE "approved"
  <2>1. /\ UNCHANGED <<requests, pc, verdict, pending, scopeRun, scopeOnce, status>>
        /\ row[a] = "requested" /\ row' = [row EXCEPT ![a] = x]
    BY <1>3 DEF HttpRespond, agent
  <2>2. x \in {"consumed", "approved", "denied", "expired"} /\ a \in Approval
    BY LastAsked
  <2>3. WsTypes
    BY <1>0, <1>3, EmitTypes DEF HttpRespond, WsTypes
  <2> HIDE DEF x
  <2>4. QED BY <2>1, <2>2, <2>3, RowSettles
<1>4. ASSUME NEW r \in Run, NEW d \in Decision, TelegramClick(r, d) PROVE Settles /\ WsTypes
  BY <1>0, <1>4, IdleSettles DEF TelegramClick, agent
<1>5. ASSUME NEW r \in Run, NEW d \in Decision, SlackRespond(r, d) PROVE Settles /\ WsTypes
  BY <1>5, ResolveAllSettles, EmitTypes DEF SlackRespond, agent, WsTypes
<1>6. QED BY <1>1, <1>2, <1>3, <1>4, <1>5 DEF Answer

\* So does every timer.
LEMMA TimerSettles ==
  ASSUME WaitInv, NEW a \in 1 .. asked,
         \/ Elapse(a) \/ Timeout(a) \/ SyntheticTimeout(a)
         \/ TelegramSent(a) \/ TelegramSendFails(a) \/ TelegramTimeout(a)
  PROVE  Settles /\ WsTypes
<1>0. WaitInv /\ UNCHANGED websocket => WsTypes
  BY DEF WsTypes, websocket, WaitInv, RunTypes
<1>1. CASE Elapse(a) \/ TelegramSent(a) \/ TelegramSendFails(a)
  BY <1>0, <1>1, IdleSettles DEF Elapse, TelegramSent, TelegramSendFails, agent
<1>2. CASE Timeout(a)
  <2>1. /\ UNCHANGED <<requests, pc>> /\ row' = [row EXCEPT ![a] = ExpiredRow(a)]
        /\ verdict[a] = "none" /\ verdict' = [verdict EXCEPT ![a] = "timeout"] /\ CancelGroup(askedBy[a])
    BY <1>2 DEF Timeout, agent, FinishApproval
  <2>2. \/ ExpiredRow(a) = row[a] /\ row[a] # "requested"
        \/ row[a] = "requested" /\ ExpiredRow(a) \in {"denied", "expired"}
    BY DEF ExpiredRow
  <2>3. a = asked /\ asked # 0
    BY <1>2, LastAsked, PendingIsLast DEF Timeout
  <2>4. "timeout" \in Refusal
    BY DEF Refusal
  <2>5. WsTypes
    BY <1>2, EmitTypes DEF Timeout, WsTypes
  <2>6. QED BY <2>1, <2>2, <2>3, <2>4, <2>5, DenialSettles
<1>3. CASE SyntheticTimeout(a)
  <2>1. /\ UNCHANGED <<requests, pc, row>> /\ kind[a] = "synthetic" /\ verdict[a] = "none"
        /\ verdict' = [verdict EXCEPT ![a] = IF Fallback = "deny" THEN "timeout" ELSE Fallback]
    BY <1>3 DEF SyntheticTimeout, agent
  <2>2. a = asked /\ asked # 0 /\ row[asked] = "unregistered"
    BY <2>1, LastAsked, PendingIsLast DEF WaitInv, OwnedInv
  <2>3. WsTypes
    BY <1>3, EmitTypes DEF SyntheticTimeout, WsTypes
  <2>4. CASE Fallback = "deny"
    <3>1. row' = [row EXCEPT ![asked] = row[asked]]
      BY <2>1 DEF WaitInv, IndInv, CoreTypes
    <3>2. verdict' = [verdict EXCEPT ![asked] = "timeout"] /\ CancelGroup(askedBy[asked]) /\ "timeout" \in Refusal
      BY <1>3, <2>1, <2>2, <2>4 DEF SyntheticTimeout, Refusal
    <3>3. QED BY <2>1, <2>2, <2>3, <3>1, <3>2, DenialSettles
  <2>5. CASE Fallback # "deny"
    <3>1. /\ verdict' = [verdict EXCEPT ![asked] = Fallback] /\ status' = SetStatus(askedBy[asked], "running")
          /\ UNCHANGED <<pending, scopeRun, scopeOnce>>
      BY <1>3, <2>1, <2>2, <2>5 DEF SyntheticTimeout
    <3>2. Fallback \in Allow
      BY <2>5, ApprovalAssumption DEF Allow
    <3>3. QED BY <2>1, <2>2, <2>3, <3>1, <3>2, SyntheticSettles
  <2>6. QED BY <2>4, <2>5
<1>4. CASE TelegramTimeout(a)
  <2>1. UNCHANGED <<requests, pc>>
    BY <1>4 DEF TelegramTimeout, agent
  <2>2. CASE entry[askedBy[a]] = 0
    BY <1>0, <1>4, <2>1, <2>2, IdleSettles DEF TelegramTimeout
  <2>3. CASE entry[askedBy[a]] # 0
    <3>1. ResolveAll(entry[askedBy[a]], "deny", "timeout") /\ "deny" \in Decision
      BY <1>4, <2>3 DEF TelegramTimeout, Decision
    <3>2. WsTypes
      BY <1>4, <2>3, ApprovalAssumption DEF TelegramTimeout, WsTypes, WaitInv, RunTypes
    <3>3. QED BY <2>1, <3>1, <3>2, ResolveAllSettles
  <2>4. QED BY <2>2, <2>3
<1>5. QED BY <1>1, <1>2, <1>3, <1>4

\* And every stop of the group.
LEMMA StopsSettle ==
  ASSUME WaitInv, (\E r \in Run : Cancel(r)) \/ CleanupStale PROVE Settles /\ WsTypes
<1>0. WaitInv /\ UNCHANGED websocket => WsTypes
  BY DEF WsTypes, websocket, WaitInv, RunTypes
<1>1. ASSUME NEW r \in Run, Cancel(r) PROVE Settles /\ WsTypes
  <2>1. /\ UNCHANGED <<requests, pc, websocket>> /\ AbortAll /\ status[r] \in Active /\ CancelGroup(r)
    BY <1>1 DEF Cancel, agent
  <2>2. \A q \in Run : IF status[q] \in Active THEN status'[q] \in Stopped /\ pending'[q] = 0
                       ELSE status'[q] = status[q] /\ pending'[q] = pending[q]
    BY <2>1 DEF CancelGroup, Stopped
  <2>3. QED BY <1>0, <2>1, <2>2, CancelFacts, StopSettles
<1>2. CASE CleanupStale
  <2>1. /\ UNCHANGED <<requests, pc, websocket, scopeRun, scopeOnce>> /\ AbortAll
        /\ status' = [q \in Run |-> IF status[q] \in Active THEN "interrupted" ELSE status[q]]
        /\ pending' = [q \in Run |-> IF status[q] \in Active THEN 0 ELSE pending[q]]
    BY <1>2 DEF CleanupStale, agent
  <2>2. \A q \in Run : IF status[q] \in Active THEN status'[q] \in Stopped /\ pending'[q] = 0
                       ELSE status'[q] = status[q] /\ pending'[q] = pending[q]
    BY <2>1 DEF Stopped
  <2>3. status' \in [Run -> RunStatus] /\ pending' \in [Run -> 0 .. MaxAsk]
    BY <2>1, ApprovalAssumption DEF WaitInv, RunTypes, RunStatus, Stopped
  <2>4. QED BY <1>0, <2>1, <2>2, <2>3, StopSettles
<1>3. QED BY <1>1, <1>2

\* A step that settles keeps the invariant.
LEMMA SettlesStep ==
  ASSUME WaitInv, IndInv', Settles, WsTypes PROVE WaitInv'
<1>1. RunTypes'
  BY DEF Settles, WsTypes, WaitInv, RunTypes, RunStatus
<1>2. OneExecutes'
  BY DEF Settles, WaitInv, OneExecutes
<1>3. \A a \in 1 .. asked : a \in Approval /\ askedBy[a] \in Run
  BY LastAsked DEF WaitInv, OwnedInv
<1>4. \A q \in Run : status[q] \notin Active => status'[q] = status[q]
  BY DEF Settles
<1>5. OwnedInv'
  <2> SUFFICES ASSUME NEW a \in 1 .. asked
               PROVE  /\ pc[askedBy[a]] # "new" /\ (kind[a] = "synthetic" <=> row'[a] = "unregistered")
                      /\ verdict'[a] \in Refusal => status'[askedBy[a]] \notin Active
    BY <1>3 DEF OwnedInv, Settles
  <2>1. /\ pc[askedBy[a]] # "new" /\ (kind[a] = "synthetic" <=> row[a] = "unregistered")
        /\ verdict[a] \in Refusal => status[askedBy[a]] \notin Active
    BY DEF WaitInv, OwnedInv
  <2>2. row'[a] = row[a] \/ (row[a] = "requested" /\ row'[a] \in {"consumed", "approved", "denied", "expired"})
    BY <1>3 DEF Settles
  <2>3. verdict'[a] = verdict[a] \/ (verdict'[a] \in Refusal => status'[askedBy[a]] \notin Active)
    BY <1>3 DEF Settles
  <2>4. QED BY <1>3, <1>4, <2>1, <2>2, <2>3
<1>6. OpenInv'
  <2>1. \A r \in Run : pc'[r] = "waiting" => asked' # 0 /\ askedBy'[asked'] = r
    BY DEF Settles, WaitInv, OpenInv
  <2>2. ASSUME NEW a \in 1 .. asked, verdict'[a] = "none" PROVE a = asked /\ pc[askedBy[a]] = "waiting"
    <3>1. verdict[a] = "none"
      BY <1>3, <2>2 DEF Settles
    <3>2. QED BY <3>1 DEF WaitInv, OpenInv
  <2>3. ASSUME NEW a \in 1 .. asked
        PROVE  /\ row'[a] # "superseded"
               /\ row'[a] = "requested" => verdict'[a] = "none" /\ pending'[askedBy[a]] = a
    <3>1. row[a] # "superseded" /\ (row[a] = "requested" => verdict[a] = "none" /\ pending[askedBy[a]] = a)
      BY DEF WaitInv, OpenInv
    <3>2. row'[a] # "superseded"
      BY <1>3, <3>1 DEF Settles
    <3>3. ASSUME row'[a] = "requested" PROVE verdict'[a] = "none" /\ pending'[askedBy[a]] = a
      <4>1. row[a] = "requested"
        BY <1>3, <3>3 DEF Settles
      <4>2. a = asked /\ asked # 0
        BY <1>3, <3>1, <4>1, PendingIsLast
      <4>3. QED BY <3>1, <3>3, <4>1, <4>2 DEF Settles
    <3>4. QED BY <3>2, <3>3
  <2>4. \A r \in Run : pending'[r] # 0 => pending'[r] <= asked' /\ askedBy'[pending'[r]] = r
    BY DEF Settles, WaitInv, OpenInv
  <2>5. asked' = asked /\ askedBy' = askedBy /\ pc' = pc
    BY DEF Settles
  <2>6. QED BY <2>1, <2>2, <2>3, <2>4, <2>5 DEF OpenInv
<1>7. AwaitInv'
  <2> SUFFICES ASSUME NEW r \in Run, status'[r] \in Awaiting
               PROVE  \/ pc[r] = "waiting" /\ (verdict'[asked] = "none" \/ kind[asked] = "synthetic")
                      \/ pc[r] = "over" /\ status'[r] = "awaiting_user"
    BY DEF AwaitInv, Settles
  <2>1. status'[r] = status[r]
    BY DEF Settles, Awaiting
  <2>2. CASE pc[r] = "waiting" /\ (verdict[asked] = "none" \/ kind[asked] = "synthetic")
    <3>1. asked # 0 /\ askedBy[asked] = r
      BY <2>2 DEF WaitInv, OpenInv
    <3>2. QED BY <2>2, <3>1 DEF Settles
  <2>3. CASE pc[r] = "over" /\ status[r] = "awaiting_user"
    BY <2>1, <2>3
  <2>4. QED BY <2>1, <2>2, <2>3 DEF WaitInv, AwaitInv
<1>8. ScopeWasGranted'
  <2>1. ASSUME NEW a \in 1 .. asked, row[a] \in {"consumed", "unregistered"} PROVE row'[a] = row[a]
    BY <1>3, <2>1 DEF Settles
  <2>2. ASSUME NEW a \in 1 .. asked, row[a] = "unregistered", verdict[a] # "none" PROVE verdict'[a] = verdict[a]
    BY <1>3, <2>2 DEF Settles
  <2>3. asked' = asked
    BY DEF Settles
  <2>4. ASSUME scopeRun'
        PROVE  \E a \in 1 .. asked : row'[a] = "consumed" \/ (row'[a] = "unregistered" /\ verdict'[a] = "allow_run")
    <3>1. CASE asked # 0 /\ row'[asked] = "consumed"
      BY <3>1, LastAsked
    <3>2. CASE scopeRun
      <4>1. PICK a \in 1 .. asked : row[a] = "consumed" \/ (row[a] = "unregistered" /\ verdict[a] = "allow_run")
        BY <3>2 DEF WaitInv, ScopeWasGranted
      <4>2. row'[a] = "consumed" \/ (row'[a] = "unregistered" /\ verdict'[a] = "allow_run")
        BY <2>1, <2>2, <4>1
      <4>3. QED BY <4>2
    <3>3. QED BY <2>4, <3>1, <3>2 DEF Settles
  <2>5. ASSUME scopeOnce'
        PROVE  \E a \in 1 .. asked : row'[a] = "unregistered" /\ verdict'[a] = "allow_once"
    <3>1. scopeOnce
      BY <2>5 DEF Settles
    <3>2. PICK a \in 1 .. asked : row[a] = "unregistered" /\ verdict[a] = "allow_once"
      BY <3>1 DEF WaitInv, ScopeWasGranted
    <3>3. row'[a] = "unregistered" /\ verdict'[a] = "allow_once"
      BY <2>1, <2>2, <3>2
    <3>4. QED BY <3>3
  <2>6. QED BY <2>3, <2>4, <2>5 DEF ScopeWasGranted
<1>9. QED BY <1>1, <1>2, <1>5, <1>6, <1>7, <1>8 DEF WaitInv

\* A step of the agent loop of r that does not ask.
Loops(r, l) ==
  /\ UNCHANGED <<requests, row, verdict, websocket>>
  /\ pc' = [pc EXCEPT ![r] = l] /\ l \in {"queued", "head", "tools", "executing", "over"}
  /\ \/ l \notin Executing \/ pc[r] \in Executing
     \/ \A q \in Run \ {r} : pc[q] \notin Executing
  /\ pc[r] = "waiting" => verdict[asked] # "none"
  /\ status' \in [Run -> RunStatus] /\ pending' \in [Run -> 0 .. MaxAsk]
  /\ \A q \in Run \ {r} : status'[q] = status[q] /\ pending'[q] = pending[q]
  /\ status'[r] \in Awaiting => l = "over" /\ status'[r] = "awaiting_user"
  /\ pending'[r] \in {0, pending[r]}
  /\ pc[r] # "new" /\ status'[r] \in Active => status[r] \in Active
  /\ ScopeWasGranted'

\* Such a step keeps the invariant.
LEMMA LoopsStep ==
  ASSUME WaitInv, IndInv', NEW r \in Run, NEW l, Loops(r, l) PROVE WaitInv'
<1>1. pc' \in [Run -> {"new", "queued", "head", "tools", "waiting", "executing", "over"}]
  BY DEF Loops, WaitInv, RunTypes
<1>2. RunTypes'
  BY <1>1 DEF Loops, WaitInv, RunTypes, RunStatus, requests, websocket
<1>3. \A q \in Run : pc'[q] = IF q = r THEN l ELSE pc[q]
  BY DEF Loops, WaitInv, RunTypes
<1>4. OneExecutes'
  <2> SUFFICES ASSUME NEW p \in Run, NEW q \in Run, pc'[p] \in Executing, pc'[q] \in Executing, p # q
               PROVE  FALSE
    BY DEF OneExecutes
  <2>1. CASE p = r
    BY <1>3, <2>1 DEF Loops, WaitInv, OneExecutes
  <2>2. CASE q = r
    BY <1>3, <2>2 DEF Loops, WaitInv, OneExecutes
  <2>3. CASE p # r /\ q # r
    BY <1>3, <2>3 DEF WaitInv, OneExecutes
  <2>4. QED BY <2>1, <2>2, <2>3
<1>5. l # "new" /\ l # "waiting"
  BY DEF Loops
<1>6. asked' = asked /\ askedBy' = askedBy /\ kind' = kind /\ row' = row /\ verdict' = verdict
  BY DEF Loops, requests
<1>7. OwnedInv'
  <2> SUFFICES ASSUME NEW a \in 1 .. asked
               PROVE  /\ askedBy[a] \in Run /\ pc'[askedBy[a]] # "new"
                      /\ kind[a] = "synthetic" <=> row[a] = "unregistered"
                      /\ verdict[a] \in Refusal => status'[askedBy[a]] \notin Active
    BY <1>6 DEF OwnedInv
  <2>1. /\ askedBy[a] \in Run /\ pc[askedBy[a]] # "new" /\ (kind[a] = "synthetic" <=> row[a] = "unregistered")
        /\ verdict[a] \in Refusal => status[askedBy[a]] \notin Active
    BY DEF WaitInv, OwnedInv
  <2>2. QED BY <1>3, <1>5, <2>1 DEF Loops
<1>8. OpenInv'
  <2>1. ASSUME NEW q \in Run, pc'[q] = "waiting" PROVE asked # 0 /\ askedBy[asked] = q
    BY <1>3, <1>5, <2>1 DEF WaitInv, OpenInv
  <2>2. ASSUME NEW a \in 1 .. asked, verdict[a] = "none"
        PROVE  a = asked /\ askedBy[a] # r /\ pc'[askedBy[a]] = "waiting"
    <3>1. a = asked /\ pc[askedBy[a]] = "waiting" /\ askedBy[a] \in Run
      BY <2>2 DEF WaitInv, OpenInv, OwnedInv
    <3>2. askedBy[a] # r
      BY <2>2, <3>1 DEF Loops
    <3>3. QED BY <1>3, <3>1, <3>2
  <2>3. ASSUME NEW a \in 1 .. asked
        PROVE  row[a] # "superseded" /\ (row[a] = "requested" => verdict[a] = "none" /\ pending'[askedBy[a]] = a)
    <3>1. row[a] # "superseded" /\ (row[a] = "requested" => verdict[a] = "none" /\ pending[askedBy[a]] = a)
          /\ askedBy[a] \in Run
      BY DEF WaitInv, OpenInv, OwnedInv
    <3>2. QED BY <2>2, <3>1 DEF Loops
  <2>4. ASSUME NEW q \in Run, pending'[q] # 0 PROVE pending'[q] <= asked /\ askedBy[pending'[q]] = q
    <3>1. pending'[q] = pending[q]
      BY <2>4 DEF Loops
    <3>2. QED BY <2>4, <3>1 DEF WaitInv, OpenInv
  <2>5. QED BY <1>6, <2>1, <2>2, <2>3, <2>4 DEF OpenInv
<1>9. AwaitInv'
  BY <1>3, <1>6 DEF Loops, WaitInv, AwaitInv
<1>10. QED BY <1>2, <1>4, <1>7, <1>8, <1>9 DEF WaitInv, Loops

\* What a run waits for is the last request of all.
LEMMA WaitsForLast ==
  ASSUME WaitInv, NEW r \in Run, pc[r] = "waiting" PROVE Current(r) = asked
<1>1. asked # 0 /\ askedBy[asked] = r /\ asked \in 1 .. asked /\ asked \in Nat
  BY LastAsked DEF WaitInv, OpenInv
<1>2. asked \in Asked(r) /\ \A b \in Asked(r) : b \in Nat /\ b <= asked
  BY <1>1 DEF Asked
<1>3. \A a \in Asked(r) : (\A b \in Asked(r) : b <= a) => a = asked
  BY <1>1, <1>2
<1>4. QED BY <1>1, <1>2, <1>3 DEF Current

\* No scope is opened.
LEMMA ScopesKept ==
  ASSUME WaitInv, UNCHANGED <<requests, row, verdict>>, scopeRun' => scopeRun, scopeOnce' => scopeOnce
  PROVE  ScopeWasGranted'
BY DEF WaitInv, ScopeWasGranted, requests

\* The run's status after updateRunStatus.
LEMMA StatusFacts ==
  ASSUME WaitInv, NEW r \in Run, NEW s \in RunStatus, s \notin Awaiting,
         status' = SetStatus(r, s) \/ (status' = status /\ status[r] \notin Awaiting)
  PROVE  /\ status' \in [Run -> RunStatus] /\ status'[r] \notin Awaiting
         /\ \A q \in Run \ {r} : status'[q] = status[q]
         /\ status'[r] \in Active => status[r] \in Active
BY DEF WaitInv, RunTypes, RunStatus, SetStatus, Active, Awaiting

\* Every step of the agent loop that does not ask is a step of Loops.
LEMMA StepLoops ==
  ASSUME WaitInv, NEW r \in Run, Step(r), ~Asks(r) PROVE \E l : Loops(r, l)
<1>0. /\ pc[r] \notin {"waiting", "over"} => status[r] \notin Awaiting
      /\ status \in [Run -> RunStatus] /\ pending \in [Run -> 0 .. MaxAsk]
      /\ "running" \in RunStatus /\ "completed" \in RunStatus
      /\ "running" \notin Awaiting /\ "completed" \notin Awaiting
  BY DEF WaitInv, AwaitInv, RunTypes, RunStatus, Active, Awaiting
<1>1. ASSUME NEW l \in {"queued", "head", "tools", "executing", "over"}, pc' = [pc EXCEPT ![r] = l],
             UNCHANGED <<requests, dispatcher, websocket>>, pc[r] \in {"head", "tools", "executing"}
      PROVE  Loops(r, l)
  <2>1. UNCHANGED <<requests, row, verdict, pending, scopeRun, scopeOnce, status, websocket>>
    BY <1>1 DEF dispatcher
  <2>2. ScopeWasGranted'
    BY <2>1, ScopesKept
  <2>3. QED BY <1>0, <1>1, <2>1, <2>2 DEF Loops, Executing
<1>2. ASSUME Arrive(r) PROVE Loops(r, "queued")
  <2>1. /\ UNCHANGED <<requests, row, verdict, pending, scopeRun, scopeOnce, websocket>> /\ pc[r] = "new"
        /\ status' = [status EXCEPT ![r] = "queued"] /\ pc' = [pc EXCEPT ![r] = "queued"]
    BY <1>2 DEF Arrive, Goto
  <2>2. ScopeWasGranted'
    BY <2>1, ScopesKept
  <2>3. /\ status' \in [Run -> RunStatus] /\ status'[r] = "queued"
        /\ \A q \in Run \ {r} : status'[q] = status[q]
    BY <1>0, <2>1 DEF RunStatus, Active
  <2>4. QED BY <1>0, <2>1, <2>2, <2>3 DEF Loops, Executing, Awaiting
<1>3. ASSUME Begin(r) PROVE Loops(r, "head")
  <2>1. /\ UNCHANGED <<requests, row, verdict, pending, scopeRun, scopeOnce, websocket>> /\ pc[r] = "queued"
        /\ status' = SetStatus(r, "running") /\ pc' = [pc EXCEPT ![r] = "head"]
        /\ \A q \in Run \ {r} : pc[q] \in {"new", "queued", "over"}
    BY <1>3 DEF Begin, Goto
  <2>2. ScopeWasGranted'
    BY <2>1, ScopesKept
  <2>3. QED BY <1>0, <2>1, <2>2, StatusFacts DEF Loops, Executing
<1>4. ASSUME NEW s \in Ending, Finish(r, s) PROVE Loops(r, "over")
  <2> DEFINE keep == s = "awaiting_user" \/ status[r] \notin Active \/ \E q \in Run \ {r} : status[q] \in Active
  <2>1. /\ UNCHANGED <<requests, row, verdict, websocket>> /\ pc[r] = "head"
        /\ status' = SetStatus(r, s) /\ pc' = [pc EXCEPT ![r] = "over"]
        /\ pending' = [pending EXCEPT ![r] = IF s = "awaiting_user" THEN @ ELSE 0]
        /\ scopeRun' = (scopeRun /\ keep) /\ scopeOnce' = (scopeOnce /\ keep)
    BY <1>4 DEF Finish, Goto
  <2>2. (scopeRun' => scopeRun) /\ (scopeOnce' => scopeOnce)
    <3> HIDE DEF keep
    <3>1. QED BY <2>1, Zenon
  <2>3. ScopeWasGranted'
    BY <2>1, <2>2, ScopesKept
  <2>4. /\ pending' \in [Run -> 0 .. MaxAsk] /\ pending'[r] \in {0, pending[r]}
        /\ \A q \in Run \ {r} : pending'[q] = pending[q]
    BY <1>0, <2>1, ApprovalAssumption
  <2>5. /\ status' \in [Run -> RunStatus] /\ (status'[r] \in Active => status[r] \in Active)
        /\ \A q \in Run \ {r} : status'[q] = status[q]
    BY <1>0, <2>1 DEF SetStatus, RunStatus, Ending, Active, Stopped
  <2>6. status'[r] \in Awaiting => status'[r] = "awaiting_user"
    BY <1>0, <2>1 DEF SetStatus, Ending, Awaiting
  <2>7. QED BY <2>1, <2>3, <2>4, <2>5, <2>6 DEF Loops, Executing
<1>5. ASSUME DispatchScoped(r) PROVE Loops(r, "executing")
  <2>1. /\ UNCHANGED <<requests, row, verdict, pending, scopeRun, status, websocket>> /\ pc[r] = "tools"
        /\ pc' = [pc EXCEPT ![r] = "executing"] /\ scopeOnce' = (scopeOnce /\ scopeRun)
    BY <1>5 DEF DispatchScoped, Goto
  <2>2. scopeOnce' => scopeOnce
    BY <2>1, Zenon
  <2>3. ScopeWasGranted'
    BY <2>1, <2>2, ScopesKept
  <2>4. QED BY <1>0, <2>1, <2>3 DEF Loops, Executing
<1>6. ASSUME pc[r] = "waiting"
      PROVE  asked # 0 /\ askedBy[asked] = r /\ asked \in 1 .. asked /\ Current(r) = asked
  BY <1>6, LastAsked, WaitsForLast DEF WaitInv, OpenInv
<1>7. ASSUME Proceed(r) PROVE \E l : Loops(r, l)
  <2>1. /\ UNCHANGED <<requests, row, verdict, pending, scopeRun, scopeOnce, status, websocket>>
        /\ pc[r] = "waiting" /\ kind[Current(r)] # "synthetic" /\ verdict[Current(r)] # "none"
        /\ \E l \in {"executing", "tools"} : pc' = [pc EXCEPT ![r] = l]
    BY <1>7 DEF Proceed, Goto, dispatcher
  <2>2. ScopeWasGranted'
    BY <2>1, ScopesKept
  <2>3. kind[asked] # "synthetic" /\ verdict[asked] # "none"
    BY <1>6, <2>1
  <2>4. status[r] \notin Awaiting
    BY <2>1, <2>3 DEF WaitInv, AwaitInv
  <2>5. PICK l \in {"executing", "tools"} : pc' = [pc EXCEPT ![r] = l]
    BY <2>1
  <2>6. Loops(r, l)
    BY <1>0, <2>1, <2>2, <2>3, <2>4, <2>5 DEF Loops, Executing
  <2>7. QED BY <2>6
<1>8. ASSUME ProceedSynthetic(r) PROVE Loops(r, "head")
  <2> DEFINE v == verdict[asked]
  <2>1. /\ UNCHANGED <<requests, row, verdict, pending, websocket>>
        /\ pc[r] = "waiting" /\ kind[asked] = "synthetic" /\ v # "none" /\ pc' = [pc EXCEPT ![r] = "head"]
        /\ IF v \in Allow /\ status[r] \notin Stopped
           THEN /\ scopeRun' = (scopeRun \/ v = "allow_run")
                /\ scopeOnce' = (v # "allow_run" /\ (scopeOnce \/ ~scopeRun))
                /\ status' = SetStatus(r, "running")
           ELSE UNCHANGED <<scopeRun, scopeOnce, status>>
    BY <1>6, <1>8 DEF ProceedSynthetic, Goto
  <2>2. asked # 0 /\ askedBy[asked] = r /\ asked \in 1 .. asked /\ asked \in Approval /\ row[asked] = "unregistered"
    BY <1>6, <2>1, LastAsked DEF WaitInv, OwnedInv
  <2>3. v \in Allow \/ v \in Refusal
    BY <2>1, <2>2 DEF WaitInv, IndInv, CoreTypes, Verdict, Decision, Allow, Refusal
  <2>4. CASE v \in Allow /\ status[r] \notin Stopped
    <3>1. /\ scopeRun' = (scopeRun \/ v = "allow_run") /\ status' = SetStatus(r, "running")
          /\ scopeOnce' = (v # "allow_run" /\ (scopeOnce \/ ~scopeRun))
      BY <2>1, <2>4
    <3>2. scopeRun' => scopeRun \/ v = "allow_run"
      BY <3>1, Zenon
    <3>3. scopeOnce' => v # "allow_run"
      BY <3>1, Zenon
    <3>4. v # "allow_run" => v = "allow_once"
      BY <2>4 DEF Allow
    <3>5. asked' = asked /\ row' = row /\ verdict' = verdict
      BY <2>1 DEF requests
    <3> HIDE DEF v
    <3>6. scopeRun' => \E a \in 1 .. asked : row[a] = "consumed" \/ (row[a] = "unregistered" /\ verdict[a] = "allow_run")
      BY <2>2, <3>2 DEF v, WaitInv, ScopeWasGranted
    <3>7. scopeOnce' => \E a \in 1 .. asked : row[a] = "unregistered" /\ verdict[a] = "allow_once"
      BY <2>2, <3>3, <3>4 DEF v
    <3>8. ScopeWasGranted'
      BY <3>5, <3>6, <3>7 DEF ScopeWasGranted
    <3>9. QED BY <1>0, <2>1, <3>1, <3>8, StatusFacts DEF Loops, Executing, v
  <2>5. CASE ~(v \in Allow /\ status[r] \notin Stopped)
    <3>1. UNCHANGED <<scopeRun, scopeOnce, status>>
      BY <2>1, <2>5
    <3>2. ScopeWasGranted'
      BY <2>1, <3>1, ScopesKept
    <3>3. status[r] \notin Awaiting
      <4>1. CASE v \in Refusal
        <5>1. status[r] \notin Active
          BY <2>2, <4>1 DEF WaitInv, OwnedInv
        <5>2. QED BY <5>1 DEF Active, Awaiting
      <4>2. CASE status[r] \in Stopped
        BY <4>2 DEF Stopped, Awaiting
      <4>3. QED BY <2>3, <2>5, <4>1, <4>2
    <3>4. QED BY <1>0, <2>1, <3>1, <3>2, <3>3 DEF Loops, Executing
  <2>6. QED BY <2>4, <2>5
<1>9. ASSUME EndRound(r) \/ (\E n \in 1 .. MaxTools : Round(r, n)) \/ DispatchFree(r) \/ ToolDone(r)
      PROVE  \E l : Loops(r, l)
  <2>1. /\ UNCHANGED <<requests, dispatcher, websocket>> /\ pc[r] \in {"head", "tools", "executing"}
        /\ \E l \in {"queued", "head", "tools", "executing", "over"} : pc' = [pc EXCEPT ![r] = l]
    BY <1>9 DEF EndRound, Round, DispatchFree, ToolDone, Goto
  <2>2. QED BY <1>1, <2>1
<1>10. ASSUME DispatchRefused(r) PROVE \E l : Loops(r, l)
  <2>1. UNCHANGED <<requests, dispatcher, websocket>> /\ pc[r] = "tools" /\ pc' = pc
    BY <1>10 DEF DispatchRefused
  <2>2. pc' = [pc EXCEPT ![r] = "tools"]
    BY <2>1 DEF WaitInv, RunTypes
  <2>3. QED BY <1>1, <2>1, <2>2
<1>11. QED BY <1>2, <1>3, <1>4, <1>5, <1>7, <1>8, <1>9, <1>10 DEF Step, Asks, Ending

\* Who asks is at its turn: nobody waits, every earlier promise is settled and
\* every earlier row decided, so that there is nothing to supersede.
LEMMA NothingOpen ==
  ASSUME WaitInv, NEW r \in Run, pc[r] \in {"head", "tools"}
  PROVE  /\ \A q \in Run : pc[q] # "waiting"
         /\ \A b \in 1 .. asked : verdict[b] # "none" /\ row[b] # "requested" /\ row[b] # "superseded"
<1>1. ASSUME NEW q \in Run, pc[q] = "waiting" PROVE FALSE
  <2>1. pc[r] \in Executing /\ pc[q] \in Executing /\ q # r
    BY <1>1 DEF Executing
  <2>2. QED BY <2>1 DEF WaitInv, OneExecutes
<1>2. ASSUME NEW b \in 1 .. asked PROVE verdict[b] # "none"
  BY <1>1 DEF WaitInv, OpenInv, OwnedInv
<1>3. QED BY <1>1, <1>2 DEF WaitInv, OpenInv

\* What both ways of asking do to the runs and the maps.
LEMMA AskShape ==
  ASSUME WaitInv, NEW r \in Run, Asks(r)
  PROVE  LET a == asked + 1 IN
         /\ pc[r] \in {"head", "tools"} /\ pc' = [pc EXCEPT ![r] = "waiting"]
         /\ a \in Approval /\ asked' = a /\ askedBy' = [askedBy EXCEPT ![a] = r] /\ verdict' = verdict
         /\ \A b \in 1 .. asked : row'[b] = row[b] /\ kind'[b] = kind[b]
         /\ \/ kind'[a] # "synthetic" /\ row'[a] = "requested" /\ pending' = [pending EXCEPT ![r] = a]
            \/ kind'[a] = "synthetic" /\ row'[a] = "unregistered" /\ pending' = pending
         /\ \E s \in Awaiting : status' = SetStatus(r, s)
         /\ wsRun' = [wsRun EXCEPT ![r] = a] /\ (wsId' = wsId \/ wsId' = wsId \cup {a})
         /\ UNCHANGED <<scopeRun, scopeOnce>>
<1> DEFINE a == asked + 1
<1>1. a \in Approval /\ asked \in Nat /\ \A b \in 1 .. asked : b \in Approval /\ b # a
  BY AskFacts, LastAsked DEF WaitInv
<1>2. kind \in [Approval -> Kind] /\ row \in [Approval -> RowStatus]
  BY DEF WaitInv, IndInv, CoreTypes
<1> HIDE DEF a
<1>3. ASSUME NEW k \in Kinds, RequestApproval(r, k)
      PROVE  /\ pc[r] = "tools" /\ pc' = [pc EXCEPT ![r] = "waiting"]
             /\ asked' = a /\ askedBy' = [askedBy EXCEPT ![a] = r] /\ verdict' = verdict
             /\ \A b \in 1 .. asked : row'[b] = row[b] /\ kind'[b] = kind[b]
             /\ kind'[a] # "synthetic" /\ row'[a] = "requested" /\ pending' = [pending EXCEPT ![r] = a]
             /\ \E s \in Awaiting : status' = SetStatus(r, s)
             /\ wsRun' = [wsRun EXCEPT ![r] = a] /\ wsId' = wsId \cup {a}
             /\ UNCHANGED <<scopeRun, scopeOnce>>
  <2>1. /\ pc[r] = "tools" /\ pc' = [pc EXCEPT ![r] = "waiting"] /\ k # "synthetic"
        /\ asked' = a /\ askedBy' = [askedBy EXCEPT ![a] = r] /\ verdict' = verdict
        /\ kind' = [kind EXCEPT ![a] = k] /\ pending' = [pending EXCEPT ![r] = a]
        /\ row' = [b \in Approval |->
                     IF b = a THEN "requested"
                     ELSE IF b \in Asked(r) /\ kind[b] = k /\ row[b] = "requested"
                          THEN "superseded" ELSE row[b]]
        /\ status' = SetStatus(r, IF k = "screen" THEN "awaiting_user" ELSE "awaiting_approval")
        /\ wsRun' = [wsRun EXCEPT ![r] = a] /\ UNCHANGED <<scopeRun, scopeOnce>>
        /\ wsId' = IF k = "synthetic" THEN wsId ELSE wsId \cup {a}
    BY <1>3 DEF RequestApproval, Announce, Goto, a
  <2>2. \A b \in 1 .. asked : row[b] # "requested"
    BY <2>1, NothingOpen
  <2>3. \A b \in 1 .. asked : row'[b] = row[b] /\ kind'[b] = kind[b]
    BY <1>1, <1>2, <2>1, <2>2
  <2>4. kind'[a] = k /\ row'[a] = "requested"
    BY <1>1, <1>2, <2>1
  <2>5. (IF k = "screen" THEN "awaiting_user" ELSE "awaiting_approval") \in Awaiting
    BY DEF Awaiting
  <2>6. QED BY <2>1, <2>3, <2>4, <2>5
<1>4. ASSUME RequestSynthetic(r)
      PROVE  /\ pc[r] = "head" /\ pc' = [pc EXCEPT ![r] = "waiting"]
             /\ asked' = a /\ askedBy' = [askedBy EXCEPT ![a] = r] /\ verdict' = verdict
             /\ \A b \in 1 .. asked : row'[b] = row[b] /\ kind'[b] = kind[b]
             /\ kind'[a] = "synthetic" /\ row'[a] = "unregistered" /\ pending' = pending
             /\ \E s \in Awaiting : status' = SetStatus(r, s)
             /\ wsRun' = [wsRun EXCEPT ![r] = a] /\ wsId' = wsId
             /\ UNCHANGED <<scopeRun, scopeOnce>>
  <2>1. /\ pc[r] = "head" /\ pc' = [pc EXCEPT ![r] = "waiting"]
        /\ asked' = a /\ askedBy' = [askedBy EXCEPT ![a] = r] /\ verdict' = verdict
        /\ kind' = [kind EXCEPT ![a] = "synthetic"] /\ pending' = pending
        /\ row' = [row EXCEPT ![a] = "unregistered"]
        /\ status' = SetStatus(r, "awaiting_approval")
        /\ wsRun' = [wsRun EXCEPT ![r] = a] /\ UNCHANGED <<scopeRun, scopeOnce>> /\ wsId' = wsId
    BY <1>4 DEF RequestSynthetic, Announce, Goto, a
  <2>2. "awaiting_approval" \in Awaiting
    BY DEF Awaiting
  <2>3. QED BY <1>1, <1>2, <2>1, <2>2
<1>5. QED BY <1>1, <1>3, <1>4 DEF Asks, a

\* Asking keeps the invariant.
LEMMA AsksStep == ASSUME WaitInv, IndInv', NEW r \in Run, Asks(r) PROVE WaitInv'
<1> DEFINE a == asked + 1
<1>1. /\ pc[r] \in {"head", "tools"} /\ pc' = [pc EXCEPT ![r] = "waiting"]
      /\ a \in Approval /\ asked' = a /\ askedBy' = [askedBy EXCEPT ![a] = r] /\ verdict' = verdict
      /\ \A b \in 1 .. asked : row'[b] = row[b] /\ kind'[b] = kind[b]
      /\ \/ kind'[a] # "synthetic" /\ row'[a] = "requested" /\ pending' = [pending EXCEPT ![r] = a]
         \/ kind'[a] = "synthetic" /\ row'[a] = "unregistered" /\ pending' = pending
      /\ \E s \in Awaiting : status' = SetStatus(r, s)
      /\ wsRun' = [wsRun EXCEPT ![r] = a] /\ (wsId' = wsId \/ wsId' = wsId \cup {a})
      /\ UNCHANGED <<scopeRun, scopeOnce>>
  BY AskShape
<1>2. /\ asked \in Nat /\ a \in Nat /\ a # 0 /\ a \in 0 .. MaxAsk /\ a \notin 1 .. asked
      /\ \A b \in 1 .. a : b = a \/ b \in 1 .. asked
      /\ \A b \in 1 .. asked : b \in 1 .. a /\ b \in Approval /\ b # a
  BY <1>1, LastAsked, ApprovalAssumption DEF Approval
<1>3. verdict[a] = "none"
  BY <1>1, <1>2 DEF WaitInv, IndInv, Fresh
<1> HIDE DEF a
<1>4. /\ status \in [Run -> RunStatus] /\ askedBy \in [Approval -> Run \cup {NoRun}]
      /\ pc \in [Run -> {"new", "queued", "head", "tools", "waiting", "executing", "over"}]
      /\ pending \in [Run -> 0 .. MaxAsk] /\ wsRun \in [Run -> 0 .. MaxAsk] /\ wsId \subseteq Approval
  BY DEF WaitInv, RunTypes, RunStatus
<1>5. /\ status' \in [Run -> RunStatus]
      /\ \A q \in Run : q # r => status'[q] = status[q]
      /\ \A q \in Run : status[q] \notin Active => status'[q] = status[q]
  BY <1>1, <1>4 DEF SetStatus, RunStatus, Active, Awaiting
<1>6. /\ \A q \in Run : pc'[q] = IF q = r THEN "waiting" ELSE pc[q]
      /\ askedBy'[a] = r /\ \A b \in 1 .. asked : askedBy'[b] = askedBy[b]
  BY <1>1, <1>2, <1>4
<1>7. \A b \in 1 .. asked : verdict[b] # "none" /\ row[b] # "requested" /\ row[b] # "superseded"
  BY <1>1, NothingOpen
<1>8. \A q \in Run : pc[q] # "waiting"
  BY <1>1, NothingOpen
<1>9. RunTypes'
  <2>1. pc' \in [Run -> {"new", "queued", "head", "tools", "waiting", "executing", "over"}]
    BY <1>1, <1>4
  <2>2. askedBy' \in [Approval -> Run \cup {NoRun}]
    BY <1>1, <1>4
  <2>3. pending' \in [Run -> 0 .. MaxAsk] /\ wsRun' \in [Run -> 0 .. MaxAsk]
    BY <1>1, <1>2, <1>4
  <2>4. wsId' \subseteq Approval
    BY <1>1, <1>4
  <2>5. QED BY <1>5, <2>1, <2>2, <2>3, <2>4 DEF RunTypes, RunStatus
<1>10. OneExecutes'
  BY <1>1, <1>6 DEF WaitInv, OneExecutes, Executing
<1>11. OwnedInv'
  <2> SUFFICES ASSUME NEW b \in 1 .. a
               PROVE  /\ askedBy'[b] \in Run /\ pc'[askedBy'[b]] # "new"
                      /\ kind'[b] = "synthetic" <=> row'[b] = "unregistered"
                      /\ verdict[b] \in Refusal => status'[askedBy'[b]] \notin Active
    BY <1>1 DEF OwnedInv
  <2>1. CASE b = a
    BY <1>1, <1>3, <1>6, <2>1 DEF Refusal
  <2>2. CASE b \in 1 .. asked
    <3>1. /\ askedBy[b] \in Run /\ pc[askedBy[b]] # "new" /\ (kind[b] = "synthetic" <=> row[b] = "unregistered")
          /\ verdict[b] \in Refusal => status[askedBy[b]] \notin Active
      BY <2>2 DEF WaitInv, OwnedInv
    <3>2. QED BY <1>1, <1>5, <1>6, <2>2, <3>1
  <2>3. QED BY <1>2, <2>1, <2>2
<1>12. OpenInv'
  <2>1. ASSUME NEW q \in Run, pc'[q] = "waiting" PROVE a # 0 /\ askedBy'[a] = q
    BY <1>2, <1>6, <1>8, <2>1
  <2>2. ASSUME NEW b \in 1 .. a, verdict[b] = "none" PROVE b = a /\ pc'[askedBy'[b]] = "waiting"
    BY <1>2, <1>6, <1>7, <2>2
  <2>3. ASSUME NEW b \in 1 .. a
        PROVE  /\ row'[b] # "superseded"
               /\ row'[b] = "requested" => verdict[b] = "none" /\ pending'[askedBy'[b]] = b
    <3>1. CASE b = a
      BY <1>1, <1>3, <1>4, <1>6, <3>1
    <3>2. CASE b \in 1 .. asked
      BY <1>1, <1>7, <3>2
    <3>3. QED BY <1>2, <3>1, <3>2
  <2>4. ASSUME NEW q \in Run, pending'[q] # 0 PROVE pending'[q] <= a /\ askedBy'[pending'[q]] = q
    <3>1. CASE pending'[q] = pending[q]
      <4>1. pending[q] \in 1 .. asked /\ askedBy[pending[q]] = q
        BY <1>2, <1>4, <2>4, <3>1 DEF WaitInv, OpenInv
      <4>2. pending[q] \in 1 .. a
        BY <1>2, <4>1
      <4>3. pending[q] <= a
        BY <1>2, <4>2
      <4>4. QED BY <1>6, <3>1, <4>1, <4>3
    <3>2. CASE q = r /\ pending'[q] = a
      BY <1>2, <1>6, <3>2
    <3>3. QED BY <1>1, <1>4, <3>1, <3>2
  <2>5. QED BY <1>1, <2>1, <2>2, <2>3, <2>4 DEF OpenInv
<1>13. AwaitInv'
  <2> SUFFICES ASSUME NEW q \in Run, status'[q] \in Awaiting
               PROVE  \/ pc'[q] = "waiting" /\ verdict[a] = "none"
                      \/ pc'[q] = "over" /\ status'[q] = "awaiting_user"
    BY <1>1 DEF AwaitInv
  <2>1. q # r => pc[q] = "over" /\ status'[q] = "awaiting_user"
    BY <1>5, <1>8 DEF WaitInv, AwaitInv
  <2>2. QED BY <1>3, <1>6, <2>1
<1>14. ScopeWasGranted'
  <2>1. scopeRun => \E b \in 1 .. a : row'[b] = "consumed" \/ (row'[b] = "unregistered" /\ verdict[b] = "allow_run")
    BY <1>1, <1>2 DEF WaitInv, ScopeWasGranted
  <2>2. scopeOnce => \E b \in 1 .. a : row'[b] = "unregistered" /\ verdict[b] = "allow_once"
    BY <1>1, <1>2 DEF WaitInv, ScopeWasGranted
  <2>3. QED BY <1>1, <2>1, <2>2 DEF ScopeWasGranted
<1>15. QED BY <1>9, <1>10, <1>11, <1>12, <1>13, <1>14 DEF WaitInv

\* No run has arrived.
LEMMA WaitInit == Init => WaitInv
<1> SUFFICES ASSUME Init PROVE WaitInv
  OBVIOUS
<1>1. IndInv
  BY InitInv
<1>2. asked = 0 /\ 1 .. asked = {}
  BY DEF Init
<1>3. RunTypes
  BY ApprovalAssumption DEF Init, RunTypes
<1>4. \A r \in Run : pc[r] = "new" /\ status[r] = "none" /\ pending[r] = 0
  BY DEF Init
<1>5. OneExecutes /\ AwaitInv
  BY <1>4 DEF OneExecutes, AwaitInv, Executing, Awaiting
<1>6. OwnedInv
  BY <1>2 DEF OwnedInv
<1>7. OpenInv
  BY <1>2, <1>4 DEF OpenInv
<1>8. ScopeWasGranted
  BY DEF Init, ScopeWasGranted
<1>9. QED BY <1>1, <1>3, <1>5, <1>6, <1>7, <1>8 DEF WaitInv

\* WaitInv is inductive.
LEMMA WaitNext == WaitInv /\ [Next]_vars => WaitInv'
<1> SUFFICES ASSUME WaitInv, [Next]_vars PROVE WaitInv'
  OBVIOUS
<1>1. IndInv'
  BY StepShape, OrderlyStep, AskStep DEF WaitInv
<1>2. ASSUME NEW r \in Run, Step(r) PROVE WaitInv'
  BY <1>1, <1>2, AsksStep, StepLoops, LoopsStep
<1>3. ASSUME (\E r \in Run : Cancel(r)) \/ CleanupStale PROVE WaitInv'
  BY <1>1, <1>3, StopsSettle, SettlesStep
<1>4. ASSUME NEW a \in 1 .. asked,
             \/ Elapse(a) \/ Timeout(a) \/ SyntheticTimeout(a)
             \/ TelegramSent(a) \/ TelegramSendFails(a) \/ TelegramTimeout(a)
      PROVE  WaitInv'
  BY <1>1, <1>4, TimerSettles, SettlesStep
<1>5. ASSUME NEW c \in 1 .. asked, NEW d \in Decision, TelegramResolve(c, d) PROVE WaitInv'
  <2>1. UNCHANGED <<requests, pc>> /\ ResolveAll(c, d, "deny") /\ WsTypes
    BY <1>5, EmitTypes DEF TelegramResolve, agent, WsTypes
  <2>2. Settles
    BY <2>1, ResolveAllSettles
  <2>3. QED BY <1>1, <2>1, <2>2, SettlesStep
<1>6. ASSUME Answer PROVE WaitInv'
  BY <1>1, <1>6, AnswerSettles, SettlesStep
<1>7. ASSUME UNCHANGED vars PROVE WaitInv'
  <2>1. UNCHANGED <<requests, dispatcher, pc, websocket>>
    BY <1>7 DEF vars, agent
  <2>2. Settles
    BY <2>1, IdleSettles
  <2>3. WsTypes
    BY <2>1 DEF WsTypes, websocket, WaitInv, RunTypes
  <2>4. QED BY <1>1, <2>2, <2>3, SettlesStep
<1>8. QED BY <1>2, <1>3, <1>4, <1>5, <1>6, <1>7 DEF Next

\* Requests, runs and scopes stay consistent in every reachable state.
THEOREM RequestsAreAwaited == Spec => []WaitInv
BY WaitInit, WaitNext, PTL DEF Spec

\* A row that still asks belongs to the call its run waits in: whichever side
\* settles a request, it leaves no open row behind, and createApprovalRegistryRequest
\* never finds one to supersede.
THEOREM OpenRowsAreAwaited == Spec => []OpenRowIsAwaited
<1>1. ASSUME WaitInv PROVE OpenRowIsAwaited
  <2> SUFFICES ASSUME NEW a \in 1 .. asked, row[a] \in {"requested", "superseded"}
               PROVE  /\ row[a] = "requested" /\ verdict[a] = "none"
                      /\ pc[askedBy[a]] = "waiting" /\ Current(askedBy[a]) = a /\ pending[askedBy[a]] = a
    BY DEF OpenRowIsAwaited
  <2>1. row[a] = "requested" /\ verdict[a] = "none" /\ pending[askedBy[a]] = a
    BY <1>1 DEF WaitInv, OpenInv
  <2>2. a = asked /\ pc[askedBy[a]] = "waiting" /\ askedBy[a] \in Run
    BY <1>1, <2>1 DEF WaitInv, OpenInv, OwnedInv
  <2>3. QED BY <1>1, <2>1, <2>2, WaitsForLast
<1>2. QED BY <1>1, RequestsAreAwaited, PTL

\* A run that shows as awaiting is inside a request that is open, or a synthetic
\* one whose answer it is about to take up, or its loop ended with a question to
\* the user (moveRunToAwaitingUser): whichever of the answers, the timers, the
\* abort and the ends of the other runs came in between.
THEOREM AwaitingRunsHaveARequest == Spec => []AwaitingHasRequest
<1>1. ASSUME WaitInv PROVE AwaitingHasRequest
  BY <1>1, WaitsForLast DEF AwaitingHasRequest, WaitInv, AwaitInv, Awaiting
<1>2. QED BY <1>1, RequestsAreAwaited, PTL

\* No scope of the group is open that no approval granted.
THEOREM ScopesWereGranted == Spec => []ScopeWasGranted
<1>1. WaitInv => ScopeWasGranted
  BY DEF WaitInv
<1>2. QED BY <1>1, RequestsAreAwaited, PTL

------------------------------------------------------------------------------
(* The channels' maps, the timers and the scopes *)

Slot == 0 .. MaxAsk

ChannelTypes ==
  /\ entry \in [Run -> Slot] /\ entryTimer \in [Run -> Slot] /\ timers \subseteq Approval
  /\ context \in [Approval -> Slot] /\ inherited \in [Approval -> Slot]
  /\ sending \subseteq Approval /\ clicks \subseteq Approval \X Decision

LoopTypes == source \in Sources /\ left \in [Run -> 0 .. MaxTools] /\ due \subseteq Approval

ScopeTypes == scopeRun \in BOOLEAN /\ scopeOnce \in BOOLEAN

AllTypes == WaitInv /\ LoopTypes /\ ChannelTypes /\ ScopeTypes

\* A request number is a slot of every map.
LEMMA SlotFacts ==
  ASSUME WaitInv
  PROVE  /\ MaxAsk \in Nat /\ MaxTools \in Nat /\ 0 \in Slot /\ 0 \in 0 .. MaxTools
         /\ \A a \in 1 .. asked : a \in Approval /\ a \in Slot
         /\ asked < MaxAsk => asked + 1 \in Approval /\ asked + 1 \in Slot
BY ApprovalAssumption DEF Slot, Approval, WaitInv, IndInv, CoreTypes

\* The listeners of approval.resolved keep the types of the channels' maps.
LEMMA EmitKeepsTypes ==
  ASSUME WaitInv, ChannelTypes, NEW r, NEW ids, EmitResolved(r, ids)
  PROVE  entry' \in [Run -> Slot] /\ entryTimer' \in [Run -> Slot] /\ timers' \subseteq Approval
BY SlotFacts DEF ChannelTypes, EmitResolved

\* The agent loop counts its tool calls within the round; a request announces
\* itself to the channels under its own number or under that of its aggregate.
LEMMA StepKeepsTypes ==
  ASSUME WaitInv, LoopTypes, ChannelTypes, NEW r \in Run, Step(r)
  PROVE  LoopTypes' /\ ChannelTypes'
<1>1. ASSUME NEW n \in 1 .. MaxTools, Round(r, n) PROVE LoopTypes' /\ ChannelTypes'
  BY <1>1, SlotFacts DEF Round, LoopTypes, ChannelTypes, requests, channel, inflight
<1>2. ASSUME DispatchFree(r) \/ DispatchRefused(r) \/ DispatchScoped(r)
      PROVE  LoopTypes' /\ ChannelTypes'
  <2>1. /\ left[r] > 0 /\ left' = [left EXCEPT ![r] = @ - 1]
        /\ UNCHANGED <<source, due, channel, inflight>>
    BY <1>2 DEF DispatchFree, DispatchRefused, DispatchScoped, requests
  <2>2. left' \in [Run -> 0 .. MaxTools]
    <3>1. left[r] \in 0 .. MaxTools /\ left[r] - 1 \in 0 .. MaxTools
      BY <2>1, SlotFacts DEF LoopTypes
    <3>2. QED BY <2>1, <3>1 DEF LoopTypes
  <2>3. QED BY <2>1, <2>2 DEF LoopTypes, ChannelTypes, channel, inflight
<1>3. ASSUME \/ Arrive(r) \/ Begin(r) \/ (\E s \in Ending : Finish(r, s)) \/ EndRound(r)
             \/ Proceed(r) \/ ProceedSynthetic(r) \/ ToolDone(r)
      PROVE  LoopTypes' /\ ChannelTypes'
  <2>1. UNCHANGED <<source, left, due, channel, inflight>>
    BY <1>3 DEF Arrive, Begin, Finish, EndRound, Proceed, ProceedSynthetic, ToolDone, requests
  <2>2. QED BY <2>1 DEF LoopTypes, ChannelTypes, channel, inflight
<1>4. ASSUME NEW k, asked < MaxAsk, Announce(asked + 1, r, k)
      PROVE  ChannelTypes'
  <2>1. asked + 1 \in Approval /\ asked + 1 \in Slot /\ entry[r] \in Slot /\ entryTimer[r] \in Slot
    BY <1>4, SlotFacts DEF ChannelTypes
  <2>2. context' \in [Approval -> Slot]
    BY <1>4, <2>1 DEF Announce, ChannelTypes
  <2>3. context'[asked + 1] \in Slot
    BY <2>1, <2>2
  <2>4. entry' \in [Run -> Slot]
    BY <1>4, <2>3 DEF Announce, ChannelTypes
  <2>5. sending' \subseteq Approval /\ inherited' \in [Approval -> Slot]
    BY <1>4, <2>1 DEF Announce, ChannelTypes
  <2>6. QED BY <1>4, <2>2, <2>4, <2>5 DEF Announce, ChannelTypes
<1>5. ASSUME NEW k \in Kinds, RequestApproval(r, k) PROVE LoopTypes' /\ ChannelTypes'
  <2>1. /\ asked < MaxAsk /\ Announce(asked + 1, r, k)
        /\ left[r] > 0 /\ left' = [left EXCEPT ![r] = @ - 1] /\ UNCHANGED <<source, due>>
    BY <1>5 DEF RequestApproval
  <2>2. left' \in [Run -> 0 .. MaxTools]
    <3>1. left[r] \in 0 .. MaxTools /\ left[r] - 1 \in 0 .. MaxTools
      BY <2>1, SlotFacts DEF LoopTypes
    <3>2. QED BY <2>1, <3>1 DEF LoopTypes
  <2>3. QED BY <1>4, <2>1, <2>2 DEF LoopTypes
<1>6. ASSUME RequestSynthetic(r) PROVE LoopTypes' /\ ChannelTypes'
  <2>1. asked < MaxAsk /\ Announce(asked + 1, r, "synthetic") /\ UNCHANGED <<source, left, due>>
    BY <1>6 DEF RequestSynthetic
  <2>2. QED BY <1>4, <2>1 DEF LoopTypes
<1>7. QED BY <1>1, <1>2, <1>3, <1>5, <1>6 DEF Step, Ending

\* So do the timers: a Telegram timer is named by the request that armed it.
LEMMA TimerKeepsTypes ==
  ASSUME WaitInv, LoopTypes, ChannelTypes, NEW a \in 1 .. asked,
         \/ Elapse(a) \/ Timeout(a) \/ SyntheticTimeout(a)
         \/ TelegramSent(a) \/ TelegramSendFails(a) \/ TelegramTimeout(a)
  PROVE  LoopTypes' /\ ChannelTypes'
<1>0. a \in Approval /\ a \in Slot
  BY SlotFacts
<1>1. CASE Elapse(a)
  BY <1>0, <1>1 DEF Elapse, LoopTypes, ChannelTypes, agent, requests, channel, inflight
<1>2. CASE Timeout(a) \/ SyntheticTimeout(a)
  <2>1. /\ entry' \in [Run -> Slot] /\ entryTimer' \in [Run -> Slot] /\ timers' \subseteq Approval
        /\ UNCHANGED <<agent, requests, due, inflight>>
    BY <1>2, EmitKeepsTypes DEF Timeout, SyntheticTimeout
  <2>2. QED BY <2>1 DEF LoopTypes, ChannelTypes, agent, requests, inflight
<1>3. CASE TelegramSent(a)
  <2> DEFINE r     == askedBy[a]
             timer == IF inherited[a] # 0 THEN inherited[a]
                      ELSE IF kind[a] = "screen" THEN 0 ELSE a
  <2>1. timer \in Slot /\ context[a] \in Slot
    BY <1>0, SlotFacts DEF ChannelTypes
  <2>2. /\ sending' = sending \ {a}
        /\ entry' = [entry EXCEPT ![r] = context[a]]
        /\ entryTimer' = [entryTimer EXCEPT ![r] = timer]
        /\ timers' = (IF timer = a THEN timers \cup {a} ELSE timers)
        /\ UNCHANGED <<source, left, due, context, inherited, clicks>>
    BY <1>3 DEF TelegramSent, agent, requests
  <2> HIDE DEF timer, r
  <2>3. QED BY <1>0, <2>1, <2>2 DEF LoopTypes, ChannelTypes
<1>4. CASE TelegramSendFails(a)
  BY <1>4 DEF TelegramSendFails, LoopTypes, ChannelTypes, agent, requests, channel
<1>5. CASE TelegramTimeout(a)
  <2>1. /\ timers' = timers \ {a}
        /\ \/ UNCHANGED <<entry, entryTimer>>
           \/ \E r \in {askedBy[a]} : /\ entry' = [entry EXCEPT ![r] = 0]
                                      /\ entryTimer' = [entryTimer EXCEPT ![r] = 0]
        /\ UNCHANGED <<source, left, due, context, sending, inherited, clicks>>
    BY <1>5 DEF TelegramTimeout, agent, requests, inflight
  <2>2. QED BY <2>1, SlotFacts DEF LoopTypes, ChannelTypes
<1>6. QED BY <1>1, <1>2, <1>3, <1>4, <1>5

\* And the answers: a Telegram callback carries the context it found.
LEMMA AnswerKeepsTypes ==
  ASSUME WaitInv, LoopTypes, ChannelTypes,
         Answer \/ \E c \in 1 .. asked, d \in Decision : TelegramResolve(c, d)
  PROVE  LoopTypes' /\ ChannelTypes'
<1>1. ASSUME NEW r, NEW ids, EmitResolved(r, ids), UNCHANGED <<agent, requests, due, inflight>>
      PROVE  LoopTypes' /\ ChannelTypes'
  <2>1. entry' \in [Run -> Slot] /\ entryTimer' \in [Run -> Slot] /\ timers' \subseteq Approval
    BY <1>1, EmitKeepsTypes
  <2>2. QED BY <1>1, <2>1 DEF LoopTypes, ChannelTypes, agent, requests, inflight
<1>2. ASSUME NEW r \in Run, NEW a \in 0 .. asked, NEW d \in Decision, WsRespond(r, a, d)
      PROVE  LoopTypes' /\ ChannelTypes'
  <2>1. EmitResolved(r, {a}) /\ UNCHANGED <<agent, requests, due, inflight>>
    BY <1>2 DEF WsRespond
  <2>2. QED BY <1>1, <2>1
<1>3. ASSUME NEW r \in Run, WsRespondLate(r) PROVE LoopTypes' /\ ChannelTypes'
  BY <1>3 DEF WsRespondLate, LoopTypes, ChannelTypes, agent, requests, channel, inflight
<1>4. ASSUME NEW a \in 1 .. asked, NEW d \in Decision, HttpRespond(a, d)
      PROVE  LoopTypes' /\ ChannelTypes'
  <2>1. UNCHANGED <<agent, requests, due, inflight>>
    BY <1>4 DEF HttpRespond
  <2>2. UNCHANGED channel \/ EmitResolved(askedBy[a], {a})
    BY <1>4 DEF HttpRespond
  <2>3. CASE UNCHANGED channel
    BY <2>1, <2>3 DEF LoopTypes, ChannelTypes, agent, requests, channel, inflight
  <2>4. CASE EmitResolved(askedBy[a], {a})
    <3>1. /\ entry' \in [Run -> Slot] /\ entryTimer' \in [Run -> Slot] /\ timers' \subseteq Approval
      BY <2>4, SlotFacts DEF EmitResolved, ChannelTypes
    <3>2. QED BY <2>1, <3>1 DEF LoopTypes, ChannelTypes, agent, requests, inflight
  <2>5. QED BY <2>2, <2>3, <2>4
<1>5. ASSUME NEW r \in Run, NEW d \in Decision, TelegramClick(r, d)
      PROVE  LoopTypes' /\ ChannelTypes'
  <2>1. entry[r] \in Approval
    <3>1. entry[r] \in Slot /\ entry[r] # 0
      BY <1>5 DEF TelegramClick, ChannelTypes
    <3>2. QED BY <3>1, SlotFacts DEF Slot, Approval
  <2>2. clicks' \subseteq Approval \X Decision
    BY <1>5, <2>1 DEF TelegramClick, ChannelTypes
  <2>3. entry' \in [Run -> Slot] /\ entryTimer' \in [Run -> Slot] /\ timers' \subseteq Approval
    BY <1>5, SlotFacts DEF TelegramClick, ChannelTypes
  <2>4. UNCHANGED <<source, left, due, context, sending, inherited>>
    BY <1>5 DEF TelegramClick, agent, requests
  <2>5. QED BY <2>2, <2>3, <2>4 DEF LoopTypes, ChannelTypes
<1>6. ASSUME NEW r \in Run, NEW d \in Decision, SlackRespond(r, d)
      PROVE  LoopTypes' /\ ChannelTypes'
  <2>1. /\ EmitResolved(r, {a \in Approval : context[a] = entry[r]})
        /\ UNCHANGED <<agent, requests, due, inflight>>
    BY <1>6 DEF SlackRespond
  <2>2. entry' \in [Run -> Slot] /\ entryTimer' \in [Run -> Slot] /\ timers' \subseteq Approval
    BY <2>1, SlotFacts DEF EmitResolved, ChannelTypes
  <2>3. QED BY <2>1, <2>2 DEF LoopTypes, ChannelTypes, agent, requests, inflight
<1>7. ASSUME NEW c \in 1 .. asked, NEW d \in Decision, TelegramResolve(c, d)
      PROVE  LoopTypes' /\ ChannelTypes'
  <2>1. /\ EmitResolved(askedBy[c], {a \in Approval : context[a] = c})
        /\ clicks' = clicks \ {<<c, d>>}
        /\ UNCHANGED <<source, left, due, context, sending, inherited>>
    BY <1>7 DEF TelegramResolve, agent, requests
  <2>2. entry' \in [Run -> Slot] /\ entryTimer' \in [Run -> Slot] /\ timers' \subseteq Approval
    BY <2>1, SlotFacts DEF EmitResolved, ChannelTypes
  <2>3. QED BY <2>1, <2>2 DEF LoopTypes, ChannelTypes
<1>8. QED BY <1>2, <1>3, <1>4, <1>5, <1>6, <1>7 DEF Answer

\* A scope is set, cleared or left alone by whoever settles a request.
LEMMA FinishKeepsScopes ==
  ASSUME ScopeTypes, NEW r, NEW d, FinishApproval(r, d) \/ CancelGroup(r) PROVE ScopeTypes'
BY Zenon DEF ScopeTypes, FinishApproval, CancelGroup

\* The same of the callbacks behind the answers.
LEMMA ResolveKeepsScopes ==
  ASSUME ScopeTypes, NEW a, NEW d, NEW v, Resolve(a, d, v) PROVE ScopeTypes'
<1>1. ScopeTypes /\ UNCHANGED <<scopeRun, scopeOnce>> => ScopeTypes'
  BY Zenon DEF ScopeTypes
<1>2. \/ UNCHANGED <<scopeRun, scopeOnce>>
      \/ FinishApproval(askedBy[a], d) \/ CancelGroup(askedBy[a])
  BY DEF Resolve, ResolveSynthetic, ResolveRegistered, dispatcher
<1>3. QED BY <1>1, <1>2, FinishKeepsScopes

\* And of an aggregate of them.
LEMMA ResolveAllKeepsScopes ==
  ASSUME ScopeTypes, NEW c, NEW d, NEW v, ResolveAll(c, d, v) PROVE ScopeTypes'
<1>1. CASE UNCHANGED dispatcher
  BY <1>1, Zenon DEF ScopeTypes, dispatcher
<1>2. CASE \E a \in {CHOOSE a \in {b \in 1 .. asked : context[b] = c /\ verdict[b] = "none"} : TRUE} :
             Resolve(a, d, v)
  BY <1>2, ResolveKeepsScopes
<1>3. QED BY <1>1, <1>2 DEF ResolveAll

\* Every step leaves the scopes true or false.
LEMMA NextKeepsScopes == ASSUME ScopeTypes, [Next]_vars PROVE ScopeTypes'
<1>0. ASSUME UNCHANGED <<scopeRun, scopeOnce>> PROVE ScopeTypes'
  BY <1>0, Zenon DEF ScopeTypes
<1>1. ASSUME NEW r \in Run, Step(r) PROVE ScopeTypes'
  <2>1. ASSUME (\E s \in Ending : Finish(r, s)) \/ DispatchScoped(r) \/ ProceedSynthetic(r)
        PROVE  ScopeTypes'
    BY <2>1, Zenon DEF Finish, DispatchScoped, ProceedSynthetic, ScopeTypes
  <2>2. \/ (\E s \in Ending : Finish(r, s)) \/ DispatchScoped(r) \/ ProceedSynthetic(r)
        \/ UNCHANGED <<scopeRun, scopeOnce>>
    BY <1>1 DEF Step, Ending, Arrive, Begin, EndRound, Round, DispatchFree, DispatchRefused,
                RequestApproval, RequestSynthetic, Proceed, ToolDone, dispatcher
  <2>3. QED BY <1>0, <2>1, <2>2
<1>2. ASSUME (\E r \in Run : Cancel(r)) \/ CleanupStale PROVE ScopeTypes'
  BY <1>0, <1>2, FinishKeepsScopes DEF Cancel, CleanupStale
<1>3. ASSUME NEW a \in 1 .. asked,
             \/ Elapse(a) \/ Timeout(a) \/ SyntheticTimeout(a)
             \/ TelegramSent(a) \/ TelegramSendFails(a) \/ TelegramTimeout(a)
      PROVE  ScopeTypes'
  <2>1. CASE Elapse(a) \/ TelegramSent(a) \/ TelegramSendFails(a)
    BY <1>0, <2>1 DEF Elapse, TelegramSent, TelegramSendFails, dispatcher
  <2>2. CASE Timeout(a) \/ SyntheticTimeout(a)
    BY <1>0, <2>2, FinishKeepsScopes DEF Timeout, SyntheticTimeout
  <2>3. CASE TelegramTimeout(a)
    <3>1. UNCHANGED dispatcher \/ ResolveAll(entry[askedBy[a]], "deny", "timeout")
      BY <2>3 DEF TelegramTimeout
    <3>2. QED BY <1>0, <3>1, ResolveAllKeepsScopes DEF dispatcher
  <2>4. QED BY <1>3, <2>1, <2>2, <2>3
<1>4. ASSUME NEW c \in 1 .. asked, NEW d \in Decision, TelegramResolve(c, d) PROVE ScopeTypes'
  BY <1>4, ResolveAllKeepsScopes DEF TelegramResolve
<1>5. ASSUME Answer PROVE ScopeTypes'
  <2>1. ASSUME NEW r \in Run, NEW a \in 0 .. asked, NEW d \in Decision, WsRespond(r, a, d)
        PROVE  ScopeTypes'
    <3>1. Resolve(WsResolver(r, a), d, "deny") \/ FinishApproval(r, d)
      BY <2>1 DEF WsRespond, ResolvePending
    <3>2. QED BY <3>1, ResolveKeepsScopes, FinishKeepsScopes
  <2>2. ASSUME NEW r \in Run, NEW d \in Decision, SlackRespond(r, d) PROVE ScopeTypes'
    <3>1. ResolveAll(entry[r], d, "deny")
      BY <2>2 DEF SlackRespond
    <3>2. QED BY <3>1, ResolveAllKeepsScopes
  <2>3. ASSUME \/ \E r \in Run : WsRespondLate(r)
               \/ \E a \in 1 .. asked, d \in Decision : HttpRespond(a, d)
               \/ \E r \in Run, d \in Decision : TelegramClick(r, d)
        PROVE  ScopeTypes'
    BY <1>0, <2>3 DEF WsRespondLate, HttpRespond, TelegramClick, dispatcher
  <2>4. QED BY <1>5, <2>1, <2>2, <2>3 DEF Answer
<1>6. ASSUME UNCHANGED vars PROVE ScopeTypes'
  BY <1>0, <1>6 DEF vars, dispatcher
<1>7. QED BY <1>1, <1>2, <1>3, <1>4, <1>5, <1>6 DEF Next

\* Every map of the dispatcher, the WebSocket and the channels holds requests
\* that were made and runs of the group, whatever stale entries are in it.
THEOREM TypeCorrect == Spec => []TypeOK
<1>1. Init => AllTypes
  <2> SUFFICES ASSUME Init PROVE AllTypes
    OBVIOUS
  <2>1. WaitInv
    BY WaitInit
  <2>2. LoopTypes
    BY <2>1, SlotFacts DEF Init, LoopTypes
  <2>3. ChannelTypes
    BY <2>1, SlotFacts DEF Init, ChannelTypes
  <2>4. ScopeTypes
    BY Zenon DEF Init, ScopeTypes
  <2>5. QED BY <2>1, <2>2, <2>3, <2>4 DEF AllTypes
<1>2. AllTypes /\ [Next]_vars => AllTypes'
  <2> SUFFICES ASSUME AllTypes, [Next]_vars PROVE AllTypes'
    OBVIOUS
  <2>1. WaitInv /\ LoopTypes /\ ChannelTypes /\ ScopeTypes
    BY DEF AllTypes
  <2>2. WaitInv' /\ ScopeTypes'
    BY <2>1, WaitNext, NextKeepsScopes
  <2>3. LoopTypes' /\ ChannelTypes'
    <3>1. CASE UNCHANGED <<source, left, due, channel, inflight>>
      BY <2>1, <3>1 DEF LoopTypes, ChannelTypes, channel, inflight
    <3>2. ASSUME (\E r \in Run : Cancel(r)) \/ CleanupStale \/ UNCHANGED vars
          PROVE  UNCHANGED <<source, left, due, channel, inflight>>
      BY <3>2 DEF Cancel, CleanupStale, vars, agent, requests
    <3>3. QED BY <2>1, <3>1, <3>2, StepKeepsTypes, TimerKeepsTypes, AnswerKeepsTypes DEF Next
  <2>4. QED BY <2>2, <2>3 DEF AllTypes
<1>3. ASSUME AllTypes PROVE TypeOK
  <2>1. /\ source \in Sources /\ left \in [Run -> 0 .. MaxTools] /\ due \subseteq Approval
    BY <1>3 DEF AllTypes, LoopTypes
  <2>2. RunTypes /\ CoreTypes
    BY <1>3 DEF AllTypes, WaitInv, IndInv
  <2>3. ScopeTypes
    BY <1>3 DEF AllTypes
  <2>4. ChannelTypes
    BY <1>3 DEF AllTypes
  <2>5. QED
    BY <2>1, <2>2, <2>3, <2>4, Zenon
    DEF TypeOK, RunTypes, CoreTypes, ScopeTypes, ChannelTypes, Slot, Kind, Verdict
<1>4. QED BY <1>1, <1>2, <1>3, PTL DEF Spec
==============================================================================
