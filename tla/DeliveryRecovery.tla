--------------------------- MODULE DeliveryRecovery ---------------------------
(***************************************************************************)
(* What a crash of the process leaves behind and what the next start makes *)
(* of it: the runs of one request group, the delivery of their texts       *)
(* (runs/delivery.ts, runs/channel-finalizer.ts, runs/finalization.ts),    *)
(* the rows these write on the way (message_ledger, task_continuity), and  *)
(* recoverActiveRunsOnStartup with its classification                      *)
(* (runs/startup-recovery.ts, runs/store.ts).                              *)
(*                                                                         *)
(* A send, its rows and the run's status are separate writes: the process  *)
(* may die between any two of them.  The channel keeps what it was sent;   *)
(* the database keeps its rows; everything else is gone.                   *)
(***************************************************************************)
EXTENDS Naturals, Sequences, FiniteSets

CONSTANTS Run,       \* the runs of the request group
          Limit,     \* how many active runs recovery looks at
          MaxCrash   \* bound: crashes

ASSUME RecoveryAssumption == Limit \in Nat /\ MaxCrash \in Nat

VARIABLES
  up,        \* the process runs
  crashes,   \* how often it died
  born,      \* the runs in the order of their created_at
  status,    \* root_runs.status
  at,        \* where the executor of the run stands; lost in a crash.
             \* thrown: there is none, an exception ended the start
  answers,   \* channel: how often the run's final text arrived
  arrived,   \* the outcome of the final send the executor has in hand
  textRow,   \* the text-delivery row of the final text: none, failed, delivered
  finalRow,  \* the runs with a final_answer_delivered row
  otherRow,  \* the runs with a text_delivered row of some other text
  receipt,   \* task_continuity.last_delivery_receipt is set
  asks       \* task_continuity.pending_approvals is not empty

database == <<born, status, textRow, finalRow, otherRow, receipt, asks>>
vars == <<up, crashes, database, at, answers, arrived>>

Active       == {"queued", "running", "awaiting_approval", "awaiting_user"}
Terminal     == {"completed", "failed", "cancelled", "interrupted"}
Unsuccessful == {"failed", "cancelled", "interrupted"}
Executing    == {"working", "asking", "telling", "told", "noted", "notifying",
                 "sending", "sent", "committing", "closing"}
Starting     == {"starting", "queued"}

TypeOK ==
  /\ up \in BOOLEAN /\ crashes \in 0 .. MaxCrash
  /\ born \in Seq(Run)
  /\ status \in [Run -> Active \cup Terminal \cup {"none"}]
  /\ at \in [Run -> Executing \cup Starting \cup {"new", "thrown", "gone"}]
  /\ answers \in [Run -> Nat]
  /\ arrived \in [Run -> BOOLEAN]
  /\ textRow \in [Run -> {"none", "failed", "delivered"}]
  /\ finalRow \subseteq Run /\ otherRow \subseteq Run
  /\ receipt \in BOOLEAN /\ asks \in BOOLEAN

Init ==
  /\ up = TRUE /\ crashes = 0 /\ born = <<>>
  /\ status = [r \in Run |-> "none"] /\ at = [r \in Run |-> "new"]
  /\ answers = [r \in Run |-> 0] /\ arrived = [r \in Run |-> FALSE]
  /\ textRow = [r \in Run |-> "none"] /\ finalRow = {} /\ otherRow = {}
  /\ receipt = FALSE /\ asks = FALSE

------------------------------------------------------------------------------
(* The row *)

\* What this run delivered itself, by the ledger.
Delivered(r) == r \in otherRow \/ textRow[r] = "delivered"

\* Mutant: updateRunStatus without the delivery finalizer.
NextStatusUnprotected(r, s) == IF status[r] \in Active THEN s ELSE status[r]

\* updateRunStatus with finalizeDeliveryForRun, which asks for any
\* text_delivered row of the request group (RunLifecycle!NextStatus).
NextStatus(r, s) ==
  IF status[r] \notin Active THEN status[r]
  ELSE IF s \in Unsuccessful /\ \E q \in Run : Delivered(q) THEN "completed" ELSE s

Goto(r, l) == up /\ at' = [at EXCEPT ![r] = l]

------------------------------------------------------------------------------
(* A run *)

\* A request, or a reply that reopens the group: queued or running by whether
\* the group's queue has an entry.
Arrive(r) ==
  /\ at[r] = "new"
  /\ born' = Append(born, r)
  /\ status' = [status EXCEPT ![r] =
                  IF \E q \in Run : at[q] \in Executing \cup {"queued"} THEN "queued" ELSE "running"]
  /\ Goto(r, "starting")
  /\ UNCHANGED <<up, crashes, answers, arrived, textRow, finalRow, otherRow, receipt, asks>>

\* enqueueRequestGroupExecution
Enqueue(r) ==
  /\ at[r] = "starting" /\ Goto(r, "queued")
  /\ UNCHANGED <<up, crashes, database, answers, arrived>>

\* An exception before that: startRootRun's catch logs it and leaves the row.
StartThrows(r) ==
  /\ at[r] = "starting" /\ Goto(r, "thrown")
  /\ UNCHANGED <<up, crashes, database, answers, arrived>>

Begin(r) ==
  /\ at[r] = "queued" /\ \A q \in Run : at[q] \notin Executing
  /\ status' = [status EXCEPT ![r] = NextStatus(r, "running")]
  /\ Goto(r, "working")
  /\ UNCHANGED <<up, crashes, born, answers, arrived, textRow, finalRow, otherRow, receipt, asks>>

\* failStartPreflight, a failure, or the end of an executor whose run was stopped.
Fail(r) ==
  /\ at[r] \in {"starting", "working"}
  /\ status' = [status EXCEPT ![r] = NextStatus(r, "failed")]
  /\ Goto(r, "gone")
  /\ UNCHANGED <<up, crashes, born, answers, arrived, textRow, finalRow, otherRow, receipt, asks>>

\* requestApproval: the status and the continuity of the lineage.
Ask(r) ==
  /\ at[r] = "working"
  /\ status' = [status EXCEPT ![r] = NextStatus(r, "awaiting_approval")]
  /\ asks' = TRUE
  /\ Goto(r, "asking")
  /\ UNCHANGED <<up, crashes, born, answers, arrived, textRow, finalRow, otherRow, receipt>>

\* cancelRootRun stops every active run of the group.
Cancelled == [q \in Run |-> NextStatus(q, "cancelled")]

\* finishApproval; a denial or a timeout cancels the group.
Answer(r, allowed) ==
  /\ at[r] = "asking"
  /\ status' = IF allowed THEN [status EXCEPT ![r] = NextStatus(r, "running")] ELSE Cancelled
  /\ asks' = FALSE
  /\ Goto(r, "working")
  /\ UNCHANGED <<up, crashes, born, answers, arrived, textRow, finalRow, otherRow, receipt>>

\* The user cancels.  A waiting approval is aborted and leaves
\* pending_approvals as it is; an executor inside a send goes on.
Cancel ==
  /\ up /\ \E r \in Run : status[r] \in Active
  /\ status' = Cancelled
  /\ at' = [r \in Run |-> IF at[r] = "asking" THEN "working" ELSE at[r]]
  /\ UNCHANGED <<up, crashes, born, answers, arrived, textRow, finalRow, otherRow, receipt, asks>>

------------------------------------------------------------------------------
(* Texts before the answer *)

\* deliverTrackedChunk: the agent's text or a tool's artifact is on its way.
Tell(r) ==
  /\ at[r] = "working"
  /\ Goto(r, "telling")
  /\ UNCHANGED <<up, crashes, database, answers, arrived>>

\* The send fails, or it arrives.
Told(r, ok) ==
  /\ at[r] = "telling"
  /\ Goto(r, IF ok THEN "told" ELSE "working")
  /\ UNCHANGED <<up, crashes, database, answers, arrived>>

\* applyChunkDeliveryReceipt: first the continuity of the lineage ...
NoteReceipt(r) ==
  /\ at[r] = "told"
  /\ receipt' = TRUE
  /\ Goto(r, "noted")
  /\ UNCHANGED <<up, crashes, born, status, textRow, finalRow, otherRow, asks, answers, arrived>>

\* ... then the ledger; an artifact's row is no text_delivered row.
NoteRow(r) ==
  /\ at[r] = "noted"
  /\ otherRow' \in {otherRow, otherRow \cup {r}}
  /\ Goto(r, "working")
  /\ UNCHANGED <<up, crashes, born, status, textRow, finalRow, receipt, asks, answers, arrived>>

\* emitStandaloneAssistantMessage: a notice or a question.
Notify(r) ==
  /\ at[r] = "working"
  /\ Goto(r, "notifying")
  /\ UNCHANGED <<up, crashes, database, answers, arrived>>

\* Its row, and for moveRunToAwaitingUser the end of the run's execution.
Notified(r, ok, stop) ==
  /\ at[r] = "notifying"
  /\ otherRow' = IF ok THEN otherRow \cup {r} ELSE otherRow
  /\ status' = [status EXCEPT ![r] = NextStatus(r, IF stop THEN "awaiting_user" ELSE "running")]
  /\ Goto(r, IF stop THEN "gone" ELSE "working")
  /\ UNCHANGED <<up, crashes, born, textRow, finalRow, receipt, asks, answers, arrived>>

------------------------------------------------------------------------------
(* The answer: completeRunWithAssistantMessage, commitFinalDelivery *)

\* A committed answer is not sent again, nor a text whose row says delivered.
Commit(r) ==
  /\ at[r] = "working"
  /\ Goto(r, IF r \in finalRow THEN "closing"
             ELSE IF textRow[r] = "delivered" THEN "committing" ELSE "sending")
  /\ UNCHANGED <<up, crashes, database, answers, arrived>>

\* There is no text, the finalizer blocks it, or it is left to the parent run:
\* the run completes without an answer of its own.
Withhold(r) ==
  /\ at[r] = "working" /\ Goto(r, "closing")
  /\ UNCHANGED <<up, crashes, database, answers, arrived>>

\* validateAndFinalize does not allow the delivery: the run goes on.
Invalid(r) ==
  /\ at[r] = "working" /\ Goto(r, "working")
  /\ status' = [status EXCEPT ![r] = NextStatus(r, "running")]
  /\ UNCHANGED <<up, crashes, born, answers, arrived, textRow, finalRow, otherRow, receipt, asks>>

\* The text reaches the channel, or not; then the done chunk is sent.
Send(r, ok) ==
  /\ at[r] = "sending"
  /\ answers' = [answers EXCEPT ![r] = IF ok THEN @ + 1 ELSE @]
  /\ arrived' = [arrived EXCEPT ![r] = ok]
  /\ Goto(r, "sent")
  /\ UNCHANGED <<up, crashes, database>>

\* Mutant: the done chunk alone decides whether the delivery is committed.
RecordTextByDone(r, done) ==
  /\ at[r] = "sent"
  /\ textRow' = [textRow EXCEPT ![r] =
                   IF @ # "none" THEN @ ELSE IF arrived[r] THEN "delivered" ELSE "failed"]
  /\ Goto(r, IF done THEN "committing" ELSE "closing")
  /\ UNCHANGED <<up, crashes, born, status, finalRow, otherRow, receipt, asks, answers, arrived>>

\* The row of the text; its unique key keeps the first outcome.  Without the
\* text or the done chunk the delivery failed and is not committed.
RecordText(r, done) ==
  /\ at[r] = "sent"
  /\ textRow' = [textRow EXCEPT ![r] =
                   IF @ # "none" THEN @ ELSE IF arrived[r] THEN "delivered" ELSE "failed"]
  /\ Goto(r, IF arrived[r] /\ done THEN "committing" ELSE "closing")
  /\ UNCHANGED <<up, crashes, born, status, finalRow, otherRow, receipt, asks, answers, arrived>>

RecordFinal(r) ==
  /\ at[r] = "committing"
  /\ finalRow' = finalRow \cup {r}
  /\ Goto(r, "closing")
  /\ UNCHANGED <<up, crashes, born, status, textRow, otherRow, receipt, asks, answers, arrived>>

\* markRunCompleted, whatever became of the delivery.
Close(r) ==
  /\ at[r] = "closing"
  /\ status' = [status EXCEPT ![r] = NextStatus(r, "completed")]
  /\ Goto(r, "gone")
  /\ UNCHANGED <<up, crashes, born, textRow, finalRow, otherRow, receipt, asks, answers, arrived>>

------------------------------------------------------------------------------
(* Crash and restart *)

Crash ==
  /\ up /\ crashes < MaxCrash
  /\ up' = FALSE /\ crashes' = crashes + 1
  /\ at' = [r \in Run |-> IF at[r] = "new" THEN "new" ELSE "gone"]
  /\ UNCHANGED <<database, answers, arrived>>

\* Mutant: the query for the active runs forgets the queued ones.
ActiveWithoutQueued == {i \in DOMAIN born : status[born[i]] \in Active \ {"queued"}}

\* listActiveRootRuns: the rows of the active runs, by their place in created_at.
ActiveRuns == {i \in DOMAIN born : status[born[i]] \in Active}

\* LIMIT: the newest ones.
Recovered ==
  {born[i] : i \in {j \in ActiveRuns : Cardinality({k \in ActiveRuns : k >= j}) <= Limit}}

Newer(q, r) == \E i, j \in DOMAIN born : born[i] = q /\ born[j] = r /\ i >= j

\* classifyStartupRecovery, run after run, newest first, on the continuity of
\* the lineage as the runs before have left it: a run that awaits an approval
\* writes it there for the ones after it.  pending_delivery is never written
\* with a value, so that class does not occur.
Classify(r) ==
  IF receipt THEN "delivered"
  ELSE IF asks \/ \E q \in Recovered : Newer(q, r) /\ status[q] = "awaiting_approval"
  THEN "awaiting_approval"
  ELSE IF status[r] = "awaiting_user" THEN "awaiting_user"
  ELSE "interrupted"

\* The class "delivered" completes the run.
RecoveredStatus(r) ==
  NextStatus(r, IF Classify(r) = "delivered" THEN "completed" ELSE Classify(r))

\* Mutant: a run that was running is executed again.
RestartResuming ==
  /\ ~up /\ up' = TRUE
  /\ status' = [r \in Run |-> IF r \in Recovered THEN "running" ELSE status[r]]
  /\ at' = [r \in Run |-> IF r \in Recovered THEN "working" ELSE at[r]]
  /\ UNCHANGED <<crashes, born, textRow, finalRow, otherRow, receipt, asks, answers, arrived>>

\* recoverActiveRunsOnStartup
Restart ==
  /\ ~up /\ up' = TRUE
  /\ status' = [r \in Run |-> IF r \in Recovered THEN RecoveredStatus(r) ELSE status[r]]
  /\ asks' = IF Recovered = {} THEN asks
             ELSE \E r \in Recovered : Classify(r) = "awaiting_approval"
  /\ UNCHANGED <<crashes, born, at, textRow, finalRow, otherRow, receipt, answers, arrived>>

------------------------------------------------------------------------------
Step(r) ==
  \/ Enqueue(r) \/ StartThrows(r) \/ Begin(r) \/ Fail(r) \/ Ask(r) \/ \E b \in BOOLEAN : Answer(r, b)
  \/ Tell(r) \/ (\E ok \in BOOLEAN : Told(r, ok)) \/ NoteReceipt(r) \/ NoteRow(r)
  \/ Notify(r) \/ (\E ok, stop \in BOOLEAN : Notified(r, ok, stop))
  \/ Commit(r) \/ Withhold(r) \/ Invalid(r) \/ (\E ok \in BOOLEAN : Send(r, ok))
  \/ (\E done \in BOOLEAN : RecordText(r, done)) \/ RecordFinal(r) \/ Close(r)

Next == (\E r \in Run : Arrive(r) \/ Step(r)) \/ Cancel \/ Crash \/ Restart

Spec == Init /\ [][Next]_vars

------------------------------------------------------------------------------
(* Properties *)

\* The answer of a run arrives at most once, crashes included: recovery never
\* takes a run up again, and the finalizer never repeats what it committed.
AnsweredOnce == \A r \in Run : answers[r] <= 1

\* Whatever point the process died at, a run whose own text is on record as
\* delivered does not end as interrupted, failed or cancelled.
DeliveredIsProtected ==
  [][\A r \in Run : status[r] \in Active /\ status'[r] \in Unsuccessful => ~Delivered(r)]_vars

\* When the process is up, a row that says queued or running has an executor,
\* or the start of the run threw in this life of the process: no crash, restart
\* or cancellation leaves such a row behind, and what an earlier life left with
\* one has lost it.
RunningHasExecutor ==
  up => \A r \in Run :
          status[r] \in {"queued", "running"} => at[r] \in Executing \cup Starting \cup {"thrown"}

\* A commit on record means the answer arrived, and its text is on record too.
CommittedArrived == \A r \in finalRow : answers[r] = 1 /\ textRow[r] = "delivered"
==============================================================================
