----------------------------- MODULE RunLifecycle -----------------------------
(***************************************************************************)
(* The life of a run between startRootRun and the release of its request   *)
(* group (runs/start.ts, runs/store.ts, runs/root-run-driver.ts,           *)
(* runs/finalization.ts): its root_runs row, its abort controller, its     *)
(* place in the execution queue of its request group, the text_delivered   *)
(* rows of the message ledger, and where its executor stands.              *)
(*                                                                         *)
(* The executor is asynchronous: every await is a point where another run, *)
(* a cancellation, an operator's cleanup or a deletion of history can act, *)
(* and what the executor does after the await rests on what it knew before *)
(* it.  One action below is the code between two awaits.                   *)
(*                                                                         *)
(* The execution queue is the sequence the promise chain of SerialQueue    *)
(* implements (SerialQueueFifo!ImplementsFifo).  Request groups are named  *)
(* by the run that opened them: requestGroupId = runId for a root request, *)
(* and a fresh "parent:subSession" key for a child, here its own name.     *)
(***************************************************************************)
EXTENDS Sequences, FiniteSets

CONSTANTS Run,      \* the runs that are ever started
          NoRun     \* no parent

ASSUME RunAssumption == NoRun \notin Run

VARIABLES
  status,       \* root_runs.status; "none" while or when there is no row
  group,        \* root_runs.request_group_id
  parent,       \* root_runs.parent_run_id
  ledger,       \* <<group, delivery kind>> of the text_delivered ledger rows
  controllers,  \* activeRunControllers: the runs with a bound controller
  aborted,      \* the runs whose AbortSignal is aborted
  queue,        \* queue[g]: the runs chained in request group g, head first
  behind,       \* queuedBehindRequestGroupRun, captured at the launch
  worker,       \* the rows with the worker session of their group
  pc            \* where the executor of the run stands

rows == <<status, group, parent, ledger>>
vars == <<status, group, parent, ledger, controllers, aborted, queue, behind, worker, pc>>

Active       == {"queued", "running", "awaiting_approval", "awaiting_user"}
Terminal     == {"completed", "failed", "cancelled", "interrupted"}
Unsuccessful == {"failed", "cancelled", "interrupted"}
Kind         == {"final", "progress"}

\* The awaits inside the execution queue's task.
Executing == {"begun", "dispatching", "dispatched", "topology", "head", "driving",
              "approving", "confirming", "answering", "answered", "asking", "asked",
              "stopping", "stopped", "leaving", "returning"}
Location == {"new", "planning", "starting", "refused", "chained", "over", "lost"} \cup Executing

\* Only runs of a group wait in its queue.
TypeOK ==
  /\ status \in [Run -> Active \cup Terminal \cup {"none"}]
  /\ group \in [Run -> Run]
  /\ parent \in [Run -> Run \cup {NoRun}]
  /\ ledger \subseteq Run \X Kind
  /\ controllers \subseteq Run
  /\ aborted \subseteq Run
  /\ queue \in [Run -> Seq(Run)]
  /\ \A g \in Run : \A i \in DOMAIN queue[g] : group[queue[g][i]] = g
  /\ behind \subseteq Run
  /\ worker \subseteq Run
  /\ pc \in [Run -> Location]

Init ==
  /\ status = [r \in Run |-> "none"]
  /\ group = [r \in Run |-> r]
  /\ parent = [r \in Run |-> NoRun]
  /\ ledger = {}
  /\ controllers = {}
  /\ aborted = {}
  /\ queue = [g \in Run |-> <<>>]
  /\ behind = {}
  /\ worker = {}
  /\ pc = [r \in Run |-> "new"]

------------------------------------------------------------------------------
(* The row *)

\* lineage_root_run_id: the parent's group for a child, else the own group.
Lineage(r) == IF parent[r] = NoRun THEN group[r] ELSE group[parent[r]]

HasRow(r) == status[r] # "none"

\* finalizeDeliveryForRun: any text_delivered row of the request group counts,
\* whichever run of the group wrote it and whatever its delivery kind.
AnswerDelivered(r) == \E k \in Kind : <<group[r], k>> \in ledger

\* canTransitionRunStatus
CanTransition(cur, next) == cur = next \/ cur \notin Terminal

\* Mutant: updateRunStatus without the delivery finalizer.
NextStatusUnprotected(r, cur, s) ==
  IF cur = "none" \/ ~CanTransition(cur, s) THEN cur ELSE s

\* updateRunStatus: nothing without a row; an unsuccessful end of a run whose
\* group already has its answer becomes "completed"; terminal states are locked.
NextStatus(r, cur, s) ==
  LET target == IF s \in Unsuccessful /\ cur # "completed" /\ AnswerDelivered(r)
                THEN "completed" ELSE s
  IN IF cur = "none" \/ ~CanTransition(cur, target) THEN cur ELSE target

UpdateStatus(r, s) == status' = [status EXCEPT ![r] = NextStatus(r, @, s)]

\* The same for every run of a set, the loop of the bulk operations.
UpdateAll(S, s) == [q \in Run |-> IF q \in S THEN NextStatus(q, status[q], s) ELSE status[q]]

\* recordMessageLedgerEvent of a text_delivered row: the request group is read
\* from the row, and is the run itself when the row was deleted.
Recorded(r, k) == ledger \cup {<<IF HasRow(r) THEN group[r] ELSE r, k>>}

Goto(r, l) == pc' = [pc EXCEPT ![r] = l]

------------------------------------------------------------------------------
(* Stopping runs *)

\* listCancellationScopeRuns
CancellationScope(r) ==
  {q \in Run :
     /\ HasRow(q)
     /\ q = r \/ group[q] = group[r] \/ parent[q] = r \/ Lineage(q) = Lineage(r)
     /\ status[q] \in Active \/ q \in controllers}

\* Mutant: the controller is cleared before it is looked up.
StopRunsClearingFirst(S, s) ==
  /\ status' = UpdateAll(S, s)
  /\ controllers' = controllers \ S
  /\ aborted' = aborted \cup (controllers' \cap S)

\* Mutant: the runs are only aborted; their executors will set the status.
StopRunsLazily(S, s) ==
  /\ status' = status
  /\ aborted' = aborted \cup (controllers \cap S)
  /\ controllers' = controllers \ S

\* abort, clear the controller, set the step and the status: the loop body of
\* cancelRootRun, cleanupStaleRunStates and interruptOrphanWorkerSessionRuns.
StopRuns(S, s) ==
  /\ status' = UpdateAll(S, s)
  /\ aborted' = aborted \cup (controllers \cap S)
  /\ controllers' = controllers \ S

------------------------------------------------------------------------------
(* Starting a run *)

\* isReusableRequestGroup
Reusable(g) == \E q \in Run : group[q] = g /\ status[q] \in Active

\* startRootRun for a request: the plan reads the open groups and picks one,
\* or opens its own; then it awaits.
Plan(r, g) ==
  /\ pc[r] = "new"
  /\ g = r \/ Reusable(g)
  /\ group' = [group EXCEPT ![r] = g]
  /\ Goto(r, "planning")
  /\ UNCHANGED <<status, parent, ledger, controllers, aborted, queue, behind, worker>>

\* A message on Telegram or Slack that answers a message of run q: q's scope is
\* cancelled, and the new run is forced into q's group, closed or not.
\* Children send no messages, and a deletion takes the message refs along.
Reply(r, q) ==
  /\ pc[r] = "new" /\ HasRow(q) /\ parent[q] = NoRun
  /\ StopRuns(CancellationScope(q), "cancelled")
  /\ group' = [group EXCEPT ![r] = group[q]]
  /\ Goto(r, "planning")
  /\ UNCHANGED <<parent, ledger, queue, behind, worker>>

\* Mutant: the launch leaves the earlier runs of the worker session alone.
LaunchKeepingOrphans(r, w) ==
  /\ pc[r] = "planning"
  /\ status' = [status EXCEPT ![r] = IF queue[group[r]] # <<>> THEN "queued" ELSE "running"]
  /\ controllers' = controllers \cup {r}
  /\ behind' = IF queue[group[r]] # <<>> THEN behind \cup {r} ELSE behind
  /\ worker' = IF w THEN worker \cup {r} ELSE worker
  /\ Goto(r, "starting")
  /\ UNCHANGED <<group, parent, ledger, aborted, queue>>

\* interruptOrphanWorkerSessionRuns, of a request with a worker session (w):
\* the active runs of the same group and worker session, this one excepted.
Orphans(r, w) ==
  {q \in Run \ {r} : w /\ q \in worker /\ group[q] = group[r] /\ status[q] \in Active}

\* createRootRun and applyStartInitialization, one synchronous stretch: the
\* row, the controller, the orphans, and "queued" or "running" by whether the
\* group's queue has an entry at this moment.
Launch(r, w) ==
  /\ pc[r] = "planning"
  /\ LET waits == queue[group[r]] # <<>> IN
     /\ status' = [UpdateAll(Orphans(r, w), "interrupted")
                     EXCEPT ![r] = IF waits THEN "queued" ELSE "running"]
     /\ behind' = IF waits THEN behind \cup {r} ELSE behind
  /\ controllers' = (controllers \ Orphans(r, w)) \cup {r}
  /\ aborted' = aborted \cup (controllers \cap Orphans(r, w))
  /\ worker' = IF w THEN worker \cup {r} ELSE worker
  /\ Goto(r, "starting")
  /\ UNCHANGED <<group, parent, ledger, queue>>

\* failStartPreflight, up to the await of its notice.
FailPreflight(r) ==
  /\ pc[r] = "starting"
  /\ UpdateStatus(r, "failed")
  /\ Goto(r, "refused")
  /\ UNCHANGED <<group, parent, ledger, controllers, aborted, queue, behind, worker>>

\* The rest of failStartPreflight: the notice was delivered or not.
PreflightNoticed(r) ==
  /\ pc[r] = "refused"
  /\ ledger' \in {ledger, Recorded(r, "progress")}
  /\ controllers' = controllers \ {r}
  /\ Goto(r, "over")
  /\ UNCHANGED <<status, group, parent, aborted, queue, behind, worker>>

\* Something between the launch and the enqueue threw: startRootRun's catch
\* only logs.
StartThrows(r) ==
  /\ pc[r] = "starting"
  /\ Goto(r, "lost")
  /\ UNCHANGED <<status, group, parent, ledger, controllers, aborted, queue, behind, worker>>

\* enqueueRequestGroupExecution
Enqueue(r) ==
  /\ pc[r] = "starting"
  /\ queue' = [queue EXCEPT ![group[r]] = Append(@, r)]
  /\ Goto(r, "chained")
  /\ UNCHANGED <<status, group, parent, ledger, controllers, aborted, behind, worker>>

Begin(r) ==
  /\ pc[r] = "chained"
  /\ queue[group[r]] # <<>> /\ Head(queue[group[r]]) = r
  /\ Goto(r, "begun")
  /\ UNCHANGED <<rows, controllers, aborted, queue, behind, worker>>

------------------------------------------------------------------------------
(* Delegation to sub-agents *)

\* isRootRequest and no parent
IsRootRequest(r) == group[r] = r /\ parent[r] = NoRun

Children(r) == {c \in Run : parent[c] = r}

\* The head of the dispatch branch of the queue's task.
DispatchSubAgents(r) ==
  /\ pc[r] = "begun" /\ IsRootRequest(r)
  /\ UpdateStatus(r, "running")
  /\ Goto(r, "dispatching")
  /\ UNCHANGED <<group, parent, ledger, controllers, aborted, queue, behind, worker>>


\* dispatchDelegatedSubAgentTasks starts the next child, in a request group
\* of its own, unless the parent is aborted, cancelled or interrupted; tasks
\* are dispatched one after the other.
StartChild(r, c) ==
  /\ pc[r] = "dispatching" /\ pc[c] = "new"
  /\ r \notin aborted /\ status[r] \notin {"cancelled", "interrupted"}
  /\ \A d \in Children(r) : pc[d] \in {"over", "lost"}
  /\ parent' = [parent EXCEPT ![c] = r]
  /\ group' = [group EXCEPT ![c] = c]
  /\ Goto(c, "planning")
  /\ UNCHANGED <<status, ledger, controllers, aborted, queue, behind, worker>>

\* Every child's `finished' promise settled.
EndDispatch(r) ==
  /\ pc[r] = "dispatching"
  /\ \A d \in Children(r) : pc[d] \in {"over", "lost"}
  /\ Goto(r, "dispatched")
  /\ UNCHANGED <<rows, controllers, aborted, queue, behind, worker>>

\* resolveTopologyDispatchFollowupDecision other than self_solve: the task
\* returns from here, past the driver and its finally handler.
FollowupBlocks(r, s) ==
  /\ pc[r] = "dispatched"
  /\ s \in {"failed", "awaiting_user"}
  /\ UpdateStatus(r, s)
  /\ Goto(r, "returning")
  /\ UNCHANGED <<group, parent, ledger, controllers, aborted, queue, behind, worker>>

------------------------------------------------------------------------------
(* The driver: executeRootRunDriver *)

\* A root request routed to the topology runtime; the signal is not looked at.
RunTopology(r) ==
  /\ pc[r] \in {"begun", "dispatched"} /\ IsRootRequest(r)
  /\ Goto(r, "topology")
  /\ UNCHANGED <<rows, controllers, aborted, queue, behind, worker>>

\* The topology run answered: completeRunWithAssistantMessage begins.
TopologyAnswers(r) ==
  /\ pc[r] = "topology"
  /\ Goto(r, "answering")
  /\ UNCHANGED <<rows, controllers, aborted, queue, behind, worker>>

\* Mutant: the bootstrap leaves a run that waited as "queued".
EnterLoopQuietly(r) ==
  /\ pc[r] \in {"begun", "dispatched", "topology"}
  /\ Goto(r, "head")
  /\ UNCHANGED <<rows, controllers, aborted, queue, behind, worker>>

\* runRootLoop up to its first test of the signal: bootstrapLoopState turns a
\* run that waited behind its group into a running one.
EnterLoop(r) ==
  /\ pc[r] \in {"begun", "dispatched", "topology"}
  /\ IF r \in behind /\ r \notin aborted THEN UpdateStatus(r, "running") ELSE UNCHANGED status
  /\ Goto(r, "head")
  /\ UNCHANGED <<group, parent, ledger, controllers, aborted, queue, behind, worker>>

\* while (!signal.aborted): one more turn, or the end of the loop.
LoopHead(r) ==
  /\ pc[r] = "head"
  /\ Goto(r, IF r \in aborted THEN "leaving" ELSE "driving")
  /\ UNCHANGED <<rows, controllers, aborted, queue, behind, worker>>

\* A turn ends with "continue": a retry, a follow-up or a new directive.
Continue(r) ==
  /\ pc[r] = "driving"
  /\ Goto(r, "head")
  /\ UNCHANGED <<rows, controllers, aborted, queue, behind, worker>>

\* A streamed chunk with text receipts (applyChunkDeliveryReceipt).
StreamText(r) ==
  /\ pc[r] = "driving"
  /\ ledger' = Recorded(r, "final")
  /\ UNCHANGED <<status, group, parent, controllers, aborted, queue, behind, worker, pc>>

\* A tool asks for approval (60 s timeout) or for a screen confirmation,
\* which has no timeout.
AskApproval(r, l) ==
  /\ pc[r] = "driving"
  /\ l \in {"approving", "confirming"}
  /\ UpdateStatus(r, IF l = "approving" THEN "awaiting_approval" ELSE "awaiting_user")
  /\ Goto(r, l)
  /\ UNCHANGED <<group, parent, ledger, controllers, aborted, queue, behind, worker>>

Allow(r) ==
  /\ pc[r] \in {"approving", "confirming"}
  /\ UpdateStatus(r, "running")
  /\ Goto(r, "driving")
  /\ UNCHANGED <<group, parent, ledger, controllers, aborted, queue, behind, worker>>

\* The user or the timeout denies: finishApproval cancels the whole scope.
Deny(r) ==
  /\ pc[r] \in {"approving", "confirming"}
  /\ StopRuns(CancellationScope(r), "cancelled")
  /\ Goto(r, "driving")
  /\ UNCHANGED <<group, parent, ledger, queue, behind, worker>>

\* The abort listener of the pending approval.
ApprovalAborted(r) ==
  /\ pc[r] \in {"approving", "confirming"} /\ r \in aborted
  /\ Goto(r, "driving")
  /\ UNCHANGED <<rows, controllers, aborted, queue, behind, worker>>

\* The turn decides that the run is complete.  A child hands its text to its
\* parent and sends nothing; an empty text is sent nowhere either.
CompleteSilently(r) ==
  /\ pc[r] = "driving"
  /\ UpdateStatus(r, "completed")
  /\ Goto(r, "leaving")
  /\ UNCHANGED <<group, parent, ledger, controllers, aborted, queue, behind, worker>>

\* completeRunWithAssistantMessage, moveRunToAwaitingUser and
\* moveRunToCancelledAfterStop up to the await of their message.
Say(r, l) ==
  /\ pc[r] = "driving"
  /\ l \in {"answering", "asking", "stopping"}
  /\ l = "answering" => parent[r] = NoRun
  /\ Goto(r, l)
  /\ UNCHANGED <<rows, controllers, aborted, queue, behind, worker>>

\* emitAssistantTextDelivery came back: the text was delivered and the ledger
\* has it, or it was not.
Said(r) ==
  /\ pc[r] \in {"answering", "asking", "stopping"}
  /\ ledger' \in {ledger, Recorded(r, IF pc[r] = "answering" THEN "final" ELSE "progress")}
  /\ Goto(r, CASE pc[r] = "answering" -> "answered"
               [] pc[r] = "asking" -> "asked"
               [] pc[r] = "stopping" -> "stopped")
  /\ UNCHANGED <<status, group, parent, controllers, aborted, queue, behind, worker>>

\* The status the run settles in after its message.
SettledStatus(l) ==
  CASE l = "answered" -> "completed" [] l = "asked" -> "awaiting_user" [] l = "stopped" -> "cancelled"

Settle(r) ==
  /\ pc[r] \in {"answered", "asked", "stopped"}
  /\ UpdateStatus(r, SettledStatus(pc[r]))
  /\ Goto(r, "leaving")
  /\ UNCHANGED <<group, parent, ledger, controllers, aborted, queue, behind, worker>>

\* Mutant: a failure of an aborted run only ends the executor.
FailForgettingAbort(r) ==
  /\ pc[r] \in {"topology", "head", "driving"}
  /\ IF r \in aborted THEN UpdateStatus(r, "cancelled") ELSE UNCHANGED status
  /\ Goto(r, "leaving")
  /\ UNCHANGED <<group, parent, ledger, controllers, aborted, queue, behind, worker>>

\* applyFatalFailure, from an error chunk or from the driver's catch: an
\* aborted run is cancelled if it is still active, another one has failed.
Fail(r) ==
  /\ pc[r] \in {"topology", "head", "driving"}
  /\ UpdateStatus(r, IF r \in aborted THEN "cancelled" ELSE "failed")
  /\ Goto(r, "leaving")
  /\ UNCHANGED <<group, parent, ledger, controllers, aborted, queue, behind, worker>>

\* The row is gone: the next run event violates its foreign key, and the
\* exception leaves the driver.
RowGone(r) ==
  /\ pc[r] \in Executing \ {"leaving", "returning"} /\ ~HasRow(r)
  /\ Goto(r, "leaving")
  /\ UNCHANGED <<rows, controllers, aborted, queue, behind, worker>>

\* Mutant: only the queue's finally runs, on every way out.
LeaveBound(r) ==
  /\ pc[r] \in {"leaving", "returning"}
  /\ queue' = [queue EXCEPT ![group[r]] = Tail(@)]
  /\ Goto(r, "over")
  /\ UNCHANGED <<rows, controllers, aborted, behind, worker>>

\* The driver's finally clears the controller, the queue's finally releases
\* the group.  A task that returned past the driver only does the second.
Leave(r) ==
  /\ pc[r] \in {"leaving", "returning"}
  /\ controllers' = IF pc[r] = "leaving" THEN controllers \ {r} ELSE controllers
  /\ queue' = [queue EXCEPT ![group[r]] = Tail(@)]
  /\ Goto(r, "over")
  /\ UNCHANGED <<rows, aborted, behind, worker>>

------------------------------------------------------------------------------
(* The user and the operator *)

\* cancelRootRun
CancelRootRun(r) ==
  /\ HasRow(r) /\ CancellationScope(r) # {}
  /\ StopRuns(CancellationScope(r), "cancelled")
  /\ UNCHANGED <<group, parent, ledger, queue, behind, worker, pc>>

\* cleanupStaleRunStates: the active runs whose row is old enough.
CleanupStaleRunStates(S) ==
  /\ S # {} /\ \A q \in S : status[q] \in Active
  /\ StopRuns(S, "interrupted")
  /\ UNCHANGED <<group, parent, ledger, queue, behind, worker, pc>>

\* deleteRunRows
DeleteRows(S) ==
  /\ status' = [q \in Run |-> IF q \in S THEN "none" ELSE status[q]]
  /\ aborted' = aborted \cup (controllers \cap S)
  /\ controllers' = controllers \ S
  /\ UNCHANGED <<group, parent, ledger, queue, behind, worker, pc>>

LineageRows(r) == {q \in Run : HasRow(q) /\ Lineage(q) = Lineage(r)}

\* deleteRunHistory: blocked while a run of the lineage is active or bound.
DeleteRunHistory(r) ==
  /\ HasRow(r)
  /\ \A q \in LineageRows(r) : status[q] \notin Active /\ q \notin controllers
  /\ DeleteRows(LineageRows(r))

\* clearHistoricalRunHistory: every terminal row, bound or not.
ClearHistoricalRunHistory ==
  LET S == {q \in Run : status[q] \in Terminal} IN S # {} /\ DeleteRows(S)

------------------------------------------------------------------------------
\* What the executor of one run does.
Step(r) ==
  \/ (\E w \in BOOLEAN : Launch(r, w)) \/ FailPreflight(r) \/ PreflightNoticed(r) \/ StartThrows(r)
  \/ Enqueue(r) \/ Begin(r)
  \/ DispatchSubAgents(r) \/ EndDispatch(r)
  \/ \E s \in {"failed", "awaiting_user"} : FollowupBlocks(r, s)
  \/ RunTopology(r) \/ TopologyAnswers(r) \/ EnterLoop(r) \/ LoopHead(r)
  \/ Continue(r) \/ StreamText(r)
  \/ \E l \in {"approving", "confirming"} : AskApproval(r, l)
  \/ Allow(r) \/ Deny(r) \/ ApprovalAborted(r)
  \/ CompleteSilently(r)
  \/ \E l \in {"answering", "asking", "stopping"} : Say(r, l)
  \/ Said(r) \/ Settle(r) \/ Fail(r) \/ RowGone(r) \/ Leave(r)

Operator ==
  \/ \E r \in Run : CancelRootRun(r) \/ DeleteRunHistory(r)
  \/ \E S \in SUBSET Run : CleanupStaleRunStates(S)
  \/ ClearHistoricalRunHistory

\* Every run of the instance is started and over.
Quiescent == (\A r \in Run : pc[r] \in {"over", "lost"}) /\ UNCHANGED vars

Next ==
  \/ \E r, g \in Run : Plan(r, g)
  \/ \E r, q \in Run : Reply(r, q)
  \/ \E r, c \in Run : StartChild(r, c)
  \/ \E r \in Run : Step(r)
  \/ Operator
  \/ Quiescent

Spec == Init /\ [][Next]_vars

\* What moves an executor on from each await but two: sends are bounded by the
\* 30 s delivery timeout, approvals by their 60 s timer, and queue and loop
\* steps are promise reactions.  A screen confirmation has no timer.
Advance(r) ==
  \/ (\E w \in BOOLEAN : Launch(r, w)) \/ Enqueue(r) \/ PreflightNoticed(r) \/ Begin(r)
  \/ EnterLoop(r) \/ EndDispatch(r) \/ LoopHead(r) \/ Said(r) \/ Settle(r) \/ Leave(r)
  \/ pc[r] = "approving" /\ Deny(r)

\* A turn ends: the loop goes on or it is left.  A turn is at most
\* MAX_TOOL_ROUNDS rounds of tool calls, which approvals interrupt, so one that
\* is taken up again and again does end, if the model and the tools answer:
\* strong fairness.  Nothing bounds the turns: the limit of the recovery budget
\* is 0, which canConsumeRecoveryBudget takes for no limit, and the recovery of
\* an empty result keeps no seen keys.
EndTurn(r) ==
  pc[r] = "driving" /\ (Continue(r) \/ CompleteSilently(r) \/ Fail(r)
                         \/ \E l \in {"answering", "asking", "stopping"} : Say(r, l))

Fairness == \A r \in Run : WF_vars(Advance(r)) /\ SF_vars(EndTurn(r))

FairSpec == Spec /\ Fairness

------------------------------------------------------------------------------
(* Properties *)

Live == {"starting", "refused", "chained"} \cup Executing

\* Whoever cancels, cleans up, interrupts or deletes can reach every executor:
\* while a run's executor is alive, either its controller is still bound or
\* its signal is already aborted.  A controller is never dropped unaborted,
\* whatever the order of launches, cancellations and deletions.
Stoppable == \A r \in Run : pc[r] \in Live => r \in controllers \cup aborted

\* An aborted run is settled in the database at the same time: no later
\* reader sees a run that was told to stop as active (runs/store.ts, the
\* callers of controller.abort).
AbortedIsSettled == \A r \in aborted : status[r] \in Terminal \cup {"none"}

\* When the executor is done the run is terminal or waits for the user: no
\* row is left "running" or "queued" with nobody to finish it, whichever
\* await the cancellation, the deletion or the error fell into.
OverIsSettled ==
  \A r \in Run : pc[r] = "over" => status[r] \in Terminal \cup {"awaiting_user", "none"}

\* A run shown as queued has not entered its loop: bootstrapLoopState repairs
\* the status of every run that waited, although the topology and sub-agent
\* branches do not call it.
QueuedIsWaiting ==
  \A r \in Run : status[r] = "queued" => pc[r] \in {"starting", "chained", "begun", "lost"}

\* At most one run of a request group's worker session is active
\* (interruptOrphanWorkerSessionRuns), although runs are planned, launched
\* and enqueued in separate steps.
OneWorkerRun ==
  \A q, r \in worker :
    q # r /\ group[q] = group[r] => ~(status[q] \in Active /\ status[r] \in Active)

\* Once a request group has a delivered text, no later failure, cancellation
\* or interruption marks an active run of the group unsuccessful.
DeliveredAnswerKept ==
  [][\A r \in Run : AnswerDelivered(r) /\ status[r] \in Active
                      => status'[r] \notin Unsuccessful]_vars

\* The runs that r can have to wait for: those of its request group, and the
\* children its group's root request awaits.
Ahead(r) == {q \in Run : group[q] = group[r] \/ Lineage(q) = Lineage(r)}


\* What moveRunToCancelledAfterStop announces: a run that stops by itself ends
\* as cancelled.  Checked as a claim of the code; it does not hold.
StoppedIsCancelled ==
  [][\A r \in Run : pc[r] = "stopped" /\ pc'[r] # "stopped" /\ status[r] \in Active
                      => status'[r] = "cancelled"]_vars

\* What makes a deletion wait (deleteRunHistory blocks on a bound run) ends
\* with the run: a bound controller belongs to an executor that is alive, to a
\* start that threw, or to a root request whose task returned past the driver
\* after its children, which no handler unbinds.  The runs that join a group and
\* the children never stay bound, whoever stops, clears or replaces them.
BoundIsInProgress ==
  \A r \in controllers :
    pc[r] \in Live \cup {"lost"} \/ (pc[r] = "over" /\ IsRootRequest(r))

=============================================================================
