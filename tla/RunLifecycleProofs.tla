-------------------------- MODULE RunLifecycleProofs --------------------------
(***************************************************************************)
(* Proofs about RunLifecycle, for any set of runs and any choice of worker *)
(* sessions.  The five invariants of the run (Stoppable, AbortedIsSettled, *)
(* OverIsSettled, QueuedIsWaiting, OneWorkerRun) are parts or consequences *)
(* of one inductive invariant, IndInv.  Its preservation rests on three    *)
(* lemmas, one per shape of step: a step of one executor (OwnStep), a bulk *)
(* stop (StopStep) and a deletion of rows (DeleteStep).  BoundIsInProgress *)
(* has an invariant of its own on top of it.                               *)
(***************************************************************************)
EXTENDS RunLifecycle, SequenceTheorems, TLAPS

Status   == Active \cup Terminal \cup {"none"}
Settled  == Terminal \cup {"none"}
Unborn   == {"new", "planning"}
Waiting  == {"starting", "chained", "begun", "lost"}
Done     == {"refused", "leaving", "returning", "over"}

\* A run that is only planned has left no trace.
UnbornIsClean ==
  \A r \in Run : pc[r] \in Unborn =>
    status[r] = "none" /\ r \notin controllers /\ r \notin aborted /\ r \notin behind
    /\ r \notin worker

\* An executor that is leaving, or was refused, has settled its run.
DoneIsSettled == \A r \in Run : pc[r] \in Done => status[r] \in Settled \cup {"awaiting_user"}

\* A queued run waits behind another run of a group it did not open.
QueuedShape ==
  \A r \in Run : status[r] = "queued" => pc[r] \in Waiting /\ r \in behind /\ group[r] # r

\* A group is joined only once its first run is launched.
JoinedIsLaunched == \A r \in Run : group[r] # r => pc[group[r]] \notin Unborn

\* A run that is not started yet is in no group but its own.
NewIsAlone == \A r \in Run : pc[r] = "new" => group[r] = r

\* Only launched runs are chained.
ChainedIsLaunched == \A g \in Run : \A i \in DOMAIN queue[g] : pc[queue[g][i]] \notin Unborn

AtHead(r) == queue[group[r]] # <<>> /\ Head(queue[group[r]]) = r

\* The run that executes is the head of its group's queue.
ExecutingIsHead == \A r \in Run : pc[r] \in Executing => AtHead(r)

IndInv ==
  /\ TypeOK
  /\ UnbornIsClean
  /\ Stoppable
  /\ AbortedIsSettled
  /\ DoneIsSettled
  /\ QueuedShape
  /\ OneWorkerRun
  /\ JoinedIsLaunched
  /\ NewIsAlone
  /\ ChainedIsLaunched
  /\ ExecutingIsHead

------------------------------------------------------------------------------
(* updateRunStatus *)

\* What updateRunStatus can make of a status: nothing of no row, nothing else
\* of a terminal one, and otherwise the requested one or "completed".
LEMMA NextStatusFacts ==
  ASSUME NEW r \in Run, NEW cur \in Status, NEW s \in Active \cup Terminal
  PROVE  /\ NextStatus(r, cur, s) \in Status
         /\ cur \in Settled => NextStatus(r, cur, s) = cur
         /\ s \in Terminal => NextStatus(r, cur, s) \in Settled
         /\ s \in Active /\ cur \in Active => NextStatus(r, cur, s) = s
         /\ cur \in Active /\ AnswerDelivered(r) => NextStatus(r, cur, s) \notin Unsuccessful
BY DEF NextStatus, CanTransition, Status, Settled, Active, Terminal, Unsuccessful

\* The bulk form, status by status.
LEMMA UpdateAllFacts ==
  ASSUME status \in [Run -> Status], NEW S \in SUBSET Run, NEW s \in Terminal
  PROVE  /\ UpdateAll(S, s) \in [Run -> Status]
         /\ \A q \in S : UpdateAll(S, s)[q] \in Settled
         /\ \A q \in Run \ S : UpdateAll(S, s)[q] = status[q]
         /\ \A q \in Run : status[q] \in Settled => UpdateAll(S, s)[q] = status[q]
         /\ \A q \in Run : AnswerDelivered(q) /\ status[q] \in Active
                             => UpdateAll(S, s)[q] \notin Unsuccessful
<1>1. \A q \in Run : /\ NextStatus(q, status[q], s) \in Status
                     /\ NextStatus(q, status[q], s) \in Settled
                     /\ status[q] \in Settled => NextStatus(q, status[q], s) = status[q]
                     /\ status[q] \in Active /\ AnswerDelivered(q)
                          => NextStatus(q, status[q], s) \notin Unsuccessful
  BY NextStatusFacts
<1>2. \A q \in Run : status[q] \in Active => status[q] \notin Unsuccessful
  BY DEF Active, Unsuccessful
<1> QED
  BY <1>1, <1>2 DEF UpdateAll

\* A recorded delivery is a row of some group.
LEMMA RecordedType ==
  ASSUME IndInv, NEW r \in Run, NEW k \in Kind
  PROVE  Recorded(r, k) \subseteq Run \X Kind
<1> DEFINE g == IF HasRow(r) THEN group[r] ELSE r
<1>1. g \in Run
  BY DEF IndInv, TypeOK
<1>2. Recorded(r, k) = ledger \cup {<<g, k>>}
  BY DEF Recorded
<1> HIDE DEF g
<1> QED
  BY <1>1, <1>2 DEF IndInv, TypeOK

------------------------------------------------------------------------------
(* The three shapes of step *)

\* A step of one launched executor: it moves its own pc, may change its own
\* status, and leaves controllers, signals, groups and queues alone.
LEMMA OwnStep ==
  ASSUME IndInv,
         NEW r \in Run, NEW l \in Location, NEW v \in Status,
         pc[r] \notin Unborn, l \notin Unborn,
         status' = [status EXCEPT ![r] = v],
         pc' = [pc EXCEPT ![r] = l],
         ledger' \subseteq Run \X Kind,
         UNCHANGED <<group, parent, controllers, aborted, queue, behind, worker>>,
         r \in aborted => v \in Settled,
         l \in Live => pc[r] \in Live,
         l \in Executing => pc[r] \in Executing \/ AtHead(r),
         l \in Done => v \in Settled \cup {"awaiting_user"},
         v = "queued" => status[r] = "queued" /\ l \in Waiting,
         v \in Active => status[r] \in Active
  PROVE  IndInv'
<1>1. TypeOK'
  BY DEF IndInv, TypeOK, Status
<1>2. /\ pc'[r] = l /\ status'[r] = v
      /\ \A q \in Run \ {r} : pc'[q] = pc[q] /\ status'[q] = status[q]
      /\ \A q \in Run : pc'[q] \in Unborn <=> pc[q] \in Unborn
  BY DEF IndInv, TypeOK
<1>3. UnbornIsClean'
  BY <1>2 DEF IndInv, UnbornIsClean
<1>4. Stoppable'
  BY <1>2 DEF IndInv, Stoppable
<1>5. AbortedIsSettled'
  BY <1>2 DEF IndInv, TypeOK, AbortedIsSettled, Settled
<1>6. DoneIsSettled'
  BY <1>2 DEF IndInv, DoneIsSettled
<1>7. QueuedShape'
  BY <1>2 DEF IndInv, QueuedShape
<1>8. OneWorkerRun'
  BY <1>2 DEF IndInv, TypeOK, OneWorkerRun
<1>9. JoinedIsLaunched'
  BY <1>1, <1>2 DEF IndInv, JoinedIsLaunched, TypeOK
<1>10. NewIsAlone'
  BY <1>2 DEF IndInv, NewIsAlone, Unborn
<1>11. ChainedIsLaunched'
  <2>1. \A g \in Run : \A i \in DOMAIN queue[g] : queue[g][i] \in Run
    BY DEF IndInv, TypeOK
  <2> QED
    BY <1>2, <2>1 DEF IndInv, ChainedIsLaunched
<1>12. ExecutingIsHead'
  BY <1>2 DEF IndInv, ExecutingIsHead, AtHead
<1> QED
  BY <1>1, <1>3, <1>4, <1>5, <1>6, <1>7, <1>8, <1>9, <1>10, <1>11, <1>12 DEF IndInv

\* A step that also leaves the status alone.
COROLLARY OwnMove ==
  ASSUME IndInv,
         NEW r \in Run, NEW l \in Location,
         pc[r] \notin Unborn, l \notin Unborn,
         pc' = [pc EXCEPT ![r] = l],
         ledger' \subseteq Run \X Kind,
         UNCHANGED <<status, group, parent, controllers, aborted, queue, behind, worker>>,
         l \in Live => pc[r] \in Live,
         l \in Executing => pc[r] \in Executing \/ AtHead(r),
         l \in Done => status[r] \in Settled \cup {"awaiting_user"},
         status[r] = "queued" => l \in Waiting
  PROVE  IndInv'
<1>1. status' = [status EXCEPT ![r] = status[r]] /\ status[r] \in Status
  BY DEF IndInv, TypeOK, Status
<1>2. r \in aborted => status[r] \in Settled
  BY DEF IndInv, AbortedIsSettled, Settled
<1> QED
  BY <1>1, <1>2, OwnStep

\* A step that updates the status of its own run by updateRunStatus.
COROLLARY OwnUpdate ==
  ASSUME IndInv,
         NEW r \in Run, NEW l \in Location, NEW s \in Active \cup Terminal,
         pc[r] \notin Unborn, l \notin Unborn,
         UpdateStatus(r, s), Goto(r, l),
         UNCHANGED <<group, parent, ledger, controllers, aborted, queue, behind, worker>>,
         l \in Live => pc[r] \in Live,
         l \in Executing => pc[r] \in Executing \/ AtHead(r),
         l \in Done => s \in Terminal \cup {"awaiting_user"},
         s # "queued"
  PROVE  IndInv'
<1> DEFINE v == NextStatus(r, status[r], s)
<1>1. status \in [Run -> Status] /\ status[r] \in Status
  BY DEF IndInv, TypeOK, Status
<1>2. /\ v \in Status
      /\ status[r] \in Settled => v = status[r]
      /\ s \in Terminal => v \in Settled
      /\ s \in Active /\ status[r] \in Active => v = s
  BY <1>1, NextStatusFacts
<1>3. status' = [status EXCEPT ![r] = v] /\ pc' = [pc EXCEPT ![r] = l]
  BY <1>1 DEF UpdateStatus, Goto
<1>4. r \in aborted => v \in Settled
  BY <1>2 DEF IndInv, AbortedIsSettled, Settled
<1>5. /\ l \in Done => v \in Settled \cup {"awaiting_user"}
      /\ v # "queued"
      /\ v \in Active => status[r] \in Active
  BY <1>1, <1>2 DEF Status, Settled, Active, Terminal
<1>6. ledger' \subseteq Run \X Kind
  BY DEF IndInv, TypeOK
<1> HIDE DEF v
<1> QED
  BY <1>2, <1>3, <1>4, <1>5, <1>6, OwnStep

\* abort, clear and settle a set of runs: no pc moves, except that a denied
\* approval sends its own executor back to its turn.
LEMMA StopStep ==
  ASSUME IndInv,
         NEW S \in SUBSET Run, NEW s \in Terminal, NEW r \in Run,
         StopRuns(S, s),
         \/ pc' = pc
         \/ pc' = [pc EXCEPT ![r] = "driving"] /\ pc[r] \in {"approving", "confirming"},
         UNCHANGED <<group, parent, ledger, queue, behind, worker>>
  PROVE  IndInv'
<1>1. status \in [Run -> Status]
  BY DEF IndInv, TypeOK, Status
<1>2. /\ status' \in [Run -> Status]
      /\ \A q \in S : status'[q] \in Settled
      /\ \A q \in Run \ S : status'[q] = status[q]
      /\ \A q \in Run : status[q] \in Settled => status'[q] = status[q]
  BY <1>1, UpdateAllFacts DEF StopRuns
<1>3. /\ aborted' = aborted \cup (controllers \cap S)
      /\ controllers' = controllers \ S
  BY DEF StopRuns
<1>4. /\ pc' \in [Run -> Location]
      /\ \A q \in Run : pc'[q] = pc[q] \/ (pc'[q] = "driving" /\ pc[q] \in Executing \ Waiting)
  BY DEF IndInv, TypeOK, Location, Executing, Live, Waiting
<1>5. \A q \in Run : pc'[q] \in Unborn <=> pc[q] \in Unborn
  BY <1>4 DEF Unborn, Live, Waiting, Executing
<1>6. TypeOK'
  BY <1>2, <1>3, <1>4 DEF IndInv, TypeOK, Status
<1>7. UnbornIsClean'
  BY <1>2, <1>3, <1>5 DEF IndInv, TypeOK, UnbornIsClean, Settled
<1>8. Stoppable'
  BY <1>3, <1>4 DEF IndInv, Stoppable, Live
<1>9. AbortedIsSettled'
  BY <1>2, <1>3 DEF IndInv, TypeOK, AbortedIsSettled, Settled
<1>10. DoneIsSettled'
  BY <1>2, <1>4 DEF IndInv, DoneIsSettled, Done, Live, Executing
<1>11. QueuedShape'
  <2>1. \A q \in Run : status'[q] = "queued" => status[q] = "queued"
    BY <1>2 DEF Settled, Terminal
  <2> QED
    BY <2>1, <1>4 DEF IndInv, QueuedShape
<1>12. OneWorkerRun'
  <2>1. \A q \in Run : status'[q] \in Active => status[q] \in Active
    BY <1>2 DEF Settled, Active, Terminal
  <2> QED
    BY <2>1 DEF IndInv, TypeOK, OneWorkerRun
<1>13. JoinedIsLaunched'
  BY <1>5 DEF IndInv, TypeOK, JoinedIsLaunched
<1>14. NewIsAlone'
  BY <1>4 DEF IndInv, NewIsAlone
<1>15. ChainedIsLaunched'
  <2>1. \A g \in Run : \A i \in DOMAIN queue[g] : queue[g][i] \in Run
    BY DEF IndInv, TypeOK
  <2> QED
    BY <1>5, <2>1 DEF IndInv, ChainedIsLaunched
<1>16. ExecutingIsHead'
  BY <1>4 DEF IndInv, ExecutingIsHead, AtHead
<1> QED
  BY <1>6, <1>7, <1>8, <1>9, <1>10, <1>11, <1>12, <1>13, <1>14, <1>15, <1>16 DEF IndInv

\* deleteRunRows
LEMMA DeleteStep ==
  ASSUME IndInv, NEW S \in SUBSET Run, DeleteRows(S)
  PROVE  IndInv'
<1>1. /\ status' \in [Run -> Status]
      /\ \A q \in Run : status'[q] = "none" \/ (q \notin S /\ status'[q] = status[q])
      /\ \A q \in S : status'[q] = "none"
      /\ aborted' = aborted \cup (controllers \cap S)
      /\ controllers' = controllers \ S
  BY DEF IndInv, TypeOK, DeleteRows, Status
<1>2. UNCHANGED <<group, parent, ledger, queue, behind, worker, pc>>
  BY DEF DeleteRows
<1>3. TypeOK'
  BY <1>1, <1>2 DEF IndInv, TypeOK, Status
<1>4. UnbornIsClean' /\ Stoppable'
  BY <1>1, <1>2 DEF IndInv, UnbornIsClean, Stoppable, TypeOK
<1>5. AbortedIsSettled'
  BY <1>1 DEF IndInv, TypeOK, AbortedIsSettled
<1>6. DoneIsSettled' /\ QueuedShape'
  BY <1>1, <1>2 DEF IndInv, DoneIsSettled, QueuedShape, Settled
<1>7. OneWorkerRun'
  <2>1. \A q \in Run : status'[q] \in Active => status[q] \in Active
    BY <1>1 DEF Active
  <2> QED
    BY <1>2, <2>1 DEF IndInv, TypeOK, OneWorkerRun
<1>8. JoinedIsLaunched' /\ NewIsAlone' /\ ChainedIsLaunched'
  BY <1>2 DEF IndInv, JoinedIsLaunched, NewIsAlone, ChainedIsLaunched
<1>9. ExecutingIsHead'
  BY <1>2 DEF IndInv, ExecutingIsHead, AtHead
<1> QED
  BY <1>3, <1>4, <1>5, <1>6, <1>7, <1>8, <1>9 DEF IndInv

------------------------------------------------------------------------------
(* The steps that no lemma above covers *)

\* Planning into an open group: the group's first run was launched long ago.
LEMMA PlanStep ==
  ASSUME IndInv, NEW r \in Run, NEW g \in Run, Plan(r, g)
  PROVE  IndInv'
<1>1. /\ pc[r] = "new" /\ group[r] = r /\ status[r] = "none"
      /\ group' = [group EXCEPT ![r] = g] /\ pc' = [pc EXCEPT ![r] = "planning"]
      /\ UNCHANGED <<status, parent, ledger, controllers, aborted, queue, behind, worker>>
  BY DEF Plan, Goto, IndInv, NewIsAlone, UnbornIsClean, Unborn
<1>2. /\ \A q \in Run : pc'[q] \in Unborn <=> pc[q] \in Unborn
      /\ \A q \in Run \ {r} : pc'[q] = pc[q] /\ group'[q] = group[q]
      /\ pc'[r] = "planning" /\ group'[r] = g
  BY <1>1 DEF IndInv, TypeOK, Unborn
<1>3. \A h \in Run : \A i \in DOMAIN queue[h] : queue[h][i] \in Run \ {r}
  BY <1>1 DEF IndInv, TypeOK, ChainedIsLaunched, Unborn
<1>4. g # r => pc[g] \notin Unborn
  <2>1. SUFFICES ASSUME g # r PROVE pc[g] \notin Unborn
    OBVIOUS
  <2>2. PICK q \in Run : group[q] = g /\ status[q] \in Active
    BY <2>1 DEF Plan, Reusable
  <2>3. pc[q] \notin Unborn
    BY <2>2 DEF IndInv, UnbornIsClean, Active
  <2> QED
    BY <2>2, <2>3 DEF IndInv, JoinedIsLaunched
<1>5. TypeOK'
  BY <1>1, <1>2, <1>3 DEF IndInv, TypeOK, Location
<1>6. UnbornIsClean' /\ AbortedIsSettled'
  BY <1>1, <1>2 DEF IndInv, UnbornIsClean, AbortedIsSettled
<1>7. Stoppable' /\ DoneIsSettled'
  BY <1>1, <1>2 DEF IndInv, Stoppable, DoneIsSettled, Live, Executing, Done
<1>8. QueuedShape'
  BY <1>1, <1>2 DEF IndInv, QueuedShape
<1>9. OneWorkerRun'
  BY <1>1, <1>2 DEF IndInv, TypeOK, OneWorkerRun, Active
<1>10. JoinedIsLaunched'
  BY <1>1, <1>2, <1>4 DEF IndInv, TypeOK, JoinedIsLaunched, Unborn
<1>11. NewIsAlone'
  BY <1>2 DEF IndInv, NewIsAlone
<1>12. ChainedIsLaunched'
  BY <1>1, <1>2, <1>3 DEF IndInv, ChainedIsLaunched
<1>13. ExecutingIsHead'
  BY <1>1, <1>2 DEF IndInv, ExecutingIsHead, AtHead, Executing
<1> QED
  BY <1>5, <1>6, <1>7, <1>8, <1>9, <1>10, <1>11, <1>12, <1>13 DEF IndInv

\* A reply stops a scope, in which the new run is not, and plans the new run
\* into a group that was launched.
LEMMA ReplyStep ==
  ASSUME IndInv, NEW r \in Run, NEW p \in Run, Reply(r, p)
  PROVE  IndInv'
<1> DEFINE S == CancellationScope(p)
           g == group[p]
<1>1. /\ pc[r] = "new" /\ group[r] = r /\ status[r] = "none"
      /\ r \notin controllers /\ r \notin aborted /\ r \notin behind
      /\ group' = [group EXCEPT ![r] = g] /\ pc' = [pc EXCEPT ![r] = "planning"]
      /\ UNCHANGED <<parent, ledger, queue, behind, worker>>
  BY DEF Reply, Goto, IndInv, NewIsAlone, UnbornIsClean, Unborn
<1>2. S \in SUBSET Run /\ "cancelled" \in Terminal
  BY DEF CancellationScope, Terminal
<1>3. /\ status' = UpdateAll(S, "cancelled")
      /\ aborted' = aborted \cup (controllers \cap S)
      /\ controllers' = controllers \ S
  BY DEF Reply, StopRuns
<1>4. g \in Run /\ g # r /\ pc[g] \notin Unborn
  <2>1. pc[p] \notin Unborn
    BY DEF Reply, HasRow, IndInv, UnbornIsClean
  <2>2. group[p] \in Run /\ pc[group[p]] \notin Unborn
    BY <2>1 DEF IndInv, TypeOK, JoinedIsLaunched
  <2> QED
    BY <1>1, <2>2 DEF Unborn
<1> HIDE DEF S, g
<1>5. /\ status' \in [Run -> Status]
      /\ \A q \in S : status'[q] \in Settled
      /\ \A q \in Run \ S : status'[q] = status[q]
      /\ \A q \in Run : status[q] \in Settled => status'[q] = status[q]
  <2>1. status \in [Run -> Status]
    BY DEF IndInv, TypeOK, Status
  <2> QED
    BY <1>2, <1>3, <2>1, UpdateAllFacts
<1>6. \A q \in Run : status'[q] \in Active => status'[q] = status[q]
  BY <1>2, <1>5 DEF Settled, Active, Terminal
<1>7. /\ \A q \in Run : pc'[q] \in Unborn <=> pc[q] \in Unborn
      /\ \A q \in Run \ {r} : pc'[q] = pc[q] /\ group'[q] = group[q]
      /\ pc'[r] = "planning" /\ group'[r] = g
  BY <1>1 DEF IndInv, TypeOK, Unborn
<1>8. \A h \in Run : \A i \in DOMAIN queue[h] : queue[h][i] \in Run \ {r}
  BY <1>1 DEF IndInv, TypeOK, ChainedIsLaunched, Unborn
<1>9. status'[r] = "none"
  BY <1>1, <1>5 DEF Settled
<1>10. TypeOK'
  BY <1>1, <1>2, <1>3, <1>4, <1>5, <1>7, <1>8 DEF IndInv, TypeOK, Location, Status
<1>11. UnbornIsClean'
  BY <1>1, <1>3, <1>5, <1>7 DEF IndInv, UnbornIsClean, Settled
<1>12. Stoppable'
  BY <1>3, <1>7 DEF IndInv, Stoppable, Live, Executing
<1>13. AbortedIsSettled'
  BY <1>3, <1>5 DEF IndInv, TypeOK, AbortedIsSettled, Settled
<1>14. DoneIsSettled'
  BY <1>2, <1>5, <1>7 DEF IndInv, DoneIsSettled, Done
<1>15. QueuedShape'
  <2>1. \A q \in Run : status'[q] = "queued" => status[q] = "queued" /\ q # r
    BY <1>6, <1>9 DEF Active
  <2> QED
    BY <1>1, <1>7, <2>1 DEF IndInv, QueuedShape
<1>16. OneWorkerRun'
  <2>1. \A q \in Run : status'[q] \in Active => status[q] \in Active /\ q # r
    BY <1>6, <1>9 DEF Active
  <2> QED
    BY <1>1, <1>7, <2>1 DEF IndInv, TypeOK, OneWorkerRun
<1>17. JoinedIsLaunched'
  BY <1>1, <1>4, <1>7 DEF IndInv, TypeOK, JoinedIsLaunched, Unborn
<1>18. NewIsAlone'
  BY <1>7 DEF IndInv, NewIsAlone
<1>19. ChainedIsLaunched'
  BY <1>1, <1>7, <1>8 DEF IndInv, ChainedIsLaunched
<1>20. ExecutingIsHead'
  BY <1>1, <1>7 DEF IndInv, ExecutingIsHead, AtHead, Executing
<1> QED
  BY <1>10, <1>11, <1>12, <1>13, <1>14, <1>15, <1>16, <1>17, <1>18, <1>19, <1>20 DEF IndInv

\* A child is planned into a group of its own.
LEMMA StartChildStep ==
  ASSUME IndInv, NEW r \in Run, NEW c \in Run, StartChild(r, c)
  PROVE  IndInv'
<1>1. /\ pc[c] = "new" /\ group[c] = c
      /\ group' = group /\ pc' = [pc EXCEPT ![c] = "planning"]
      /\ parent' = [parent EXCEPT ![c] = r]
      /\ UNCHANGED <<status, ledger, controllers, aborted, queue, behind, worker>>
  BY DEF StartChild, Goto, IndInv, TypeOK, NewIsAlone
<1>2. /\ \A q \in Run : pc'[q] \in Unborn <=> pc[q] \in Unborn
      /\ \A q \in Run \ {c} : pc'[q] = pc[q]
      /\ pc'[c] = "planning"
  BY <1>1 DEF IndInv, TypeOK, Unborn
<1>3. TypeOK'
  BY <1>1 DEF IndInv, TypeOK, Location
<1>4. UnbornIsClean' /\ AbortedIsSettled' /\ OneWorkerRun'
  BY <1>1, <1>2 DEF IndInv, UnbornIsClean, AbortedIsSettled, OneWorkerRun
<1>5. Stoppable' /\ DoneIsSettled'
  BY <1>1, <1>2 DEF IndInv, Stoppable, DoneIsSettled, Live, Executing, Done
<1>6. QueuedShape'
  BY <1>1, <1>2 DEF IndInv, QueuedShape, UnbornIsClean, Unborn
<1>7. JoinedIsLaunched' /\ NewIsAlone'
  BY <1>1, <1>2 DEF IndInv, TypeOK, JoinedIsLaunched, NewIsAlone
<1>8. ChainedIsLaunched'
  <2>1. \A g \in Run : \A i \in DOMAIN queue[g] : queue[g][i] \in Run
    BY DEF IndInv, TypeOK
  <2> QED
    BY <1>1, <1>2, <2>1 DEF IndInv, ChainedIsLaunched
<1>9. ExecutingIsHead'
  BY <1>1, <1>2 DEF IndInv, ExecutingIsHead, AtHead, Executing
<1> QED
  BY <1>3, <1>4, <1>5, <1>6, <1>7, <1>8, <1>9 DEF IndInv

\* The launch: a run that opens its own group finds its queue empty, and the
\* other runs of its worker session are stopped in the same step.
LEMMA LaunchStep ==
  ASSUME IndInv, NEW r \in Run, NEW w \in BOOLEAN, Launch(r, w)
  PROVE  IndInv'
<1> DEFINE O == Orphans(r, w)
           waits == queue[group[r]] # <<>>
           first == IF waits THEN "queued" ELSE "running"
<1>1. /\ pc[r] = "planning" /\ pc' = [pc EXCEPT ![r] = "starting"]
      /\ status' = [UpdateAll(O, "interrupted") EXCEPT ![r] = first]
      /\ behind' = IF waits THEN behind \cup {r} ELSE behind
      /\ worker' = IF w THEN worker \cup {r} ELSE worker
      /\ controllers' = (controllers \ O) \cup {r}
      /\ aborted' = aborted \cup (controllers \cap O)
      /\ UNCHANGED <<group, parent, ledger, queue>>
  BY DEF Launch, Goto
<1>2. /\ O \subseteq Run \ {r}
      /\ \A q \in O : group[q] = group[r]
      /\ \A q \in worker \ {r} : w /\ group[q] = group[r] /\ status[q] \in Active => q \in O
  BY DEF IndInv, TypeOK, Orphans
<1>3. status \in [Run -> Status] /\ status[r] = "none"
      /\ r \notin aborted /\ r \notin controllers /\ r \notin worker
  BY <1>1 DEF IndInv, TypeOK, Status, UnbornIsClean, Unborn
<1>4. /\ UpdateAll(O, "interrupted") \in [Run -> Status]
      /\ \A q \in O : UpdateAll(O, "interrupted")[q] \in Settled
      /\ \A q \in Run \ O : UpdateAll(O, "interrupted")[q] = status[q]
      /\ \A q \in Run : status[q] \in Settled => UpdateAll(O, "interrupted")[q] = status[q]
  <2>1. O \in SUBSET Run /\ "interrupted" \in Terminal
    BY <1>2 DEF Terminal
  <2> QED
    BY <1>3, <2>1, UpdateAllFacts
<1>5. /\ status' \in [Run -> Status] /\ status'[r] = first
      /\ \A q \in O : status'[q] \in Settled
      /\ \A q \in Run \ {r} : q \notin O => status'[q] = status[q]
      /\ \A q \in Run \ {r} : status[q] \in Settled => status'[q] = status[q]
  <2>1. first \in Status
    BY DEF Status, Active
  <2> HIDE DEF O, first
  <2> QED
    BY <1>1, <1>2, <1>4, <2>1
<1>6. /\ pc' \in [Run -> Location] /\ pc'[r] = "starting"
      /\ \A q \in Run \ {r} : pc'[q] = pc[q]
      /\ \A q \in Run : pc'[q] \in Unborn => pc[q] \in Unborn /\ q # r
  BY <1>1 DEF IndInv, TypeOK, Location, Unborn
<1>7. waits => group[r] # r
  <2>1. SUFFICES ASSUME queue[r] # <<>>, group[r] = r PROVE FALSE
    OBVIOUS
  <2>2. 1 \in DOMAIN queue[r] /\ queue[r][1] \in Run
    BY <2>1 DEF IndInv, TypeOK
  <2>3. group[queue[r][1]] = r /\ pc[queue[r][1]] \notin Unborn
    BY <2>2 DEF IndInv, TypeOK, ChainedIsLaunched
  <2>4. queue[r][1] # r
    BY <1>1, <2>3 DEF Unborn
  <2> QED
    BY <1>1, <2>2, <2>3, <2>4 DEF IndInv, JoinedIsLaunched, Unborn
<1> HIDE DEF O, waits
<1>8. TypeOK'
  BY <1>1, <1>2, <1>5, <1>6 DEF IndInv, TypeOK, Status
<1>9. UnbornIsClean'
  BY <1>1, <1>2, <1>5, <1>6 DEF IndInv, UnbornIsClean, Settled
<1>10. Stoppable'
  BY <1>1, <1>6 DEF IndInv, Stoppable
<1>11. AbortedIsSettled'
  BY <1>1, <1>2, <1>3, <1>5 DEF IndInv, TypeOK, AbortedIsSettled, Settled
<1>12. DoneIsSettled'
  BY <1>5, <1>6 DEF IndInv, DoneIsSettled, Done
<1>13. QueuedShape'
  <2>1. \A q \in Run \ {r} : status'[q] = "queued" => status[q] = "queued"
    BY <1>5 DEF Settled, Terminal
  <2> QED
    BY <1>1, <1>5, <1>6, <1>7, <2>1 DEF IndInv, QueuedShape, Waiting
<1>14. OneWorkerRun'
  <2>1. \A q \in Run \ {r} : status'[q] \in Active => status[q] \in Active /\ q \notin O
    BY <1>5 DEF Settled, Active, Terminal
  <2> QED
    BY <1>1, <1>2, <1>3, <2>1 DEF IndInv, TypeOK, OneWorkerRun
<1>15. JoinedIsLaunched'
  BY <1>1, <1>6 DEF IndInv, TypeOK, JoinedIsLaunched
<1>16. NewIsAlone'
  BY <1>1, <1>6 DEF IndInv, NewIsAlone
<1>17. ChainedIsLaunched'
  <2>1. \A g \in Run : \A i \in DOMAIN queue[g] : queue[g][i] \in Run
    BY DEF IndInv, TypeOK
  <2> QED
    BY <1>1, <1>6, <2>1 DEF IndInv, ChainedIsLaunched
<1>18. ExecutingIsHead'
  BY <1>1, <1>6 DEF IndInv, ExecutingIsHead, AtHead, Executing
<1> QED
  BY <1>8, <1>9, <1>10, <1>11, <1>12, <1>13, <1>14, <1>15, <1>16, <1>17, <1>18 DEF IndInv

\* The task is appended to the queue of its group.
LEMMA EnqueueStep ==
  ASSUME IndInv, NEW r \in Run, Enqueue(r)
  PROVE  IndInv'
<1> DEFINE h == group[r]
<1>1. /\ h \in Run /\ pc[r] = "starting" /\ pc' = [pc EXCEPT ![r] = "chained"]
      /\ queue' = [queue EXCEPT ![h] = Append(@, r)]
      /\ UNCHANGED <<status, group, parent, ledger, controllers, aborted, behind, worker>>
  BY DEF Enqueue, Goto, IndInv, TypeOK
<1>2. /\ pc' \in [Run -> Location] /\ pc'[r] = "chained"
      /\ \A q \in Run \ {r} : pc'[q] = pc[q]
      /\ \A q \in Run : pc'[q] \in Unborn <=> pc[q] \in Unborn
  BY <1>1 DEF IndInv, TypeOK, Location, Unborn
<1>3. queue \in [Run -> Seq(Run)] /\ queue[h] \in Seq(Run)
  BY <1>1 DEF IndInv, TypeOK
<1> HIDE DEF h
<1>4. /\ queue' \in [Run -> Seq(Run)]
      /\ \A g \in Run : \A i \in DOMAIN queue'[g] :
           \/ i \in DOMAIN queue[g] /\ queue'[g][i] = queue[g][i]
           \/ g = h /\ queue'[g][i] = r
      /\ \A g \in Run : queue[g] # <<>> => queue'[g] # <<>> /\ Head(queue'[g]) = Head(queue[g])
  <2> DEFINE longer == Append(queue[h], r)
  <2>1. /\ longer \in Seq(Run) /\ longer # <<>>
        /\ \A i \in DOMAIN longer :
             \/ i \in DOMAIN queue[h] /\ longer[i] = queue[h][i]
             \/ longer[i] = r
        /\ queue[h] # <<>> => Head(longer) = Head(queue[h])
    <3>1. /\ longer \in Seq(Run) /\ longer # <<>>
          /\ Len(longer) = Len(queue[h]) + 1
          /\ \A i \in 1 .. Len(queue[h]) : longer[i] = queue[h][i]
          /\ longer[Len(queue[h]) + 1] = r
      BY <1>3, AppendProperties
    <3>2. DOMAIN longer = 1 .. Len(queue[h]) + 1 /\ DOMAIN queue[h] = 1 .. Len(queue[h])
          /\ Len(queue[h]) \in Nat
      BY <1>3, <3>1
    <3>3. queue[h] # <<>> => Head(longer) = Head(queue[h])
      BY <1>3, <3>1
    <3> HIDE DEF longer
    <3> QED
      BY <3>1, <3>2, <3>3
  <2>2. queue'[h] = longer /\ \A g \in Run \ {h} : queue'[g] = queue[g]
    BY <1>1, <1>3
  <2> HIDE DEF longer
  <2>3. queue' \in [Run -> Seq(Run)]
    BY <1>1, <1>3, <2>1 DEF longer
  <2> QED
    BY <1>1, <2>1, <2>2, <2>3
<1>5. TypeOK'
  BY <1>1, <1>2, <1>4 DEF IndInv, TypeOK, h
<1>6. UnbornIsClean' /\ AbortedIsSettled' /\ OneWorkerRun'
  BY <1>1, <1>2 DEF IndInv, UnbornIsClean, AbortedIsSettled, OneWorkerRun
<1>7. Stoppable' /\ DoneIsSettled' /\ QueuedShape'
  BY <1>1, <1>2 DEF IndInv, Stoppable, DoneIsSettled, QueuedShape, Live, Done, Waiting, Executing
<1>8. JoinedIsLaunched' /\ NewIsAlone'
  BY <1>1, <1>2 DEF IndInv, TypeOK, JoinedIsLaunched, NewIsAlone
<1>9. ChainedIsLaunched'
  <2>1. \A g \in Run : \A i \in DOMAIN queue[g] : queue[g][i] \in Run /\ pc[queue[g][i]] \notin Unborn
    BY DEF IndInv, TypeOK, ChainedIsLaunched
  <2>2. pc'[r] \notin Unborn
    BY <1>2 DEF Unborn
  <2>3. SUFFICES ASSUME NEW g \in Run, NEW i \in DOMAIN queue'[g]
                 PROVE  pc'[queue'[g][i]] \notin Unborn
    BY DEF ChainedIsLaunched
  <2>4. CASE i \in DOMAIN queue[g] /\ queue'[g][i] = queue[g][i]
    BY <1>2, <2>1, <2>4
  <2>5. CASE queue'[g][i] = r
    BY <2>2, <2>5
  <2> QED
    BY <1>4, <2>4, <2>5
<1>10. ExecutingIsHead'
  <2>1. SUFFICES ASSUME NEW q \in Run, pc'[q] \in Executing PROVE AtHead(q)'
    BY DEF ExecutingIsHead
  <2>2. pc[q] \in Executing /\ group[q] \in Run
    BY <1>2, <2>1 DEF IndInv, TypeOK, Executing
  <2>3. AtHead(q)
    BY <2>2 DEF IndInv, ExecutingIsHead
  <2> QED
    BY <1>1, <1>4, <2>2, <2>3 DEF AtHead
<1> QED
  BY <1>5, <1>6, <1>7, <1>8, <1>9, <1>10 DEF IndInv

\* The end of an executor: the head of its group's queue is dropped.
LEMMA LeaveStep ==
  ASSUME IndInv, NEW r \in Run, Leave(r)
  PROVE  IndInv'
<1> DEFINE h == group[r]
<1>1. /\ h \in Run /\ pc[r] \in {"leaving", "returning"} /\ pc' = [pc EXCEPT ![r] = "over"]
      /\ queue' = [queue EXCEPT ![h] = Tail(@)]
      /\ controllers' \subseteq controllers
      /\ \A q \in Run \ {r} : q \in controllers => q \in controllers'
      /\ UNCHANGED <<status, group, parent, ledger, aborted, behind, worker>>
  BY DEF Leave, Goto, rows, IndInv, TypeOK
<1>2. /\ pc' \in [Run -> Location] /\ pc'[r] = "over"
      /\ \A q \in Run \ {r} : pc'[q] = pc[q]
      /\ \A q \in Run : pc'[q] \in Unborn <=> pc[q] \in Unborn
  BY <1>1 DEF IndInv, TypeOK, Location, Unborn
<1>3. /\ queue \in [Run -> Seq(Run)] /\ queue[h] \in Seq(Run)
      /\ queue[h] # <<>> /\ Head(queue[h]) = r
  BY <1>1 DEF IndInv, TypeOK, ExecutingIsHead, AtHead, Executing
<1> HIDE DEF h
<1>4. /\ queue' \in [Run -> Seq(Run)]
      /\ \A g \in Run : \A i \in DOMAIN queue'[g] :
           \E j \in DOMAIN queue[g] : queue'[g][i] = queue[g][j]
      /\ \A g \in Run \ {h} : queue'[g] = queue[g]
  <2>1. /\ Tail(queue[h]) \in Seq(Run)
        /\ \A i \in DOMAIN Tail(queue[h]) :
             i + 1 \in DOMAIN queue[h] /\ Tail(queue[h])[i] = queue[h][i + 1]
    BY <1>3
  <2> QED
    BY <1>1, <1>3, <2>1
<1>5. TypeOK'
  <2>1. \A g \in Run : \A i \in DOMAIN queue'[g] : group'[queue'[g][i]] = g
    BY <1>1, <1>4 DEF IndInv, TypeOK
  <2> QED
    BY <1>1, <1>2, <1>4, <2>1 DEF IndInv, TypeOK
<1>6. UnbornIsClean' /\ AbortedIsSettled' /\ OneWorkerRun'
  BY <1>1, <1>2 DEF IndInv, UnbornIsClean, AbortedIsSettled, OneWorkerRun
<1>7. Stoppable' /\ DoneIsSettled' /\ QueuedShape'
  BY <1>1, <1>2 DEF IndInv, Stoppable, DoneIsSettled, QueuedShape, Live, Done, Waiting, Executing
<1>8. JoinedIsLaunched' /\ NewIsAlone'
  BY <1>1, <1>2 DEF IndInv, TypeOK, JoinedIsLaunched, NewIsAlone
<1>9. ChainedIsLaunched'
  <2>1. \A g \in Run : \A i \in DOMAIN queue[g] : queue[g][i] \in Run /\ pc[queue[g][i]] \notin Unborn
    BY DEF IndInv, TypeOK, ChainedIsLaunched
  <2>2. SUFFICES ASSUME NEW g \in Run, NEW i \in DOMAIN queue'[g]
                 PROVE  pc'[queue'[g][i]] \notin Unborn
    BY DEF ChainedIsLaunched
  <2>3. PICK j \in DOMAIN queue[g] : queue'[g][i] = queue[g][j]
    BY <1>4
  <2> QED
    BY <1>2, <2>1, <2>3
<1>10. ExecutingIsHead'
  <2>1. \A q \in Run \ {r} : pc[q] \in Executing => group[q] # h
    BY <1>3 DEF IndInv, ExecutingIsHead, AtHead
  <2> QED
    BY <1>1, <1>2, <1>4, <2>1 DEF IndInv, TypeOK, ExecutingIsHead, AtHead, Executing
<1> QED
  BY <1>5, <1>6, <1>7, <1>8, <1>9, <1>10 DEF IndInv

\* A refused start ends outside every queue.
LEMMA PreflightNoticedStep ==
  ASSUME IndInv, NEW r \in Run, PreflightNoticed(r)
  PROVE  IndInv'
<1>1. /\ pc[r] = "refused" /\ pc' = [pc EXCEPT ![r] = "over"]
      /\ ledger' \subseteq Run \X Kind
      /\ controllers' = controllers \ {r}
      /\ UNCHANGED <<status, group, parent, aborted, queue, behind, worker>>
  <2>1. ledger \subseteq Run \X Kind /\ Recorded(r, "progress") \subseteq Run \X Kind
    BY RecordedType DEF IndInv, TypeOK, Kind
  <2> QED
    BY <2>1 DEF PreflightNoticed, Goto
<1>2. /\ pc' \in [Run -> Location] /\ pc'[r] = "over"
      /\ \A q \in Run \ {r} : pc'[q] = pc[q]
      /\ \A q \in Run : pc'[q] \in Unborn <=> pc[q] \in Unborn
  BY <1>1 DEF IndInv, TypeOK, Location, Unborn
<1>3. TypeOK'
  BY <1>1, <1>2 DEF IndInv, TypeOK
<1>4. UnbornIsClean' /\ AbortedIsSettled' /\ OneWorkerRun'
  BY <1>1, <1>2 DEF IndInv, UnbornIsClean, AbortedIsSettled, OneWorkerRun
<1>5. Stoppable' /\ DoneIsSettled' /\ QueuedShape'
  BY <1>1, <1>2 DEF IndInv, Stoppable, DoneIsSettled, QueuedShape, Live, Done, Waiting, Executing
<1>6. JoinedIsLaunched' /\ NewIsAlone'
  BY <1>1, <1>2 DEF IndInv, TypeOK, JoinedIsLaunched, NewIsAlone
<1>7. ChainedIsLaunched'
  <2>1. \A g \in Run : \A i \in DOMAIN queue[g] : queue[g][i] \in Run
    BY DEF IndInv, TypeOK
  <2> QED
    BY <1>1, <1>2, <2>1 DEF IndInv, ChainedIsLaunched
<1>8. ExecutingIsHead'
  BY <1>1, <1>2 DEF IndInv, ExecutingIsHead, AtHead, Executing
<1> QED
  BY <1>3, <1>4, <1>5, <1>6, <1>7, <1>8 DEF IndInv

------------------------------------------------------------------------------
(* One executor's step *)

\* Every step of an executor preserves IndInv.
LEMMA ExecutorStep ==
  ASSUME IndInv, NEW r \in Run, Step(r)
  PROVE  IndInv'
<1>0. /\ ledger \subseteq Run \X Kind
      /\ \A k \in Kind : Recorded(r, k) \subseteq Run \X Kind
      /\ status[r] \in Status /\ pc[r] \in Location
      /\ r \in aborted => status[r] \in Settled
      /\ status[r] = "queued" => pc[r] \in Waiting /\ r \in behind /\ group[r] # r
  BY RecordedType DEF IndInv, TypeOK, Status, Settled, AbortedIsSettled, QueuedShape
<1>1. CASE \E w \in BOOLEAN : Launch(r, w)
  BY <1>1, LaunchStep
<1>2. CASE PreflightNoticed(r)
  BY <1>2, PreflightNoticedStep
<1>3. CASE Enqueue(r)
  BY <1>3, EnqueueStep
<1>4. CASE Leave(r)
  BY <1>4, LeaveStep
<1>5. CASE FailPreflight(r)
  <2>1. /\ pc[r] \notin Unborn /\ "refused" \in Location /\ "refused" \notin Unborn
        /\ "refused" \in Live => pc[r] \in Live
        /\ "refused" \in Executing => pc[r] \in Executing \/ AtHead(r)
        /\ "refused" \in Done => "failed" \in Terminal \cup {"awaiting_user"}
        /\ "failed" \in Active \cup Terminal /\ "failed" # "queued"
        /\ UpdateStatus(r, "failed") /\ Goto(r, "refused")
        /\ UNCHANGED <<group, parent, ledger, controllers, aborted, queue, behind, worker>>
    BY <1>5 DEF FailPreflight, Location, Executing, Live, Unborn, Waiting, Done, Active, Terminal
  <2> QED
    BY <2>1, OwnUpdate
<1>6. CASE StartThrows(r)
  <2>1. /\ pc[r] \notin Unborn /\ "lost" \in Location /\ "lost" \notin Unborn
        /\ "lost" \in Live => pc[r] \in Live
        /\ "lost" \in Executing => pc[r] \in Executing \/ AtHead(r)
        /\ "lost" \in Done => status[r] \in Settled \cup {"awaiting_user"}
        /\ status[r] = "queued" => "lost" \in Waiting
    BY <1>0, <1>6 DEF StartThrows, Location, Executing, Live, Unborn, Waiting, Done
  <2>2. pc' = [pc EXCEPT ![r] = "lost"]
        /\ UNCHANGED <<status, group, parent, ledger, controllers, aborted, queue, behind, worker>>
    BY <1>6 DEF StartThrows, Goto, rows
  <2> QED
    BY <1>0, <2>1, <2>2, OwnMove
<1>7. CASE Begin(r)
  <2>1. /\ pc[r] \notin Unborn /\ "begun" \in Location /\ "begun" \notin Unborn
        /\ "begun" \in Live => pc[r] \in Live
        /\ "begun" \in Executing => pc[r] \in Executing \/ AtHead(r)
        /\ "begun" \in Done => status[r] \in Settled \cup {"awaiting_user"}
        /\ status[r] = "queued" => "begun" \in Waiting
    BY <1>0, <1>7 DEF Begin, Location, Executing, Live, Unborn, Waiting, Done, AtHead
  <2>2. pc' = [pc EXCEPT ![r] = "begun"]
        /\ UNCHANGED <<status, group, parent, ledger, controllers, aborted, queue, behind, worker>>
    BY <1>7 DEF Begin, Goto, rows
  <2> QED
    BY <1>0, <2>1, <2>2, OwnMove
<1>8. CASE DispatchSubAgents(r)
  <2>1. /\ pc[r] \notin Unborn /\ "dispatching" \in Location /\ "dispatching" \notin Unborn
        /\ "dispatching" \in Live => pc[r] \in Live
        /\ "dispatching" \in Executing => pc[r] \in Executing \/ AtHead(r)
        /\ "dispatching" \in Done => "running" \in Terminal \cup {"awaiting_user"}
        /\ "running" \in Active \cup Terminal /\ "running" # "queued"
        /\ UpdateStatus(r, "running") /\ Goto(r, "dispatching")
        /\ UNCHANGED <<group, parent, ledger, controllers, aborted, queue, behind, worker>>
    BY <1>8 DEF DispatchSubAgents, Location, Executing, Live, Unborn, Waiting, Done, Active, Terminal
  <2> QED
    BY <2>1, OwnUpdate
<1>9. CASE EndDispatch(r)
  <2>1. /\ pc[r] \notin Unborn /\ "dispatched" \in Location /\ "dispatched" \notin Unborn
        /\ "dispatched" \in Live => pc[r] \in Live
        /\ "dispatched" \in Executing => pc[r] \in Executing \/ AtHead(r)
        /\ "dispatched" \in Done => status[r] \in Settled \cup {"awaiting_user"}
        /\ status[r] = "queued" => "dispatched" \in Waiting
    BY <1>0, <1>9 DEF EndDispatch, Location, Executing, Live, Unborn, Waiting, Done
  <2>2. pc' = [pc EXCEPT ![r] = "dispatched"]
        /\ UNCHANGED <<status, group, parent, ledger, controllers, aborted, queue, behind, worker>>
    BY <1>9 DEF EndDispatch, Goto, rows
  <2> QED
    BY <1>0, <2>1, <2>2, OwnMove
<1>10. CASE \E s \in {"failed", "awaiting_user"} : FollowupBlocks(r, s)
  <2>1. PICK s \in {"failed", "awaiting_user"} : FollowupBlocks(r, s)
    BY <1>10
  <2>2. /\ pc[r] \notin Unborn /\ "returning" \in Location /\ "returning" \notin Unborn
        /\ "returning" \in Live => pc[r] \in Live
        /\ "returning" \in Executing => pc[r] \in Executing \/ AtHead(r)
        /\ s \in Active \cup Terminal /\ s \in Terminal \cup {"awaiting_user"} /\ s # "queued"
        /\ UpdateStatus(r, s) /\ Goto(r, "returning")
        /\ UNCHANGED <<group, parent, ledger, controllers, aborted, queue, behind, worker>>
    BY <2>1 DEF FollowupBlocks, Location, Executing, Live, Unborn, Waiting, Done, Active, Terminal
  <2> QED
    BY <2>2, OwnUpdate
<1>11. CASE RunTopology(r)
  <2>1. /\ pc[r] \notin Unborn /\ "topology" \in Location /\ "topology" \notin Unborn
        /\ "topology" \in Live => pc[r] \in Live
        /\ "topology" \in Executing => pc[r] \in Executing \/ AtHead(r)
        /\ "topology" \in Done => status[r] \in Settled \cup {"awaiting_user"}
        /\ status[r] = "queued" => "topology" \in Waiting
    BY <1>0, <1>11 DEF RunTopology, Location, Executing, Live, Unborn, Waiting, Done, IsRootRequest
  <2>2. pc' = [pc EXCEPT ![r] = "topology"]
        /\ UNCHANGED <<status, group, parent, ledger, controllers, aborted, queue, behind, worker>>
    BY <1>11 DEF RunTopology, Goto, rows
  <2> QED
    BY <1>0, <2>1, <2>2, OwnMove
<1>12. CASE TopologyAnswers(r)
  <2>1. /\ pc[r] \notin Unborn /\ "answering" \in Location /\ "answering" \notin Unborn
        /\ "answering" \in Live => pc[r] \in Live
        /\ "answering" \in Executing => pc[r] \in Executing \/ AtHead(r)
        /\ "answering" \in Done => status[r] \in Settled \cup {"awaiting_user"}
        /\ status[r] = "queued" => "answering" \in Waiting
    BY <1>0, <1>12 DEF TopologyAnswers, Location, Executing, Live, Unborn, Waiting, Done
  <2>2. pc' = [pc EXCEPT ![r] = "answering"]
        /\ UNCHANGED <<status, group, parent, ledger, controllers, aborted, queue, behind, worker>>
    BY <1>12 DEF TopologyAnswers, Goto, rows
  <2> QED
    BY <1>0, <2>1, <2>2, OwnMove
<1>13. CASE EnterLoop(r)
  <2>1. /\ pc[r] \notin Unborn /\ "head" \in Location /\ "head" \notin Unborn /\ "head" \notin Done
        /\ pc[r] \in Live /\ pc[r] \in Executing
        /\ Goto(r, "head")
        /\ UNCHANGED <<group, parent, ledger, controllers, aborted, queue, behind, worker>>
    BY <1>13 DEF EnterLoop, Location, Executing, Live, Unborn, Waiting, Done
  <2>2. CASE r \in behind /\ r \notin aborted
    <3>1. UpdateStatus(r, "running") /\ "running" \in Active \cup Terminal /\ "running" # "queued"
      BY <1>13, <2>2 DEF EnterLoop, Active
    <3> QED
      BY <2>1, <3>1, OwnUpdate
  <2>3. CASE ~(r \in behind /\ r \notin aborted)
    <3>1. status' = status /\ status[r] # "queued"
      BY <1>0, <1>13, <2>3 DEF EnterLoop, Settled, Terminal
    <3> QED
      BY <1>0, <2>1, <3>1, OwnMove DEF Goto
  <2> QED
    BY <2>2, <2>3
<1>14. CASE LoopHead(r)
  <2> DEFINE l == IF r \in aborted THEN "leaving" ELSE "driving"
  <2>1. pc[r] = "head" /\ Goto(r, l)
        /\ UNCHANGED <<status, group, parent, ledger, controllers, aborted, queue, behind, worker>>
    BY <1>14 DEF LoopHead, rows
  <2>2. /\ pc[r] \notin Unborn /\ l \in Location /\ l \notin Unborn
        /\ pc[r] \in Live /\ pc[r] \in Executing
        /\ l \in Done => status[r] \in Settled \cup {"awaiting_user"}
        /\ status[r] # "queued"
    BY <1>0, <2>1 DEF Location, Executing, Live, Unborn, Waiting, Done
  <2> HIDE DEF l
  <2> QED
    BY <1>0, <2>1, <2>2, OwnMove DEF Goto
<1>15. CASE Continue(r)
  <2>1. /\ pc[r] \notin Unborn /\ "head" \in Location /\ "head" \notin Unborn
        /\ "head" \in Live => pc[r] \in Live
        /\ "head" \in Executing => pc[r] \in Executing \/ AtHead(r)
        /\ "head" \in Done => status[r] \in Settled \cup {"awaiting_user"}
        /\ status[r] = "queued" => "head" \in Waiting
    BY <1>0, <1>15 DEF Continue, Location, Executing, Live, Unborn, Waiting, Done
  <2>2. pc' = [pc EXCEPT ![r] = "head"]
        /\ UNCHANGED <<status, group, parent, ledger, controllers, aborted, queue, behind, worker>>
    BY <1>15 DEF Continue, Goto, rows
  <2> QED
    BY <1>0, <2>1, <2>2, OwnMove
<1>16. CASE StreamText(r)
  <2>1. /\ pc[r] = "driving" /\ ledger' = Recorded(r, "final") /\ "final" \in Kind
        /\ UNCHANGED <<status, group, parent, controllers, aborted, queue, behind, worker, pc>>
    BY <1>16 DEF StreamText, Kind
  <2>2. /\ pc[r] \notin Unborn /\ pc[r] \notin Done /\ status[r] # "queued"
        /\ pc' = [pc EXCEPT ![r] = pc[r]]
    BY <1>0, <2>1 DEF Location, Executing, Live, Unborn, Waiting, Done, IndInv, TypeOK
  <2> QED
    BY <1>0, <2>1, <2>2, OwnMove
<1>17. CASE \E l \in {"approving", "confirming"} : AskApproval(r, l)
  <2>1. PICK l \in {"approving", "confirming"} : AskApproval(r, l)
    BY <1>17
  <2> DEFINE s == IF l = "approving" THEN "awaiting_approval" ELSE "awaiting_user"
  <2>2. /\ pc[r] \notin Unborn /\ l \in Location /\ l \notin Unborn /\ l \notin Done
        /\ pc[r] \in Live /\ pc[r] \in Executing
        /\ s \in Active \cup Terminal /\ s # "queued"
        /\ UpdateStatus(r, s) /\ Goto(r, l)
        /\ UNCHANGED <<group, parent, ledger, controllers, aborted, queue, behind, worker>>
    BY <2>1 DEF AskApproval, Location, Executing, Live, Unborn, Waiting, Done, Active, Terminal
  <2> HIDE DEF s
  <2> QED
    BY <2>2, OwnUpdate
<1>18. CASE Allow(r)
  <2>1. /\ pc[r] \notin Unborn /\ "driving" \in Location /\ "driving" \notin Unborn
        /\ "driving" \in Live => pc[r] \in Live
        /\ "driving" \in Executing => pc[r] \in Executing \/ AtHead(r)
        /\ "driving" \in Done => "running" \in Terminal \cup {"awaiting_user"}
        /\ "running" \in Active \cup Terminal /\ "running" # "queued"
        /\ UpdateStatus(r, "running") /\ Goto(r, "driving")
        /\ UNCHANGED <<group, parent, ledger, controllers, aborted, queue, behind, worker>>
    BY <1>18 DEF Allow, Location, Executing, Live, Unborn, Waiting, Done, Active, Terminal
  <2> QED
    BY <2>1, OwnUpdate
<1>19. CASE Deny(r)
  <2>1. CancellationScope(r) \in SUBSET Run /\ "cancelled" \in Terminal
    BY DEF CancellationScope, Terminal
  <2>2. /\ pc[r] \in {"approving", "confirming"} /\ pc' = [pc EXCEPT ![r] = "driving"]
        /\ StopRuns(CancellationScope(r), "cancelled")
        /\ UNCHANGED <<group, parent, ledger, queue, behind, worker>>
    BY <1>19 DEF Deny, Goto
  <2> QED
    BY <2>1, <2>2, StopStep
<1>20. CASE ApprovalAborted(r)
  <2>1. /\ pc[r] \notin Unborn /\ "driving" \in Location /\ "driving" \notin Unborn
        /\ "driving" \in Live => pc[r] \in Live
        /\ "driving" \in Executing => pc[r] \in Executing \/ AtHead(r)
        /\ "driving" \in Done => status[r] \in Settled \cup {"awaiting_user"}
        /\ status[r] = "queued" => "driving" \in Waiting
    BY <1>0, <1>20 DEF ApprovalAborted, Location, Executing, Live, Unborn, Waiting, Done
  <2>2. pc' = [pc EXCEPT ![r] = "driving"]
        /\ UNCHANGED <<status, group, parent, ledger, controllers, aborted, queue, behind, worker>>
    BY <1>20 DEF ApprovalAborted, Goto, rows
  <2> QED
    BY <1>0, <2>1, <2>2, OwnMove
<1>21. CASE CompleteSilently(r)
  <2>1. /\ pc[r] \notin Unborn /\ "leaving" \in Location /\ "leaving" \notin Unborn
        /\ "leaving" \in Live => pc[r] \in Live
        /\ "leaving" \in Executing => pc[r] \in Executing \/ AtHead(r)
        /\ "leaving" \in Done => "completed" \in Terminal \cup {"awaiting_user"}
        /\ "completed" \in Active \cup Terminal /\ "completed" # "queued"
        /\ UpdateStatus(r, "completed") /\ Goto(r, "leaving")
        /\ UNCHANGED <<group, parent, ledger, controllers, aborted, queue, behind, worker>>
    BY <1>21 DEF CompleteSilently, Location, Executing, Live, Unborn, Waiting, Done, Active, Terminal
  <2> QED
    BY <2>1, OwnUpdate
<1>22. CASE \E l \in {"answering", "asking", "stopping"} : Say(r, l)
  <2>1. PICK l \in {"answering", "asking", "stopping"} : Say(r, l)
    BY <1>22
  <2>2. /\ pc[r] \notin Unborn /\ l \in Location /\ l \notin Unborn /\ l \notin Done
        /\ pc[r] \in Live /\ pc[r] \in Executing /\ status[r] # "queued"
    BY <1>0, <2>1 DEF Say, Location, Executing, Live, Unborn, Waiting, Done
  <2>3. pc' = [pc EXCEPT ![r] = l]
        /\ UNCHANGED <<status, group, parent, ledger, controllers, aborted, queue, behind, worker>>
    BY <2>1 DEF Say, Goto, rows
  <2> QED
    BY <1>0, <2>2, <2>3, OwnMove
<1>23. CASE Said(r)
  <2>1. ledger' \subseteq Run \X Kind
    <3>1. (IF pc[r] = "answering" THEN "final" ELSE "progress") \in Kind
      BY DEF Kind
    <3> QED
      BY <1>0, <1>23, <3>1 DEF Said
  <2>2. PICK l \in {"answered", "asked", "stopped"} : pc' = [pc EXCEPT ![r] = l]
    BY <1>23 DEF Said, Goto
  <2>3. /\ pc[r] \notin Unborn /\ l \in Location /\ l \notin Unborn /\ l \notin Done
        /\ pc[r] \in Live /\ pc[r] \in Executing /\ status[r] # "queued"
        /\ UNCHANGED <<status, group, parent, controllers, aborted, queue, behind, worker>>
    BY <1>0, <1>23 DEF Said, Location, Executing, Live, Unborn, Waiting, Done
  <2> QED
    BY <2>1, <2>2, <2>3, OwnMove
<1>24. CASE Settle(r)
  <2> DEFINE s == SettledStatus(pc[r])
  <2>1. s \in {"completed", "awaiting_user", "cancelled"}
    BY <1>24 DEF Settle, SettledStatus
  <2>2. UpdateStatus(r, s) /\ Goto(r, "leaving")
        /\ UNCHANGED <<group, parent, ledger, controllers, aborted, queue, behind, worker>>
    BY <1>24 DEF Settle
  <2> HIDE DEF s
  <2>3. /\ pc[r] \notin Unborn /\ "leaving" \in Location /\ "leaving" \notin Unborn
        /\ pc[r] \in Live /\ pc[r] \in Executing
        /\ s \in Active \cup Terminal /\ s \in Terminal \cup {"awaiting_user"} /\ s # "queued"
    BY <1>24, <2>1 DEF Settle, Location, Executing, Live, Unborn, Waiting, Done, Active, Terminal
  <2> QED
    BY <2>2, <2>3, OwnUpdate
<1>25. CASE Fail(r)
  <2> DEFINE s == IF r \in aborted THEN "cancelled" ELSE "failed"
  <2>1. UpdateStatus(r, s) /\ Goto(r, "leaving")
        /\ UNCHANGED <<group, parent, ledger, controllers, aborted, queue, behind, worker>>
    BY <1>25 DEF Fail
  <2>2. /\ pc[r] \notin Unborn /\ "leaving" \in Location /\ "leaving" \notin Unborn
        /\ pc[r] \in Live /\ pc[r] \in Executing
        /\ s \in Active \cup Terminal /\ s \in Terminal \cup {"awaiting_user"} /\ s # "queued"
    BY <1>25 DEF Fail, Location, Executing, Live, Unborn, Waiting, Done, Active, Terminal
  <2> HIDE DEF s
  <2> QED
    BY <2>1, <2>2, OwnUpdate
<1>26. CASE RowGone(r)
  <2>1. /\ pc[r] \notin Unborn /\ "leaving" \in Location /\ "leaving" \notin Unborn
        /\ pc[r] \in Live /\ pc[r] \in Executing
        /\ status[r] \in Settled /\ status[r] # "queued"
    BY <1>26 DEF RowGone, HasRow, Settled, Location, Executing, Live, Unborn, Waiting, Done
  <2>2. pc' = [pc EXCEPT ![r] = "leaving"]
        /\ UNCHANGED <<status, group, parent, ledger, controllers, aborted, queue, behind, worker>>
    BY <1>26 DEF RowGone, Goto, rows
  <2> QED
    BY <1>0, <2>1, <2>2, OwnMove
<1> QED
  BY <1>1, <1>2, <1>3, <1>4, <1>5, <1>6, <1>7, <1>8, <1>9, <1>10, <1>11,
     <1>12, <1>13, <1>14, <1>15, <1>16, <1>17, <1>18, <1>19, <1>20, <1>21,
     <1>22, <1>23, <1>24, <1>25, <1>26 DEF Step

------------------------------------------------------------------------------
(* The theorems *)

LEMMA InitIndInv == Init => IndInv
<1> SUFFICES ASSUME Init PROVE IndInv
  OBVIOUS
<1>1. TypeOK
  BY DEF Init, TypeOK, Location
<1>2. UnbornIsClean /\ Stoppable /\ AbortedIsSettled /\ DoneIsSettled
  BY DEF Init, UnbornIsClean, Stoppable, AbortedIsSettled, DoneIsSettled, Live, Executing, Done
<1>3. QueuedShape /\ OneWorkerRun
  BY DEF Init, QueuedShape, OneWorkerRun, Active
<1>4. JoinedIsLaunched /\ NewIsAlone /\ ChainedIsLaunched /\ ExecutingIsHead
  BY DEF Init, JoinedIsLaunched, NewIsAlone, ChainedIsLaunched, ExecutingIsHead, Executing
<1> QED
  BY <1>1, <1>2, <1>3, <1>4 DEF IndInv

\* Every step of an executor, of a user and of an operator keeps IndInv.
LEMMA NextIndInv == IndInv /\ [Next]_vars => IndInv'
<1> SUFFICES ASSUME IndInv, [Next]_vars PROVE IndInv'
  OBVIOUS
<1>1. CASE UNCHANGED vars
  BY <1>1 DEF vars, IndInv, TypeOK, UnbornIsClean, Stoppable, AbortedIsSettled, DoneIsSettled,
     QueuedShape, OneWorkerRun, JoinedIsLaunched, NewIsAlone, ChainedIsLaunched,
     ExecutingIsHead, AtHead
<1>2. CASE \E r, g \in Run : Plan(r, g)
  BY <1>2, PlanStep
<1>3. CASE \E r, c \in Run : StartChild(r, c)
  BY <1>3, StartChildStep
<1>4. CASE \E r \in Run : Step(r)
  BY <1>4, ExecutorStep
<1>5. ASSUME NEW r \in Run, CancelRootRun(r) PROVE IndInv'
  <2>1. CancellationScope(r) \in SUBSET Run /\ "cancelled" \in Terminal
    BY DEF CancellationScope, Terminal
  <2>2. /\ StopRuns(CancellationScope(r), "cancelled") /\ pc' = pc
        /\ UNCHANGED <<group, parent, ledger, queue, behind, worker>>
    BY <1>5 DEF CancelRootRun
  <2> QED
    BY <2>1, <2>2, StopStep
<1>6. ASSUME NEW S \in SUBSET Run, CleanupStaleRunStates(S) PROVE IndInv'
  <2>1. "interrupted" \in Terminal /\ \E r \in Run : r \in S
    BY <1>6 DEF CleanupStaleRunStates, Terminal
  <2>2. /\ StopRuns(S, "interrupted") /\ pc' = pc
        /\ UNCHANGED <<group, parent, ledger, queue, behind, worker>>
    BY <1>6 DEF CleanupStaleRunStates
  <2> QED
    BY <2>1, <2>2, StopStep
<1>7. ASSUME NEW r \in Run, DeleteRunHistory(r) PROVE IndInv'
  <2>1. LineageRows(r) \in SUBSET Run /\ DeleteRows(LineageRows(r))
    BY <1>7 DEF DeleteRunHistory, LineageRows
  <2> QED
    BY <2>1, DeleteStep
<1>8. CASE ClearHistoricalRunHistory
  BY <1>8, DeleteStep DEF ClearHistoricalRunHistory
<1>9. CASE \E r, q \in Run : Reply(r, q)
  BY <1>9, ReplyStep
<1> QED
  BY <1>1, <1>2, <1>3, <1>4, <1>5, <1>6, <1>7, <1>8, <1>9 DEF Next, Operator, Quiescent

\* IndInv holds in every reachable state.
THEOREM RunInvariant == Spec => []IndInv
BY InitIndInv, NextIndInv, PTL DEF Spec

\* Type correctness, and only runs of a group wait in its queue.
THEOREM RunTypes == Spec => []TypeOK
<1>1. IndInv => TypeOK
  BY DEF IndInv
<1> QED
  BY <1>1, RunInvariant, PTL

\* A live executor can always be stopped, or has been: no cancellation,
\* cleanup, supersession or deletion drops a controller without aborting it.
THEOREM LiveRunsAreStoppable == Spec => []Stoppable
<1>1. IndInv => Stoppable
  BY DEF IndInv
<1> QED
  BY <1>1, RunInvariant, PTL

\* The abort of a run and its settlement in the database are never apart.
THEOREM AbortSettles == Spec => []AbortedIsSettled
<1>1. IndInv => AbortedIsSettled
  BY DEF IndInv
<1> QED
  BY <1>1, RunInvariant, PTL

\* No run is left running or queued by an executor that has gone.
THEOREM NoRunIsAbandoned == Spec => []OverIsSettled
<1>1. IndInv => OverIsSettled
  BY DEF IndInv, DoneIsSettled, OverIsSettled, Done, Settled
<1> QED
  BY <1>1, RunInvariant, PTL

\* No run that does work is shown as queued, on any path into the loop.
THEOREM QueuedRunsWait == Spec => []QueuedIsWaiting
<1>1. IndInv => QueuedIsWaiting
  BY DEF IndInv, QueuedShape, QueuedIsWaiting, Waiting
<1> QED
  BY <1>1, RunInvariant, PTL

\* A worker session of a group has one active run.
THEOREM WorkerSessionsAreExclusive == Spec => []OneWorkerRun
<1>1. IndInv => OneWorkerRun
  BY DEF IndInv
<1> QED
  BY <1>1, RunInvariant, PTL

\* A step changes the status of a run through updateRunStatus, in a launch or
\* by a deletion, and each of them respects a delivered answer.
LEMMA DeliveredStep ==
  ASSUME IndInv, [Next]_vars, NEW r \in Run, AnswerDelivered(r), status[r] \in Active
  PROVE  status'[r] \notin Unsuccessful
<1>0. /\ status \in [Run -> Status] /\ status[r] \in Status
      /\ status[r] \notin Unsuccessful
  BY DEF IndInv, TypeOK, Status, Active, Unsuccessful
<1>1. ASSUME NEW q \in Run, NEW s \in Active \cup Terminal, UpdateStatus(q, s)
      PROVE  status'[r] \notin Unsuccessful
  <2>1. NextStatus(r, status[r], s) \notin Unsuccessful
    BY <1>0, NextStatusFacts
  <2> QED
    BY <1>0, <1>1, <2>1 DEF UpdateStatus
<1>2. ASSUME NEW S \in SUBSET Run, NEW s \in Terminal, status' = UpdateAll(S, s)
      PROVE  status'[r] \notin Unsuccessful
  <2>1. \A q \in Run : AnswerDelivered(q) /\ status[q] \in Active
                         => UpdateAll(S, s)[q] \notin Unsuccessful
    BY <1>0, UpdateAllFacts
  <2> QED
    BY <1>2, <2>1
<1>3. ASSUME NEW S \in SUBSET Run, DeleteRows(S)
      PROVE  status'[r] \notin Unsuccessful
  BY <1>0, <1>3 DEF DeleteRows, Unsuccessful
<1>4. ASSUME NEW q \in Run, NEW w \in BOOLEAN, Launch(q, w)
      PROVE  status'[r] \notin Unsuccessful
  <2>1. Orphans(q, w) \in SUBSET Run /\ "interrupted" \in Terminal
    BY DEF Orphans, Terminal
  <2>2. /\ UpdateAll(Orphans(q, w), "interrupted") \in [Run -> Status]
        /\ UpdateAll(Orphans(q, w), "interrupted")[r] \notin Unsuccessful
    <3>1. /\ UpdateAll(Orphans(q, w), "interrupted") \in [Run -> Status]
          /\ \A p \in Run : AnswerDelivered(p) /\ status[p] \in Active
                              => UpdateAll(Orphans(q, w), "interrupted")[p] \notin Unsuccessful
      BY <1>0, <2>1, UpdateAllFacts
    <3> QED
      BY <3>1
  <2>3. PICK v \in {"queued", "running"} :
          status' = [UpdateAll(Orphans(q, w), "interrupted") EXCEPT ![q] = v]
    BY <1>4 DEF Launch
  <2> QED
    BY <2>2, <2>3 DEF Unsuccessful
<1>5. ASSUME NEW q \in Run, Step(q)
      PROVE  status'[r] \notin Unsuccessful
  <2>1. \/ status' = status
        \/ \E w \in BOOLEAN : Launch(q, w)
        \/ \E S \in SUBSET Run : status' = UpdateAll(S, "cancelled")
        \/ \E s \in Active \cup Terminal : UpdateStatus(q, s)
    <3>1. CASE \/ PreflightNoticed(q) \/ StartThrows(q) \/ Enqueue(q) \/ Begin(q)
               \/ EndDispatch(q) \/ RunTopology(q) \/ TopologyAnswers(q) \/ LoopHead(q)
               \/ Continue(q) \/ StreamText(q) \/ ApprovalAborted(q)
               \/ (\E l \in {"answering", "asking", "stopping"} : Say(q, l))
               \/ Said(q) \/ RowGone(q) \/ Leave(q)
      BY <3>1 DEF rows, PreflightNoticed, StartThrows, Enqueue, Begin, EndDispatch, RunTopology,
         TopologyAnswers, LoopHead, Continue, StreamText, ApprovalAborted, Say, Said, RowGone, Leave
    <3>2. CASE \/ FailPreflight(q) \/ DispatchSubAgents(q) \/ EnterLoop(q) \/ Allow(q)
               \/ CompleteSilently(q) \/ Fail(q)
      BY <3>2 DEF FailPreflight, DispatchSubAgents, EnterLoop, Allow, CompleteSilently, Fail,
         Active, Terminal
    <3>3. CASE \/ \E s \in {"failed", "awaiting_user"} : FollowupBlocks(q, s)
               \/ \E l \in {"approving", "confirming"} : AskApproval(q, l)
      BY <3>3 DEF FollowupBlocks, AskApproval, Active, Terminal
    <3>4. CASE Settle(q)
      <4>1. SettledStatus(pc[q]) \in Active \cup Terminal
        BY <3>4 DEF Settle, SettledStatus, Active, Terminal
      <4> QED
        BY <3>4, <4>1 DEF Settle
    <3>5. CASE Deny(q)
      <4>1. CancellationScope(q) \in SUBSET Run
        BY DEF CancellationScope
      <4> QED
        BY <3>5, <4>1 DEF Deny, StopRuns
    <3> QED
      BY <1>5, <3>1, <3>2, <3>3, <3>4, <3>5 DEF Step
  <2>2. "cancelled" \in Terminal
    BY DEF Terminal
  <2> QED
    BY <1>0, <1>1, <1>2, <1>4, <2>1, <2>2
<1>6. CASE Operator
  <2>1. \/ \E S \in SUBSET Run : \E s \in Terminal : status' = UpdateAll(S, s)
        \/ \E S \in SUBSET Run : DeleteRows(S)
    <3>1. \A q \in Run : CancellationScope(q) \in SUBSET Run /\ LineageRows(q) \in SUBSET Run
      BY DEF CancellationScope, LineageRows
    <3>2. {q \in Run : status[q] \in Terminal} \in SUBSET Run
      OBVIOUS
    <3>3. "cancelled" \in Terminal /\ "interrupted" \in Terminal
      BY DEF Terminal
    <3> QED
      BY <1>6, <3>1, <3>2, <3>3 DEF Operator, CancelRootRun, CleanupStaleRunStates, StopRuns,
         DeleteRunHistory, ClearHistoricalRunHistory
  <2> QED
    BY <1>2, <1>3, <2>1
<1>7. CASE (\E q, g \in Run : Plan(q, g)) \/ (\E q, c \in Run : StartChild(q, c)) \/ UNCHANGED vars
  BY <1>0, <1>7 DEF Plan, StartChild, vars
<1>8. ASSUME NEW q \in Run, NEW p \in Run, Reply(q, p)
      PROVE  status'[r] \notin Unsuccessful
  <2>1. CancellationScope(p) \in SUBSET Run /\ "cancelled" \in Terminal
    BY DEF CancellationScope, Terminal
  <2> QED
    BY <1>2, <1>8, <2>1 DEF Reply, StopRuns
<1> QED
  BY <1>5, <1>6, <1>7, <1>8 DEF Next, Quiescent

\* A delivered answer is never overwritten by a later failure, cancellation
\* or interruption of the run.
THEOREM DeliveredAnswersAreKept == Spec => DeliveredAnswerKept
<1>1. IndInv /\ [Next]_vars
        => [\A r \in Run : AnswerDelivered(r) /\ status[r] \in Active
                             => status'[r] \notin Unsuccessful]_vars
  BY DeliveredStep
<1> QED
  BY <1>1, RunInvariant, PTL DEF Spec, DeliveredAnswerKept
------------------------------------------------------------------------------
(* Bound controllers *)

Dispatch == {"dispatching", "dispatched", "returning"}

\* Only a root request dispatches to sub-agents or returns past the driver.
DispatchIsRoot == \A r \in Run : pc[r] \in Dispatch => IsRootRequest(r)

BoundInv == IndInv /\ DispatchIsRoot /\ BoundIsInProgress

\* What a step can do to the place of one run in its group, to its controller
\* and to its executor, whoever takes the step.
Moves(q) ==
  /\ pc[q] # "new" => group'[q] = group[q] /\ parent'[q] = parent[q]
  /\ pc'[q] \in Dispatch => pc[q] \in Dispatch \/ (pc[q] = "begun" /\ IsRootRequest(q))
  /\ q \in controllers' => q \in controllers \/ pc'[q] = "starting"
  /\ pc[q] \in Live \cup {"lost", "over"} => pc'[q] \in Live \cup {"lost", "over"}
  /\ q \in controllers' /\ pc'[q] = "over" => pc[q] \in {"over", "returning"}

\* A step of one executor, in which it alone moves.
LEMMA ExecutorMoves ==
  ASSUME IndInv, NEW r \in Run, Step(r), NEW q \in Run
  PROVE  Moves(q)
<1>0. /\ pc \in [Run -> Location] /\ controllers \subseteq Run
      /\ pc[q] \in {"new", "planning"} => q \notin controllers
  BY DEF IndInv, TypeOK, UnbornIsClean, Unborn
<1>1. CASE \E w \in BOOLEAN : Launch(r, w)
  BY <1>0, <1>1 DEF Launch, Goto, Moves, Dispatch, Live, Executing
<1>2. CASE PreflightNoticed(r) \/ Leave(r)
  BY <1>0, <1>2 DEF PreflightNoticed, Leave, Goto, rows, Moves, Dispatch, Live, Executing
<1>3. CASE \/ FailPreflight(r) \/ StartThrows(r) \/ Enqueue(r) \/ Begin(r)
  BY <1>0, <1>3 DEF FailPreflight, StartThrows, Enqueue, Begin, Goto, rows, Moves, Dispatch,
     Live, Executing
<1>4. CASE \/ DispatchSubAgents(r) \/ EndDispatch(r)
           \/ \E s \in {"failed", "awaiting_user"} : FollowupBlocks(r, s)
  BY <1>0, <1>4 DEF DispatchSubAgents, EndDispatch, FollowupBlocks, Goto, rows, Moves, Dispatch,
     Live, Executing
<1>5. CASE \/ RunTopology(r) \/ TopologyAnswers(r) \/ EnterLoop(r) \/ LoopHead(r)
           \/ Continue(r) \/ StreamText(r)
  BY <1>0, <1>5 DEF RunTopology, TopologyAnswers, EnterLoop, LoopHead, Continue, StreamText,
     Goto, rows, Moves, Dispatch, Live, Executing
<1>6. CASE \/ \E l \in {"approving", "confirming"} : AskApproval(r, l)
           \/ Allow(r) \/ Deny(r) \/ ApprovalAborted(r)
  BY <1>0, <1>6 DEF AskApproval, Allow, Deny, ApprovalAborted, StopRuns, Goto, rows, Moves,
     Dispatch, Live, Executing
<1>7. CASE \/ CompleteSilently(r)
           \/ \E l \in {"answering", "asking", "stopping"} : Say(r, l)
           \/ Settle(r) \/ Fail(r) \/ RowGone(r)
  BY <1>0, <1>7 DEF CompleteSilently, Say, Settle, Fail, RowGone, Goto, rows, Moves, Dispatch,
     Live, Executing
<1>8. CASE Said(r)
  <2>1. PICK l \in {"answered", "asked", "stopped"} : pc' = [pc EXCEPT ![r] = l]
    BY <1>8 DEF Said, Goto
  <2> QED
    BY <1>0, <1>8, <2>1 DEF Said, Moves, Dispatch, Live, Executing
<1> QED
  BY <1>1, <1>2, <1>3, <1>4, <1>5, <1>6, <1>7, <1>8 DEF Step

\* The same for every step.
LEMMA NextMoves ==
  ASSUME IndInv, Next, NEW q \in Run
  PROVE  Moves(q)
<1>0. pc \in [Run -> Location] /\ group \in [Run -> Run] /\ parent \in [Run -> Run \cup {NoRun}]
  BY DEF IndInv, TypeOK
<1>1. ASSUME NEW r \in Run, NEW g \in Run, Plan(r, g) PROVE Moves(q)
  BY <1>0, <1>1 DEF Plan, Goto, Moves, Dispatch, Live, Executing
<1>2. ASSUME NEW r \in Run, NEW p \in Run, Reply(r, p) PROVE Moves(q)
  BY <1>0, <1>2 DEF Reply, StopRuns, Goto, Moves, Dispatch, Live, Executing
<1>3. ASSUME NEW r \in Run, NEW c \in Run, StartChild(r, c) PROVE Moves(q)
  BY <1>0, <1>3 DEF StartChild, Goto, Moves, Dispatch, Live, Executing
<1>4. CASE Operator
  <2>1. /\ UNCHANGED <<group, parent, pc>>
        /\ controllers' \subseteq controllers
    BY <1>4 DEF Operator, CancelRootRun, CleanupStaleRunStates, StopRuns, DeleteRunHistory,
       ClearHistoricalRunHistory, DeleteRows
  <2>2. q \in controllers /\ pc[q] = "over" => pc[q] \in {"over", "returning"}
    OBVIOUS
  <2> QED
    BY <2>1, <2>2 DEF Moves
<1>5. CASE Quiescent
  BY <1>5 DEF Quiescent, vars, Moves
<1> QED
  BY <1>1, <1>2, <1>3, <1>4, <1>5, ExecutorMoves DEF Next

\* A controller outlives its run only where a root request's task returns
\* after its children, past the driver that would clear it.
THEOREM ControllersEndWithTheirRuns == Spec => []BoundIsInProgress
<1>1. Init => BoundInv
  <2>1. Init => DispatchIsRoot /\ BoundIsInProgress
    BY DEF Init, DispatchIsRoot, BoundIsInProgress, Dispatch
  <2> QED
    BY <2>1, InitIndInv DEF BoundInv
<1>2. BoundInv /\ [Next]_vars => BoundInv'
  <2> SUFFICES ASSUME BoundInv, [Next]_vars PROVE BoundInv'
    OBVIOUS
  <2>1. CASE UNCHANGED vars
    BY <2>1, NextIndInv DEF vars, BoundInv, DispatchIsRoot, BoundIsInProgress, IsRootRequest
  <2>2. CASE Next
    <3>1. IndInv'
      BY NextIndInv DEF BoundInv
    <3>2. \A q \in Run : Moves(q)
      BY <2>2, NextMoves DEF BoundInv
    <3>3. \A q \in Run : pc[q] # "new" /\ IsRootRequest(q) => IsRootRequest(q)'
      BY <3>2 DEF Moves, IsRootRequest
    <3>4. DispatchIsRoot'
      <4>1. SUFFICES ASSUME NEW q \in Run, pc'[q] \in Dispatch PROVE IsRootRequest(q)'
        BY DEF DispatchIsRoot
      <4>2. pc[q] # "new" /\ IsRootRequest(q)
        BY <3>2, <4>1 DEF Moves, BoundInv, DispatchIsRoot, Dispatch
      <4> QED
        BY <3>3, <4>2
    <3>5. BoundIsInProgress'
      <4>1. SUFFICES ASSUME NEW q \in controllers'
                     PROVE  pc'[q] \in Live \cup {"lost"} \/ (pc'[q] = "over" /\ IsRootRequest(q)')
        BY DEF BoundIsInProgress
      <4>2. q \in Run
        BY <3>1 DEF IndInv, TypeOK
      <4>3. q \in controllers \/ pc'[q] = "starting"
        BY <3>2, <4>1, <4>2 DEF Moves
      <4>4. CASE pc'[q] = "starting"
        BY <4>4 DEF Live
      <4>5. CASE q \in controllers
        <5>1. pc[q] \in Live \cup {"lost"} \/ (pc[q] = "over" /\ IsRootRequest(q))
          BY <4>5 DEF BoundInv, BoundIsInProgress
        <5>2. pc'[q] \in Live \cup {"lost", "over"}
          BY <3>2, <4>2, <5>1 DEF Moves
        <5>3. pc'[q] = "over" => pc[q] \in {"over", "returning"}
          BY <3>2, <4>1, <4>2 DEF Moves
        <5>4. pc[q] \in {"over", "returning"} => IsRootRequest(q)
          BY <4>2, <5>1 DEF BoundInv, DispatchIsRoot, Dispatch, Live, Executing
        <5> QED
          BY <3>3, <4>2, <5>2, <5>3, <5>4
      <4> QED
        BY <4>3, <4>4, <4>5
    <3> QED
      BY <3>1, <3>4, <3>5 DEF BoundInv
  <2> QED
    BY <2>1, <2>2
<1>3. BoundInv => BoundIsInProgress
  BY DEF BoundInv
<1> QED
  BY <1>1, <1>2, <1>3, PTL DEF Spec
=============================================================================
