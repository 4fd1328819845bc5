------------------------ MODULE DeliveryRecoveryProofs ------------------------
(***************************************************************************)
(* The answer of a run arrives at most once, for any number of runs and    *)
(* crashes and whatever limit recovery has, and a delivered text protects  *)
(* its run at every place that writes a status. As long as the runs do not *)
(* outnumber the limit, no run is shown as queued or running without an    *)
(* executor, but those whose start threw since the process is up.          *)
(*                                                                         *)
(* AnsweredOnce is not inductive: Send must find that nothing arrived      *)
(* before. AnswerSoFar says what each position of an executor knows about  *)
(* the channel and the ledger; a crash leaves only positions at which no   *)
(* send can follow.                                                        *)
(*                                                                         *)
(* RunningHasExecutor needs that every active run is in the table once and *)
(* a planned one is not (BornInv): then the list that recovery cuts at     *)
(* Limit misses none of them.                                              *)
(***************************************************************************)
EXTENDS DeliveryRecovery, SequenceFacts, TLAPS

\* The positions from which the answer may still be sent.
Unsent == {"new", "starting", "queued", "working", "asking", "telling", "told", "noted", "notifying", "sending"}

AnswerSoFar(r) ==
  /\ at[r] \in Unsent => answers[r] = 0 /\ textRow[r] = "none"
  /\ at[r] = "sent" => answers[r] = (IF arrived[r] THEN 1 ELSE 0) /\ textRow[r] = "none"
  /\ at[r] = "committing" => answers[r] = 1 /\ textRow[r] = "delivered"
  /\ answers[r] \in {0, 1}
  /\ r \in finalRow => answers[r] = 1 /\ textRow[r] = "delivered"

IndInv == TypeOK /\ \A r \in Run : AnswerSoFar(r)

States    == Active \cup Terminal \cup {"none"}
Positions == Executing \cup Starting \cup {"new", "thrown", "gone"}

\* Init establishes the invariant.
LEMMA InitInv == Init => IndInv
<1> SUFFICES ASSUME Init PROVE IndInv
  OBVIOUS
<1>1. TypeOK
  <2>1. up \in BOOLEAN /\ receipt \in BOOLEAN /\ asks \in BOOLEAN /\ arrived \in [Run -> BOOLEAN]
    BY Zenon DEF Init
  <2>2. crashes \in 0 .. MaxCrash /\ born \in Seq(Run) /\ answers \in [Run -> Nat]
    BY RecoveryAssumption DEF Init
  <2>3. status \in [Run -> Active \cup Terminal \cup {"none"}]
    BY DEF Init
  <2>4. at \in [Run -> Executing \cup Starting \cup {"new", "thrown", "gone"}]
    BY DEF Init
  <2>5. textRow \in [Run -> {"none", "failed", "delivered"}] /\ finalRow \subseteq Run /\ otherRow \subseteq Run
    BY DEF Init
  <2>6. QED BY <2>1, <2>2, <2>3, <2>4, <2>5 DEF TypeOK
<1>2. ASSUME NEW r \in Run PROVE AnswerSoFar(r)
  BY DEF Init, AnswerSoFar
<1>3. QED BY <1>1, <1>2 DEF IndInv

\* updateRunStatus writes a status, and no failure over a delivered text.
LEMMA NextStatusFacts ==
  ASSUME TypeOK, NEW r \in Run, NEW s \in States
  PROVE  /\ NextStatus(r, s) \in States
         /\ status[r] \in Active /\ NextStatus(r, s) \in Unsuccessful => ~Delivered(r)
<1>1. status[r] \in States
  BY DEF TypeOK, States
<1>2. NextStatus(r, s) \in States
  BY <1>1 DEF NextStatus, States, Terminal
<1>3. ASSUME status[r] \in Active, NextStatus(r, s) \in Unsuccessful PROVE ~Delivered(r)
  BY <1>3 DEF NextStatus, Unsuccessful
<1>4. QED BY <1>2, <1>3

\* What classifyStartupRecovery leads to is a status.
LEMMA ClassStatus ==
  ASSUME NEW r \in Run
  PROVE  (IF Classify(r) = "delivered" THEN "completed" ELSE Classify(r)) \in States
BY DEF Classify, States, Active, Terminal

\* Every step keeps the types.
LEMMA TypeStep == TypeOK /\ [Next]_vars => TypeOK'
<1> SUFFICES ASSUME TypeOK, [Next]_vars PROVE TypeOK'
  OBVIOUS
<1> USE DEF TypeOK, Goto
<1>1. ASSUME NEW r \in Run, Arrive(r) PROVE TypeOK'
  BY <1>1 DEF Arrive, Active, Starting
<1>0. ASSUME NEW r \in Run, Enqueue(r) \/ StartThrows(r) PROVE TypeOK'
  BY <1>0 DEF Enqueue, StartThrows, Starting, database
<1>2. ASSUME NEW r \in Run, Begin(r) PROVE TypeOK'
  BY <1>2, NextStatusFacts DEF Begin, States, Active, Terminal, Executing
<1>3. ASSUME NEW r \in Run, Fail(r) PROVE TypeOK'
  BY <1>3, NextStatusFacts DEF Fail, States, Active, Terminal, Executing
<1>4. ASSUME NEW r \in Run, Ask(r) PROVE TypeOK'
  BY <1>4, NextStatusFacts DEF Ask, States, Active, Terminal, Executing
<1>5. ASSUME NEW r \in Run, NEW b \in BOOLEAN, Answer(r, b) PROVE TypeOK'
  BY <1>5, NextStatusFacts DEF Answer, Cancelled, States, Active, Terminal, Executing
<1>6. ASSUME NEW r \in Run, Tell(r) PROVE TypeOK'
  BY <1>6 DEF Tell, database, Executing
<1>7. ASSUME NEW r \in Run, NEW ok \in BOOLEAN, Told(r, ok) PROVE TypeOK'
  BY <1>7 DEF Told, database, Executing
<1>8. ASSUME NEW r \in Run, NoteReceipt(r) PROVE TypeOK'
  BY <1>8 DEF NoteReceipt, Executing
<1>9. ASSUME NEW r \in Run, NoteRow(r) PROVE TypeOK'
  BY <1>9 DEF NoteRow, Executing
<1>10. ASSUME NEW r \in Run, Notify(r) PROVE TypeOK'
  BY <1>10 DEF Notify, database, Executing
<1>11. ASSUME NEW r \in Run, NEW ok \in BOOLEAN, NEW stop \in BOOLEAN, Notified(r, ok, stop) PROVE TypeOK'
  BY <1>11, NextStatusFacts DEF Notified, States, Active, Terminal, Executing
<1>12. ASSUME NEW r \in Run, Commit(r) PROVE TypeOK'
  BY <1>12 DEF Commit, database, Executing
<1>13. ASSUME NEW r \in Run, Withhold(r) PROVE TypeOK'
  BY <1>13 DEF Withhold, database, Executing
<1>14. ASSUME NEW r \in Run, Invalid(r) PROVE TypeOK'
  BY <1>14, NextStatusFacts DEF Invalid, States, Active, Terminal, Executing
<1>15. ASSUME NEW r \in Run, NEW ok \in BOOLEAN, Send(r, ok) PROVE TypeOK'
  BY <1>15 DEF Send, database, Executing
<1>16. ASSUME NEW r \in Run, NEW done \in BOOLEAN, RecordText(r, done) PROVE TypeOK'
  BY <1>16 DEF RecordText, Executing
<1>17. ASSUME NEW r \in Run, RecordFinal(r) PROVE TypeOK'
  BY <1>17 DEF RecordFinal, Executing
<1>18. ASSUME NEW r \in Run, Close(r) PROVE TypeOK'
  BY <1>18, NextStatusFacts DEF Close, States, Active, Terminal, Executing
<1>19. CASE Cancel
  BY <1>19, NextStatusFacts DEF Cancel, Cancelled, States, Active, Terminal, Executing
<1>20. CASE Crash
  <2>1. up' \in BOOLEAN
    BY <1>20, Zenon DEF Crash
  <2>2. crashes' \in 0 .. MaxCrash
    BY <1>20, RecoveryAssumption DEF Crash
  <2>3. at' \in [Run -> Executing \cup Starting \cup {"new", "thrown", "gone"}]
    BY <1>20 DEF Crash
  <2>4. QED BY <1>20, <2>1, <2>2, <2>3 DEF Crash, database
<1>21. CASE Restart
  BY <1>21, NextStatusFacts, ClassStatus DEF Restart, RecoveredStatus, States
<1>22. CASE UNCHANGED vars
  BY <1>22 DEF vars, database
<1>23. QED
  BY <1>0, <1>1, <1>2, <1>3, <1>4, <1>5, <1>6, <1>7, <1>8, <1>9, <1>10, <1>11,
     <1>12, <1>13, <1>14, <1>15, <1>16, <1>17, <1>18, <1>19, <1>20, <1>21, <1>22 DEF Next, Step

\* Every step keeps what its run's position says about the answer, and leaves the
\* other runs alone.
LEMMA AnswerStep ==
  ASSUME IndInv, [Next]_vars, NEW q \in Run PROVE AnswerSoFar(q)'
<1> USE DEF IndInv, TypeOK, AnswerSoFar, Unsent, Goto
<1>1. ASSUME NEW r \in Run, Arrive(r) PROVE AnswerSoFar(q)'
  BY <1>1 DEF Arrive
<1>0. ASSUME NEW r \in Run, Enqueue(r) \/ StartThrows(r) PROVE AnswerSoFar(q)'
  BY <1>0 DEF Enqueue, StartThrows, database
<1>2. ASSUME NEW r \in Run, Begin(r) PROVE AnswerSoFar(q)'
  BY <1>2 DEF Begin
<1>3. ASSUME NEW r \in Run, Fail(r) PROVE AnswerSoFar(q)'
  BY <1>3 DEF Fail
<1>4. ASSUME NEW r \in Run, Ask(r) PROVE AnswerSoFar(q)'
  BY <1>4 DEF Ask
<1>5. ASSUME NEW r \in Run, NEW b \in BOOLEAN, Answer(r, b) PROVE AnswerSoFar(q)'
  BY <1>5 DEF Answer
<1>6. ASSUME NEW r \in Run, Tell(r) PROVE AnswerSoFar(q)'
  BY <1>6 DEF Tell, database
<1>7. ASSUME NEW r \in Run, NEW ok \in BOOLEAN, Told(r, ok) PROVE AnswerSoFar(q)'
  BY <1>7 DEF Told, database
<1>8. ASSUME NEW r \in Run, NoteReceipt(r) PROVE AnswerSoFar(q)'
  BY <1>8 DEF NoteReceipt
<1>9. ASSUME NEW r \in Run, NoteRow(r) PROVE AnswerSoFar(q)'
  BY <1>9 DEF NoteRow
<1>10. ASSUME NEW r \in Run, Notify(r) PROVE AnswerSoFar(q)'
  BY <1>10 DEF Notify, database
<1>11. ASSUME NEW r \in Run, NEW ok \in BOOLEAN, NEW stop \in BOOLEAN, Notified(r, ok, stop) PROVE AnswerSoFar(q)'
  BY <1>11 DEF Notified
<1>12. ASSUME NEW r \in Run, Commit(r) PROVE AnswerSoFar(q)'
  BY <1>12 DEF Commit, database
<1>13. ASSUME NEW r \in Run, Withhold(r) PROVE AnswerSoFar(q)'
  BY <1>13 DEF Withhold, database
<1>14. ASSUME NEW r \in Run, Invalid(r) PROVE AnswerSoFar(q)'
  BY <1>14 DEF Invalid
<1>15. ASSUME NEW r \in Run, NEW ok \in BOOLEAN, Send(r, ok) PROVE AnswerSoFar(q)'
  BY <1>15 DEF Send, database
<1>16. ASSUME NEW r \in Run, NEW done \in BOOLEAN, RecordText(r, done) PROVE AnswerSoFar(q)'
  BY <1>16 DEF RecordText
<1>17. ASSUME NEW r \in Run, RecordFinal(r) PROVE AnswerSoFar(q)'
  BY <1>17 DEF RecordFinal
<1>18. ASSUME NEW r \in Run, Close(r) PROVE AnswerSoFar(q)'
  BY <1>18 DEF Close
<1>19. CASE Cancel
  BY <1>19 DEF Cancel
<1>20. CASE Crash
  BY <1>20 DEF Crash, database
<1>21. CASE Restart
  BY <1>21 DEF Restart
<1>22. CASE UNCHANGED vars
  BY <1>22 DEF vars, database
<1>23. QED
  BY <1>0, <1>1, <1>2, <1>3, <1>4, <1>5, <1>6, <1>7, <1>8, <1>9, <1>10, <1>11,
     <1>12, <1>13, <1>14, <1>15, <1>16, <1>17, <1>18, <1>19, <1>20, <1>21, <1>22 DEF Next, Step

\* The invariant holds in every reachable state.
THEOREM AnswersAreAccounted == Spec => []IndInv
<1>1. IndInv /\ [Next]_vars => IndInv'
  BY TypeStep, AnswerStep DEF IndInv
<1>2. QED BY InitInv, <1>1, PTL DEF Spec

\* Types, for any runs and any number of crashes.
THEOREM TypeCorrect == Spec => []TypeOK
<1>1. IndInv => TypeOK
  BY DEF IndInv
<1>2. QED BY AnswersAreAccounted, <1>1, PTL

\* The answer of a run (commitFinalDelivery) arrives at most once.
THEOREM AnswerArrivesOnce == Spec => []AnsweredOnce
<1>1. IndInv => AnsweredOnce
  <2> SUFFICES ASSUME IndInv, NEW r \in Run PROVE answers[r] <= 1
    BY DEF AnsweredOnce
  <2>1. answers[r] \in {0, 1}
    BY DEF IndInv, AnswerSoFar
  <2>2. QED BY <2>1
<1>2. QED BY AnswersAreAccounted, <1>1, PTL

\* A final_answer_delivered row stands for an answer that arrived and has its
\* text_delivered row.
THEOREM CommitMeansArrival == Spec => []CommittedArrived
<1>1. IndInv => CommittedArrived
  BY DEF IndInv, TypeOK, AnswerSoFar, CommittedArrived
<1>2. QED BY AnswersAreAccounted, <1>1, PTL

\* No step writes a failure over a run whose text is on record: one case per
\* action that writes a status.
LEMMA ProtectedStep ==
  ASSUME TypeOK, [Next]_vars, NEW q \in Run, status[q] \in Active, status'[q] \in Unsuccessful
  PROVE  ~Delivered(q)
<1>1. ASSUME NEW s \in States, status'[q] = NextStatus(q, s) PROVE ~Delivered(q)
  BY <1>1, NextStatusFacts
<1>2. ASSUME NEW r \in Run, NEW s \in States, status' = [status EXCEPT ![r] = NextStatus(r, s)]
      PROVE  ~Delivered(q)
  <2>1. CASE q = r
    BY <2>1, <1>1, <1>2 DEF TypeOK
  <2>2. CASE q # r
    BY <2>2, <1>2 DEF TypeOK, Active, Unsuccessful
  <2>3. QED BY <2>1, <2>2
<1>3. ASSUME status' = status PROVE ~Delivered(q)
  BY <1>3 DEF Active, Unsuccessful
<1>4. ASSUME status' = Cancelled PROVE ~Delivered(q)
  <2>1. status'[q] = NextStatus(q, "cancelled")
    BY <1>4 DEF Cancelled
  <2>2. QED BY <2>1, <1>1 DEF States, Terminal
<1>5. ASSUME NEW r \in Run, Arrive(r) PROVE ~Delivered(q)
  BY <1>5 DEF Arrive, TypeOK, Active, Unsuccessful
<1>6. ASSUME NEW r \in Run, Step(r) PROVE ~Delivered(q)
  <2>1. CASE Begin(r) \/ Invalid(r)
    BY <2>1, <1>2 DEF Begin, Invalid, States, Active
  <2>2. CASE Fail(r) \/ Close(r)
    BY <2>2, <1>2 DEF Fail, Close, States, Terminal
  <2>3. CASE Ask(r)
    BY <2>3, <1>2 DEF Ask, States, Active
  <2>4. ASSUME NEW b \in BOOLEAN, Answer(r, b) PROVE ~Delivered(q)
    BY <2>4, <1>2, <1>4 DEF Answer, States, Active
  <2>5. ASSUME NEW ok \in BOOLEAN, NEW stop \in BOOLEAN, Notified(r, ok, stop) PROVE ~Delivered(q)
    <3>1. (IF stop THEN "awaiting_user" ELSE "running") \in States
      BY DEF States, Active
    <3>2. QED BY <2>5, <3>1, <1>2 DEF Notified
  <2>6. CASE \/ Enqueue(r) \/ StartThrows(r) \/ Tell(r) \/ (\E ok \in BOOLEAN : Told(r, ok)) \/ NoteReceipt(r) \/ NoteRow(r) \/ Notify(r)
             \/ Commit(r) \/ Withhold(r) \/ (\E ok \in BOOLEAN : Send(r, ok))
             \/ (\E done \in BOOLEAN : RecordText(r, done)) \/ RecordFinal(r)
    BY <2>6, <1>3 DEF Enqueue, StartThrows, Tell, Told, NoteReceipt, NoteRow, Notify, Commit, Withhold, Send,
                      RecordText, RecordFinal, database
  <2>7. QED BY <1>6, <2>1, <2>2, <2>3, <2>4, <2>5, <2>6 DEF Step
<1>7. CASE Cancel
  BY <1>7, <1>4 DEF Cancel
<1>8. CASE Crash
  BY <1>8, <1>3 DEF Crash, database
<1>9. CASE Restart
  <2>1. CASE q \in Recovered
    <3>1. status'[q] = NextStatus(q, IF Classify(q) = "delivered" THEN "completed" ELSE Classify(q))
      BY <1>9, <2>1 DEF Restart, RecoveredStatus
    <3>2. QED BY <3>1, <1>1, ClassStatus
  <2>2. CASE q \notin Recovered
    BY <1>9, <2>2 DEF Restart, Active, Unsuccessful
  <2>3. QED BY <2>1, <2>2
<1>10. CASE UNCHANGED vars
  BY <1>10, <1>3 DEF vars, database
<1>11. QED BY <1>5, <1>6, <1>7, <1>8, <1>9, <1>10 DEF Next

\* A run whose own text is on record as delivered does not end as failed,
\* cancelled or interrupted, at whichever point the process died.
THEOREM DeliveredStaysProtected == Spec => DeliveredIsProtected
<1>1. TypeOK /\ [Next]_vars =>
        [\A r \in Run : status[r] \in Active /\ status'[r] \in Unsuccessful => ~Delivered(r)]_vars
  BY ProtectedStep
<1>2. QED BY TypeCorrect, <1>1, PTL DEF Spec, DeliveredIsProtected

------------------------------------------------------------------------------
(* Runs and executors *)

\* The table has each run once, from its arrival on.
BornInv ==
  /\ Distinct(born)
  /\ \A r \in Run : (at[r] = "new" => ~In(born, r)) /\ (status[r] \in Active => In(born, r))

ExecInv == TypeOK /\ BornInv /\ RunningHasExecutor

Shown == {"queued", "running"}
Held  == Executing \cup Starting \cup {"thrown"}

\* What updateRunStatus makes of a run.
LEMMA StatusIs ==
  ASSUME NEW r \in Run, NEW s
  PROVE  /\ status[r] \notin Active => NextStatus(r, s) = status[r]
         /\ NextStatus(r, s) \in Shown => s \in Shown
BY DEF NextStatus, Shown, Active

\* A step that lets no run arrive, keeps the table, and leaves an executor to
\* every run that it shows as queued or running.
Holds ==
  /\ born' = born
  /\ \A r \in Run : /\ at'[r] = "new" => at[r] = "new"
                    /\ status'[r] \in Active => status[r] \in Active
                    /\ up' /\ status'[r] \in Shown => at'[r] \in Held

\* Such a step keeps the invariant.
LEMMA HoldsStep == ASSUME ExecInv, TypeOK', Holds PROVE ExecInv'
BY DEF ExecInv, BornInv, Holds, RunningHasExecutor, Shown, Held

\* One run moves, its status by updateRunStatus.
LEMMA OneMoves ==
  ASSUME ExecInv, NEW r \in Run, NEW l \in Positions, NEW s,
         up' = up, born' = born, at' = [at EXCEPT ![r] = l],
         status' = [status EXCEPT ![r] = NextStatus(r, s)] \/ (status' = status /\ at[r] \in Held /\ l \in Held),
         l \in Held \/ (l = "gone" /\ s \notin Shown /\ status' = [status EXCEPT ![r] = NextStatus(r, s)])
  PROVE  Holds
<1> SUFFICES ASSUME NEW q \in Run
             PROVE  /\ at'[q] = "new" => at[q] = "new"
                    /\ status'[q] \in Active => status[q] \in Active
                    /\ up' /\ status'[q] \in Shown => at'[q] \in Held
  BY DEF Holds
<1>1. CASE q # r
  BY <1>1 DEF ExecInv, TypeOK, RunningHasExecutor, Shown, Held
<1>2. CASE q = r
  <2>1. at'[q] = l /\ (status'[q] = NextStatus(r, s) \/ status'[q] = status[q])
    BY <1>2 DEF ExecInv, TypeOK
  <2>2. l # "new"
    BY DEF Held, Executing, Starting
  <2>3. status'[q] \in Active => status[q] \in Active
    BY <1>2, <2>1, StatusIs
  <2>4. l \in Held => at'[q] \in Held
    BY <2>1
  <2>5. ASSUME l = "gone", s \notin Shown, status' = [status EXCEPT ![r] = NextStatus(r, s)]
        PROVE  status'[q] \notin Shown
    BY <1>2, <2>5, StatusIs DEF ExecInv, TypeOK
  <2>6. QED BY <2>1, <2>2, <2>3, <2>4, <2>5
<1>3. QED BY <1>1, <1>2

\* The whole group is stopped.
LEMMA AllStop ==
  ASSUME ExecInv, status' = Cancelled, born' = born, \A r \in Run : at'[r] = "new" => at[r] = "new"
  PROVE  Holds
<1>1. \A r \in Run : status'[r] = NextStatus(r, "cancelled")
  BY DEF Cancelled
<1>2. \A r \in Run : status'[r] \notin Shown
  BY <1>1, StatusIs DEF Shown
<1>3. \A r \in Run : status'[r] \in Active => status[r] \in Active
  BY <1>1, StatusIs
<1>4. QED BY <1>2, <1>3 DEF Holds

\* A restart takes up every active run of a group that is within its limit.
LEMMA AllRecovered ==
  ASSUME IsFiniteSet(Run), Cardinality(Run) <= Limit, ExecInv, NEW r \in Run, status[r] \in Active
  PROVE  r \in Recovered
<1>1. born \in Seq(Run) /\ Len(born) \in Nat /\ DOMAIN born = 1 .. Len(born) /\ Distinct(born)
  BY LenProperties DEF ExecInv, TypeOK, BornInv
<1>2. Len(born) <= Cardinality(Run)
  <2> DEFINE T == {born[i] : i \in 1 .. Len(born)}
  <2>1. T = {born[i] : i \in 1 .. Len(born)} /\ Len(born) <= Len(born)
    BY <1>1
  <2>2. T \subseteq Run
    BY <1>1, ElementOfSeq
  <2> HIDE DEF T
  <2>3. Cardinality(T) = Len(born)
    BY <1>1, <2>1, CountFirst
  <2>4. Cardinality(T) <= Cardinality(Run)
    BY <2>2, FS_Subset
  <2>5. QED BY <2>3, <2>4
<1>3. PICK i \in 1 .. Len(born) : born[i] = r
  BY DEF ExecInv, BornInv, In
<1>4. i \in ActiveRuns
  BY <1>1, <1>3 DEF ActiveRuns
<1> DEFINE K == {k \in ActiveRuns : k >= i}
<1>5. Cardinality(K) <= Len(born)
  <2>1. K \subseteq 1 .. Len(born)
    BY <1>1 DEF ActiveRuns
  <2>2. IsFiniteSet(1 .. Len(born)) /\ Cardinality(1 .. Len(born)) = Len(born)
    BY <1>1, FS_Interval
  <2> HIDE DEF K
  <2>3. QED BY <2>1, <2>2, FS_Subset
<1>6. Cardinality(K) <= Limit
  <2>1. IsFiniteSet(K)
    <3>1. K \subseteq 1 .. Len(born)
      BY <1>1 DEF ActiveRuns
    <3>2. IsFiniteSet(1 .. Len(born))
      BY <1>1, FS_Interval
    <3> HIDE DEF K
    <3>3. QED BY <3>1, <3>2, FS_Subset
  <2> HIDE DEF K
  <2>2. Cardinality(K) \in Nat /\ Cardinality(Run) \in Nat
    BY <2>1, FS_CardinalityType
  <2>3. QED BY <1>1, <1>2, <1>5, <2>2, RecoveryAssumption
<1>7. QED BY <1>3, <1>4, <1>6 DEF Recovered

\* Every step leaves an executor to the runs that show as queued or running.
LEMMA ExecStep ==
  ASSUME IsFiniteSet(Run), Cardinality(Run) <= Limit, ExecInv, [Next]_vars PROVE ExecInv'
<1>0. TypeOK'
  BY TypeStep DEF ExecInv
<1>1. ASSUME NEW r \in Run, Arrive(r) PROVE ExecInv'
  <2>0. PICK s \in Shown : status' = [status EXCEPT ![r] = s]
    BY <1>1 DEF Arrive, Shown
  <2>1. /\ at[r] = "new" /\ born' = Append(born, r)
        /\ at' = [at EXCEPT ![r] = "starting"] /\ up' = up
    BY <1>1 DEF Arrive, Goto
  <2>2. \A q \in Run : /\ at'[q] = IF q = r THEN "starting" ELSE at[q]
                       /\ status'[q] = IF q = r THEN s ELSE status[q]
    BY <2>0, <2>1 DEF ExecInv, TypeOK
  <2>3. /\ born \in Seq(Run) /\ Len(born) \in Nat /\ Len(born') = Len(born) + 1 /\ born'[Len(born) + 1] = r
        /\ \A i \in 1 .. Len(born) : born'[i] = born[i]
    BY <2>1, AppendProperties, LenProperties DEF ExecInv, TypeOK
  <2>4. ~In(born, r)
    BY <2>1 DEF ExecInv, BornInv
  <2>5. \A q \in Run : In(born', q) <=> In(born, q) \/ q = r
    BY <2>3 DEF In
  <2>6. Distinct(born')
    BY <2>3, <2>4 DEF ExecInv, BornInv, Distinct, In
  <2>7. BornInv'
    BY <2>2, <2>5, <2>6 DEF ExecInv, BornInv
  <2>8. RunningHasExecutor'
    BY <2>1, <2>2 DEF ExecInv, RunningHasExecutor, Starting
  <2>9. QED BY <1>0, <2>7, <2>8 DEF ExecInv
<1>2. ASSUME NEW r \in Run, Step(r) PROVE Holds
  <2>1. CASE Begin(r) \/ Ask(r) \/ Invalid(r)
    <3>1. /\ up' = up /\ born' = born
          /\ \E l \in Executing, s \in States : at' = [at EXCEPT ![r] = l] /\ status' = [status EXCEPT ![r] = NextStatus(r, s)]
      BY <2>1 DEF Begin, Ask, Invalid, Goto, Executing, States, Active
    <3>2. QED BY <3>1, OneMoves DEF Positions, Held
  <2>2. CASE Fail(r) \/ Close(r)
    <3>1. /\ up' = up /\ born' = born /\ at' = [at EXCEPT ![r] = "gone"]
          /\ \E s \in {"failed", "completed"} : status' = [status EXCEPT ![r] = NextStatus(r, s)]
      BY <2>2 DEF Fail, Close, Goto
    <3>2. QED BY <3>1, OneMoves DEF Positions, Shown
  <2>3. ASSUME NEW b \in BOOLEAN, Answer(r, b) PROVE Holds
    <3>1. up' = up /\ born' = born /\ at' = [at EXCEPT ![r] = "working"]
      BY <2>3 DEF Answer, Goto
    <3>2. CASE b
      <4>1. status' = [status EXCEPT ![r] = NextStatus(r, "running")]
        BY <2>3, <3>2 DEF Answer
      <4>2. QED BY <3>1, <4>1, OneMoves DEF Positions, Held, Executing
    <3>3. CASE ~b
      <4>1. status' = Cancelled
        BY <2>3, <3>3 DEF Answer
      <4>2. \A q \in Run : at'[q] = "new" => at[q] = "new"
        BY <3>1 DEF ExecInv, TypeOK
      <4>3. QED BY <3>1, <4>1, <4>2, AllStop
    <3>4. QED BY <3>2, <3>3
  <2>4. ASSUME NEW ok \in BOOLEAN, NEW stop \in BOOLEAN, Notified(r, ok, stop) PROVE Holds
    <3>1. up' = up /\ born' = born
      BY <2>4 DEF Notified
    <3>2. CASE stop
      <4>1. at' = [at EXCEPT ![r] = "gone"] /\ status' = [status EXCEPT ![r] = NextStatus(r, "awaiting_user")]
        BY <2>4, <3>2 DEF Notified, Goto
      <4>2. QED BY <3>1, <4>1, OneMoves DEF Positions, Shown
    <3>3. CASE ~stop
      <4>1. at' = [at EXCEPT ![r] = "working"] /\ status' = [status EXCEPT ![r] = NextStatus(r, "running")]
        BY <2>4, <3>3 DEF Notified, Goto
      <4>2. QED BY <3>1, <4>1, OneMoves DEF Positions, Held, Executing
    <3>4. QED BY <3>2, <3>3
  <2>5. CASE \/ Tell(r) \/ (\E ok \in BOOLEAN : Told(r, ok)) \/ NoteReceipt(r) \/ NoteRow(r) \/ Notify(r)
             \/ Commit(r) \/ Withhold(r) \/ (\E ok \in BOOLEAN : Send(r, ok))
             \/ (\E done \in BOOLEAN : RecordText(r, done)) \/ RecordFinal(r)
    <3>1. /\ up' = up /\ born' = born /\ status' = status /\ at[r] \in Executing
          /\ \E l \in Executing : at' = [at EXCEPT ![r] = l]
      BY <2>5 DEF Tell, Told, NoteReceipt, NoteRow, Notify, Commit, Withhold, Send,
                  RecordText, RecordFinal, database, Goto, Executing
    <3>2. QED BY <3>1, OneMoves DEF Positions, Held
  <2>6. CASE Enqueue(r) \/ StartThrows(r)
    <3>1. /\ up' = up /\ born' = born /\ status' = status /\ at[r] \in Held
          /\ \E l \in Held : at' = [at EXCEPT ![r] = l]
      BY <2>6 DEF Enqueue, StartThrows, database, Goto, Held, Starting
    <3>2. Held \subseteq Positions
      BY DEF Held, Positions
    <3>3. QED BY <3>1, <3>2, OneMoves
  <2>7. QED BY <1>2, <2>1, <2>2, <2>3, <2>4, <2>5, <2>6 DEF Step
<1>3. CASE Cancel
  <2>1. status' = Cancelled /\ born' = born /\ \A r \in Run : at'[r] = "new" => at[r] = "new"
    BY <1>3 DEF Cancel
  <2>2. QED BY <1>0, <2>1, AllStop, HoldsStep
<1>4. CASE Crash
  <2>1. /\ ~up' /\ born' = born /\ status' = status /\ \A r \in Run : at'[r] = "new" => at[r] = "new"
    BY <1>4 DEF Crash, database
  <2>2. QED BY <1>0, <2>1, HoldsStep DEF Holds
<1>5. CASE Restart
  <2>1. /\ born' = born /\ at' = at
        /\ \A r \in Run : status'[r] = IF r \in Recovered THEN RecoveredStatus(r) ELSE status[r]
    BY <1>5 DEF Restart
  <2>2. ASSUME NEW r \in Run
        PROVE  status'[r] \notin Shown /\ (status'[r] \in Active => status[r] \in Active)
    <3> DEFINE s == IF Classify(r) = "delivered" THEN "completed" ELSE Classify(r)
    <3>1. s \notin Shown
      BY DEF Classify, Shown
    <3>2. RecoveredStatus(r) = NextStatus(r, s)
      BY DEF RecoveredStatus
    <3> HIDE DEF s
    <3>3. CASE status[r] \in Active
      BY <2>1, <3>1, <3>2, <3>3, AllRecovered, StatusIs
    <3>4. CASE status[r] \notin Active
      BY <2>1, <3>1, <3>2, <3>4, StatusIs DEF Shown, Active
    <3>5. QED BY <3>3, <3>4
  <2>3. Holds
    BY <2>1, <2>2 DEF Holds
  <2>4. QED BY <1>0, <2>3, HoldsStep
<1>6. CASE UNCHANGED vars
  BY <1>0, <1>6 DEF vars, database, ExecInv, BornInv, RunningHasExecutor
<1>7. QED BY <1>0, <1>1, <1>2, <1>3, <1>4, <1>5, <1>6, HoldsStep DEF Next

\* In a process that is up, every run that shows as queued or running has an
\* executor or is one whose start threw since the process is up, at whichever
\* points the process died before, as long as the active runs fit in the limit
\* of recoverActiveRunsOnStartup: beyond it the older ones keep the status the
\* crash left them with.
THEOREM RunningRunsHaveExecutors ==
  ASSUME IsFiniteSet(Run), Cardinality(Run) <= Limit
  PROVE  Spec => []RunningHasExecutor
<1>1. Init => ExecInv
  <2> SUFFICES ASSUME Init PROVE ExecInv
    OBVIOUS
  <2>1. TypeOK
    BY InitInv DEF IndInv
  <2>2. BornInv /\ RunningHasExecutor
    BY EmptySeq DEF Init, BornInv, RunningHasExecutor, Distinct, In, Active
  <2>3. QED BY <2>1, <2>2 DEF ExecInv
<1>2. ExecInv /\ [Next]_vars => ExecInv'
  BY ExecStep
<1>3. ExecInv => RunningHasExecutor
  BY DEF ExecInv
<1>4. QED BY <1>1, <1>2, <1>3, PTL DEF Spec
===============================================================================
