--------------------------- MODULE SchedulerProofs ---------------------------
(***************************************************************************)
(* For any table of schedules, any clock and any number of manual runs,    *)
(* exceptions and crashes: only a schedule of system_schtasks has two runs *)
(* for one occurrence, a contract's text arrives once, an open row is      *)
(* worked on, was left by an exception or lies beyond the limit of the     *)
(* starts, and an interrupted one is not worked on.                        *)
(*                                                                         *)
(* None of it is inductive.  That an occurrence is not fired again rests   *)
(* on the order of events: a firing in the queue keeps the tick away, and  *)
(* the row that replaces it has a start no earlier than its due time       *)
(* (Placed, Origin), so two firings of an occurrence that have a row or    *)
(* can still get one are of two processes (PairInv).  That a text arrives  *)
(* once rests on the attempts: what sends again has not arrived (Counted). *)
(* That an open row is accounted for rests on rows never being opened      *)
(* again: what a start preferred to it stays closed (Rowed, ClosedGrows).  *)
(***************************************************************************)
EXTENDS Scheduler, SequenceFacts, TLAPS

\* A firing that has no row yet and may still get one.
Waiting == {"queued", "booting", "booted"}

\* Where a firing is while it waits, sends or is cut off.
Placed(f) ==
  /\ phase[f] = "queued" => proc[f] = "daemon" /\ In(queue[sched[f]], f)
  /\ phase[f] \in {"booting", "booted"} => proc[f] = "cli"
  /\ proc[f] = "daemon" /\ phase[f] \in {"sending", "sent"} => In(line, f)
  /\ proc[f] = "daemon" /\ phase[f] = "sent" => Head(line) = f
  /\ ~up /\ proc[f] = "daemon" => phase[f] \in {"over", "lost"}

\* What it has tried and what has arrived.
Counted(f) ==
  /\ phase[f] \in Waiting => tries[f] = 0
  /\ phase[f] \in {"planning", "working", "sending"} => arrivals[f] < tries[f]
  /\ phase[f] = "pausing" => tries[f] <= MaxRetries(sched[f])
  /\ table[sched[f]].contract =>
       /\ arrivals[f] <= 1
       /\ phase[f] \notin {"sent", "finishing", "over", "rejected", "lost"} => arrivals[f] = 0

\* Who fired it, and when its row began.
Origin(f) ==
  /\ due[f] <= now
  /\ row[f] # "none" => due[f] <= started[f]
  /\ proc[f] = "cli" => Driver(sched[f]) # "internal"
  /\ proc[f] = "daemon" /\ due[f] # 0 => Driver(sched[f]) # "system_crontab"

\* As many rows as a start looks at are closed and no older.
Overlooked(f) == Cardinality(ClosedSince(f)) >= Limit

\* What its row says of its work.
Rowed(f) ==
  /\ phase[f] \in Live => row[f] # "none"
  /\ phase[f] \in Waiting => row[f] = "none"
  /\ up /\ proc[f] = "daemon" /\ row[f] = "open" => phase[f] \in Live \cup {"rejected"} \/ Overlooked(f)
  /\ proc[f] = "daemon" /\ row[f] = "interrupted" =>
       phase[f] \notin Live \/ \E s \in Schedule : Driver(s) # "internal"

MayRun(f) == row[f] # "none" \/ phase[f] \in Waiting

\* Of two firings for one occurrence one will never have a row, or they are
\* those of the daemon and of the Task Scheduler.
PairInv ==
  \A f, g \in 1 .. fired :
    SameOccurrence(f, g) /\ MayRun(f) /\ MayRun(g)
      => Driver(sched[f]) = "system_schtasks" /\ proc[f] # proc[g]

FireInv == \A f \in 1 .. fired : Placed(f) /\ Counted(f) /\ Origin(f) /\ Rowed(f)

IndInv == TypeOK /\ FireInv /\ PairInv

\* The bound on the firings is a number.
LEMMA MaxFireNat == MaxFire \in Nat
<1>1. Cardinality(Schedule) \in Nat
  BY SchedulerAssumption, FS_CardinalityType
<1>2. QED BY <1>1, SchedulerAssumption DEF MaxFire

\* So is their number.
LEMMA FiredNat == ASSUME IndInv PROVE fired \in Nat /\ fired <= fired
BY MaxFireNat DEF IndInv, TypeOK

\* No step opens a closed row or moves its start, so a row that was overlooked
\* stays so.
LEMMA ClosedGrows ==
  ASSUME IndInv, fired' \in Nat, fired <= fired', NEW f \in 1 .. fired, started'[f] = started[f],
         \A g \in 1 .. fired :
           row[g] \notin {"none", "open"} => row'[g] \notin {"none", "open"} /\ started'[g] = started[g]
  PROVE  Overlooked(f) => Overlooked(f)'
<1>1. fired \in Nat
  BY MaxFireNat DEF IndInv, TypeOK
<1>2. ClosedSince(f) \subseteq ClosedSince(f)'
  BY <1>1 DEF ClosedSince
<1>3. IsFiniteSet(1 .. fired')
  BY FS_Interval
<1>4. ClosedSince(f)' \subseteq 1 .. fired'
  BY DEF ClosedSince
<1>5. IsFiniteSet(ClosedSince(f)')
  BY <1>3, <1>4, FS_Subset
<1>6. /\ IsFiniteSet(ClosedSince(f)) /\ Cardinality(ClosedSince(f)) <= Cardinality(ClosedSince(f)')
  BY <1>2, <1>5, FS_Subset
<1>7. Cardinality(ClosedSince(f)) \in Nat /\ Cardinality(ClosedSince(f)') \in Nat /\ Limit \in Nat
  BY <1>5, <1>6, FS_CardinalityType, SchedulerAssumption
<1>8. QED BY <1>6, <1>7 DEF Overlooked

\* A start closes open rows only, and what it leaves open it overlooked.
LEMMA InterruptFacts ==
  ASSUME IndInv, Interrupt, fired' = fired, started' = started
  PROVE  /\ row' \in [1 .. fired -> {"none", "open", "ok", "failed", "interrupted"}]
         /\ \A g \in 1 .. fired :
              /\ row'[g] = row[g] \/ (row[g] = "open" /\ row'[g] = "interrupted")
              /\ row'[g] = "open" => Overlooked(g)'
<1> DEFINE open == {f \in 1 .. fired : row[f] = "open"}
<1>1. PICK S \in SUBSET open :
        /\ S = open \/ Cardinality(S) = Limit
        /\ \A f \in S, g \in open \ S : started[g] <= started[f]
        /\ row' = [f \in 1 .. fired |-> IF f \in S THEN "interrupted" ELSE row[f]]
  BY DEF Interrupt
<1>2. row' \in [1 .. fired -> {"none", "open", "ok", "failed", "interrupted"}]
  BY <1>1 DEF IndInv, TypeOK
<1>3. ASSUME NEW g \in 1 .. fired
      PROVE  row'[g] = row[g] \/ (row[g] = "open" /\ row'[g] = "interrupted")
  BY <1>1
<1>4. ASSUME NEW g \in 1 .. fired, row'[g] = "open" PROVE Overlooked(g)'
  <2>1. g \in open \ S
    BY <1>1, <1>4
  <2>2. Cardinality(S) = Limit
    BY <1>1, <2>1
  <2>3. S \subseteq ClosedSince(g)'
    BY <1>1, <2>1 DEF ClosedSince
  <2>4. fired \in Nat
    BY MaxFireNat DEF IndInv, TypeOK
  <2>5. IsFiniteSet(1 .. fired) /\ ClosedSince(g)' \subseteq 1 .. fired
    BY <2>4, FS_Interval DEF ClosedSince
  <2>6. IsFiniteSet(ClosedSince(g)')
    BY <2>5, FS_Subset
  <2>7. Cardinality(S) <= Cardinality(ClosedSince(g)')
    BY <2>3, <2>6, FS_Subset
  <2>8. Cardinality(ClosedSince(g)') \in Nat /\ Limit \in Nat
    BY <2>6, FS_CardinalityType, SchedulerAssumption
  <2>9. QED BY <2>2, <2>7, <2>8 DEF Overlooked
<1>5. QED BY <1>2, <1>3, <1>4

------------------------------------------------------------------------------
(* Steps of one firing *)

\* No step but a firing makes one able to get a row.
LEMMA PairsStay ==
  ASSUME IndInv, UNCHANGED identity, \A f \in 1 .. fired : MayRun(f)' => MayRun(f)
  PROVE  PairInv'
BY DEF IndInv, PairInv, SameOccurrence, identity, Driver

\* An attempt moves one firing, which works before and after, and touches
\* neither the rows nor the queue: only its own place and counters matter.
LEMMA AttemptStep ==
  ASSUME IndInv, TypeOK', NEW f \in 1 .. fired, NEW l \in Live, phase[f] \in Live,
         phase' = [phase EXCEPT ![f] = l],
         UNCHANGED <<process, identity, row, started, queue>>,
         \A g \in 1 .. fired : g # f =>
           /\ tries'[g] = tries[g] /\ arrivals'[g] = arrivals[g]
           /\ In(line, g) => In(line', g)
           /\ proc[g] = "daemon" /\ phase[g] = "sent" => Head(line') = Head(line),
         Placed(f)', Counted(f)'
  PROVE  IndInv'
<1>1. \A g \in 1 .. fired : phase'[g] = IF g = f THEN l ELSE phase[g]
  BY DEF IndInv, TypeOK, Phase
<1>2. /\ up' = up /\ now' = now /\ table' = table /\ fired' = fired /\ sched' = sched /\ due' = due
      /\ proc' = proc /\ row' = row /\ started' = started /\ queue' = queue
  BY DEF process, identity
<1>3. ASSUME NEW g \in 1 .. fired PROVE Placed(g)' /\ Counted(g)'
  <2>1. CASE g = f
    BY <2>1
  <2>2. CASE g # f
    BY <1>1, <1>2, <2>2 DEF IndInv, FireInv, Placed, Counted, MaxRetries
  <2>3. QED BY <2>1, <2>2
<1>4. ASSUME NEW g \in 1 .. fired PROVE Origin(g)' /\ Rowed(g)'
  <2>1. Origin(g) /\ Rowed(g) /\ Origin(f) /\ Rowed(f)
    BY DEF IndInv, FireInv
  <2>2. Origin(g)'
    BY <1>2, <2>1 DEF Origin, Driver
  <2>3. Overlooked(g) => Overlooked(g)'
    BY <1>2 DEF Overlooked, ClosedSince
  <2>4. Rowed(g)'
    <3>1. Live \cap Waiting = {}
      BY DEF Live, Waiting
    <3>2. QED BY <1>1, <1>2, <2>1, <2>3, <3>1 DEF Rowed, Driver
  <2>5. QED BY <2>2, <2>4
<1>5. PairInv'
  <2>1. \A g \in 1 .. fired : MayRun(g)' => MayRun(g)
    BY <1>1, <1>2 DEF MayRun, Waiting, Live
  <2>2. QED BY <2>1, PairsStay
<1>6. QED BY <1>2, <1>3, <1>4, <1>5 DEF IndInv, FireInv

\* Facts about one firing, without the quantifiers.
LEMMA AboutFire ==
  ASSUME IndInv, NEW f \in 1 .. fired
  PROVE  /\ Placed(f) /\ Counted(f) /\ Origin(f) /\ Rowed(f)
         /\ sched[f] \in Schedule /\ proc[f] \in {"daemon", "cli"} /\ f \in Fire
         /\ tries[f] \in Nat /\ arrivals[f] \in Nat /\ MaxRetries(sched[f]) \in Nat
         /\ table[sched[f]].contract \in BOOLEAN /\ up \in BOOLEAN
<1>1. Placed(f) /\ Counted(f) /\ Origin(f) /\ Rowed(f)
  BY DEF IndInv, FireInv
<1>2. sched[f] \in Schedule /\ proc[f] \in {"daemon", "cli"} /\ up \in BOOLEAN /\ table \in Tables
  BY DEF IndInv, TypeOK, Phase
<1>3. MaxRetries(sched[f]) \in Nat /\ table[sched[f]].contract \in BOOLEAN
  BY <1>2, SchedulerAssumption DEF MaxRetries
<1>4. tries[f] \in Nat /\ arrivals[f] \in Nat /\ f \in Fire
  BY <1>3, MaxFireNat DEF IndInv, TypeOK, Fire, Phase
<1>5. QED BY <1>1, <1>2, <1>3, <1>4

\* The plan of an attempt: to work, or straight to the end for a delivered occurrence.
LEMMA PlanStep == ASSUME IndInv, NEW f \in 1 .. fired, Plan(f) PROVE IndInv'
<1> DEFINE l == IF table[sched[f]].contract /\ DedupeKey(f) \in receipts THEN "finishing" ELSE "working"
<1>1. /\ phase' = [phase EXCEPT ![f] = l] /\ phase[f] = "planning"
      /\ UNCHANGED <<process, identity, tries, arrivals, row, started, queue, line>>
  BY DEF Plan, Conclude, database
<1>2. l \in {"finishing", "working"}
  OBVIOUS
<1>3. good' \in [1 .. fired -> BOOLEAN]
  BY DEF Plan, Conclude, IndInv, TypeOK, Phase
<1> HIDE DEF l
<1>4. TypeOK'
  BY <1>1, <1>2, <1>3 DEF IndInv, TypeOK, process, identity, Live, MaxRetries, Phase
<1>5. Placed(f)' /\ Counted(f)'
  BY <1>1, <1>2, AboutFire DEF Placed, Counted, process, identity, MaxRetries, Waiting, IndInv, TypeOK, Phase
<1>6. QED BY <1>1, <1>2, <1>4, <1>5, AttemptStep DEF Live

\* The text joins the delivery queue behind those that wait there.
LEMMA WorkDoneStep == ASSUME IndInv, NEW f \in 1 .. fired, WorkDone(f) PROVE IndInv'
<1>1. /\ phase' = [phase EXCEPT ![f] = "sending"] /\ phase[f] = "working"
      /\ line' = IF proc[f] = "daemon" THEN Append(line, f) ELSE line
      /\ UNCHANGED <<process, identity, tries, good, arrivals, row, started, queue>>
  BY DEF WorkDone, database
<1>2. /\ line' \in Seq(Fire) /\ (proc[f] = "daemon" => In(line', f))
      /\ \A g : In(line, g) => In(line', g)
      /\ line # <<>> => Head(line') = Head(line)
  BY <1>1, AboutFire, InAppend DEF IndInv, TypeOK, Phase
<1>3. \A g \in 1 .. fired : proc[g] = "daemon" /\ phase[g] = "sent" => line # <<>>
  BY InTail DEF IndInv, TypeOK, FireInv, Placed, Phase
<1>4. TypeOK'
  BY <1>1, <1>2 DEF IndInv, TypeOK, process, identity, Live, MaxRetries, Phase
<1>5. Placed(f)' /\ Counted(f)'
  BY <1>1, <1>2, AboutFire DEF Placed, Counted, process, identity, MaxRetries, Waiting, IndInv, TypeOK, Phase
<1>6. QED BY <1>1, <1>2, <1>3, <1>4, <1>5, AttemptStep DEF Live

\* A result that stays here ends the firing.
LEMMA WorkKeptStep == ASSUME IndInv, NEW f \in 1 .. fired, WorkKept(f) PROVE IndInv'
<1>1. /\ phase' = [phase EXCEPT ![f] = "finishing"] /\ phase[f] = "working"
      /\ good' = [good EXCEPT ![f] = TRUE]
      /\ UNCHANGED <<process, identity, tries, arrivals, row, started, queue, line>>
  BY DEF WorkKept, Conclude
<1>4. TypeOK'
  BY <1>1 DEF IndInv, TypeOK, process, identity, Live, MaxRetries, Phase
<1>5. Placed(f)' /\ Counted(f)'
  BY <1>1, AboutFire DEF Placed, Counted, process, identity, MaxRetries, Waiting, IndInv, TypeOK, Phase
<1>6. QED BY <1>1, <1>4, <1>5, AttemptStep DEF Live

\* A failed attempt is repeated only while the table allows another one.
LEMMA RetryFacts ==
  ASSUME IndInv, NEW f \in 1 .. fired, Retry(f)
  PROVE  \E l \in {"pausing", "finishing"} :
           /\ phase' = [phase EXCEPT ![f] = l]
           /\ l = "pausing" => tries[f] <= MaxRetries(sched[f])
           /\ good' \in [1 .. fired -> BOOLEAN]
BY DEF Retry, Conclude, IndInv, TypeOK, Phase

\* A failure before the send: nothing has arrived yet.
LEMMA WorkFailsStep == ASSUME IndInv, NEW f \in 1 .. fired, WorkFails(f) PROVE IndInv'
<1>1. PICK l \in {"pausing", "finishing"} :
        /\ phase' = [phase EXCEPT ![f] = l]
        /\ l = "pausing" => tries[f] <= MaxRetries(sched[f])
        /\ good' \in [1 .. fired -> BOOLEAN]
  BY RetryFacts DEF WorkFails
<1>2. phase[f] = "working" /\ UNCHANGED <<process, identity, tries, arrivals, row, started, queue, line>>
  BY DEF WorkFails, database
<1>4. TypeOK'
  BY <1>1, <1>2 DEF IndInv, TypeOK, process, identity, Live, MaxRetries, Phase
<1>5. Placed(f)' /\ Counted(f)'
  BY <1>1, <1>2, AboutFire DEF Placed, Counted, process, identity, MaxRetries, Waiting, IndInv, TypeOK, Phase
<1>6. QED BY <1>1, <1>2, <1>4, <1>5, AttemptStep DEF Live

\* Nothing to send: the end without a delivery.
LEMMA WorkEmptyStep == ASSUME IndInv, NEW f \in 1 .. fired, WorkEmpty(f) PROVE IndInv'
<1>1. /\ phase' = [phase EXCEPT ![f] = "finishing"] /\ phase[f] = "working"
      /\ good' = [good EXCEPT ![f] = FALSE]
      /\ UNCHANGED <<process, identity, tries, arrivals, row, started, queue, line>>
  BY DEF WorkEmpty, Conclude, database
<1>2. TypeOK'
  BY <1>1 DEF IndInv, TypeOK, process, identity, Live, MaxRetries, Phase
<1>3. Placed(f)' /\ Counted(f)'
  BY <1>1, AboutFire DEF Placed, Counted, process, identity, MaxRetries, Waiting, IndInv, TypeOK, Phase
<1>4. QED BY <1>1, <1>2, <1>3, AttemptStep DEF Live

\* The one step in which a text can arrive; that of a contract had not before.
LEMMA SendStep ==
  ASSUME IndInv, NEW f \in 1 .. fired, NEW arrives \in BOOLEAN, NEW ok \in BOOLEAN, Send(f, arrives, ok)
  PROVE  IndInv'
<1>1. /\ phase' = [phase EXCEPT ![f] = "sent"] /\ phase[f] = "sending"
      /\ arrivals' = [arrivals EXCEPT ![f] = IF arrives THEN @ + 1 ELSE @]
      /\ good' = [good EXCEPT ![f] = ok] /\ (proc[f] = "daemon" => Head(line) = f)
      /\ UNCHANGED <<process, identity, tries, row, started, queue, line>>
  BY DEF Send, database
<1>2. arrivals'[f] \in {arrivals[f], arrivals[f] + 1}
  BY <1>1 DEF IndInv, TypeOK, Phase
<1>3. \A g \in 1 .. fired : g # f => arrivals'[g] = arrivals[g]
  BY <1>1 DEF IndInv, TypeOK, Phase
<1>4. TypeOK'
  <2>1. \A g \in 1 .. fired' : tries'[g] \in 0 .. MaxRetries(sched[g])' + 1 /\ arrivals'[g] \in 0 .. tries'[g]
    <3> SUFFICES ASSUME NEW g \in 1 .. fired
                 PROVE  tries[g] \in 0 .. MaxRetries(sched[g]) + 1 /\ arrivals'[g] \in 0 .. tries[g]
      BY <1>1 DEF identity, MaxRetries
    <3>1. tries[g] \in 0 .. MaxRetries(sched[g]) + 1 /\ arrivals[g] \in 0 .. tries[g]
      BY DEF IndInv, TypeOK, Phase
    <3>2. CASE g = f
      <4>1. arrivals[f] < tries[f]
        BY <1>1, AboutFire DEF Counted
      <4>2. QED BY <1>2, <3>1, <3>2, <4>1, AboutFire
    <3>3. QED BY <1>3, <3>1, <3>2
  <2>2. arrivals' \in [1 .. fired -> Nat]
    <3>1. arrivals \in [1 .. fired -> Nat]
      BY DEF IndInv, TypeOK, Phase
    <3>2. CASE arrives
      BY <1>1, <3>1, <3>2
    <3>3. CASE ~arrives
      BY <1>1, <3>1, <3>3
    <3>4. QED BY <3>2, <3>3
  <2>3. QED BY <1>1, <2>1, <2>2 DEF IndInv, TypeOK, process, identity, Live, Phase
<1>5. phase'[f] = "sent"
  BY <1>1 DEF IndInv, TypeOK, Phase
<1>6. Placed(f)'
  BY <1>1, <1>5, AboutFire DEF Placed, process, identity
<1>7. Counted(f)'
  <2>1. table[sched[f]].contract => arrivals[f] = 0
    BY <1>1, AboutFire DEF Counted
  <2>2. QED BY <1>1, <1>2, <1>5, <2>1, AboutFire DEF Counted, Waiting, identity
<1>8. QED BY <1>1, <1>3, <1>4, <1>6, <1>7, AttemptStep DEF Live

\* The text at the head leaves the delivery queue; only a legacy schedule goes on.
LEMMA RecordDeliveryStep == ASSUME IndInv, NEW f \in 1 .. fired, RecordDelivery(f) PROVE IndInv'
<1>1. PICK l \in {"pausing", "finishing"} :
        /\ phase' = [phase EXCEPT ![f] = l]
        /\ l = "pausing" => tries[f] <= MaxRetries(sched[f]) /\ ~table[sched[f]].contract
        /\ good' \in [1 .. fired -> BOOLEAN]
  <2>1. CASE good[f] \/ table[sched[f]].contract
    BY <2>1 DEF RecordDelivery, Conclude, IndInv, TypeOK, Phase
  <2>2. CASE ~(good[f] \/ table[sched[f]].contract)
    BY <2>2, RetryFacts DEF RecordDelivery
  <2>3. QED BY <2>1, <2>2
<1>2. /\ phase[f] = "sent" /\ line' = IF proc[f] = "daemon" THEN Tail(line) ELSE line
      /\ UNCHANGED <<process, identity, tries, arrivals, row, started, queue>>
  BY DEF RecordDelivery
<1>3. proc[f] = "daemon" => In(line, f) /\ Head(line) = f
  BY <1>2, AboutFire DEF Placed
<1>4. line' \in Seq(Fire) /\ \A g \in 1 .. fired : g # f /\ In(line, g) => In(line', g)
  BY <1>2, <1>3, InTail DEF IndInv, TypeOK, Phase
<1>5. \A g \in 1 .. fired :
        g # f /\ proc[g] = "daemon" /\ phase[g] = "sent" => Head(line') = Head(line)
  BY <1>2, <1>3 DEF IndInv, FireInv, Placed
<1>6. TypeOK'
  BY <1>1, <1>2, <1>4 DEF IndInv, TypeOK, process, identity, Live, MaxRetries, Phase
<1>7. Placed(f)' /\ Counted(f)'
  BY <1>1, <1>2, AboutFire DEF Placed, Counted, process, identity, MaxRetries, Waiting, IndInv, TypeOK, Phase
<1>8. QED BY <1>1, <1>2, <1>4, <1>5, <1>6, <1>7, AttemptStep DEF Live

\* The next attempt is one that the table allows.
LEMMA NextAttemptStep == ASSUME IndInv, NEW f \in 1 .. fired, NextAttempt(f) PROVE IndInv'
<1>1. /\ phase' = [phase EXCEPT ![f] = "planning"] /\ phase[f] = "pausing"
      /\ tries' = [tries EXCEPT ![f] = @ + 1]
      /\ UNCHANGED <<process, identity, good, arrivals, row, started, queue, line>>
  BY DEF NextAttempt, database
<1>2. tries'[f] = tries[f] + 1 /\ \A g \in 1 .. fired : g # f => tries'[g] = tries[g]
  BY <1>1 DEF IndInv, TypeOK, Phase
<1>3. TypeOK'
  <2>1. \A g \in 1 .. fired' : tries'[g] \in 0 .. MaxRetries(sched[g])' + 1 /\ arrivals'[g] \in 0 .. tries'[g]
    <3> SUFFICES ASSUME NEW g \in 1 .. fired
                 PROVE  tries'[g] \in 0 .. MaxRetries(sched[g]) + 1 /\ arrivals[g] \in 0 .. tries'[g]
      BY <1>1 DEF identity, MaxRetries
    <3>1. tries[g] \in 0 .. MaxRetries(sched[g]) + 1 /\ arrivals[g] \in 0 .. tries[g]
      BY DEF IndInv, TypeOK, Phase
    <3>2. CASE g = f
      <4>1. tries[f] <= MaxRetries(sched[f])
        BY <1>1, AboutFire DEF Counted
      <4>2. QED BY <1>2, <3>1, <3>2, <4>1, AboutFire
    <3>3. QED BY <1>2, <3>1, <3>2
  <2>2. tries' \in [1 .. fired -> Nat]
    BY <1>1 DEF IndInv, TypeOK, Phase
  <2>3. QED BY <1>1, <2>1, <2>2 DEF IndInv, TypeOK, process, identity, Live, Phase
<1>4. arrivals[f] \in 0 .. tries[f]
  BY DEF IndInv, TypeOK, Phase
<1>5. phase'[f] = "planning"
  BY <1>1 DEF IndInv, TypeOK, Phase
<1>6. Placed(f)'
  BY <1>1, <1>5, AboutFire DEF Placed, process, identity
<1>7. Counted(f)'
  <2>1. table[sched[f]].contract => arrivals[f] = 0
    BY <1>1, AboutFire DEF Counted
  <2>2. QED BY <1>1, <1>2, <1>4, <1>5, <2>1, AboutFire DEF Counted, Waiting, identity
<1>8. QED BY <1>1, <1>2, <1>3, <1>6, <1>7, AttemptStep DEF Live

\* All steps of an attempt.
LEMMA AttemptInv == ASSUME IndInv, NEW f \in 1 .. fired, Attempt(f) \/ NextAttempt(f) PROVE IndInv'
BY PlanStep, WorkDoneStep, WorkKeptStep, WorkFailsStep, WorkEmptyStep, RecordDeliveryStep, SendStep,
   NextAttemptStep
   DEF Attempt

\* The row is closed by the firing that opened it.
LEMMA FinishStep == ASSUME IndInv, NEW f \in 1 .. fired, Finish(f) PROVE IndInv'
<1> DEFINE o == IF good[f] THEN "ok" ELSE "failed"
<1>1. /\ phase[f] = "finishing" /\ phase' = [phase EXCEPT ![f] = "over"]
      /\ row' = [row EXCEPT ![f] = o]
      /\ UNCHANGED <<process, identity, tries, good, arrivals, started, queue, line>>
  BY DEF Finish
<1>2. o \in {"ok", "failed"}
  OBVIOUS
<1> HIDE DEF o
<1>3. \A g \in 1 .. fired : /\ phase'[g] = IF g = f THEN "over" ELSE phase[g]
                            /\ row'[g] = IF g = f THEN o ELSE row[g]
  BY <1>1 DEF IndInv, TypeOK, Phase
<1>4. TypeOK'
  BY <1>1, <1>2 DEF IndInv, TypeOK, process, identity, MaxRetries, Phase
<1>5. ASSUME NEW g \in 1 .. fired PROVE Placed(g)' /\ Counted(g)' /\ Origin(g)' /\ Rowed(g)'
  <2>1. Placed(g)' /\ Counted(g)'
    BY <1>1, <1>3, AboutFire DEF Placed, Counted, process, identity, MaxRetries, Waiting
  <2>2. row[f] # "none"
    BY <1>1, AboutFire DEF Rowed, Live
  <2>3. Origin(g)'
    BY <1>1, <1>3, <2>2, AboutFire DEF Origin, Driver, process, identity
  <2>4. Overlooked(g) => Overlooked(g)'
    BY <1>1, <1>2, <1>3, FiredNat, ClosedGrows DEF identity
  <2>5. Rowed(g)'
    BY <1>1, <1>2, <1>3, <2>4, AboutFire DEF Rowed, Driver, Live, Waiting, process, identity
  <2>6. QED BY <2>1, <2>3, <2>5
<1>6. PairInv'
  <2>1. row[f] # "none"
    BY <1>1, AboutFire DEF Rowed, Live
  <2>2. \A g \in 1 .. fired : MayRun(g)' => MayRun(g)
    BY <1>3, <2>1 DEF MayRun, Waiting
  <2>3. QED BY <1>1, <2>2, PairsStay
<1>7. QED BY <1>1, <1>4, <1>5, <1>6 DEF IndInv, FireInv, identity

\* A process of the system scheduler interrupts rows, of live firings too: then
\* not every schedule is the daemon's.
LEMMA CliBootsStep == ASSUME IndInv, NEW f \in 1 .. fired, CliBoots(f) PROVE IndInv'
<1>1. /\ phase[f] = "booting" /\ phase' = [phase EXCEPT ![f] = "booted"] /\ Interrupt
      /\ UNCHANGED <<process, identity, tries, good, arrivals, started, queue, line>>
  BY DEF CliBoots
<1>2. \A g \in 1 .. fired :
        /\ phase'[g] = IF g = f THEN "booted" ELSE phase[g]
        /\ row'[g] = row[g] \/ (row[g] = "open" /\ row'[g] = "interrupted")
        /\ row'[g] = "open" => Overlooked(g)'
  BY <1>1, InterruptFacts DEF IndInv, TypeOK, identity
<1>3. TypeOK'
  <2>1. row' \in [1 .. fired -> {"none", "open", "ok", "failed", "interrupted"}]
    BY <1>1, InterruptFacts DEF identity
  <2>2. QED BY <1>1, <2>1 DEF IndInv, TypeOK, process, identity, MaxRetries, Phase
<1>4. sched[f] \in Schedule /\ Driver(sched[f]) # "internal"
  BY <1>1, AboutFire DEF Placed, Origin
<1>5. ASSUME NEW g \in 1 .. fired PROVE Placed(g)' /\ Counted(g)' /\ Origin(g)' /\ Rowed(g)'
  <2>1. Placed(g)' /\ Counted(g)'
    BY <1>1, <1>2, AboutFire DEF Placed, Counted, process, identity, MaxRetries, Waiting
  <2>2. Origin(g)'
    BY <1>1, <1>2, AboutFire DEF Origin, Driver, process, identity
  <2>3. \E s \in Schedule : Driver(s)' # "internal"
    BY <1>1, <1>4 DEF Driver, identity
  <2>4. Rowed(g)'
    BY <1>1, <1>2, <2>3, AboutFire DEF Rowed, Live, Waiting
  <2>5. QED BY <2>1, <2>2, <2>4
<1>6. PairInv'
  <2>1. \A g \in 1 .. fired : MayRun(g)' => MayRun(g)
    BY <1>1, <1>2 DEF MayRun, Waiting
  <2>2. QED BY <1>1, <2>1, PairsStay
<1>7. QED BY <1>1, <1>3, <1>5, <1>6 DEF IndInv, FireInv, identity

\* The row begins now, which is no earlier than the due time.
LEMMA ExecuteStep == ASSUME IndInv, NEW f \in 1 .. fired, ExecuteQueuedRun(f) PROVE IndInv'
<1>1. /\ row' = [row EXCEPT ![f] = "open"] /\ started' = [started EXCEPT ![f] = now]
      /\ phase' = [phase EXCEPT ![f] = "planning"] /\ tries' = [tries EXCEPT ![f] = 1]
      /\ UNCHANGED <<process, identity, good, arrivals, line>>
      /\ phase[f] \in {"queued", "booted"}
  BY DEF ExecuteQueuedRun
<1>2. \A g \in 1 .. fired :
        /\ phase'[g] = IF g = f THEN "planning" ELSE phase[g]
        /\ row'[g] = IF g = f THEN "open" ELSE row[g]
        /\ tries'[g] = IF g = f THEN 1 ELSE tries[g]
        /\ started'[g] = IF g = f THEN now ELSE started[g]
  BY <1>1 DEF IndInv, TypeOK, Phase
<1>3. /\ queue' \in [Schedule -> Seq(Fire)]
      /\ \A s \in Schedule : \A g : g # f /\ In(queue[s], g) => In(queue'[s], g)
  <2>1. CASE phase[f] = "queued"
    <3>1. In(queue[sched[f]], f) /\ Head(queue[sched[f]]) = f /\ sched[f] \in Schedule
      BY <2>1, AboutFire DEF Placed, ExecuteQueuedRun
    <3>2. queue' = [queue EXCEPT ![sched[f]] = Tail(@)]
      BY <2>1 DEF ExecuteQueuedRun
    <3>3. /\ Tail(queue[sched[f]]) \in Seq(Fire)
          /\ \A g : g # f /\ In(queue[sched[f]], g) => In(Tail(queue[sched[f]]), g)
      BY <3>1, InTail DEF IndInv, TypeOK, Phase
    <3>4. QED BY <3>1, <3>2, <3>3 DEF IndInv, TypeOK, Phase
  <2>2. CASE phase[f] = "booted"
    BY <2>2 DEF ExecuteQueuedRun, IndInv, TypeOK, Phase
  <2>3. QED BY <1>1, <2>1, <2>2
<1>4. tries[f] = 0 /\ arrivals[f] = 0
  <2>1. tries[f] = 0
    BY <1>1, AboutFire DEF Counted, Waiting
  <2>2. QED BY <2>1 DEF IndInv, TypeOK, Phase
<1>5. TypeOK'
  <2>1. \A g \in 1 .. fired' : tries'[g] \in 0 .. MaxRetries(sched[g])' + 1 /\ arrivals'[g] \in 0 .. tries'[g]
    <3> SUFFICES ASSUME NEW g \in 1 .. fired
                 PROVE  tries'[g] \in 0 .. MaxRetries(sched[g]) + 1 /\ arrivals[g] \in 0 .. tries'[g]
      BY <1>1 DEF identity, MaxRetries
    <3>1. tries[g] \in 0 .. MaxRetries(sched[g]) + 1 /\ arrivals[g] \in 0 .. tries[g]
      BY DEF IndInv, TypeOK, Phase
    <3>2. QED BY <1>2, <1>4, <3>1, AboutFire
  <2>2. tries' \in [1 .. fired -> Nat]
    BY <1>1 DEF IndInv, TypeOK, Phase
  <2>3. QED BY <1>1, <1>3, <2>1, <2>2 DEF IndInv, TypeOK, process, identity, Live, Phase
<1>6. ASSUME NEW g \in 1 .. fired PROVE Placed(g)' /\ Counted(g)' /\ Origin(g)' /\ Rowed(g)'
  <2>1. Placed(g)'
    BY <1>1, <1>2, <1>3, AboutFire DEF Placed, process, identity
  <2>2. Counted(g)'
    BY <1>1, <1>2, <1>4, AboutFire DEF Counted, Waiting, MaxRetries, identity
  <2>3. Origin(g)'
    BY <1>1, <1>2, AboutFire DEF Origin, Driver, process, identity
  <2>4. g # f /\ Overlooked(g) => Overlooked(g)'
    <3>1. row[f] = "none"
      BY <1>1, AboutFire DEF Rowed, Waiting
    <3>2. QED BY <1>1, <1>2, <3>1, FiredNat, ClosedGrows DEF identity
  <2>5. Rowed(g)'
    BY <1>1, <1>2, <2>4, AboutFire DEF Rowed, Driver, Live, Waiting, process, identity
  <2>6. QED BY <2>1, <2>2, <2>3, <2>5
<1>7. PairInv'
  <2>1. \A g \in 1 .. fired : MayRun(g)' => MayRun(g)
    BY <1>1, <1>2 DEF MayRun, Waiting
  <2>2. QED BY <1>1, <2>1, PairsStay
<1>8. QED BY <1>1, <1>5, <1>6, <1>7 DEF IndInv, FireInv, identity

\* Time passes.
LEMMA ClockStep == ASSUME IndInv, Clock PROVE IndInv'
<1>1. /\ now < MaxTime /\ now' = now + 1
      /\ UNCHANGED <<up, crashes, faults, manual, identity, phase, tries, good, arrivals, row, started, queue, line>>
  BY DEF Clock, database
<1>2. TypeOK'
  <2>1. now' \in 0 .. MaxTime
    BY <1>1, SchedulerAssumption DEF IndInv, TypeOK, Phase
  <2>2. QED BY <1>1, <2>1 DEF IndInv, TypeOK, identity, MaxRetries, Phase
<1>3. ASSUME NEW g \in 1 .. fired PROVE Placed(g)' /\ Counted(g)' /\ Origin(g)' /\ Rowed(g)'
  <2>1. Placed(g)' /\ Counted(g)' /\ Rowed(g)'
    BY <1>1, AboutFire DEF Placed, Counted, Rowed, Overlooked, ClosedSince, MaxRetries, Driver, identity
  <2>2. due[g] \in Nat /\ now \in Nat
    <3>1. due[g] \in 0 .. MaxTime /\ now \in 0 .. MaxTime
      BY DEF IndInv, TypeOK, Phase
    <3>2. QED BY <3>1, SchedulerAssumption
  <2>3. Origin(g)'
    BY <1>1, <2>2, AboutFire DEF Origin, Driver, identity
  <2>4. QED BY <2>1, <2>3
<1>4. PairInv'
  BY <1>1, PairsStay DEF MayRun
<1>5. QED BY <1>1, <1>2, <1>3, <1>4 DEF IndInv, FireInv, identity

\* A crash empties the queues and takes every firing of the daemon with it.
LEMMA CrashStep == ASSUME IndInv, Crash PROVE IndInv'
<1>1. /\ up /\ up' = FALSE /\ crashes < MaxCrash /\ crashes' = crashes + 1
      /\ phase' = [f \in 1 .. fired |->
                     IF proc[f] = "daemon" /\ phase[f] # "over" THEN "lost" ELSE phase[f]]
      /\ queue' = [s \in Schedule |-> <<>>] /\ line' = <<>>
      /\ UNCHANGED <<faults, now, manual, identity, tries, good, arrivals, row, started>>
  BY DEF Crash, database
<1>2. \A f \in 1 .. fired :
        phase'[f] = IF proc[f] = "daemon" /\ phase[f] # "over" THEN "lost" ELSE phase[f]
  BY <1>1
<1>3. TypeOK'
  <2>1. phase' \in [1 .. fired -> Phase]
    BY <1>1 DEF IndInv, TypeOK, Phase
  <2>2. queue' \in [Schedule -> Seq(Fire)] /\ line' \in Seq(Fire)
    BY <1>1
  <2>3. crashes' \in 0 .. MaxCrash
    BY <1>1, SchedulerAssumption DEF IndInv, TypeOK, Phase
  <2>4. QED BY <1>1, <2>1, <2>2, <2>3 DEF IndInv, TypeOK, identity, MaxRetries, Phase
<1>4. ASSUME NEW g \in 1 .. fired PROVE Placed(g)' /\ Counted(g)' /\ Origin(g)' /\ Rowed(g)'
  <2>1. Placed(g)'
    BY <1>1, <1>2, AboutFire DEF Placed, identity
  <2>2. Counted(g)'
    BY <1>1, <1>2, AboutFire DEF Counted, MaxRetries, Waiting, identity
  <2>3. Origin(g)'
    BY <1>1, AboutFire DEF Origin, Driver, identity
  <2>4. Rowed(g)'
    BY <1>1, <1>2, AboutFire DEF Rowed, Driver, identity, Live, Waiting
  <2>5. QED BY <2>1, <2>2, <2>3, <2>4
<1>5. PairInv'
  <2>1. \A g \in 1 .. fired : MayRun(g)' => MayRun(g)
    BY <1>1, <1>2 DEF MayRun, Waiting
  <2>2. QED BY <1>1, <2>1, PairsStay
<1>6. QED BY <1>1, <1>3, <1>4, <1>5 DEF IndInv, FireInv, identity

\* A restart finds no firing of the daemon at work.
LEMMA RestartStep == ASSUME IndInv, Restart PROVE IndInv'
<1>1. /\ ~up /\ up' = TRUE /\ Interrupt
      /\ UNCHANGED <<crashes, faults, now, manual, identity, phase, tries, good, arrivals, started, queue, line>>
  BY DEF Restart
<1>2. \A g \in 1 .. fired :
        /\ row'[g] = row[g] \/ (row[g] = "open" /\ row'[g] = "interrupted")
        /\ row'[g] = "open" => Overlooked(g)'
  BY <1>1, InterruptFacts DEF identity
<1>3. TypeOK'
  <2>1. row' \in [1 .. fired -> {"none", "open", "ok", "failed", "interrupted"}]
    BY <1>1, InterruptFacts DEF identity
  <2>2. QED BY <1>1, <2>1 DEF IndInv, TypeOK, identity, MaxRetries, Phase
<1>4. ASSUME NEW g \in 1 .. fired PROVE Placed(g)' /\ Counted(g)' /\ Origin(g)' /\ Rowed(g)'
  <2>1. Placed(g)' /\ Counted(g)'
    <3>1. Placed(g)'
      BY <1>1, AboutFire DEF Placed, identity
    <3>2. Counted(g)'
      BY <1>1, AboutFire DEF Counted, MaxRetries, identity
    <3>3. QED BY <3>1, <3>2
  <2>2. Origin(g)'
    BY <1>1, <1>2, AboutFire DEF Origin, Driver, identity
  <2>3. proc[g] = "daemon" => phase[g] \notin Live
    BY <1>1, AboutFire DEF Placed, Live
  <2>4. Rowed(g)'
    BY <1>1, <1>2, <2>3, AboutFire DEF Rowed, Driver, identity
  <2>5. QED BY <2>1, <2>2, <2>4
<1>5. PairInv'
  <2>1. \A g \in 1 .. fired : MayRun(g)' => MayRun(g)
    BY <1>1, <1>2 DEF MayRun
  <2>2. QED BY <1>1, <2>1, PairsStay
<1>6. QED BY <1>1, <1>3, <1>4, <1>5 DEF IndInv, FireInv, identity

\* A firing ends in the middle: its row stays what it was, and no process that
\* could be asked works on it.
LEMMA BreakStep ==
  ASSUME IndInv, TypeOK', NEW f \in 1 .. fired, NEW l \in {"rejected", "lost"},
         phase' = [phase EXCEPT ![f] = l], l = "lost" => proc[f] = "cli", l = "rejected" => up,
         UNCHANGED <<up, now, identity, tries, arrivals, row, started>>,
         \A g \in 1 .. fired : g # f =>
           /\ \A s \in Schedule : In(queue[s], g) => In(queue'[s], g)
           /\ In(line, g) => In(line', g)
           /\ proc[g] = "daemon" /\ phase[g] = "sent" => Head(line') = Head(line)
  PROVE  IndInv'
<1>1. \A g \in 1 .. fired : phase'[g] = IF g = f THEN l ELSE phase[g]
  BY DEF IndInv, TypeOK
<1>2. /\ table' = table /\ fired' = fired /\ sched' = sched /\ due' = due /\ proc' = proc
  BY DEF identity
<1>3. ASSUME NEW g \in 1 .. fired PROVE Placed(g)' /\ Counted(g)' /\ Origin(g)' /\ Rowed(g)'
  <2>1. Placed(g)'
    BY <1>1, <1>2, AboutFire DEF Placed
  <2>2. Counted(g)'
    BY <1>1, <1>2, AboutFire DEF Counted, Waiting, MaxRetries
  <2>3. Origin(g)'
    BY <1>2, AboutFire DEF Origin, Driver
  <2>4. Overlooked(g) => Overlooked(g)'
    BY <1>2 DEF Overlooked, ClosedSince
  <2>5. Rowed(g)'
    BY <1>1, <1>2, <2>4, AboutFire DEF Rowed, Driver, Live, Waiting
  <2>6. QED BY <2>1, <2>2, <2>3, <2>5
<1>4. PairInv'
  <2>1. \A g \in 1 .. fired : MayRun(g)' => MayRun(g)
    BY <1>1, <1>2 DEF MayRun, Waiting
  <2>2. QED BY <2>1, PairsStay
<1>5. QED BY <1>2, <1>3, <1>4 DEF IndInv, FireInv

\* The row could not be inserted.
LEMMA StartRejectsStep == ASSUME IndInv, NEW f \in 1 .. fired, StartRejects(f) PROVE IndInv'
<1>1. /\ up /\ phase[f] = "queued" /\ Head(queue[sched[f]]) = f
      /\ faults < MaxFault /\ faults' = faults + 1
      /\ queue' = [queue EXCEPT ![sched[f]] = Tail(@)] /\ phase' = [phase EXCEPT ![f] = "rejected"]
      /\ UNCHANGED <<up, crashes, now, manual, identity, tries, good, arrivals, row, started, line>>
  BY DEF StartRejects, database
<1>2. In(queue[sched[f]], f) /\ sched[f] \in Schedule
  BY <1>1, AboutFire DEF Placed
<1>3. /\ Tail(queue[sched[f]]) \in Seq(Fire)
      /\ \A g : g # f /\ In(queue[sched[f]], g) => In(Tail(queue[sched[f]]), g)
  BY <1>1, <1>2, InTail DEF IndInv, TypeOK
<1>4. /\ queue' \in [Schedule -> Seq(Fire)]
      /\ \A s \in Schedule : \A g : g # f /\ In(queue[s], g) => In(queue'[s], g)
  BY <1>1, <1>2, <1>3 DEF IndInv, TypeOK
<1>5. faults' \in 0 .. MaxFault
  BY <1>1, SchedulerAssumption DEF IndInv, TypeOK
<1>6. TypeOK'
  BY <1>1, <1>4, <1>5 DEF IndInv, TypeOK, identity, MaxRetries, Phase
<1>7. QED BY <1>1, <1>4, <1>6, BreakStep

\* An exception ends the attempts; a text that was sent leaves the delivery queue.
LEMMA RejectsStep == ASSUME IndInv, NEW f \in 1 .. fired, Rejects(f) PROVE IndInv'
<1>1. /\ proc[f] = "daemon" /\ faults < MaxFault /\ faults' = faults + 1
      /\ phase[f] \in {"finishing", "planning", "working", "sent"}
      /\ line' = IF phase[f] = "sent" THEN Tail(line) ELSE line
      /\ phase' = [phase EXCEPT ![f] = "rejected"]
      /\ UNCHANGED <<up, crashes, now, manual, identity, tries, good, arrivals, row, started, queue>>
  BY DEF Rejects, database
<1>2. up /\ (phase[f] = "sent" => In(line, f) /\ Head(line) = f)
  BY <1>1, AboutFire DEF Placed
<1>3. line' \in Seq(Fire) /\ \A g \in 1 .. fired : g # f /\ In(line, g) => In(line', g)
  BY <1>1, <1>2, InTail DEF IndInv, TypeOK
<1>4. \A g \in 1 .. fired :
        g # f /\ proc[g] = "daemon" /\ phase[g] = "sent" => Head(line') = Head(line)
  BY <1>1, <1>2 DEF IndInv, FireInv, Placed
<1>5. faults' \in 0 .. MaxFault
  BY <1>1, SchedulerAssumption DEF IndInv, TypeOK
<1>6. TypeOK'
  BY <1>1, <1>3, <1>5 DEF IndInv, TypeOK, identity, MaxRetries, Phase
<1>7. QED BY <1>1, <1>2, <1>3, <1>4, <1>6, BreakStep

\* A process of the system scheduler dies; it has its own queues.
LEMMA CliDiesStep == ASSUME IndInv, NEW f \in 1 .. fired, CliDies(f) PROVE IndInv'
<1>1. /\ proc[f] = "cli" /\ phase' = [phase EXCEPT ![f] = "lost"]
      /\ UNCHANGED <<up, crashes, faults, now, manual, identity, tries, good, arrivals, row, started,
                     queue, line>>
  BY DEF CliDies, process, database
<1>2. TypeOK'
  BY <1>1 DEF IndInv, TypeOK, identity, MaxRetries, Phase
<1>3. QED BY <1>1, <1>2, BreakStep

------------------------------------------------------------------------------
(* Firings *)

\* What a new firing adds, and that the old ones are as they were.
Extended(s, d, p, l) ==
  /\ fired' = fired + 1 /\ fired + 1 \in Fire /\ fired \in Nat
  /\ sched' \in [1 .. fired' -> Schedule] /\ due' \in [1 .. fired' -> 0 .. MaxTime]
  /\ proc' \in [1 .. fired' -> {"daemon", "cli"}]
  /\ phase' \in [1 .. fired' -> Phase]
  /\ tries' \in [1 .. fired' -> Nat] /\ arrivals' \in [1 .. fired' -> Nat]
  /\ good' \in [1 .. fired' -> BOOLEAN]
  /\ row' \in [1 .. fired' -> {"none", "open", "ok", "failed", "interrupted"}]
  /\ started' \in [1 .. fired' -> 0 .. MaxTime]
  /\ \A f \in 1 .. fired :
       /\ sched'[f] = sched[f] /\ due'[f] = due[f] /\ proc'[f] = proc[f]
       /\ phase'[f] = phase[f] /\ tries'[f] = tries[f] /\ arrivals'[f] = arrivals[f]
       /\ row'[f] = row[f] /\ started'[f] = started[f]
  /\ sched'[fired + 1] = s /\ due'[fired + 1] = d /\ proc'[fired + 1] = p
  /\ phase'[fired + 1] = l /\ tries'[fired + 1] = 0 /\ arrivals'[fired + 1] = 0
  /\ row'[fired + 1] = "none" /\ started'[fired + 1] = 0

\* Nine histories grow by one value each.
LEMMA NewFireFacts ==
  ASSUME IndInv, NEW s \in Schedule, NEW d \in 0 .. MaxTime, NEW p \in {"daemon", "cli"},
         NEW l \in Waiting, NewFire(s, d, p, l)
  PROVE  Extended(s, d, p, l)
<1>1. fired \in Nat /\ fired < MaxFire /\ fired' = fired + 1 /\ fired + 1 \in Fire
  BY MaxFireNat DEF IndInv, TypeOK, NewFire, Fire, Phase
<1>2. /\ l \in Phase
      /\ "none" \in {"none", "open", "ok", "failed", "interrupted"}
      /\ 0 \in 0 .. MaxTime /\ 0 \in Nat /\ FALSE \in BOOLEAN
  BY SchedulerAssumption DEF Waiting, Phase
<1>3. OneMore(sched', sched, fired, Schedule, s)
  <2>1. sched \in [1 .. fired -> Schedule] /\ sched' = Append(sched, s)
    BY DEF IndInv, TypeOK, NewFire, Phase
  <2>2. QED BY <1>1, <1>2, <2>1, AppendIsOneMore, Zenon
<1>4. OneMore(due', due, fired, 0 .. MaxTime, d)
  <2>1. due \in [1 .. fired -> 0 .. MaxTime] /\ due' = Append(due, d)
    BY DEF IndInv, TypeOK, NewFire, Phase
  <2>2. QED BY <1>1, <1>2, <2>1, AppendIsOneMore, Zenon
<1>5. OneMore(proc', proc, fired, {"daemon", "cli"}, p)
  <2>1. proc \in [1 .. fired -> {"daemon", "cli"}] /\ proc' = Append(proc, p)
    BY DEF IndInv, TypeOK, NewFire, Phase
  <2>2. QED BY <1>1, <1>2, <2>1, AppendIsOneMore, Zenon
<1>6. OneMore(phase', phase, fired, Phase, l)
  <2>1. phase \in [1 .. fired -> Phase] /\ phase' = Append(phase, l)
    BY DEF IndInv, TypeOK, NewFire, Phase
  <2>2. QED BY <1>1, <1>2, <2>1, AppendIsOneMore, Zenon
<1>7. OneMore(tries', tries, fired, Nat, 0)
  <2>1. tries \in [1 .. fired -> Nat] /\ tries' = Append(tries, 0)
    BY DEF IndInv, TypeOK, NewFire, Phase
  <2>2. QED BY <1>1, <1>2, <2>1, AppendIsOneMore, Zenon
<1>8. OneMore(arrivals', arrivals, fired, Nat, 0)
  <2>1. arrivals \in [1 .. fired -> Nat] /\ arrivals' = Append(arrivals, 0)
    BY DEF IndInv, TypeOK, NewFire, Phase
  <2>2. QED BY <1>1, <1>2, <2>1, AppendIsOneMore, Zenon
<1>9. OneMore(good', good, fired, BOOLEAN, FALSE)
  <2>1. good \in [1 .. fired -> BOOLEAN] /\ good' = Append(good, FALSE)
    BY DEF IndInv, TypeOK, NewFire, Phase
  <2>2. QED BY <1>1, <1>2, <2>1, AppendIsOneMore, Zenon
<1>10. OneMore(row', row, fired, {"none", "open", "ok", "failed", "interrupted"}, "none")
  <2>1. row \in [1 .. fired -> {"none", "open", "ok", "failed", "interrupted"}] /\ row' = Append(row, "none")
    BY DEF IndInv, TypeOK, NewFire, Phase
  <2>2. QED BY <1>1, <1>2, <2>1, AppendIsOneMore, Zenon
<1>11. OneMore(started', started, fired, 0 .. MaxTime, 0)
  <2>1. started \in [1 .. fired -> 0 .. MaxTime] /\ started' = Append(started, 0)
    BY DEF IndInv, TypeOK, NewFire, Phase
  <2>2. QED BY <1>1, <1>2, <2>1, AppendIsOneMore, Zenon
<1>12. QED BY <1>1, <1>3, <1>4, <1>5, <1>6, <1>7, <1>8, <1>9, <1>10, <1>11 DEF Extended, OneMore

\* A new firing that is placed, has a known origin and meets no other firing
\* that is or may be executed for the same occurrence keeps the invariant.
LEMMA NewFireStep ==
  ASSUME IndInv, NEW s \in Schedule, NEW d \in 0 .. MaxTime, NEW p \in {"daemon", "cli"},
         NEW l \in Waiting, NewFire(s, d, p, l),
         UNCHANGED <<up, crashes, faults, now>>, manual' \in 0 .. MaxManual,
         queue' \in [Schedule -> Seq(Fire)],
         \A t \in Schedule : \A g : In(queue[t], g) => In(queue'[t], g),
         d <= now,
         \/ p = "daemon" /\ l = "queued" /\ up /\ In(queue'[s], fired + 1)
            /\ (d # 0 => Driver(s) # "system_crontab")
         \/ p = "cli" /\ l = "booting" /\ Driver(s) # "internal",
         \A f \in 1 .. fired :
           sched[f] = s /\ due[f] = d /\ d # 0 /\ MayRun(f) => Driver(s) = "system_schtasks" /\ proc[f] # p
  PROVE  IndInv'
<1>1. /\ Extended(s, d, p, l)
      /\ table' = table /\ line' = line /\ up' = up /\ now' = now /\ crashes' = crashes
      /\ faults' = faults
  BY NewFireFacts DEF NewFire
<1>2. 1 .. fired' = 1 .. fired \cup {fired + 1} /\ fired + 1 \notin 1 .. fired /\ fired' \in 0 .. MaxFire
  <2>1. fired' = fired + 1 /\ fired \in Nat /\ fired + 1 \in 1 .. MaxFire
    BY <1>1 DEF Extended, Fire
  <2>2. QED BY <2>1, MaxFireNat
<1>3. TypeOK'
  <2>1. ASSUME NEW f \in 1 .. fired'
        PROVE  tries'[f] \in 0 .. MaxRetries(sched[f])' + 1 /\ arrivals'[f] \in 0 .. tries'[f]
    <3>1. CASE f \in 1 .. fired
      BY <1>1, <3>1 DEF Extended, IndInv, TypeOK, MaxRetries, Phase
    <3>2. CASE f = fired + 1
      <4>1. MaxRetries(sched[f])' \in Nat
        BY <1>1, <3>2, SchedulerAssumption DEF Extended, MaxRetries, IndInv, TypeOK, Phase
      <4>2. QED BY <1>1, <3>2, <4>1 DEF Extended
    <3>3. QED BY <1>2, <3>1, <3>2
  <2>2. QED BY <1>1, <1>2, <2>1 DEF Extended, IndInv, TypeOK, Phase
<1>4. ASSUME NEW g \in 1 .. fired PROVE Placed(g)' /\ Counted(g)' /\ Origin(g)' /\ Rowed(g)'
  <2>1. /\ sched'[g] = sched[g] /\ due'[g] = due[g] /\ proc'[g] = proc[g]
        /\ phase'[g] = phase[g] /\ tries'[g] = tries[g] /\ arrivals'[g] = arrivals[g]
        /\ row'[g] = row[g] /\ started'[g] = started[g]
    BY <1>1 DEF Extended
  <2>2. Placed(g)'
    <3>1. Placed(g) /\ sched[g] \in Schedule
      BY AboutFire
    <3>2. In(queue[sched[g]], g) => In(queue'[sched'[g]], g)
      BY <2>1, <3>1
    <3>3. QED BY <1>1, <2>1, <3>1, <3>2 DEF Placed
  <2>3. Counted(g)'
    BY <1>1, <2>1, AboutFire DEF Counted, MaxRetries
  <2>4. Origin(g)'
    BY <1>1, <2>1, AboutFire DEF Origin, Driver
  <2>5. Rowed(g)'
    <3>1. \A t \in Schedule : Driver(t)' = Driver(t)
      BY <1>1 DEF Driver
    <3>2. Overlooked(g) => Overlooked(g)'
      <4>1. fired \in Nat /\ fired' = fired + 1
        BY <1>1 DEF Extended
      <4>2. \A h \in 1 .. fired : row'[h] = row[h] /\ started'[h] = started[h]
        BY <1>1 DEF Extended
      <4>3. QED BY <4>1, <4>2, ClosedGrows
    <3>3. QED BY <1>1, <2>1, <3>1, <3>2, AboutFire DEF Rowed
  <2>6. QED BY <2>2, <2>3, <2>4, <2>5
<1>5. ASSUME NEW g, g = fired + 1 PROVE Placed(g)' /\ Counted(g)' /\ Origin(g)' /\ Rowed(g)'
  <2>1. Placed(g)'
    BY <1>1, <1>5 DEF Extended, Placed, Waiting
  <2>2. Counted(g)'
    BY <1>1, <1>5 DEF Extended, Counted, Waiting
  <2>3. Origin(g)'
    BY <1>1, <1>5 DEF Extended, Origin, Driver
  <2>4. Rowed(g)'
    BY <1>1, <1>5 DEF Extended, Rowed, Live, Waiting
  <2>5. QED BY <2>1, <2>2, <2>3, <2>4
<1>6. PairInv'
  <2> SUFFICES ASSUME NEW f \in 1 .. fired', NEW g \in 1 .. fired', f # g,
                      sched'[f] = sched'[g], due'[f] = due'[g], due'[f] # 0, MayRun(f)', MayRun(g)'
               PROVE  (Driver(sched[f]) = "system_schtasks")' /\ proc'[f] # proc'[g]
    BY DEF PairInv, SameOccurrence
  <2>1. \A h \in 1 .. fired : MayRun(h)' => MayRun(h)
    BY <1>1 DEF Extended, MayRun
  <2>2. CASE f \in 1 .. fired /\ g \in 1 .. fired
    <3>1. SameOccurrence(f, g) /\ MayRun(f) /\ MayRun(g)
      BY <1>1, <2>1, <2>2 DEF Extended, SameOccurrence
    <3>2. Driver(sched[f]) = "system_schtasks" /\ proc[f] # proc[g]
      BY <2>2, <3>1 DEF IndInv, PairInv
    <3>3. QED BY <1>1, <2>2, <3>2 DEF Extended, Driver
  <2>3. CASE f \in 1 .. fired /\ g = fired + 1
    BY <1>1, <2>1, <2>3 DEF Extended, Driver
  <2>4. CASE f = fired + 1 /\ g \in 1 .. fired
    BY <1>1, <2>1, <2>4 DEF Extended, Driver
  <2>5. QED BY <1>2, <2>2, <2>3, <2>4
<1>7. QED BY <1>2, <1>3, <1>4, <1>5, <1>6 DEF IndInv, FireInv

\* The last start of a schedule's rows is a number, and no row began later.
LEMMA LastRunAtFacts ==
  ASSUME IndInv, NEW s \in Schedule
  PROVE  /\ LastRunAt(s) \in 0 .. MaxTime
         /\ \A f \in 1 .. fired : sched[f] = s /\ row[f] # "none" => started[f] <= LastRunAt(s)
<1> DEFINE starts == {started[f] : f \in {g \in Fires(s) : row[g] # "none"}} \cup {0}
<1>1. starts \in SUBSET (0 .. MaxTime) /\ starts # {}
  BY SchedulerAssumption DEF Fires, IndInv, TypeOK, Phase
<1>2. \E t \in starts : \A u \in starts : u <= t
  BY <1>1, GreatestNatural, SchedulerAssumption
<1>3. LastRunAt(s) = CHOOSE t \in starts : \A u \in starts : u <= t
  BY DEF LastRunAt
<1>4. LastRunAt(s) \in starts /\ \A u \in starts : u <= LastRunAt(s)
  <2> HIDE DEF starts
  <2>1. QED BY <1>2, <1>3, Zenon
<1>5. \A f \in 1 .. fired : sched[f] = s /\ row[f] # "none" => started[f] \in starts
  BY DEF Fires
<1>6. QED BY <1>1, <1>4, <1>5

\* The tick takes the first due time after the last start.
LEMMA TickStep == ASSUME IndInv, NEW s \in Schedule, Tick(s) PROVE IndInv'
<1> DEFINE d == CHOOSE d \in DueNow(s) : \A e \in DueNow(s) : d <= e
<1>1. /\ up /\ Driver(s) # "system_crontab" /\ queue[s] = <<>> /\ DueNow(s) # {}
      /\ NewFire(s, d, "daemon", "queued")
      /\ queue' = [queue EXCEPT ![s] = Append(@, fired')]
      /\ UNCHANGED <<up, crashes, faults, now, manual>>
  BY DEF Tick, process
<1>2. d \in DueNow(s)
  <2>1. DueNow(s) \in SUBSET Nat
    BY SchedulerAssumption DEF DueNow, DueTimes, IndInv, TypeOK, Phase
  <2>2. \E e \in DueNow(s) : \A x \in DueNow(s) : e <= x
    BY <1>1, <2>1, LeastNatural
  <2>3. QED BY <2>2, Zenon
<1>3. d \in 1 .. MaxTime /\ d <= now /\ d > LastRunAt(s)
  BY <1>2, SchedulerAssumption DEF DueNow, DueTimes, IndInv, TypeOK, Phase
<1> HIDE DEF d
<1>4. d \in 0 .. MaxTime /\ "queued" \in Waiting
  BY <1>3, SchedulerAssumption DEF Waiting
<1>5. Extended(s, d, "daemon", "queued")
  BY <1>1, <1>4, NewFireFacts
<1>6. fired' = fired + 1 /\ fired + 1 \in Fire
  BY <1>5 DEF Extended
<1>7. /\ queue' \in [Schedule -> Seq(Fire)] /\ In(queue'[s], fired + 1)
      /\ \A t \in Schedule : \A g : In(queue[t], g) => In(queue'[t], g)
  <2>1. queue \in [Schedule -> Seq(Fire)]
    BY DEF IndInv, TypeOK, Phase
  <2>2. QED BY <1>1, <1>6, <2>1, InAppend
<1>8. ASSUME NEW f \in 1 .. fired, sched[f] = s, due[f] = d, MayRun(f)
      PROVE  Driver(s) = "system_schtasks" /\ proc[f] # "daemon"
  <2>1. row[f] = "none"
    <3>1. row[f] # "none" => due[f] <= started[f] /\ started[f] <= LastRunAt(s)
      BY <1>8, AboutFire, LastRunAtFacts DEF Origin
    <3>2. started[f] \in 0 .. MaxTime
      BY DEF IndInv, TypeOK, Phase
    <3>3. LastRunAt(s) \in 0 .. MaxTime
      BY LastRunAtFacts
    <3>4. QED BY <1>3, <1>8, <3>1, <3>2, <3>3, SchedulerAssumption
  <2>2. phase[f] # "queued"
    <3>1. ~In(<<>>, f)
      BY DEF In
    <3>2. QED BY <1>1, <1>8, <3>1, AboutFire DEF Placed
  <2>3. phase[f] \in {"booting", "booted"}
    BY <1>8, <2>1, <2>2 DEF MayRun, Waiting
  <2>4. proc[f] = "cli" /\ Driver(s) # "internal"
    BY <1>8, <2>3, AboutFire DEF Placed, Origin
  <2>5. QED BY <1>1, <2>4, SchedulerAssumption DEF Driver, IndInv, TypeOK
<1>9. manual' \in 0 .. MaxManual
  BY <1>1 DEF IndInv, TypeOK, Phase
<1>10. QED BY <1>1, <1>3, <1>4, <1>7, <1>8, <1>9, NewFireStep

\* A manual run is for no occurrence.
LEMMA RunNowStep == ASSUME IndInv, NEW s \in Schedule, RunNow(s) PROVE IndInv'
<1>1. /\ up /\ manual < MaxManual /\ manual' = manual + 1
      /\ NewFire(s, 0, "daemon", "queued")
      /\ queue' = [queue EXCEPT ![s] = Append(@, fired')]
      /\ UNCHANGED <<up, crashes, faults, now>>
  BY DEF RunNow
<1>2. 0 \in 0 .. MaxTime /\ "queued" \in Waiting /\ 0 <= now
  BY SchedulerAssumption DEF Waiting, IndInv, TypeOK, Phase
<1>3. Extended(s, 0, "daemon", "queued")
  BY <1>1, <1>2, NewFireFacts
<1>4. fired' = fired + 1 /\ fired + 1 \in Fire
  BY <1>3 DEF Extended
<1>5. /\ queue' \in [Schedule -> Seq(Fire)] /\ In(queue'[s], fired + 1)
      /\ \A t \in Schedule : \A g : In(queue[t], g) => In(queue'[t], g)
  <2>1. queue \in [Schedule -> Seq(Fire)]
    BY DEF IndInv, TypeOK, Phase
  <2>2. QED BY <1>1, <1>4, <2>1, InAppend
<1>6. manual' \in 0 .. MaxManual
  BY <1>1, SchedulerAssumption DEF IndInv, TypeOK, Phase
<1>7. QED BY <1>1, <1>2, <1>5, <1>6, NewFireStep

\* The system scheduler starts one process for a due time.
LEMMA SystemFiresStep == ASSUME IndInv, NEW s \in Schedule, SystemFires(s) PROVE IndInv'
<1>1. /\ Driver(s) # "internal" /\ now \in DueTimes(s)
      /\ \A f \in Fires(s) : ~(proc[f] = "cli" /\ due[f] = now)
      /\ NewFire(s, now, "cli", "booting")
      /\ UNCHANGED <<up, crashes, faults, now, manual, queue>>
  BY DEF SystemFires, process
<1>2. now \in 0 .. MaxTime /\ "booting" \in Waiting /\ now <= now
  BY SchedulerAssumption DEF Waiting, IndInv, TypeOK, Phase
<1>3. ASSUME NEW f \in 1 .. fired, sched[f] = s, due[f] = now, now # 0
      PROVE  Driver(s) = "system_schtasks" /\ proc[f] # "cli"
  <2>1. proc[f] = "daemon"
    BY <1>1, <1>3, AboutFire DEF Fires
  <2>2. Driver(s) # "system_crontab"
    BY <1>3, <2>1, AboutFire DEF Origin
  <2>3. QED BY <1>1, <2>1, <2>2, SchedulerAssumption DEF Driver, IndInv, TypeOK
<1>4. manual' \in 0 .. MaxManual /\ queue' \in [Schedule -> Seq(Fire)]
  BY <1>1 DEF IndInv, TypeOK, Phase
<1>5. QED BY <1>1, <1>2, <1>3, <1>4, NewFireStep

------------------------------------------------------------------------------
(* The theorems *)

\* Nothing has fired at the start.
LEMMA InitInv == Init => IndInv
<1> SUFFICES ASSUME Init PROVE IndInv
  OBVIOUS
<1>1. 1 .. fired = {} /\ fired = 0
  BY DEF Init
<1>2. TypeOK
  <2>1. <<>> \in [1 .. 0 -> {}]
    OBVIOUS
  <2>2. \A S : <<>> \in [1 .. fired -> S]
    BY <1>1
  <2>3. 0 \in 0 .. MaxTime /\ 0 \in 0 .. MaxManual /\ 0 \in 0 .. MaxCrash /\ 0 \in 0 .. MaxFault /\ 0 \in 0 .. MaxFire
    BY SchedulerAssumption, MaxFireNat
  <2>4. QED BY <1>1, <2>2, <2>3 DEF Init, TypeOK, Phase
<1>3. QED BY <1>1, <1>2 DEF IndInv, FireInv, PairInv

\* Every step keeps the invariant.
LEMMA NextInv == ASSUME IndInv, [Next]_vars PROVE IndInv'
<1>1. ASSUME NEW s \in Schedule, Tick(s) \/ RunNow(s) \/ SystemFires(s) PROVE IndInv'
  BY <1>1, TickStep, RunNowStep, SystemFiresStep
<1>2. ASSUME NEW f \in Fire, Advance(f) PROVE IndInv'
  <2>1. f \in 1 .. fired
    BY <1>2, MaxFireNat DEF Advance, Fire, IndInv, TypeOK, Phase
  <2>2. QED BY <1>2, <2>1, CliBootsStep, ExecuteStep, AttemptInv, FinishStep DEF Advance
<1>3. ASSUME NEW f \in Fire, Breaks(f) PROVE IndInv'
  <2>1. f \in 1 .. fired
    BY <1>3, MaxFireNat DEF Breaks, Fire, IndInv, TypeOK
  <2>2. QED BY <1>3, <2>1, StartRejectsStep, RejectsStep, CliDiesStep DEF Breaks
<1>4. CASE UNCHANGED vars
  <2>1. UNCHANGED <<process, identity, phase, tries, good, arrivals, row, started, queue, line>>
    BY <1>4 DEF vars, database
  <2>2. TypeOK'
    BY <2>1 DEF IndInv, TypeOK, process, identity, MaxRetries, Phase
  <2>3. ASSUME NEW g \in 1 .. fired PROVE Placed(g)' /\ Counted(g)' /\ Origin(g)' /\ Rowed(g)'
    BY <2>1, AboutFire DEF Placed, Counted, Origin, Rowed, Overlooked, ClosedSince, MaxRetries, Driver,
                           process, identity
  <2>4. PairInv'
    BY <2>1, PairsStay DEF MayRun
  <2>5. QED BY <2>1, <2>2, <2>3, <2>4 DEF IndInv, FireInv, identity
<1>5. QED BY <1>1, <1>2, <1>3, <1>4, ClockStep, CrashStep, RestartStep DEF Next

\* The invariant holds in every reachable state.
THEOREM FiringsAreAccounted == Spec => []IndInv
<1>1. IndInv /\ [Next]_vars => IndInv'
  BY NextInv
<1>2. QED BY InitInv, <1>1, PTL DEF Spec

\* Types, and that a firing is never tried more often than max_retries allows
\* (executeQueuedRun) nor arrives more often than it was tried.
THEOREM TypeCorrect == Spec => []TypeOK
<1>1. IndInv => TypeOK
  BY DEF IndInv
<1>2. QED BY FiringsAreAccounted, <1>1, PTL

\* The text of a contract's firing arrives at most once (executeScheduleContract
\* never repeats an attempt once a send was begun).
THEOREM ContractTextArrivesOnce == Spec => []ContractSentOnce
<1>1. IndInv => ContractSentOnce
  BY DEF IndInv, FireInv, Counted, ContractSentOnce
<1>2. QED BY FiringsAreAccounted, <1>1, PTL

\* With the daemon up, every unfinished row of it in schedule_runs has a firing
\* that works on it, was left by an exception in this life of the daemon, or is
\* beyond the limit of interruptUnfinishedScheduleRunsOnStartup.
THEOREM OpenRowsAreLive == Spec => []OpenRowIsLive
<1>1. IndInv => OpenRowIsLive
  BY DEF IndInv, FireInv, Rowed, Overlooked, OpenRowIsLive
<1>2. QED BY FiringsAreAccounted, <1>1, PTL

\* Without the system scheduler, no row of a firing at work is closed as
\* interrupted.
THEOREM InterruptedFiringsAreOver == Spec => []InterruptedIsOver
<1>1. IndInv => InterruptedIsOver
  <2> SUFFICES ASSUME IndInv, \A s \in Schedule : Driver(s) = "internal",
                      NEW f \in 1 .. fired, row[f] = "interrupted"
               PROVE  phase[f] \notin Live
    BY DEF InterruptedIsOver
  <2>1. proc[f] = "daemon"
    BY AboutFire DEF Origin
  <2>2. QED BY <2>1, AboutFire DEF Rowed
<1>2. QED BY FiringsAreAccounted, <1>1, PTL

\* However ticks, manual runs, retries, exceptions and crashes interleave, an
\* occurrence has at most one row of each process, and two only when the
\* schedule's driver is system_schtasks, which resolveScheduleTickDirective does
\* not leave to the system scheduler.
THEOREM OnlySchtasksRunsTwice == Spec => []TwiceBySchtasksOnly
<1>1. IndInv => TwiceBySchtasksOnly
  BY DEF IndInv, PairInv, MayRun, TwiceBySchtasksOnly
<1>2. QED BY FiringsAreAccounted, <1>1, PTL
=============================================================================
