------------------------- MODULE ChunkDeliveryProofs -------------------------
(***************************************************************************)
(* The limits of the backpressure queue, the order of the sends and the    *)
(* backoff, for every budget and any number of chunks and targets.         *)
(*                                                                         *)
(* WithinBudget is not inductive by itself: a push is allowed beyond       *)
(* MaxPending whenever a slot is free, and it is NoIdleSlot that makes the *)
(* list empty then. NoIdleSlot in turn needs running <= Concurrency.       *)
(* Together with the types of the two variables they are inductive         *)
(* (QueueInv).                                                             *)
(*                                                                         *)
(* SentInOrder compares two calls of the history. It needs the chain of    *)
(* their target in between (LineInv): the chain holds the calls that are   *)
(* not over in the order of the history, and only its first has left the   *)
(* wait, so everything before that one is over (DoneInv). The backoff is   *)
(* tested there too, and only a call that has passed the test may begin    *)
(* the next one (BackoffInv). The counter of the running jobs is the       *)
(* number of sends that are neither settled nor timed out (CountInv,       *)
(* SendInv); it stays exact because runNext starts each waiting job once   *)
(* (PendInv).                                                              *)
(***************************************************************************)
EXTENDS ChunkDelivery, SequenceFacts, TLAPS

QueueInv ==
  /\ pending \in Seq(Chunk)
  /\ running \in Nat
  /\ WithinBudget
  /\ NoIdleSlot

\* What runNext leaves behind: no overdrawn slot, a list no longer than
\* before, and a waiting job only when every slot is taken.
LEMMA RunNextFacts ==
  ASSUME NEW p \in Seq(Chunk), NEW n \in Nat, n <= Concurrency,
         NEW at, NEW sent, RunNext(p, n, at, sent)
  PROVE  /\ pending' \in Seq(Chunk)
         /\ running' \in Nat /\ running' <= Concurrency
         /\ Len(pending') <= Len(p)
         /\ pending' # <<>> => running' = Concurrency
         /\ n < Concurrency /\ Len(p) = 1 => pending' = <<>>
<1> DEFINE k == Startable(p, n)
           m == Len(p)
<1>1. Concurrency \in Nat /\ m \in Nat
  BY BudgetAssumption
<1>2. /\ k \in Nat /\ k <= m /\ n + k <= Concurrency
      /\ k = m \/ n + k = Concurrency
      /\ n < Concurrency /\ m = 1 => k = 1
  <2>1. k = IF n >= Concurrency THEN 0 ELSE IF Concurrency - n < m THEN Concurrency - n ELSE m
    BY DEF Startable
  <2> HIDE DEF k, m
  <2> QED
    BY <1>1, <2>1
<1>3. pending' = SubSeq(p, k + 1, Len(p)) /\ running' = n + k
  BY DEF RunNext
<1> HIDE DEF k
<1>4. /\ SubSeq(p, k + 1, Len(p)) \in Seq(Chunk)
      /\ Len(SubSeq(p, k + 1, Len(p))) = Len(p) - k
  <2>1. \A i \in k + 1 .. Len(p) : p[i] \in Chunk
    BY <1>1, <1>2
  <2> QED
    BY <1>1, <1>2, <2>1, SubSeqProperties
<1>5. k = Len(p) => SubSeq(p, k + 1, Len(p)) = <<>>
  BY <1>1, <1>2, SubSeqEmpty
<1> QED
  BY <1>1, <1>2, <1>3, <1>4, <1>5

\* QueueInv is preserved by the two places that touch the queue.
LEMMA EnqueueJobStep ==
  ASSUME QueueInv, NEW c \in Chunk, EnqueueJob(c)
  PROVE  QueueInv'
<1>1. CASE QueueFull /\ UNCHANGED <<pending, running>>
  BY <1>1 DEF QueueInv, WithinBudget, NoIdleSlot
<1>2. CASE ~QueueFull /\ RunNext(Append(pending, c), running, [pc EXCEPT ![c] = "queued"], send)
  <2> DEFINE p == Append(pending, c)
  <2>1. /\ Concurrency \in Nat /\ MaxPending \in Nat
        /\ p \in Seq(Chunk) /\ Len(p) = Len(pending) + 1 /\ Len(pending) \in Nat
        /\ running \in Nat /\ running <= Concurrency /\ Len(pending) <= MaxPending
    BY BudgetAssumption, AppendProperties DEF QueueInv, WithinBudget
  <2>2. RunNext(p, running, [pc EXCEPT ![c] = "queued"], send)
    BY <1>2
  <2> HIDE DEF p
  <2>3. /\ pending' \in Seq(Chunk)
        /\ running' \in Nat /\ running' <= Concurrency
        /\ Len(pending') <= Len(p)
        /\ pending' # <<>> => running' = Concurrency
        /\ running < Concurrency /\ Len(p) = 1 => pending' = <<>>
    BY <2>1, <2>2, RunNextFacts
  <2>4. Len(pending') <= MaxPending
    <3>1. CASE running < Concurrency
      <4>1. pending = <<>>
        BY <2>1, <3>1 DEF QueueInv, NoIdleSlot
      <4>2. pending' = <<>>
        BY <2>1, <2>3, <3>1, <4>1
      <4> QED
        BY <2>1, <4>2
    <3>2. CASE ~(running < Concurrency)
      <4>1. Len(pending) < MaxPending
        BY <1>2, <2>1, <3>2 DEF QueueFull
      <4> QED
        BY <2>1, <2>3, <4>1
    <3> QED
      BY <3>1, <3>2
  <2> QED
    BY <2>3, <2>4 DEF QueueInv, WithinBudget, NoIdleSlot
<1> QED
  BY <1>1, <1>2 DEF EnqueueJob

\* The end of a job keeps the queue invariant: the freed slot is refilled by
\* the finally block of runJob before anybody else acts.
LEMMA SettleJobStep ==
  ASSUME QueueInv, NEW c \in Chunk, NEW r, NEW s, SettleJob(c, r, s)
  PROVE  QueueInv'
<1> DEFINE n == IF running = 0 THEN 0 ELSE running - 1
<1>1. /\ Concurrency \in Nat /\ MaxPending \in Nat
      /\ pending \in Seq(Chunk) /\ Len(pending) \in Nat /\ Len(pending) <= MaxPending
      /\ n \in Nat /\ n <= Concurrency
  BY BudgetAssumption DEF QueueInv, WithinBudget
<1>2. RunNext(pending, n, [pc EXCEPT ![c] = "settled"], [send EXCEPT ![c] = s])
  BY DEF SettleJob
<1> HIDE DEF n
<1>3. /\ pending' \in Seq(Chunk)
      /\ running' \in Nat /\ running' <= Concurrency
      /\ Len(pending') <= Len(pending)
      /\ pending' # <<>> => running' = Concurrency
  BY <1>1, <1>2, RunNextFacts
<1>4. Len(pending') \in Nat
  BY <1>3
<1> QED
  BY <1>1, <1>3, <1>4 DEF QueueInv, WithinBudget, NoIdleSlot

\* Only the attempt and the two ends of a job touch the backpressure queue.
LEMMA QueueInvNext == QueueInv /\ [Next]_vars => QueueInv'
<1> SUFFICES ASSUME QueueInv, [Next]_vars PROVE QueueInv'
  OBVIOUS
<1>1. ASSUME NEW c \in Chunk, Attempt(c) PROVE QueueInv'
  BY <1>1, EnqueueJobStep DEF Attempt
<1>2. ASSUME NEW c \in Chunk, NEW s \in Outcome, NEW limited \in BOOLEAN, SendReturns(c, s, limited)
      PROVE  QueueInv'
  BY <1>2, SettleJobStep DEF SendReturns
<1>3. ASSUME NEW c \in Chunk, TimesOut(c) PROVE QueueInv'
  BY <1>3, SettleJobStep DEF TimesOut
<1>4. ASSUME UNCHANGED <<pending, running>> PROVE QueueInv'
  BY <1>4 DEF QueueInv, WithinBudget, NoIdleSlot
<1>5. ASSUME NEW c \in Chunk,
             Submit(c) \/ Sleep(c) \/ Release(c) \/ \E s \in Outcome : ReturnsLate(c, s)
      PROVE  QueueInv'
  BY <1>4, <1>5 DEF Submit, Sleep, Release, ReturnsLate
<1>6. ASSUME (\E t \in Target : BackoffEnds(t)) \/ UNCHANGED vars PROVE QueueInv'
  BY <1>4, <1>6 DEF BackoffEnds, vars
<1> QED
  BY <1>1, <1>2, <1>3, <1>5, <1>6 DEF Next, Quiescent

\* No job is pending or running when the process starts.
LEMMA QueueInvInit == Init => QueueInv
BY BudgetAssumption, EmptySeq DEF Init, QueueInv, WithinBudget, NoIdleSlot

\* For every budget, the delivery queue never overdraws its slots or its
\* pending list (queue-backpressure.ts, enqueueBackpressureTask and runNext).
THEOREM DeliveryStaysWithinBudget == Spec => []WithinBudget
<1>1. QueueInv => WithinBudget
  BY DEF QueueInv
<1> QED
  BY <1>1, QueueInvInit, QueueInvNext, PTL DEF Spec

\* For every budget, no delivery job waits beside a free slot.
THEOREM DeliverySlotsAreUsed == Spec => []NoIdleSlot
<1>1. QueueInv => NoIdleSlot
  BY DEF QueueInv
<1> QED
  BY <1>1, QueueInvInit, QueueInvNext, PTL DEF Spec

------------------------------------------------------------------------------
(* Order, backoff and the count of the running jobs *)

Busy    == {"sleeping", "awake", "queued", "sending", "settled"}
Chained == Busy \cup {"lined"}

\* The types without the count of the running jobs.
Types ==
  /\ target \in [Chunk -> Target]
  /\ line \in [Target -> Seq(Chunk)]
  /\ backoff \subseteq Target
  /\ pc \in [Chunk -> Location]
  /\ send \in [Chunk -> Send]
  /\ result \in [Chunk -> Result]
  /\ log \in Seq(Chunk)

\* Of two calls in the history l, c came before d.
Before(l, c, d) == \A i, j \in 1 .. Len(l) : l[i] = c /\ l[j] = d => i < j

\* Each call is in the history once.
LogInv == Distinct(log) /\ \A c \in Chunk : pc[c] = "new" <=> ~In(log, c)

\* The chain of a target holds its calls that are not over, in their order, and
\* only the first of them has left the chain's wait.
LineInv ==
  /\ \A t \in Target :
       /\ \A a \in 1 .. Len(line[t]) : target[line[t][a]] = t /\ pc[line[t][a]] \in Chained
       /\ \A a, b \in 1 .. Len(line[t]) : a < b => Before(log, line[t][a], line[t][b])
  /\ \A c \in Chunk : pc[c] \in Chained => In(line[target[c]], c)
  /\ \A c \in Chunk : pc[c] \in Busy => Head(line[target[c]]) = c

\* Whoever has left that wait is preceded by calls that are over.
DoneInv ==
  \A i, j \in 1 .. Len(log) :
    i < j /\ target[log[i]] = target[log[j]] /\ pc[log[j]] \in Busy \cup {"done"}
      => pc[log[i]] = "done"

OrderInv == Types /\ LogInv /\ LineInv /\ DoneInv

\* The pending list holds waiting jobs, each once.
PendInv == Distinct(pending) /\ \A i \in 1 .. Len(pending) : pc[pending[i]] = "queued"

\* A backoff that begins finds nobody of its target past the test.
BackoffInv == \A c \in Chunk : pc[c] \in {"awake", "queued", "sending"} => target[c] \notin backoff

\* Where a chunk is once its send began, and what it knows when it is over.
SendInv ==
  \A c \in Chunk :
    /\ send[c] # "unsent" => pc[c] \in {"sending", "settled", "done"}
    /\ pc[c] = "sending" => send[c] = "inflight"
    /\ pc[c] \in {"settled", "done"} =>
         result[c] # "none" /\ (send[c] = "inflight" => result[c] = "timeout")

CountInv == running = Cardinality(Sending)

WorkInv == OrderInv /\ PendInv /\ BackoffInv /\ SendInv /\ CountInv

ChunkInv == QueueInv /\ WorkInv

\* The first of a chain has no earlier call of its target before it.
LEMMA FirstIsOldest ==
  ASSUME OrderInv, NEW i \in 1 .. Len(log), NEW j \in 1 .. Len(log), i < j,
         target[log[i]] = target[log[j]], ItsTurn(log[j])
  PROVE  pc[log[i]] = "done"
<1> DEFINE t == target[log[j]]
<1>1. log[i] \in Chunk /\ log[j] \in Chunk /\ t \in Target /\ line[t] \in Seq(Chunk) /\ Len(log) \in Nat
  BY ElementOfSeq, LenProperties DEF OrderInv, Types
<1>2. SUFFICES ASSUME pc[log[i]] \in Chained PROVE FALSE
  <2>1. In(log, log[i])
    BY DEF In
  <2>2. pc[log[i]] # "new" /\ pc[log[i]] \in Location
    BY <1>1, <2>1 DEF OrderInv, LogInv, Types
  <2>3. QED BY <1>2, <2>2 DEF Location, Chained, Busy
<1>3. line[t] # <<>> /\ log[j] = line[t][1] /\ 1 \in 1 .. Len(line[t])
  <2>1. line[t] # <<>> /\ Head(line[t]) = log[j]
    BY DEF ItsTurn
  <2>2. Len(line[t]) \in Nat \ {0}
    BY <1>1, <2>1, EmptySeq
  <2>3. Head(line[t]) = line[t][1]
    BY <1>1, <2>1
  <2>4. QED BY <2>1, <2>2, <2>3
<1>4. PICK a \in 1 .. Len(line[t]) : line[t][a] = log[i]
  BY <1>1, <1>2 DEF OrderInv, LineInv, In
<1>5. a # 1
  BY <1>3, <1>4 DEF OrderInv, LogInv, Distinct
<1>6. 1 < a
  BY <1>1, <1>5, LenProperties
<1>7. Before(log, line[t][1], line[t][a])
  BY <1>1, <1>3, <1>6 DEF OrderInv, LineInv
<1>8. j < i
  BY <1>3, <1>4, <1>7 DEF Before
<1>9. QED BY <1>1, <1>8

\* A step that leaves the chains and the history alone, and moves chunks only
\* within Busy or, when it is their turn, into it.
Inner ==
  /\ target' = target /\ line' = line /\ log' = log
  /\ \A c \in Chunk : pc'[c] = pc[c] \/ (pc'[c] \in Busy /\ (pc[c] \in Busy \/ ItsTurn(c)))

\* Such a step keeps the order.
LEMMA InnerStep == ASSUME OrderInv, Types', Inner PROVE OrderInv'
<1>1. \A c \in Chunk : /\ (pc'[c] = "new" <=> pc[c] = "new") /\ (pc'[c] = "done" <=> pc[c] = "done")
                       /\ (pc'[c] \in Chained <=> pc[c] \in Chained)
  BY DEF Inner, ItsTurn, Busy, Chained
<1>2. LogInv'
  BY <1>1 DEF OrderInv, LogInv, Inner
<1>3. LineInv'
  <2>1. ASSUME NEW c \in Chunk, pc'[c] \in Busy PROVE Head(line[target[c]]) = c
    BY <2>1 DEF OrderInv, LineInv, Inner, ItsTurn
  <2>2. ASSUME NEW t \in Target, NEW a \in 1 .. Len(line[t]) PROVE pc'[line[t][a]] \in Chained
    <3>1. line[t][a] \in Chunk /\ pc[line[t][a]] \in Chained
      BY ElementOfSeq DEF OrderInv, Types, LineInv
    <3>2. QED BY <1>1, <3>1
  <2>3. QED BY <1>1, <2>1, <2>2 DEF OrderInv, LineInv, Inner, Before
<1>4. DoneInv'
  <2> SUFFICES ASSUME NEW i \in 1 .. Len(log), NEW j \in 1 .. Len(log), i < j,
                      target[log[i]] = target[log[j]], pc'[log[j]] \in Busy \cup {"done"}
               PROVE  pc'[log[i]] = "done"
    BY DEF DoneInv, Inner
  <2>1. log[i] \in Chunk /\ log[j] \in Chunk
    BY ElementOfSeq DEF OrderInv, Types
  <2>2. pc[log[j]] \in Busy \cup {"done"} \/ ItsTurn(log[j])
    BY <2>1 DEF Inner
  <2>3. pc[log[i]] = "done"
    BY <2>2, FirstIsOldest DEF OrderInv, DoneInv
  <2>4. QED BY <1>1, <2>1, <2>3
<1>5. QED BY <1>2, <1>3, <1>4 DEF OrderInv

\* A call joins the history and its target's chain at the end.
LEMMA SubmitOrder == ASSUME OrderInv, NEW c \in Chunk, Submit(c) PROVE OrderInv'
<1> DEFINE t == target[c]
<1>1. /\ pc[c] = "new" /\ pc' = [pc EXCEPT ![c] = "lined"] /\ log' = Append(log, c)
      /\ line' = [line EXCEPT ![t] = Append(@, c)] /\ target' = target
      /\ t \in Target /\ line[t] \in Seq(Chunk) /\ log \in Seq(Chunk)
  BY DEF Submit, OrderInv, Types
<1>2. /\ Len(log) \in Nat /\ Len(log') = Len(log) + 1 /\ log'[Len(log) + 1] = c
      /\ \A i \in 1 .. Len(log) : log'[i] = log[i]
  BY <1>1, AppendProperties, LenProperties
<1>3. ~In(log, c) /\ \A s \in Target : ~In(line[s], c)
  <2>1. ASSUME NEW s \in Target, NEW a \in 1 .. Len(line[s]) PROVE line[s][a] # c
    BY <1>1 DEF OrderInv, LineInv, Chained, Busy
  <2>2. QED BY <1>1, <2>1 DEF OrderInv, LogInv, In
<1>4. Types'
  BY <1>1, AppendProperties DEF Submit, OrderInv, Types, Location
<1>5. \A d \in Chunk : pc'[d] = IF d = c THEN "lined" ELSE pc[d]
  BY <1>1 DEF OrderInv, Types
<1>6. LogInv'
  <2>1. Distinct(log')
    BY <1>2, <1>3 DEF OrderInv, LogInv, Distinct, In
  <2>2. ASSUME NEW d \in Chunk PROVE pc'[d] = "new" <=> ~In(log', d)
    <3>1. In(log', d) <=> In(log, d) \/ d = c
      BY <1>2 DEF In
    <3>2. QED BY <1>1, <1>5, <3>1 DEF OrderInv, LogInv
  <2>3. QED BY <2>1, <2>2 DEF LogInv
<1>7. ASSUME NEW x, NEW y, x # c, y # c, Before(log, x, y) PROVE Before(log', x, y)
  BY <1>2, <1>7 DEF Before
<1>8. ASSUME NEW x, x # c PROVE Before(log', x, c)
  <2> SUFFICES ASSUME NEW i \in 1 .. Len(log'), NEW j \in 1 .. Len(log'), log'[i] = x, log'[j] = c
               PROVE  i < j
    BY DEF Before
  <2>1. j \notin 1 .. Len(log)
    BY <1>2, <1>3 DEF In
  <2>2. j = Len(log) + 1 /\ i # j
    BY <1>2, <1>8, <2>1
  <2>3. QED BY <1>2, <2>2
<1>9. LineInv'
  <2>1. /\ Len(line[t]) \in Nat /\ line'[t] = Append(line[t], c)
        /\ Len(line'[t]) = Len(line[t]) + 1 /\ line'[t][Len(line[t]) + 1] = c
        /\ \A a \in 1 .. Len(line[t]) : line'[t][a] = line[t][a]
        /\ \A s \in Target : s # t => line'[s] = line[s]
    BY <1>1, AppendProperties, LenProperties DEF OrderInv, Types
  <2>2. \A s \in Target : \A a \in 1 .. Len(line[s]) : line[s][a] # c /\ line[s][a] \in Chunk
    BY <1>3, ElementOfSeq DEF In, OrderInv, Types
  <2>3. ASSUME NEW s \in Target, NEW a \in 1 .. Len(line'[s])
        PROVE  target[line'[s][a]] = s /\ pc'[line'[s][a]] \in Chained
    <3>1. CASE s = t /\ a = Len(line[t]) + 1
      BY <1>5, <2>1, <3>1 DEF Chained
    <3>2. CASE ~(s = t /\ a = Len(line[t]) + 1)
      <4>1. CASE s = t
        <5>1. a \in 1 .. Len(line[t])
          BY <2>1, <3>2, <4>1
        <5>2. target[line[t][a]] = t /\ pc[line[t][a]] \in Chained
          BY <1>1, <5>1 DEF OrderInv, LineInv
        <5>3. line'[s][a] = line[t][a] /\ line[t][a] # c /\ line[t][a] \in Chunk
          BY <1>1, <2>1, <2>2, <4>1, <5>1
        <5>4. QED BY <1>5, <4>1, <5>2, <5>3
      <4>2. CASE s # t
        <5>1. line'[s] = line[s]
          BY <2>1, <4>2
        <5>2. QED BY <1>5, <2>2, <5>1 DEF OrderInv, LineInv
      <4>3. QED BY <4>1, <4>2
    <3>3. QED BY <3>1, <3>2
  <2>4. ASSUME NEW s \in Target, NEW a \in 1 .. Len(line'[s]), NEW b \in 1 .. Len(line'[s]), a < b
        PROVE  Before(log', line'[s][a], line'[s][b])
    <3>1. CASE s = t /\ b = Len(line[t]) + 1
      <4>1. a \in 1 .. Len(line[t])
        BY <2>1, <2>4, <3>1
      <4>2. line'[s][b] = c /\ line'[s][a] = line[s][a] /\ line[s][a] # c
        BY <2>1, <2>2, <3>1, <4>1
      <4>3. QED BY <1>8, <4>2
    <3>2. CASE ~(s = t /\ b = Len(line[t]) + 1)
      <4>1. a \in 1 .. Len(line[s]) /\ b \in 1 .. Len(line[s])
        BY <2>1, <2>4, <3>2
      <4>2. line'[s][b] = line[s][b] /\ line'[s][a] = line[s][a]
        BY <2>1, <4>1
      <4>3. Before(log, line[s][a], line[s][b])
        BY <2>4, <4>1 DEF OrderInv, LineInv
      <4>4. QED BY <1>7, <2>2, <4>1, <4>2, <4>3
    <3>3. QED BY <3>1, <3>2
  <2>5. ASSUME NEW d \in Chunk, pc'[d] \in Chained PROVE In(line'[target[d]], d)
    <3>1. CASE d = c
      BY <1>1, <2>1, <3>1, InAppend
    <3>2. CASE d # c
      <4>1. In(line[target[d]], d) /\ target[d] \in Target
        BY <1>5, <2>5, <3>2 DEF OrderInv, LineInv, Types
      <4>2. QED BY <1>1, <2>1, <4>1, InAppend
    <3>3. QED BY <3>1, <3>2
  <2>6. ASSUME NEW d \in Chunk, pc'[d] \in Busy PROVE Head(line'[target[d]]) = d
    <3>1. d # c /\ pc[d] \in Busy /\ target[d] \in Target
      BY <1>5, <2>6 DEF Busy, OrderInv, Types
    <3>2. In(line[target[d]], d) /\ Head(line[target[d]]) = d
      BY <3>1 DEF OrderInv, LineInv, Chained
    <3>3. line[target[d]] # <<>>
      BY <3>1, <3>2, InTail DEF OrderInv, Types
    <3>4. QED BY <1>1, <2>1, <3>1, <3>2, <3>3, InAppend
  <2>7. QED BY <1>1, <2>3, <2>4, <2>5, <2>6 DEF LineInv
<1>10. DoneInv'
  <2> SUFFICES ASSUME NEW i \in 1 .. Len(log'), NEW j \in 1 .. Len(log'), i < j,
                      target[log'[i]] = target[log'[j]], pc'[log'[j]] \in Busy \cup {"done"}
               PROVE  pc'[log'[i]] = "done"
    BY <1>1 DEF DoneInv
  <2>1. j # Len(log) + 1
    BY <1>2, <1>5 DEF Busy
  <2>2. i \in 1 .. Len(log) /\ j \in 1 .. Len(log) /\ log'[i] = log[i] /\ log'[j] = log[j]
    BY <1>2, <2>1
  <2>3. log[i] \in Chunk /\ log[j] \in Chunk /\ log[i] # c /\ log[j] # c
    BY <1>1, <1>3, <2>2, ElementOfSeq DEF In
  <2>4. QED BY <1>5, <2>2, <2>3 DEF OrderInv, DoneInv
<1>11. QED BY <1>4, <1>6, <1>9, <1>10 DEF OrderInv

\* The chain of a target moves on when its first task is over.
LEMMA ReleaseOrder == ASSUME OrderInv, NEW c \in Chunk, Release(c) PROVE OrderInv'
<1> DEFINE t == target[c]
           q == line[t]
<1>1. /\ pc[c] = "settled" /\ pc' = [pc EXCEPT ![c] = "done"] /\ log' = log
      /\ line' = [line EXCEPT ![t] = Tail(@)] /\ target' = target
      /\ t \in Target /\ q \in Seq(Chunk) /\ log \in Seq(Chunk) /\ line \in [Target -> Seq(Chunk)]
  BY DEF Release, OrderInv, Types
<1>2. In(q, c) /\ Head(q) = c
  BY <1>1 DEF OrderInv, LineInv, Chained, Busy
<1>3. q # <<>> /\ Tail(q) \in Seq(Chunk)
  BY <1>1, <1>2, InTail
<1>4. /\ line'[t] = Tail(q) /\ \A s \in Target : s # t => line'[s] = line[s]
      /\ Len(q) \in Nat /\ Len(Tail(q)) = Len(q) - 1 /\ q[1] = c /\ 1 \in 1 .. Len(q)
      /\ \A a \in 1 .. Len(Tail(q)) : a + 1 \in 1 .. Len(q) /\ Tail(q)[a] = q[a + 1]
  <2>1. /\ Len(q) \in Nat /\ Len(q) # 0 /\ Len(Tail(q)) = Len(q) - 1 /\ Head(q) = q[1]
        /\ \A a \in 1 .. Len(Tail(q)) : Tail(q)[a] = q[a + 1]
    BY <1>1, <1>3, HeadTailProperties, LenProperties, EmptySeq
  <2>2. QED BY <1>1, <1>2, <2>1
<1>5. \A a \in 1 .. Len(q) : q[a] \in Chunk /\ (a # 1 => q[a] # c)
  <2> SUFFICES ASSUME NEW a \in 1 .. Len(q), a # 1 PROVE q[a] # c
    BY <1>1, ElementOfSeq
  <2>1. 1 < a
    BY <1>4
  <2>2. Before(log, q[1], q[a])
    BY <1>1, <1>4, <2>1 DEF OrderInv, LineInv
  <2>3. In(log, c)
    BY <1>1 DEF OrderInv, LogInv
  <2>4. PICK i \in 1 .. Len(log) : log[i] = c
    BY <2>3 DEF In
  <2>5. ~(i < i)
    BY <1>1, LenProperties
  <2>6. QED BY <1>4, <2>2, <2>4, <2>5 DEF Before
<1> HIDE DEF q, t
<1>6. \A d \in Chunk : pc'[d] = IF d = c THEN "done" ELSE pc[d]
  BY <1>1 DEF OrderInv, Types
<1>7. Types'
  <2>1. line' \in [Target -> Seq(Chunk)]
    BY <1>1, <1>3 DEF q
  <2>2. pc' \in [Chunk -> Location]
    BY <1>1 DEF OrderInv, Types, Location
  <2>3. QED BY <2>1, <2>2 DEF Release, OrderInv, Types
<1>8. LogInv'
  BY <1>1, <1>6 DEF OrderInv, LogInv
<1>9. LineInv'
  <2>1. ASSUME NEW s \in Target, NEW a \in 1 .. Len(line'[s])
        PROVE  target[line'[s][a]] = s /\ pc'[line'[s][a]] \in Chained
    <3>1. CASE s = t
      <4>1. a + 1 \in 1 .. Len(q) /\ line'[s][a] = q[a + 1] /\ a + 1 # 1
        BY <1>4, <2>1, <3>1
      <4>2. q[a + 1] # c /\ q[a + 1] \in Chunk
        BY <1>5, <4>1
      <4>3. target[q[a + 1]] = s /\ pc[q[a + 1]] \in Chained
        BY <3>1, <4>1 DEF OrderInv, LineInv, q
      <4>4. QED BY <1>6, <4>1, <4>2, <4>3
    <3>2. CASE s # t
      <4>1. line'[s] = line[s]
        BY <1>4, <3>2
      <4>2. target[line[s][a]] = s /\ pc[line[s][a]] \in Chained /\ line[s][a] \in Chunk
        BY <4>1, <2>1, ElementOfSeq DEF OrderInv, LineInv, Types
      <4>3. line[s][a] # c
        BY <3>2, <4>2 DEF t
      <4>4. QED BY <1>6, <4>1, <4>2, <4>3
    <3>3. QED BY <3>1, <3>2
  <2>2. ASSUME NEW s \in Target, NEW a \in 1 .. Len(line'[s]), NEW b \in 1 .. Len(line'[s]), a < b
        PROVE  Before(log, line'[s][a], line'[s][b])
    <3>1. CASE s = t
      <4> DEFINE e == a + 1
                 f == b + 1
      <4>1. e \in 1 .. Len(q) /\ line'[s][a] = q[e] /\ f \in 1 .. Len(q) /\ line'[s][b] = q[f]
        BY <1>4, <3>1
      <4>2. e < f
        BY <2>2, <1>4, <3>1
      <4> HIDE DEF e, f
      <4>3. QED BY <3>1, <4>1, <4>2 DEF OrderInv, LineInv, q
    <3>2. CASE s # t
      <4>1. line'[s] = line[s]
        BY <1>4, <3>2
      <4>2. QED BY <2>2, <4>1 DEF OrderInv, LineInv
    <3>3. QED BY <3>1, <3>2
  <2>3. ASSUME NEW d \in Chunk, pc'[d] \in Chained PROVE In(line'[target[d]], d)
    <3>1. d # c /\ In(line[target[d]], d) /\ target[d] \in Target
      BY <1>6, <2>3 DEF OrderInv, LineInv, Types, Chained, Busy
    <3>2. CASE target[d] = t
      <4>1. In(Tail(q), d)
        BY <1>1, <1>2, <3>1, <3>2, InTail DEF q
      <4>2. QED BY <1>4, <3>2, <4>1
    <3>3. CASE target[d] # t
      BY <1>4, <3>1, <3>3
    <3>4. QED BY <3>2, <3>3
  <2>4. ASSUME NEW d \in Chunk, pc'[d] \in Busy PROVE Head(line'[target[d]]) = d
    <3>1. d # c /\ Head(line[target[d]]) = d /\ target[d] \in Target
      BY <1>6, <2>4 DEF OrderInv, LineInv, Types, Busy
    <3>2. target[d] # t
      BY <1>2, <3>1 DEF q
    <3>3. QED BY <1>4, <3>1, <3>2
  <2>5. QED BY <1>1, <2>1, <2>2, <2>3, <2>4 DEF LineInv
<1>10. DoneInv'
  <2> SUFFICES ASSUME NEW i \in 1 .. Len(log), NEW j \in 1 .. Len(log), i < j,
                      target[log[i]] = target[log[j]], pc'[log[j]] \in Busy \cup {"done"}
               PROVE  pc'[log[i]] = "done"
    BY <1>1 DEF DoneInv
  <2>1. log[i] \in Chunk /\ log[j] \in Chunk
    BY <1>1, ElementOfSeq
  <2>2. pc[log[j]] \in Busy \cup {"done"}
    BY <1>1, <1>6, <2>1 DEF Busy
  <2>3. pc[log[i]] = "done"
    BY <2>2 DEF OrderInv, DoneInv
  <2>4. QED BY <1>6, <2>1, <2>3
<1>11. QED BY <1>7, <1>8, <1>9, <1>10 DEF OrderInv

\* A chunk stays where the caller of runNext put it, or is started by it.
Ran(at, sent) ==
  \A d \in Chunk : \/ pc'[d] = at[d] /\ send'[d] = sent[d]
                   \/ at[d] = "queued" /\ pc'[d] = "sending" /\ send'[d] = "inflight"

\* What runNext does to the chunks: it starts pending jobs only, each once, and
\* its counter still counts the running jobs.
LEMMA RunNextShape ==
  ASSUME NEW p \in Seq(Chunk), Distinct(p), NEW n \in Nat, n <= Concurrency,
         NEW at \in [Chunk -> Location], NEW sent \in [Chunk -> Send],
         \A i \in 1 .. Len(p) : at[p[i]] = "queued",
         n = Cardinality({d \in Chunk : at[d] = "sending"}),
         RunNext(p, n, at, sent)
  PROVE  /\ pc' \in [Chunk -> Location] /\ send' \in [Chunk -> Send]
         /\ PendInv' /\ CountInv' /\ Ran(at, sent)
<1> DEFINE k == Startable(p, n)
           T == {p[i] : i \in 1 .. k}
           A == {d \in Chunk : at[d] = "sending"}
<1>1. Concurrency \in Nat /\ Len(p) \in Nat
  BY BudgetAssumption, LenProperties
<1>2. k \in Nat /\ k <= Len(p)
  <2>1. k = IF n >= Concurrency THEN 0 ELSE IF Concurrency - n < Len(p) THEN Concurrency - n ELSE Len(p)
    BY DEF Startable
  <2> HIDE DEF k
  <2>2. QED BY <1>1, <2>1
<1>3. /\ pending' = SubSeq(p, k + 1, Len(p)) /\ running' = n + k
      /\ pc' = [c \in Chunk |-> IF c \in T THEN "sending" ELSE at[c]]
      /\ send' = [c \in Chunk |-> IF c \in T THEN "inflight" ELSE sent[c]]
  BY DEF RunNext
<1> HIDE DEF k
<1>4. \A d \in T : d \in Chunk /\ at[d] = "queued"
  <2>1. ASSUME NEW i \in 1 .. k PROVE i \in 1 .. Len(p) /\ p[i] \in Chunk /\ at[p[i]] = "queued"
    BY <1>1, <1>2
  <2>2. QED BY <2>1
<1>5. IsFiniteSet(T) /\ Cardinality(T) = k
  <2>1. T = {p[i] : i \in 1 .. k}
    OBVIOUS
  <2> HIDE DEF T
  <2>2. QED BY <1>2, <2>1, CountFirst
<1>6. Ran(at, sent)
  <2> HIDE DEF T
  <2>1. QED BY <1>3, <1>4 DEF Ran
<1>7. pc' \in [Chunk -> Location] /\ send' \in [Chunk -> Send]
  <2> HIDE DEF T
  <2>1. QED BY <1>3 DEF Location, Send
<1>8. PendInv'
  <2>1. /\ Len(pending') = Len(p) - k
        /\ \A i \in 1 .. Len(pending') : pending'[i] = p[k + i]
    BY <1>2, <1>3, DropFacts
  <2>2. \A i \in 1 .. Len(pending') : k + i \in 1 .. Len(p)
    BY <1>1, <1>2, <2>1
  <2>3. Distinct(pending')
    <3> SUFFICES ASSUME NEW i \in 1 .. Len(pending'), NEW j \in 1 .. Len(pending'), pending'[i] = pending'[j]
                 PROVE  i = j
      BY DEF Distinct
    <3>1. k + i = k + j
      BY <2>1, <2>2 DEF Distinct
    <3>2. QED BY <1>1, <1>2, <2>1, <3>1
  <2>4. ASSUME NEW i \in 1 .. Len(pending') PROVE pc'[pending'[i]] = "queued"
    <3>1. p[k + i] \in Chunk /\ at[p[k + i]] = "queued"
      BY <2>2
    <3>2. p[k + i] \notin T
      <4> SUFFICES ASSUME NEW j \in 1 .. k, p[j] = p[k + i] PROVE FALSE
        OBVIOUS
      <4>1. j \in 1 .. Len(p)
        BY <1>1, <1>2
      <4>2. j = k + i
        BY <2>2, <4>1 DEF Distinct
      <4>3. QED BY <1>1, <1>2, <2>1, <4>2
    <3> HIDE DEF T
    <3>3. QED BY <1>3, <2>1, <3>1, <3>2
  <2>5. QED BY <2>3, <2>4 DEF PendInv
<1>9. CountInv'
  <2> HIDE DEF T
  <2>1. Sending' = A \cup T
    BY <1>3, <1>4 DEF Sending
  <2>2. A \cap T = {}
    BY <1>4
  <2>3. IsFiniteSet(A)
    BY ChunkAssumption, FS_Subset
  <2> HIDE DEF A
  <2>4. Cardinality(A \cup T) = Cardinality(A) + Cardinality(T) - Cardinality(A \cap T)
    BY <1>5, <2>3, FS_Union
  <2>5. Cardinality(A \cap T) = 0
    BY <2>2, FS_EmptySet
  <2>6. Cardinality(A) = n
    BY DEF A
  <2>7. QED BY <1>2, <1>3, <1>5, <2>1, <2>4, <2>5, <2>6 DEF CountInv
<1>10. QED BY <1>6, <1>7, <1>8, <1>9

\* Whoever is sent for the first time has become a running job.
Started == \A d \in Chunk : send[d] = "unsent" /\ send'[d] # "unsent" => pc'[d] = "sending"

\* A step that moves the chunk c, at its turn or past it, to `at' and lets
\* runNext start pending jobs keeps the order.
LEMMA JobOrder ==
  ASSUME OrderInv, NEW c \in Chunk, pc[c] \in Busy \/ ItsTurn(c),
         NEW at \in [Chunk -> Location], NEW sent, Ran(at, sent), at[c] \in {"queued", "settled"},
         \A d \in Chunk : d # c => at[d] = pc[d],
         pc' \in [Chunk -> Location], send' \in [Chunk -> Send], result' \in [Chunk -> Result],
         backoff' \in SUBSET Target, UNCHANGED <<target, line, log>>
  PROVE  OrderInv'
<1>1. Types'
  BY DEF OrderInv, Types
<1>2. Inner
  BY DEF Inner, Ran, Busy
<1>3. QED BY <1>1, <1>2, InnerStep

\* Two chunks of a target are never past their turn together.
LEMMA OnePerTarget ==
  ASSUME OrderInv, NEW c \in Chunk, NEW d \in Chunk, pc[c] \in Busy, pc[d] \in Busy, target[c] = target[d]
  PROVE  c = d
BY DEF OrderInv, LineInv

\* The attempt: the chunk is refused, or becomes a job.
LEMMA AttemptWork ==
  ASSUME ChunkInv, NEW c \in Chunk, Attempt(c) PROVE WorkInv' /\ Started
<1>1. /\ pc[c] \in {"lined", "awake"} /\ (pc[c] \in Busy \/ ItsTurn(c)) /\ target[c] \notin backoff
      /\ UNCHANGED <<target, line, backoff, log>>
  BY DEF Attempt, ItsTurn, Busy, ChunkInv, WorkInv, BackoffInv
<1>2. send[c] = "unsent"
  BY <1>1 DEF ChunkInv, WorkInv, SendInv
<1>3. /\ pc \in [Chunk -> Location] /\ send \in [Chunk -> Send] /\ result \in [Chunk -> Result]
      /\ backoff \in SUBSET Target /\ pending \in Seq(Chunk) /\ running \in Nat /\ running <= Concurrency
  BY DEF ChunkInv, QueueInv, WithinBudget, WorkInv, OrderInv, Types
<1>4. \A i \in 1 .. Len(pending) : pending[i] # c /\ pc[pending[i]] = "queued" /\ pending[i] \in Chunk
  BY <1>1, <1>3, ElementOfSeq DEF ChunkInv, WorkInv, PendInv
<1>5. CASE /\ result' = [result EXCEPT ![c] = "full"] /\ pc' = [pc EXCEPT ![c] = "settled"]
           /\ UNCHANGED <<pending, running, send>>
  <2> DEFINE at == [pc EXCEPT ![c] = "settled"]
  <2>1. /\ at \in [Chunk -> Location] /\ at[c] = "settled" /\ \A d \in Chunk : d # c => at[d] = pc[d]
        /\ pc' = at
    BY <1>3, <1>5 DEF Location
  <2>2. result' \in [Chunk -> Result] /\ \A d \in Chunk : result'[d] = IF d = c THEN "full" ELSE result[d]
    BY <1>3, <1>5 DEF Result
  <2> HIDE DEF at
  <2>3. OrderInv'
    <3>1. Ran(at, send)
      BY <1>5, <2>1 DEF Ran
    <3>2. send' \in [Chunk -> Send] /\ backoff' \in SUBSET Target
      BY <1>1, <1>3, <1>5
    <3>3. OrderInv
      BY DEF ChunkInv, WorkInv
    <3>4. QED BY <1>1, <2>1, <2>2, <3>1, <3>2, <3>3, JobOrder
  <2>4. PendInv'
    BY <1>4, <1>5, <2>1 DEF ChunkInv, WorkInv, PendInv
  <2>5. BackoffInv'
    BY <1>1, <2>1 DEF ChunkInv, WorkInv, BackoffInv
  <2>6. SendInv'
    BY <1>2, <1>5, <2>1, <2>2 DEF ChunkInv, WorkInv, SendInv
  <2>7. CountInv'
    <3>1. Sending' = Sending
      BY <1>1, <2>1 DEF Sending
    <3>2. QED BY <1>5, <3>1 DEF ChunkInv, WorkInv, CountInv
  <2>8. Started
    BY <1>5 DEF Started
  <2>9. QED BY <2>3, <2>4, <2>5, <2>6, <2>7, <2>8 DEF WorkInv
<1>6. CASE /\ RunNext(Append(pending, c), running, [pc EXCEPT ![c] = "queued"], send)
           /\ UNCHANGED result
  <2> DEFINE at == [pc EXCEPT ![c] = "queued"]
             p == Append(pending, c)
  <2>1. at \in [Chunk -> Location] /\ at[c] = "queued" /\ \A d \in Chunk : d # c => at[d] = pc[d]
    BY <1>3 DEF Location
  <2>2. /\ p \in Seq(Chunk) /\ Len(pending) \in Nat /\ Len(p) = Len(pending) + 1
        /\ p[Len(pending) + 1] = c /\ \A i \in 1 .. Len(pending) : p[i] = pending[i]
    BY <1>3, AppendProperties, LenProperties
  <2>3. RunNext(p, running, at, send)
    BY <1>6
  <2> HIDE DEF at, p
  <2>4. Distinct(p)
    <3> SUFFICES ASSUME NEW i \in 1 .. Len(p), NEW j \in 1 .. Len(p), p[i] = p[j] PROVE i = j
      BY DEF Distinct
    <3>1. CASE i \in 1 .. Len(pending) /\ j \in 1 .. Len(pending)
      BY <2>2, <3>1 DEF ChunkInv, WorkInv, PendInv, Distinct
    <3>2. CASE i \notin 1 .. Len(pending) \/ j \notin 1 .. Len(pending)
      BY <1>4, <2>2, <3>2
    <3>3. QED BY <3>1, <3>2
  <2>5. \A i \in 1 .. Len(p) : at[p[i]] = "queued"
    <3> SUFFICES ASSUME NEW i \in 1 .. Len(p) PROVE at[p[i]] = "queued"
      OBVIOUS
    <3>1. CASE i \in 1 .. Len(pending)
      BY <1>4, <2>1, <2>2, <3>1
    <3>2. CASE i \notin 1 .. Len(pending)
      BY <2>1, <2>2, <3>2
    <3>3. QED BY <3>1, <3>2
  <2>6. running = Cardinality({d \in Chunk : at[d] = "sending"})
    <3>1. Sending = {d \in Chunk : at[d] = "sending"}
      BY <1>1, <2>1 DEF Sending
    <3>2. QED BY <3>1 DEF ChunkInv, WorkInv, CountInv
  <2>7. /\ pc' \in [Chunk -> Location] /\ send' \in [Chunk -> Send]
        /\ PendInv' /\ CountInv' /\ Ran(at, send)
    BY <1>3, <2>1, <2>2, <2>3, <2>4, <2>5, <2>6, RunNextShape
  <2>8. OrderInv'
    <3>1. result' \in [Chunk -> Result] /\ backoff' \in SUBSET Target
      BY <1>1, <1>3, <1>6
    <3>2. OrderInv
      BY DEF ChunkInv, WorkInv
    <3>3. QED BY <1>1, <2>1, <2>7, <3>1, <3>2, JobOrder
  <2>9. BackoffInv'
    BY <1>1, <2>1, <2>7 DEF ChunkInv, WorkInv, BackoffInv, Ran
  <2>10. SendInv'
    <3> SUFFICES ASSUME NEW d \in Chunk
                 PROVE  /\ send'[d] # "unsent" => pc'[d] \in {"sending", "settled", "done"}
                        /\ pc'[d] = "sending" => send'[d] = "inflight"
                        /\ pc'[d] \in {"settled", "done"} =>
                             result[d] # "none" /\ (send'[d] = "inflight" => result[d] = "timeout")
      BY <1>6 DEF SendInv
    <3>1. \/ pc'[d] = at[d] /\ send'[d] = send[d]
          \/ pc'[d] = "sending" /\ send'[d] = "inflight"
      BY <2>7 DEF Ran
    <3>2. QED BY <1>2, <2>1, <3>1 DEF ChunkInv, WorkInv, SendInv
  <2>11. Started
    BY <2>7 DEF Started, Ran
  <2>12. QED BY <2>7, <2>8, <2>9, <2>10, <2>11 DEF WorkInv
<1>7. QED BY <1>5, <1>6 DEF Attempt, EnqueueJob

\* The end of a job, with the backoff that its answer may ask for.
LEMMA SettleWork ==
  ASSUME ChunkInv, NEW c \in Chunk, pc[c] = "sending", NEW r \in Result, NEW s \in Send,
         r # "none", s # "unsent", s = "inflight" => r = "timeout", SettleJob(c, r, s),
         backoff' \in {backoff, backoff \cup {target[c]}}, UNCHANGED <<target, line, log>>
  PROVE  WorkInv' /\ Started
<1> DEFINE at == [pc EXCEPT ![c] = "settled"]
           sent == [send EXCEPT ![c] = s]
           n == IF running = 0 THEN 0 ELSE running - 1
<1>1. /\ pc \in [Chunk -> Location] /\ send \in [Chunk -> Send] /\ result \in [Chunk -> Result]
      /\ target \in [Chunk -> Target]
      /\ backoff \in SUBSET Target /\ pending \in Seq(Chunk) /\ running \in Nat /\ running <= Concurrency
      /\ Concurrency \in Nat
  BY BudgetAssumption DEF ChunkInv, QueueInv, WithinBudget, WorkInv, OrderInv, Types
<1>2. at \in [Chunk -> Location] /\ at[c] = "settled" /\ \A d \in Chunk : d # c => at[d] = pc[d]
  BY <1>1 DEF Location
<1>3. sent \in [Chunk -> Send] /\ sent[c] = s /\ \A d \in Chunk : d # c => sent[d] = send[d]
  BY <1>1
<1>4. result' \in [Chunk -> Result] /\ \A d \in Chunk : result'[d] = IF d = c THEN r ELSE result[d]
  BY <1>1 DEF SettleJob
<1>5. RunNext(pending, n, at, sent)
  BY DEF SettleJob
<1>6. running # 0 /\ running - 1 = Cardinality({d \in Chunk : at[d] = "sending"})
  <2>1. {d \in Chunk : at[d] = "sending"} = Sending \ {c} /\ c \in Sending
    BY <1>2 DEF Sending
  <2>2. IsFiniteSet(Sending)
    BY ChunkAssumption, FS_Subset DEF Sending
  <2>3. Cardinality(Sending \ {c}) = Cardinality(Sending) - 1
    BY <2>1, <2>2, FS_RemoveElement
  <2>4. Cardinality(Sending) # 0
    BY <2>1, <2>2, FS_EmptySet
  <2>5. QED BY <2>1, <2>3, <2>4 DEF ChunkInv, WorkInv, CountInv
<1>7. n \in Nat /\ n <= Concurrency /\ n = running - 1
  BY <1>1, <1>6
<1> HIDE DEF at, sent, n
<1>8. Distinct(pending) /\ \A i \in 1 .. Len(pending) : at[pending[i]] = "queued"
  <2>1. \A i \in 1 .. Len(pending) : pc[pending[i]] = "queued" /\ pending[i] \in Chunk
    BY <1>1, ElementOfSeq DEF ChunkInv, WorkInv, PendInv
  <2>2. QED BY <1>2, <2>1 DEF ChunkInv, WorkInv, PendInv
<1>9. /\ pc' \in [Chunk -> Location] /\ send' \in [Chunk -> Send]
      /\ PendInv' /\ CountInv' /\ Ran(at, sent)
  BY <1>1, <1>2, <1>3, <1>5, <1>6, <1>7, <1>8, RunNextShape
<1>10. OrderInv'
  <2>1. backoff' \in SUBSET Target
    BY <1>1
  <2>2. OrderInv /\ pc[c] \in Busy
    BY DEF ChunkInv, WorkInv, Busy
  <2>3. QED BY <1>2, <1>4, <1>9, <2>1, <2>2, JobOrder
<1>11. BackoffInv'
  <2> SUFFICES ASSUME NEW d \in Chunk, pc'[d] \in {"awake", "queued", "sending"}
               PROVE  target[d] \notin backoff'
    BY DEF BackoffInv
  <2>1. d # c /\ pc[d] \in {"awake", "queued", "sending"}
    BY <1>2, <1>9 DEF Ran
  <2>2. target[d] \notin backoff
    BY <2>1 DEF ChunkInv, WorkInv, BackoffInv
  <2>3. target[d] # target[c]
    BY <2>1, OnePerTarget DEF ChunkInv, WorkInv, Busy
  <2>4. QED BY <2>2, <2>3
<1>12. SendInv'
  <2> SUFFICES ASSUME NEW d \in Chunk
               PROVE  /\ send'[d] # "unsent" => pc'[d] \in {"sending", "settled", "done"}
                      /\ pc'[d] = "sending" => send'[d] = "inflight"
                      /\ pc'[d] \in {"settled", "done"} =>
                           result'[d] # "none" /\ (send'[d] = "inflight" => result'[d] = "timeout")
    BY DEF SendInv
  <2>1. \/ pc'[d] = at[d] /\ send'[d] = sent[d]
        \/ pc'[d] = "sending" /\ send'[d] = "inflight"
    BY <1>9 DEF Ran
  <2>2. QED BY <1>2, <1>3, <1>4, <2>1 DEF ChunkInv, WorkInv, SendInv
<1>13. Started
  BY <1>2, <1>3, <1>9 DEF Started, Ran, ChunkInv, WorkInv, SendInv
<1>14. QED BY <1>9, <1>10, <1>11, <1>12, <1>13 DEF WorkInv

\* A step outside the backpressure queue, once its order and its backoff are
\* known: the chunks it moves are neither pending nor running nor sent.
LEMMA QuietWork ==
  ASSUME ChunkInv, OrderInv', BackoffInv', UNCHANGED <<pending, running, send, result>>,
         \A d \in Chunk : \/ pc'[d] = pc[d]
                          \/ pc[d] = "settled" /\ pc'[d] = "done"
                          \/ pc[d] \in {"new", "lined", "sleeping"} /\ pc'[d] \in {"lined", "sleeping", "awake"}
  PROVE  WorkInv' /\ Started
<1>1. \A i \in 1 .. Len(pending) : pc[pending[i]] = "queued" /\ pending[i] \in Chunk
  BY ElementOfSeq DEF ChunkInv, QueueInv, WorkInv, PendInv
<1>2. PendInv'
  <2>1. \A i \in 1 .. Len(pending) : pc'[pending[i]] = "queued"
    BY <1>1
  <2>2. QED BY <2>1 DEF ChunkInv, WorkInv, PendInv
<1>3. SendInv'
  BY DEF ChunkInv, WorkInv, SendInv
<1>4. CountInv'
  <2>1. Sending' = Sending
    BY DEF Sending
  <2>2. QED BY <2>1 DEF ChunkInv, WorkInv, CountInv
<1>5. Started
  BY DEF Started
<1>6. QED BY <1>2, <1>3, <1>4, <1>5 DEF WorkInv

\* ChunkInv is inductive, and a step that sends a chunk made it a running job.
LEMMA ChunkInvNext == ChunkInv /\ [Next]_vars => ChunkInv' /\ [Started]_vars
<1> SUFFICES ASSUME ChunkInv, [Next]_vars PROVE WorkInv' /\ [Started]_vars
  BY QueueInvNext DEF ChunkInv
<1> USE DEF ChunkInv
<1>0. Types /\ OrderInv /\ BackoffInv
  BY DEF WorkInv, OrderInv
<1>1. ASSUME NEW c \in Chunk, Attempt(c) PROVE WorkInv' /\ Started
  BY <1>1, AttemptWork
<1>2. ASSUME NEW c \in Chunk, NEW s \in Outcome, NEW limited \in BOOLEAN, SendReturns(c, s, limited)
      PROVE  WorkInv' /\ Started
  <2> DEFINE r == IF s = "accepted" THEN "ok" ELSE "failed"
  <2>1. r \in Result /\ r # "none" /\ s \in Send /\ s # "unsent" /\ s # "inflight"
    BY DEF Outcome, Result, Send
  <2>2. /\ pc[c] = "sending" /\ SettleJob(c, r, s) /\ UNCHANGED <<target, line, log>>
        /\ backoff' \in {backoff, backoff \cup {target[c]}}
    BY <1>2 DEF SendReturns
  <2> HIDE DEF r
  <2>3. QED BY <2>1, <2>2, SettleWork
<1>3. ASSUME NEW c \in Chunk, TimesOut(c) PROVE WorkInv' /\ Started
  <2>1. "timeout" \in Result /\ "inflight" \in Send
    BY DEF Result, Send
  <2>2. pc[c] = "sending" /\ SettleJob(c, "timeout", "inflight") /\ UNCHANGED <<target, line, backoff, log>>
    BY <1>3 DEF TimesOut
  <2>3. QED BY <2>1, <2>2, SettleWork
<1>4. ASSUME NEW c \in Chunk, Submit(c) PROVE WorkInv' /\ Started
  <2>1. OrderInv'
    BY <1>0, <1>4, SubmitOrder
  <2>2. \A d \in Chunk : pc'[d] = IF d = c THEN "lined" ELSE pc[d]
    BY <1>0, <1>4 DEF Submit, Types
  <2>3. BackoffInv'
    BY <1>0, <1>4, <2>2 DEF Submit, BackoffInv
  <2>4. UNCHANGED <<pending, running, send, result>> /\ pc[c] = "new"
    BY <1>4 DEF Submit
  <2>5. QED BY <2>1, <2>2, <2>3, <2>4, QuietWork
<1>5. ASSUME NEW c \in Chunk, Release(c) PROVE WorkInv' /\ Started
  <2>1. OrderInv'
    BY <1>0, <1>5, ReleaseOrder
  <2>2. \A d \in Chunk : pc'[d] = IF d = c THEN "done" ELSE pc[d]
    BY <1>0, <1>5 DEF Release, Types
  <2>3. BackoffInv'
    BY <1>0, <1>5, <2>2 DEF Release, BackoffInv
  <2>4. UNCHANGED <<pending, running, send, result>> /\ pc[c] = "settled"
    BY <1>5 DEF Release
  <2>5. QED BY <2>1, <2>2, <2>3, <2>4, QuietWork
<1>6. ASSUME NEW c \in Chunk, Sleep(c) PROVE WorkInv' /\ Started
  <2>1. \A d \in Chunk : pc'[d] = IF d = c THEN "sleeping" ELSE pc[d]
    BY <1>0, <1>6 DEF Sleep, Types
  <2>2. UNCHANGED <<target, line, backoff, pending, running, send, result, log>> /\ ItsTurn(c) /\ pc[c] = "lined"
    BY <1>6 DEF Sleep, ItsTurn
  <2>3. OrderInv'
    <3>1. Types'
      BY <1>0, <1>6 DEF Sleep, Types, Location
    <3>2. Inner
      BY <2>1, <2>2 DEF Inner, Busy
    <3>3. QED BY <1>0, <3>1, <3>2, InnerStep
  <2>4. BackoffInv'
    BY <1>0, <2>1, <2>2 DEF BackoffInv
  <2>5. QED BY <2>1, <2>2, <2>3, <2>4, QuietWork
<1>7. ASSUME NEW t \in Target, BackoffEnds(t) PROVE WorkInv' /\ Started
  <2>1. \A d \in Chunk : pc'[d] = IF pc[d] = "sleeping" /\ target[d] = t THEN "awake" ELSE pc[d]
    BY <1>7 DEF BackoffEnds
  <2>2. UNCHANGED <<target, line, pending, running, send, result, log>> /\ backoff' = backoff \ {t}
    BY <1>7 DEF BackoffEnds
  <2>3. OrderInv'
    <3>1. pc' \in [Chunk -> Location]
      BY <1>0, <1>7 DEF BackoffEnds, Types, Location
    <3>2. Types'
      BY <1>0, <2>2, <3>1 DEF Types
    <3>3. Inner
      BY <2>1, <2>2 DEF Inner, Busy
    <3>4. QED BY <1>0, <3>2, <3>3, InnerStep
  <2>4. BackoffInv'
    BY <1>0, <2>1, <2>2 DEF BackoffInv
  <2>5. QED BY <2>1, <2>2, <2>3, <2>4, QuietWork
<1>8. ASSUME NEW c \in Chunk, NEW s \in Outcome, ReturnsLate(c, s) PROVE WorkInv' /\ Started
  <2>1. /\ send[c] = "inflight" /\ pc[c] # "sending" /\ s \in {"accepted", "refused"}
        /\ UNCHANGED <<target, line, backoff, pending, running, pc, result, log>>
    BY <1>8 DEF ReturnsLate, Outcome
  <2>2. send' \in [Chunk -> Send] /\ \A d \in Chunk : send'[d] = IF d = c THEN s ELSE send[d]
    BY <1>0, <1>8, <2>1 DEF ReturnsLate, Types, Send
  <2>3. OrderInv'
    <3>1. Types' /\ Inner
      BY <1>0, <2>1, <2>2 DEF Types, Inner
    <3>2. QED BY <1>0, <3>1, InnerStep
  <2>4. SendInv'
    BY <2>1, <2>2 DEF WorkInv, SendInv
  <2>5. PendInv' /\ BackoffInv' /\ CountInv'
    BY <2>1 DEF WorkInv, PendInv, BackoffInv, CountInv, Sending
  <2>6. Started
    BY <2>1, <2>2 DEF Started
  <2>7. QED BY <2>3, <2>4, <2>5, <2>6 DEF WorkInv
<1>9. ASSUME UNCHANGED vars PROVE WorkInv' /\ UNCHANGED vars
  BY <1>9 DEF vars, WorkInv, OrderInv, Types, LogInv, LineInv, DoneInv, PendInv, BackoffInv,
              SendInv, CountInv, Sending
<1>10. QED
  BY <1>1, <1>2, <1>3, <1>4, <1>5, <1>6, <1>7, <1>8, <1>9 DEF Next, Quiescent

\* No call was made yet.
LEMMA ChunkInvInit == Init => ChunkInv
<1> SUFFICES ASSUME Init PROVE WorkInv
  BY QueueInvInit DEF ChunkInv
<1>1. <<>> \in Seq(Chunk) /\ Len(<<>>) = 0
  BY EmptySeq
<1>2. Types
  BY <1>1 DEF Init, Types, Location, Send, Result
<1>3. log = <<>> /\ pending = <<>> /\ (\A t \in Target : line[t] = <<>>)
  BY DEF Init
<1>4. \A c \in Chunk : pc[c] = "new" /\ send[c] = "unsent"
  BY DEF Init
<1>5. LogInv /\ PendInv
  BY <1>1, <1>3, <1>4 DEF LogInv, PendInv, Distinct, In
<1>6. LineInv
  BY <1>1, <1>3, <1>4 DEF LineInv, Chained, Busy
<1>7. DoneInv
  BY <1>1, <1>3 DEF DoneInv
<1>8. BackoffInv /\ SendInv
  BY <1>4 DEF BackoffInv, SendInv
<1>9. CountInv
  <2>1. Sending = {}
    BY <1>4 DEF Sending
  <2>2. QED BY <2>1, FS_EmptySet DEF Init, CountInv
<1>10. QED BY <1>2, <1>5, <1>6, <1>7, <1>8, <1>9 DEF WorkInv, OrderInv

\* The types of the delivery, and with them that QueueState.running counts the
\* running jobs exactly: no slot is lost to a timeout, a refusal or a send that
\* throws, and none is given back twice.
THEOREM RunningJobsAreCounted == Spec => []TypeOK
<1>1. ChunkInv => TypeOK
  BY DEF ChunkInv, QueueInv, WorkInv, OrderInv, Types, CountInv, TypeOK
<1> QED
  BY <1>1, ChunkInvInit, ChunkInvNext, PTL DEF Spec

\* The chunks of a target reach onChunk in the order of the calls of
\* deliverChunk, and the next one only when the one before has its result.
THEOREM ChunksAreSentInOrder == Spec => []SentInOrder
<1>1. ASSUME ChunkInv PROVE SentInOrder
  <2> SUFFICES ASSUME NEW i \in DOMAIN log, NEW j \in DOMAIN log, i < j,
                      target[log[i]] = target[log[j]], send[log[j]] # "unsent"
               PROVE  /\ result[log[i]] # "none"
                      /\ send[log[i]] = "inflight" => result[log[i]] = "timeout"
    BY DEF SentInOrder
  <2>1. /\ log \in Seq(Chunk) /\ DOMAIN log = 1 .. Len(log)
        /\ i \in 1 .. Len(log) /\ j \in 1 .. Len(log) /\ log[i] \in Chunk /\ log[j] \in Chunk
    BY <1>1, LenProperties, ElementOfSeq DEF ChunkInv, WorkInv, OrderInv, Types
  <2>2. pc[log[j]] \in Busy \cup {"done"}
    BY <1>1, <2>1 DEF ChunkInv, WorkInv, SendInv, Busy
  <2>3. pc[log[i]] = "done"
    BY <1>1, <2>1, <2>2 DEF ChunkInv, WorkInv, OrderInv, DoneInv
  <2>4. QED BY <1>1, <2>1, <2>3 DEF ChunkInv, WorkInv, SendInv
<1> QED
  BY <1>1, ChunkInvInit, ChunkInvNext, PTL DEF Spec

\* No send begins while its target is in backoff, although deliverChunk tests
\* the backoff before the sleep and before the wait in the backpressure queue,
\* and not after them: a backoff is only set by a chunk of the same target, and
\* no two of them are past the test together.
THEOREM BackoffIsHonoured == Spec => BackoffHonoured
<1> DEFINE Honoured ==
      \A c \in Chunk : send[c] = "unsent" /\ send'[c] # "unsent" => target[c] \notin backoff'
<1>1. ChunkInv /\ [Next]_vars => [Honoured]_vars
  <2> SUFFICES ASSUME ChunkInv, [Next]_vars, ~UNCHANGED vars PROVE Honoured
    OBVIOUS
  <2>1. BackoffInv' /\ Started
    BY ChunkInvNext DEF ChunkInv, WorkInv
  <2>2. target' = target
    BY DEF Next, Submit, Sleep, Attempt, TimesOut, Release, ReturnsLate, SendReturns, BackoffEnds, Quiescent, vars
  <2>3. QED BY <2>1, <2>2 DEF Started, BackoffInv
<1> QED
  BY <1>1, ChunkInvInit, ChunkInvNext, PTL DEF Spec, BackoffHonoured
=============================================================================
