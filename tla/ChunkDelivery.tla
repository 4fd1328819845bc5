---------------------------- MODULE ChunkDelivery ----------------------------
(***************************************************************************)
(* Sending a chunk to a channel: deliverChunk (runs/delivery.ts) on top of *)
(* the backpressure queue "delivery" (runs/queue-backpressure.ts).         *)
(*                                                                         *)
(* Two queues are nested.  The provider send queue lets one deliverChunk   *)
(* per target proceed at a time; inside it the chunk first waits for the   *)
(* target's backoff, and then becomes a job of the backpressure queue that *)
(* all targets share, with a limit on running and on pending jobs and a    *)
(* timeout per job.  The timeout only rejects the job's promise: nothing   *)
(* stops the onChunk call, which may still reach the channel later.        *)
(*                                                                         *)
(* The provider send queue is a promise chain (SerialQueue), here the      *)
(* sequence it implements.                                                 *)
(***************************************************************************)
EXTENDS Integers, Sequences, FiniteSets

CONSTANTS Chunk,        \* the calls of deliverChunk
          Target,       \* provider and session: providerSendQueueKey
          Concurrency,  \* the queue budget (DEFAULT_QUEUE_BUDGETS.delivery)
          MaxPending

ASSUME BudgetAssumption == Concurrency \in Nat \ {0} /\ MaxPending \in Nat

ASSUME ChunkAssumption == IsFiniteSet(Chunk)

VARIABLES
  target,    \* the target of each chunk
  line,      \* providerSendQueues: line[t] is the chain of target t
  backoff,   \* the targets whose providerBackoffUntil lies in the future
  pending,   \* QueueState.pending
  running,   \* QueueState.running, a counter
  pc,        \* where each deliverChunk stands
  send,      \* what became of the onChunk call itself
  result,    \* how the job, and with it deliverChunk, ended
  log        \* history: the chunks in the order of their calls

vars == <<target, line, backoff, pending, running, pc, send, result, log>>

\* lined: in the provider send queue.  sleeping: its turn, in backoff.
\* awake: the backoff it slept for is over.
\* queued: pending in the backpressure queue.  sending: a running job.
\* settled: the job's promise is settled, the chain is not yet released.
Location == {"new", "lined", "sleeping", "awake", "queued", "sending", "settled", "done"}

\* unsent: onChunk was not called.
Send   == {"unsent", "inflight", "accepted", "refused"}
Result == {"none", "ok", "failed", "timeout", "full"}

Sending == {c \in Chunk : pc[c] = "sending"}

\* The running counter counts exactly the running jobs.
TypeOK ==
  /\ target \in [Chunk -> Target]
  /\ line \in [Target -> Seq(Chunk)]
  /\ backoff \subseteq Target
  /\ pending \in Seq(Chunk)
  /\ running \in Nat /\ running = Cardinality(Sending)
  /\ pc \in [Chunk -> Location]
  /\ send \in [Chunk -> Send]
  /\ result \in [Chunk -> Result]
  /\ log \in Seq(Chunk)

Init ==
  /\ target \in [Chunk -> Target]
  /\ line = [t \in Target |-> <<>>]
  /\ backoff = {}
  /\ pending = <<>>
  /\ running = 0
  /\ pc = [c \in Chunk |-> "new"]
  /\ send = [c \in Chunk |-> "unsent"]
  /\ result = [c \in Chunk |-> "none"]
  /\ log = <<>>

------------------------------------------------------------------------------
(* The backpressure queue *)

\* How many jobs of the list p runNext starts when n are running.
Startable(p, n) ==
  IF n >= Concurrency THEN 0
  ELSE IF Concurrency - n < Len(p) THEN Concurrency - n ELSE Len(p)

\* runNext: shift and start jobs while there is room; runJob counts itself
\* before its first await.  `at' and `sent' hold for the other chunks.
RunNext(p, n, at, sent) ==
  LET k == Startable(p, n)
      started == {p[i] : i \in 1 .. k}
  IN /\ pending' = SubSeq(p, k + 1, Len(p))
     /\ running' = n + k
     /\ pc' = [c \in Chunk |-> IF c \in started THEN "sending" ELSE at[c]]
     /\ send' = [c \in Chunk |-> IF c \in started THEN "inflight" ELSE sent[c]]

\* Mutant: the limit is tested with > instead of >=.
QueueFullOffByOne == running >= Concurrency /\ Len(pending) > MaxPending

\* The overflow test of enqueueBackpressureTask.
QueueFull == running >= Concurrency /\ Len(pending) >= MaxPending

\* enqueueBackpressureTask: refuse at the limit, else push and runNext.
EnqueueJob(c) ==
  \/ /\ QueueFull
     /\ result' = [result EXCEPT ![c] = "full"]
     /\ pc' = [pc EXCEPT ![c] = "settled"]
     /\ UNCHANGED <<pending, running, send>>
  \/ /\ ~QueueFull
     /\ RunNext(Append(pending, c), running, [pc EXCEPT ![c] = "queued"], send)
     /\ UNCHANGED result

\* Mutant: a timed-out job keeps its slot.
SettleJobLeaking(c, r, s) ==
  /\ result' = [result EXCEPT ![c] = r]
  /\ RunNext(pending, IF r = "timeout" THEN running ELSE running - 1,
             [pc EXCEPT ![c] = "settled"], [send EXCEPT ![c] = s])

\* Mutant: the finally block frees the slot and starts nobody.
SettleJobQuietly(c, r, s) ==
  /\ result' = [result EXCEPT ![c] = r]
  /\ running' = running - 1
  /\ pc' = [pc EXCEPT ![c] = "settled"]
  /\ send' = [send EXCEPT ![c] = s]
  /\ UNCHANGED pending

\* The end of runJob: settle the job's promise and, in finally, free the slot
\* (never below zero) and runNext.
SettleJob(c, r, s) ==
  /\ result' = [result EXCEPT ![c] = r]
  /\ RunNext(pending, IF running = 0 THEN 0 ELSE running - 1,
             [pc EXCEPT ![c] = "settled"], [send EXCEPT ![c] = s])

------------------------------------------------------------------------------
(* deliverChunk *)

\* deliverChunk is called: runInProviderSendQueue chains its task.
Submit(c) ==
  /\ pc[c] = "new"
  /\ line' = [line EXCEPT ![target[c]] = Append(@, c)]
  /\ pc' = [pc EXCEPT ![c] = "lined"]
  /\ log' = Append(log, c)
  /\ UNCHANGED <<target, backoff, pending, running, send, result>>

\* Mutant: the task does not wait for the chunk before it.
ItsTurnAlways(c) == pc[c] = "lined"

\* The chunk before it in the chain is over.
ItsTurn(c) == pc[c] = "lined" /\ line[target[c]] # <<>> /\ Head(line[target[c]]) = c

\* The target is in backoff: sleep.
Sleep(c) ==
  /\ ItsTurn(c) /\ target[c] \in backoff
  /\ pc' = [pc EXCEPT ![c] = "sleeping"]
  /\ UNCHANGED <<target, line, backoff, pending, running, send, result, log>>

\* The attempt: no backoff, or it was slept off, and then it is not tested a
\* second time.
Attempt(c) ==
  /\ (ItsTurn(c) /\ target[c] \notin backoff) \/ pc[c] = "awake"
  /\ EnqueueJob(c)
  /\ UNCHANGED <<target, line, backoff, log>>

\* onChunk returns or throws while its job is running; a receipt or an error
\* may carry a retry-after, which rememberProviderBackoff keeps.  For an error
\* that happens in deliverChunk's catch, outside the send queue's task, but
\* two promise reactions after the rejection, and the next task of the target
\* is further away than that.
SendReturns(c, s, limited) ==
  /\ pc[c] = "sending"
  /\ SettleJob(c, IF s = "accepted" THEN "ok" ELSE "failed", s)
  /\ backoff' = IF limited THEN backoff \cup {target[c]} ELSE backoff
  /\ UNCHANGED <<target, line, log>>

\* Mutant: the timer is cleared once the task has started.
TimesOutNever(c) == FALSE /\ UNCHANGED vars

\* The timer of runJob wins the race: the job is rejected, onChunk goes on.
TimesOut(c) ==
  /\ pc[c] = "sending"
  /\ SettleJob(c, "timeout", "inflight")
  /\ UNCHANGED <<target, line, backoff, log>>

\* onChunk ends after its job timed out; nobody looks at the outcome.
ReturnsLate(c, s) ==
  /\ send[c] = "inflight" /\ pc[c] # "sending"
  /\ send' = [send EXCEPT ![c] = s]
  /\ UNCHANGED <<target, line, backoff, pending, running, pc, result, log>>

\* The finally handler of the provider send queue.
Release(c) ==
  /\ pc[c] = "settled"
  /\ line' = [line EXCEPT ![target[c]] = Tail(@)]
  /\ pc' = [pc EXCEPT ![c] = "done"]
  /\ UNCHANGED <<target, backoff, pending, running, send, result, log>>

\* Time passes providerBackoffUntil, and with it the sleep that was computed
\* from it ends.
BackoffEnds(t) ==
  /\ t \in backoff
  /\ backoff' = backoff \ {t}
  /\ pc' = [c \in Chunk |-> IF pc[c] = "sleeping" /\ target[c] = t THEN "awake" ELSE pc[c]]
  /\ UNCHANGED <<target, line, pending, running, send, result, log>>

Outcome == {"accepted", "refused"}

Quiescent == (\A c \in Chunk : pc[c] = "done") /\ UNCHANGED vars

Next ==
  \/ \E c \in Chunk :
       \/ Submit(c) \/ Sleep(c) \/ Attempt(c) \/ TimesOut(c) \/ Release(c)
       \/ \E s \in Outcome : ReturnsLate(c, s) \/ \E limited \in BOOLEAN : SendReturns(c, s, limited)
  \/ \E t \in Target : BackoffEnds(t)
  \/ Quiescent

Spec == Init /\ [][Next]_vars

\* Timers fire and promise reactions run.  That onChunk ever returns is not
\* assumed: it is the network.
Fairness ==
  /\ \A c \in Chunk : /\ WF_vars(Sleep(c)) /\ WF_vars(Attempt(c))
                      /\ WF_vars(TimesOut(c)) /\ WF_vars(Release(c))
  /\ \A t \in Target : WF_vars(BackoffEnds(t))

FairSpec == Spec /\ Fairness

------------------------------------------------------------------------------
(* Properties *)

\* The queue's limits hold whatever mix of sends, timeouts and refusals: the
\* slots are never overdrawn and the pending list never outgrows its bound,
\* although the bound is only tested when all slots are taken.
WithinBudget == running <= Concurrency /\ Len(pending) <= MaxPending

\* Nobody waits beside a free slot.  runNext is only called by an enqueue or
\* by the end of a job, so a job that pends while a slot is free would wait
\* for traffic that may never come.
NoIdleSlot == pending # <<>> => running = Concurrency

\* Chunks of a target reach onChunk in the order of their calls: when one is
\* sent, every earlier one has its result; only a send that timed out can
\* still be in flight then.
SentInOrder ==
  \A i, j \in DOMAIN log :
    i < j /\ target[log[i]] = target[log[j]] /\ send[log[j]] # "unsent"
      => /\ result[log[i]] # "none"
         /\ send[log[i]] = "inflight" => result[log[i]] = "timeout"

\* A send never starts while its target is in backoff, although the backoff
\* is tested before the sleep and before the wait in the backpressure queue,
\* and not after them.
BackoffHonoured ==
  [][\A c \in Chunk : send[c] = "unsent" /\ send'[c] # "unsent" => target[c] \notin backoff']_vars

\* deliverChunk always comes back, even if no onChunk call ever returns: a
\* run's executor is never held by its channel (RunLifecycle!Advance).
DeliveryEnds == \A c \in Chunk : pc[c] = "lined" ~> pc[c] = "done"

\* What the ledger says of a chunk whose delivery "failed": it did not reach
\* the channel.  Checked as a claim of the code; it does not hold.
FailedIsUndelivered ==
  \A c \in Chunk : result[c] \in {"failed", "timeout", "full"} => send[c] # "accepted"
=============================================================================
