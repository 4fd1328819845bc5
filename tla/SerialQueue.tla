----------------------------- MODULE SerialQueue -----------------------------
(***************************************************************************)
(* The promise-chain queue that the core uses wherever work for one key    *)
(* must run one at a time and in order: request-group execution            *)
(* (runs/execution-queue.ts), session intake (runs/intake-queue.ts), run   *)
(* recovery (runs/recovery-queue.ts), delayed session runs                 *)
(* (runs/run-queueing.ts), schedule execution (scheduler/queueing.ts),     *)
(* schedule delivery (scheduler/delivery-queue.ts) and provider sends      *)
(* (runs/delivery.ts).                                                     *)
(*                                                                         *)
(* A queue is a Map from a key to the promise of the LAST task enqueued    *)
(* under it.  Enqueueing chains the task behind that promise and replaces  *)
(* the entry; when the task is over its finally handler deletes the entry, *)
(* but only if the entry is still its own promise.  No list of waiting     *)
(* tasks exists: the order lives in the chain of promises alone.           *)
(***************************************************************************)
EXTENDS Naturals

CONSTANTS Key,      \* request groups, sessions, schedules, delivery targets
          Task,     \* the calls of enqueue that are ever made
          NoTask    \* the absence of a promise (Map.get returns undefined)

ASSUME NoTaskAssumption == NoTask \notin Task

VARIABLES
  tail,     \* the Map: tail[k] is the task whose promise is stored under k
  prev,     \* prev[t] is the promise t was chained to, read at its enqueue
  keyOf,    \* the key t was enqueued under
  state,    \* how far t's chain of handlers got
  failed,   \* the tasks whose own promise was rejected
  ticket,   \* history: the position of t's enqueue among all enqueues
  issued    \* history: how many enqueues there have been

vars == <<tail, prev, keyOf, state, failed, ticket, issued>>

\* idle: not enqueued yet.  chained: waits for prev.  running: the task
\* itself runs.  settled: its promise was resolved or rejected, the finally
\* handler has not run.  released: the finally handler ran.
TaskState == {"idle", "chained", "running", "settled", "released"}

Live == {"chained", "running", "settled"}

\* No promise is ever chained to itself.
TypeOK ==
  /\ tail \in [Key -> Task \cup {NoTask}]
  /\ prev \in [Task -> Task \cup {NoTask}]
  /\ \A t \in Task : prev[t] # t
  /\ keyOf \in [Task -> Key]
  /\ state \in [Task -> TaskState]
  /\ failed \subseteq Task
  /\ ticket \in [Task -> Nat]
  /\ issued \in Nat

Init ==
  /\ tail = [k \in Key |-> NoTask]
  /\ prev = [t \in Task |-> NoTask]
  /\ keyOf \in [Task -> Key]
  /\ state = [t \in Task |-> "idle"]
  /\ failed = {}
  /\ ticket = [t \in Task |-> 0]
  /\ issued = 0

------------------------------------------------------------------------------
\* hasRequestGroupExecutionQueue and its siblings: Map.has(key).
HasQueue(k) == tail[k] # NoTask

\* Mutant: the new promise is stored before the old one is read.
EnqueueStoreFirst(t) ==
  /\ state[t] = "idle"
  /\ tail' = [tail EXCEPT ![keyOf[t]] = t]
  /\ prev' = [prev EXCEPT ![t] = tail'[keyOf[t]]]
  /\ state' = [state EXCEPT ![t] = "chained"]
  /\ ticket' = [ticket EXCEPT ![t] = issued + 1]
  /\ issued' = issued + 1
  /\ UNCHANGED <<keyOf, failed>>

\* The synchronous body of enqueue: read the entry, chain behind it, store
\* the new promise.  Nothing can run between the read and the store.
Enqueue(t) ==
  /\ state[t] = "idle"
  /\ prev' = [prev EXCEPT ![t] = tail[keyOf[t]]]
  /\ tail' = [tail EXCEPT ![keyOf[t]] = t]
  /\ state' = [state EXCEPT ![t] = "chained"]
  /\ ticket' = [ticket EXCEPT ![t] = issued + 1]
  /\ issued' = issued + 1
  /\ UNCHANGED <<keyOf, failed>>

\* Mutant: no .catch on the previous promise, whose rejection then skips the
\* .then that calls the task.
PrevFulfilled(t) ==
  prev[t] # NoTask => state[prev[t]] = "released" /\ prev[t] \notin failed

\* The promise t is chained to is fulfilled or rejected, its finally handler
\* included; both .catch and .then of the chain lead to params.task().
PrevOver(t) == prev[t] # NoTask => state[prev[t]] = "released"

Start(t) ==
  /\ state[t] = "chained"
  /\ PrevOver(t)
  /\ state' = [state EXCEPT ![t] = "running"]
  /\ UNCHANGED <<tail, prev, keyOf, failed, ticket, issued>>

\* The task's own promise is resolved, or rejected.  The execution queue
\* swallows the rejection, the others pass it on to the caller and, through
\* the stored promise, to the .catch of the next task in the chain.
Settle(t) ==
  /\ state[t] = "running"
  /\ state' = [state EXCEPT ![t] = "settled"]
  /\ failed' \in {failed, failed \cup {t}}
  /\ UNCHANGED <<tail, prev, keyOf, ticket, issued>>

\* Mutant: the finally handler without the identity test.
ReleaseAnyEntry(t) ==
  /\ state[t] = "settled"
  /\ state' = [state EXCEPT ![t] = "released"]
  /\ tail' = [tail EXCEPT ![keyOf[t]] = NoTask]
  /\ UNCHANGED <<prev, keyOf, failed, ticket, issued>>

\* The finally handler: delete the entry if it is still this task's promise.
Release(t) ==
  /\ state[t] = "settled"
  /\ state' = [state EXCEPT ![t] = "released"]
  /\ tail' = IF tail[keyOf[t]] = t
             THEN [tail EXCEPT ![keyOf[t]] = NoTask]
             ELSE tail
  /\ UNCHANGED <<prev, keyOf, failed, ticket, issued>>

\* Every task of the instance is enqueued and over: nothing is left to do.
Quiescent ==
  /\ \A t \in Task : state[t] = "released"
  /\ UNCHANGED vars

Next == \/ \E t \in Task : Enqueue(t) \/ Start(t) \/ Settle(t) \/ Release(t)
        \/ Quiescent

Spec == Init /\ [][Next]_vars

\* Promise reactions always run (Start, Release); the task itself ends, which
\* is what every caller of enqueue owes the queue.  Whether and when a caller
\* enqueues is nobody's obligation.
Fairness == \A t \in Task : WF_vars(Start(t)) /\ WF_vars(Settle(t)) /\ WF_vars(Release(t))

FairSpec == Spec /\ Fairness

------------------------------------------------------------------------------
(* Properties *)

\* Serial and in order: once a task has begun, every task enqueued under the
\* same key before it is over, its finally handler included.  In particular
\* two tasks of one key never run together, although a finished task's
\* handler may run after any number of later enqueues.
SerialInOrder ==
  \A t, u \in Task :
    /\ state[t] \in {"running", "settled", "released"}
    /\ u # t /\ keyOf[u] = keyOf[t]
    /\ state[u] # "idle" /\ ticket[u] < ticket[t]
    => state[u] = "released"

\* The Map has an entry for a key exactly while some task of the key is not
\* over: what hasRequestGroupExecutionQueue reports decides whether a new run
\* is shown as queued or as running (runs/start-initialization.ts:91).
EntryIffBusy ==
  \A k \in Key :
    HasQueue(k) <=> \E t \in Task : keyOf[t] = k /\ state[t] \in Live

\* No task waits for ever behind another one, whether that one succeeded or
\* failed, and no lost entry strands a waiter.
EnqueuedIsReleased ==
  \A t \in Task : state[t] = "chained" ~> state[t] = "released"
=============================================================================
