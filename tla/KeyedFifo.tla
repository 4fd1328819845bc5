------------------------------ MODULE KeyedFifo ------------------------------
(***************************************************************************)
(* What a promise-chain queue promises, stated without promises: for every *)
(* key an explicit first-in first-out queue whose head is being worked on. *)
(* SerialQueue implements this specification.                              *)
(***************************************************************************)
EXTENDS Sequences

CONSTANTS Key, Task

VARIABLES
  queue,   \* queue[k]: the tasks of k that are not over, oldest first
  busy,    \* busy[k]: the head of queue[k] has begun
  key,     \* the key each task belongs to
  fresh    \* the tasks nobody has submitted yet

vars == <<queue, busy, key, fresh>>

Init ==
  /\ queue = [k \in Key |-> <<>>]
  /\ busy = [k \in Key |-> FALSE]
  /\ key \in [Task -> Key]
  /\ fresh = Task

Submit(t) ==
  /\ t \in fresh
  /\ fresh' = fresh \ {t}
  /\ queue' = [queue EXCEPT ![key[t]] = Append(@, t)]
  /\ UNCHANGED <<busy, key>>

Begin(k) ==
  /\ queue[k] # <<>> /\ ~busy[k]
  /\ busy' = [busy EXCEPT ![k] = TRUE]
  /\ UNCHANGED <<queue, key, fresh>>

Finish(k) ==
  /\ busy[k]
  /\ busy' = [busy EXCEPT ![k] = FALSE]
  /\ queue' = [queue EXCEPT ![k] = Tail(@)]
  /\ UNCHANGED <<key, fresh>>

Next == \/ \E t \in Task : Submit(t)
        \/ \E k \in Key : Begin(k) \/ Finish(k)

Spec == Init /\ [][Next]_vars
=============================================================================
