--------------------------- MODULE SerialQueueFifo ---------------------------
(***************************************************************************)
(* The promise chain of SerialQueue implements the explicit first-in       *)
(* first-out queue of KeyedFifo.                                           *)
(***************************************************************************)
EXTENDS SerialQueue, FiniteSets

\* q holds every member of L, in the order of the numbers n.
Arranges(q, L, n) ==
  /\ \A i, j \in DOMAIN q : i < j => n[q[i]] < n[q[j]]
  /\ \A t \in L : \E i \in DOMAIN q : q[i] = t

SortedBy(L, n) == CHOOSE q \in [1 .. Cardinality(L) -> L] : Arranges(q, L, n)

\* The live tasks of a key in the order of their enqueues.
LiveOf(k) == {t \in Task : keyOf[t] = k /\ state[t] \in Live}

InOrder(k) == SortedBy(LiveOf(k), ticket)

Fifo == INSTANCE KeyedFifo WITH
  queue <- [k \in Key |-> InOrder(k)],
  busy <- [k \in Key |-> \E t \in LiveOf(k) : state[t] # "chained"],
  key <- keyOf,
  fresh <- {t \in Task : state[t] = "idle"}

\* Every step of the promise chain is a step of the explicit queue.
ImplementsFifo == Fifo!Spec
=============================================================================
