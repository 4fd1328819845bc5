-------------------------- MODULE SerialQueueProofs --------------------------
(***************************************************************************)
(* SerialInOrder and EntryIffBusy hold of the promise-chain queue for any  *)
(* keys and any tasks. Neither is inductive: that a task may start only    *)
(* when everything before it is over follows from the shape of the chain,  *)
(* which ChainInv describes.                                               *)
(*                                                                         *)
(* With that shape the chain implements the explicit queue. The mapping    *)
(* arranges the live tasks of a key by their tickets; that such an         *)
(* arrangement exists is kept from step to step (FifoInv): an enqueue      *)
(* appends the newest ticket, and the task that is released is the oldest. *)
(* There is only one, so the arrangement the mapping chooses is that one.  *)
(***************************************************************************)
EXTENDS SerialQueueFifo, SequenceFacts, TLAPS

\* Tickets are handed out in order, one per enqueue.
TicketInv ==
  \A t, u \in Task :
    /\ ticket[t] <= issued
    /\ (state[t] # "idle" /\ state[u] # "idle" /\ t # u) => ticket[t] # ticket[u]

\* The stored promise is that of the youngest live task of its key, and there
\* is one whenever the key has a live task.
TailInv ==
  \A k \in Key :
    /\ tail[k] # NoTask => keyOf[tail[k]] = k /\ state[tail[k]] \in Live
    /\ \A t \in Task : (keyOf[t] = k /\ state[t] \in Live)
                         => tail[k] # NoTask /\ ticket[t] <= ticket[tail[k]]

\* The chain: while an older task of the key is live, a live task still waits,
\* for a task that is live and no older than that one.
ChainInv ==
  \A t, u \in Task :
    /\ keyOf[t] = keyOf[u]
    /\ state[t] \in Live /\ state[u] \in Live
    /\ ticket[u] < ticket[t]
    => /\ state[t] = "chained"
       /\ prev[t] # NoTask
       /\ state[prev[t]] \in Live
       /\ keyOf[prev[t]] = keyOf[t]
       /\ ticket[u] <= ticket[prev[t]]

\* Older tasks of the key are over once a task has left the chain.
OverInv ==
  \A t, u \in Task :
    /\ keyOf[t] = keyOf[u]
    /\ state[t] = "released" /\ state[u] # "idle"
    /\ ticket[u] < ticket[t]
    => state[u] = "released"

IndInv == TypeOK /\ TicketInv /\ TailInv /\ ChainInv /\ OverInv

USE NoTaskAssumption DEF TaskState, Live

\* The invariant holds before anything is enqueued.
LEMMA InitInd == Init => IndInv
  BY DEF Init, IndInv, TypeOK, TicketInv, TailInv, ChainInv, OverInv

\* A task that has left the chain is the oldest live task of its key.
LEMMA BegunIsOldest ==
  ASSUME IndInv, NEW t \in Task, NEW u \in Task,
         state[t] \in {"running", "settled"}, state[u] \in Live,
         keyOf[u] = keyOf[t], u # t
  PROVE  ticket[t] < ticket[u]
  <1>1. ~(ticket[u] < ticket[t])
    BY DEF IndInv, ChainInv
  <1>2. ticket[u] # ticket[t]
    BY DEF IndInv, TicketInv
  <1>3. ticket[u] \in Nat /\ ticket[t] \in Nat
    BY DEF IndInv, TypeOK
  <1> QED BY <1>1, <1>2, <1>3

\* The synchronous body of enqueue keeps the shape of the chain.
LEMMA EnqueueInd == ASSUME IndInv, NEW t \in Task, Enqueue(t) PROVE IndInv'
  <1>1. TypeOK'
    <2>1. keyOf[t] \in Key
      BY DEF IndInv, TypeOK
    <2>2. tail[keyOf[t]] # t
      BY <2>1 DEF IndInv, TailInv, Enqueue
    <2> QED BY <2>1, <2>2 DEF IndInv, TypeOK, Enqueue
  <1>2. TicketInv'
    BY DEF IndInv, TypeOK, TicketInv, Enqueue
  <1>3. TailInv'
    BY DEF IndInv, TypeOK, TicketInv, TailInv, Enqueue
  <1>4. ChainInv'
    BY DEF IndInv, TypeOK, TicketInv, TailInv, ChainInv, Enqueue
  <1>5. OverInv'
    BY DEF IndInv, TypeOK, TicketInv, OverInv, Enqueue
  <1> QED BY <1>1, <1>2, <1>3, <1>4, <1>5 DEF IndInv

\* A task that starts behind a finished promise is the oldest of its key.
LEMMA StartInd == ASSUME IndInv, NEW t \in Task, Start(t) PROVE IndInv'
  <1>1. TypeOK'
    BY DEF IndInv, TypeOK, Start
  <1>2. TicketInv'
    BY DEF IndInv, TypeOK, TicketInv, Start
  <1>3. TailInv'
    BY DEF IndInv, TypeOK, TailInv, Start
  <1>4. ChainInv'
    BY DEF IndInv, TypeOK, ChainInv, Start, PrevOver
  <1>5. OverInv'
    BY DEF IndInv, TypeOK, OverInv, Start
  <1> QED BY <1>1, <1>2, <1>3, <1>4, <1>5 DEF IndInv

\* The end of a task, well or badly, does not touch the chain.
LEMMA SettleInd == ASSUME IndInv, NEW t \in Task, Settle(t) PROVE IndInv'
  <1>1. TypeOK'
    BY DEF IndInv, TypeOK, Settle
  <1>2. TicketInv'
    BY DEF IndInv, TypeOK, TicketInv, Settle
  <1>3. TailInv'
    BY DEF IndInv, TypeOK, TailInv, Settle
  <1>4. ChainInv'
    BY DEF IndInv, TypeOK, ChainInv, Settle
  <1>5. OverInv'
    BY DEF IndInv, TypeOK, OverInv, Settle
  <1> QED BY <1>1, <1>2, <1>3, <1>4, <1>5 DEF IndInv

\* The finally handler removes the oldest task; the Map's entry goes with it
\* only if it was also the youngest.
LEMMA ReleaseInd == ASSUME IndInv, NEW t \in Task, Release(t) PROVE IndInv'
  <1>1. TypeOK'
    BY DEF IndInv, TypeOK, Release
  <1>2. TicketInv'
    BY DEF IndInv, TypeOK, TicketInv, Release
  <1>3. TailInv'
    <2>1. SUFFICES ASSUME NEW k \in Key
                   PROVE  /\ tail'[k] # NoTask =>
                               keyOf'[tail'[k]] = k /\ state'[tail'[k]] \in Live
                          /\ \A u \in Task : (keyOf'[u] = k /\ state'[u] \in Live)
                               => tail'[k] # NoTask /\ ticket'[u] <= ticket'[tail'[k]]
      BY DEF TailInv
    <2>2. CASE tail[k] = t
      <3>1. keyOf[t] = k
        BY <2>2 DEF IndInv, TailInv
      <3>2. ASSUME NEW u \in Task, keyOf[u] = k, state[u] \in Live, u # t
            PROVE  FALSE
        <4>1. ticket[t] < ticket[u]
          BY <3>1, <3>2, BegunIsOldest DEF Release
        <4>2. ticket[u] <= ticket[t]
          BY <2>2, <3>2 DEF IndInv, TailInv
        <4> QED BY <4>1, <4>2 DEF IndInv, TypeOK
      <3> QED BY <2>2, <3>1, <3>2 DEF IndInv, TypeOK, Release
    <2>3. CASE tail[k] # t
      <3>1. tail'[k] = tail[k]
        BY <2>3 DEF IndInv, TypeOK, Release
      <3> QED BY <2>3, <3>1 DEF IndInv, TypeOK, TailInv, Release
    <2> QED BY <2>1, <2>2, <2>3
  <1>4. ChainInv'
    <2>1. SUFFICES ASSUME NEW a \in Task, NEW b \in Task,
                          keyOf[a] = keyOf[b], state'[a] \in Live,
                          state'[b] \in Live, ticket[b] < ticket[a]
                   PROVE  /\ state'[a] = "chained"
                          /\ prev[a] # NoTask
                          /\ state'[prev[a]] \in Live
                          /\ keyOf[prev[a]] = keyOf[a]
                          /\ ticket[b] <= ticket[prev[a]]
      BY DEF ChainInv, Release
    <2>2. a # t /\ b # t /\ state[a] \in Live /\ state[b] \in Live
      BY <2>1 DEF IndInv, TypeOK, Release
    <2>3. /\ state[a] = "chained"
          /\ prev[a] # NoTask
          /\ state[prev[a]] \in Live
          /\ keyOf[prev[a]] = keyOf[a]
          /\ ticket[b] <= ticket[prev[a]]
      BY <2>1, <2>2 DEF IndInv, ChainInv
    <2>4. prev[a] # t
      <3>1. SUFFICES ASSUME prev[a] = t PROVE FALSE
        OBVIOUS
      <3>2. ticket[t] < ticket[b]
        BY <2>1, <2>2, <2>3, <3>1, BegunIsOldest DEF Release
      <3> QED BY <2>3, <3>1, <3>2 DEF IndInv, TypeOK
    <2> QED BY <2>2, <2>3, <2>4 DEF IndInv, TypeOK, Release
  <1>5. OverInv'
    BY DEF IndInv, TypeOK, ChainInv, OverInv, Release
  <1> QED BY <1>1, <1>2, <1>3, <1>4, <1>5 DEF IndInv

\* Every step of every task keeps the invariant.
LEMMA NextInd == ASSUME IndInv, [Next]_vars PROVE IndInv'
  <1>1. CASE UNCHANGED vars
    BY <1>1 DEF vars, IndInv, TypeOK, TicketInv, TailInv, ChainInv, OverInv
  <1>2. ASSUME NEW t \in Task, Enqueue(t) \/ Start(t) \/ Settle(t) \/ Release(t)
        PROVE  IndInv'
    BY <1>2, EnqueueInd, StartInd, SettleInd, ReleaseInd
  <1> QED BY <1>1, <1>2 DEF Next, Quiescent

\* The chain of promises keeps its shape in every behaviour.
THEOREM ChainShape == Spec => []IndInv
  BY InitInd, NextInd, PTL DEF Spec

\* Tasks of one key run one at a time, in the order they were enqueued.
THEOREM QueueIsSerial == Spec => []SerialInOrder
  <1>1. IndInv => SerialInOrder
    <2>1. SUFFICES ASSUME IndInv, NEW t \in Task, NEW u \in Task,
                          state[t] \in {"running", "settled", "released"},
                          u # t, keyOf[u] = keyOf[t],
                          state[u] # "idle", ticket[u] < ticket[t]
                   PROVE  state[u] = "released"
      BY DEF SerialInOrder
    <2>2. CASE state[t] = "released"
      BY <2>1, <2>2 DEF IndInv, OverInv
    <2>3. CASE state[t] # "released"
      <3>1. state[u] \notin Live
        BY <2>1, <2>3, BegunIsOldest DEF IndInv, TypeOK
      <3> QED BY <2>1, <3>1 DEF IndInv, TypeOK
    <2> QED BY <2>2, <2>3
  <1> QED BY <1>1, ChainShape, PTL

\* The Map has an entry for a key exactly while a task of the key is live.
THEOREM EntryMeansBusy == Spec => []EntryIffBusy
  <1>1. IndInv => EntryIffBusy
    <2>1. SUFFICES ASSUME IndInv, NEW k \in Key
                   PROVE  HasQueue(k) <=>
                            \E t \in Task : keyOf[t] = k /\ state[t] \in Live
      BY DEF EntryIffBusy
    <2>2. ASSUME HasQueue(k)
          PROVE  \E t \in Task : keyOf[t] = k /\ state[t] \in Live
      <3>1. tail[k] \in Task
        BY <2>1, <2>2 DEF HasQueue, IndInv, TypeOK
      <3>2. keyOf[tail[k]] = k /\ state[tail[k]] \in Live
        BY <2>1, <2>2 DEF HasQueue, IndInv, TailInv
      <3> QED BY <3>1, <3>2
    <2>3. ASSUME NEW t \in Task, keyOf[t] = k, state[t] \in Live
          PROVE  HasQueue(k)
      BY <2>1, <2>3 DEF HasQueue, IndInv, TailInv
    <2> QED BY <2>1, <2>2, <2>3
  <1> QED BY <1>1, ChainShape, PTL

\* The queue's state stays of its type, and no promise waits for itself.
THEOREM QueueTypes == Spec => []TypeOK
  <1>1. IndInv => TypeOK
    BY DEF IndInv
  <1> QED BY <1>1, ChainShape, PTL

------------------------------------------------------------------------------
(* The promise chain is a first-in first-out queue *)

\* q is the arrangement that SortedBy chooses from.
Listing(q, L, n) == q \in [1 .. Cardinality(L) -> L] /\ Arranges(q, L, n)

\* A finite set of numbered tasks has at most one arrangement.
LEMMA ListingIsUnique ==
  ASSUME NEW L, IsFiniteSet(L), NEW n, \A t \in L : n[t] \in Nat,
         NEW q, NEW r, Listing(q, L, n), Listing(r, L, n)
  PROVE  q = r
<1> DEFINE c == Cardinality(L)
           D == {i \in 1 .. c : q[i] # r[i]}
<1>1. c \in Nat
  BY FS_CardinalityType
<1>2. q \in [1 .. c -> L] /\ r \in [1 .. c -> L]
  BY DEF Listing
<1>3. /\ \A i, j \in 1 .. c : i < j => n[q[i]] < n[q[j]] /\ n[r[i]] < n[r[j]]
      /\ \A t \in L : (\E i \in 1 .. c : q[i] = t) /\ (\E i \in 1 .. c : r[i] = t)
  BY <1>2 DEF Listing, Arranges
<1> HIDE DEF c
<1>4. ASSUME D # {} PROVE FALSE
  <2>1. PICK i \in D : \A j \in D : i <= j
    <3>1. D \in SUBSET Nat
      BY <1>1
    <3> HIDE DEF D
    <3>2. QED BY <1>4, <3>1, LeastNatural
  <2>2. i \in 1 .. c /\ q[i] # r[i] /\ \A j \in 1 .. c : j < i => q[j] = r[j]
    BY <2>1
  <2>3. q[i] \in L /\ r[i] \in L /\ n[q[i]] \in Nat /\ n[r[i]] \in Nat
    BY <1>2, <2>2
  <2>4. PICK a \in 1 .. c : q[a] = r[i]
    BY <1>3, <2>3
  <2>5. PICK b \in 1 .. c : r[b] = q[i]
    BY <1>3, <2>3
  <2>6. n[q[i]] < n[r[i]]
    <3>1. a # i
      BY <2>2, <2>4
    <3>2. ~(a < i)
      <4>1. SUFFICES ASSUME a < i PROVE FALSE
        OBVIOUS
      <4>2. r[a] = r[i]
        BY <2>2, <2>4, <4>1
      <4>3. n[r[a]] < n[r[i]]
        BY <1>3, <2>2, <4>1
      <4>4. QED BY <2>3, <4>2, <4>3
    <3>3. i < a
      BY <1>1, <2>2, <3>1, <3>2
    <3>4. QED BY <1>3, <2>2, <2>4, <3>3
  <2>7. n[r[i]] < n[q[i]]
    <3>1. b # i
      BY <2>2, <2>5
    <3>2. ~(b < i)
      <4>1. SUFFICES ASSUME b < i PROVE FALSE
        OBVIOUS
      <4>2. q[b] = q[i]
        BY <2>2, <2>5, <4>1
      <4>3. n[q[b]] < n[q[i]]
        BY <1>3, <2>2, <4>1
      <4>4. QED BY <2>3, <4>2, <4>3
    <3>3. i < b
      BY <1>1, <2>2, <3>1, <3>2
    <3>4. QED BY <1>3, <2>2, <2>5, <3>3
  <2>8. QED BY <2>3, <2>6, <2>7
<1>5. ASSUME NEW i \in 1 .. c PROVE q[i] = r[i]
  <2>1. i \notin D
    BY <1>4
  <2>2. QED BY <2>1
<1>6. q = [i \in 1 .. c |-> q[i]] /\ r = [i \in 1 .. c |-> r[i]]
  BY <1>2
<1>7. [i \in 1 .. c |-> q[i]] = [i \in 1 .. c |-> r[i]]
  BY <1>5
<1>8. QED BY <1>6, <1>7

\* SortedBy is the arrangement, wherever there is one.
LEMMA SortedIsListing ==
  ASSUME NEW L, IsFiniteSet(L), NEW n, \A t \in L : n[t] \in Nat,
         NEW q, Listing(q, L, n)
  PROVE  SortedBy(L, n) = q
<1> DEFINE r == CHOOSE x \in [1 .. Cardinality(L) -> L] : Arranges(x, L, n)
<1>1. Listing(r, L, n)
  BY DEF Listing
<1>2. SortedBy(L, n) = r
  BY DEF SortedBy
<1> HIDE DEF r
<1>3. QED BY <1>1, <1>2, ListingIsUnique

\* A task with a higher number goes to the end of the arrangement.
LEMMA ListingAppend ==
  ASSUME NEW L, IsFiniteSet(L), NEW n, NEW m, NEW q, Listing(q, L, n),
         NEW x, x \notin L, \A t \in L : m[t] = n[t] /\ m[t] < m[x]
  PROVE  Listing(Append(q, x), L \cup {x}, m)
<1> DEFINE c == Cardinality(L)
           M == L \cup {x}
           p == Append(q, x)
<1>1. c \in Nat /\ Cardinality(M) = c + 1
  BY FS_CardinalityType, FS_AddElement
<1>2. q \in [1 .. c -> L] /\ q \in [1 .. c -> M] /\ x \in M
  BY DEF Listing
<1>3. /\ \A i, j \in 1 .. c : i < j => n[q[i]] < n[q[j]]
      /\ \A t \in L : \E i \in 1 .. c : q[i] = t
  BY <1>2 DEF Listing, Arranges
<1> HIDE DEF c
<1>4. OneMore(p, q, c, M, x)
  BY <1>1, <1>2, AppendIsOneMore
<1> HIDE DEF p
<1>5. p \in [1 .. c + 1 -> M] /\ p[c + 1] = x /\ \A i \in 1 .. c : p[i] = q[i]
  BY <1>4 DEF OneMore
<1>6. ASSUME NEW i \in 1 .. c + 1, NEW j \in 1 .. c + 1, i < j
      PROVE  m[p[i]] < m[p[j]]
  <2>1. i \in 1 .. c /\ p[i] = q[i] /\ q[i] \in L
    BY <1>1, <1>2, <1>5, <1>6
  <2>2. CASE j = c + 1
    BY <1>5, <2>1, <2>2
  <2>3. CASE j # c + 1
    <3>1. j \in 1 .. c /\ p[j] = q[j] /\ q[j] \in L
      BY <1>1, <1>2, <1>5, <2>3
    <3>2. QED BY <1>3, <1>6, <2>1, <3>1
  <2>4. QED BY <2>2, <2>3
<1>7. ASSUME NEW t \in M PROVE \E i \in 1 .. c + 1 : p[i] = t
  <2>1. CASE t = x
    BY <1>1, <1>5, <2>1
  <2>2. CASE t \in L
    <3>1. PICK i \in 1 .. c : q[i] = t
      BY <1>3, <2>2
    <3>2. i \in 1 .. c + 1 /\ p[i] = t
      BY <1>1, <1>5, <3>1
    <3>3. QED BY <3>2
  <2>3. QED BY <2>1, <2>2
<1>8. p \in [1 .. Cardinality(M) -> M] /\ DOMAIN p = 1 .. c + 1
  BY <1>1, <1>5
<1> HIDE DEF M
<1>9. Listing(p, M, m)
  BY <1>6, <1>7, <1>8 DEF Listing, Arranges
<1>10. QED BY <1>9 DEF M, p

\* The task with the lowest number leaves from the front.
LEMMA ListingTail ==
  ASSUME NEW L, IsFiniteSet(L), NEW n, \A t \in L : n[t] \in Nat, NEW q, Listing(q, L, n),
         NEW x \in L, \A t \in L : t # x => n[x] < n[t]
  PROVE  q # <<>> /\ Listing(Tail(q), L \ {x}, n)
<1> DEFINE c == Cardinality(L)
           M == L \ {x}
           p == Tail(q)
<1>1. c \in Nat /\ Cardinality(M) = c - 1
  BY FS_CardinalityType, FS_RemoveElement
<1>2. q \in [1 .. c -> L] /\ q \in Seq(L) /\ Len(q) = c
  BY <1>1 DEF Listing
<1>3. /\ \A i, j \in 1 .. c : i < j => n[q[i]] < n[q[j]]
      /\ \A t \in L : \E i \in 1 .. c : q[i] = t
  BY <1>2 DEF Listing, Arranges
<1> HIDE DEF c
<1>4. PICK a \in 1 .. c : q[a] = x
  BY <1>3
<1>5. q # <<>>
  BY <1>1, <1>2, <1>4, EmptySeq
<1>6. q[1] = x
  <2>1. CASE a = 1
    BY <1>4, <2>1
  <2>2. CASE a # 1
    <3>1. 1 \in 1 .. c /\ 1 < a
      BY <1>1, <1>4, <2>2
    <3>2. n[q[1]] < n[x] /\ q[1] \in L
      BY <1>2, <1>3, <1>4, <3>1
    <3>3. n[q[1]] \in Nat /\ n[x] \in Nat
      BY <3>2
    <3>4. QED BY <3>2, <3>3
  <2>3. QED BY <2>1, <2>2
<1>7. /\ p \in Seq(L) /\ Len(p) = c - 1
      /\ \A i \in 1 .. c - 1 : p[i] = q[i + 1]
  BY <1>2, <1>5, HeadTailProperties
<1>8. DOMAIN p = 1 .. c - 1
  BY <1>7, LenProperties
<1> HIDE DEF p
<1>9. ASSUME NEW i \in 1 .. c - 1, NEW j \in 1 .. c - 1, i < j
      PROVE  n[p[i]] < n[p[j]]
  <2>1. i + 1 \in 1 .. c /\ j + 1 \in 1 .. c /\ i + 1 < j + 1
    BY <1>1, <1>9
  <2>2. QED BY <1>3, <1>7, <2>1
<1>10. ASSUME NEW i \in 1 .. c - 1 PROVE p[i] \in M
  <2>1. 1 \in 1 .. c /\ i + 1 \in 1 .. c /\ 1 < i + 1
    BY <1>1
  <2>2. n[x] < n[p[i]] /\ p[i] \in L
    BY <1>2, <1>3, <1>6, <1>7, <2>1
  <2>3. n[x] \in Nat
    OBVIOUS
  <2>4. QED BY <2>2, <2>3
<1>11. ASSUME NEW t \in M PROVE \E i \in 1 .. c - 1 : p[i] = t
  <2>1. PICK i \in 1 .. c : q[i] = t
    BY <1>3
  <2>2. i # 1
    BY <1>6, <2>1
  <2>3. i - 1 \in 1 .. c - 1 /\ (i - 1) + 1 = i
    BY <1>1, <2>1, <2>2
  <2>4. p[i - 1] = t
    BY <1>7, <2>1, <2>3
  <2>5. QED BY <2>3, <2>4
<1>12. p \in [1 .. Cardinality(M) -> M]
  <2>1. p \in [1 .. c - 1 -> L]
    BY <1>7, <1>8
  <2>2. QED BY <1>1, <1>10, <2>1
<1> HIDE DEF M
<1>13. Listing(p, M, n)
  BY <1>8, <1>9, <1>11, <1>12 DEF Listing, Arranges
<1>14. QED BY <1>5, <1>13 DEF M, p

\* The live tasks of every key have an arrangement.
FifoInv ==
  /\ IndInv
  /\ \A k \in Key : IsFiniteSet(LiveOf(k)) /\ \E q : Listing(q, LiveOf(k), ticket)

\* What is known of the queue of a key: it is finite, and InOrder arranges it.
LEMMA InOrderLists ==
  ASSUME FifoInv, NEW k \in Key
  PROVE  /\ IsFiniteSet(LiveOf(k)) /\ \A t \in LiveOf(k) : ticket[t] \in Nat
         /\ Listing(InOrder(k), LiveOf(k), ticket)
<1>1. \A t \in LiveOf(k) : ticket[t] \in Nat
  BY DEF FifoInv, IndInv, TypeOK, LiveOf
<1>2. PICK q : Listing(q, LiveOf(k), ticket)
  BY DEF FifoInv
<1>3. IsFiniteSet(LiveOf(k))
  BY DEF FifoInv
<1>4. QED BY <1>1, <1>2, <1>3, SortedIsListing DEF InOrder

\* A step that keeps the live tasks of a key and their tickets keeps its queue.
LEMMA SameQueue ==
  ASSUME FifoInv, NEW k \in Key, LiveOf(k)' = LiveOf(k),
         \A t \in LiveOf(k) : ticket'[t] = ticket[t]
  PROVE  /\ IsFiniteSet(LiveOf(k))' /\ Listing(InOrder(k), LiveOf(k), ticket)'
         /\ InOrder(k)' = InOrder(k)
<1> DEFINE L == LiveOf(k)
           q == InOrder(k)
<1>1. IsFiniteSet(L) /\ (\A t \in L : ticket[t] \in Nat) /\ Listing(q, L, ticket)
  BY InOrderLists
<1>2. Listing(q, L, ticket')
  <2>1. q \in [1 .. Cardinality(L) -> L]
    BY <1>1 DEF Listing
  <2>2. \A i \in DOMAIN q : ticket'[q[i]] = ticket[q[i]]
    BY <2>1
  <2> HIDE DEF L, q
  <2>3. QED BY <1>1, <2>1, <2>2 DEF Listing, Arranges
<1>3. \A t \in L : ticket'[t] \in Nat
  BY <1>1
<1>4. SortedBy(L, ticket') = q
  <2> HIDE DEF L, q
  <2>1. QED BY <1>1, <1>2, <1>3, SortedIsListing
<1>5. InOrder(k)' = SortedBy(L, ticket')
  BY DEF InOrder
<1>6. QED BY <1>1, <1>2, <1>4, <1>5

\* Enqueue appends to the queue of its key and to no other.
LEMMA EnqueueQueue ==
  ASSUME FifoInv, NEW t \in Task, Enqueue(t)
  PROVE  /\ FifoInv'
         /\ InOrder(keyOf[t])' = Append(InOrder(keyOf[t]), t)
         /\ \A k \in Key : k # keyOf[t] => InOrder(k)' = InOrder(k)
<1>0. IndInv /\ IndInv' /\ keyOf' = keyOf
  BY EnqueueInd DEF FifoInv, Enqueue
<1>1. state' = [state EXCEPT ![t] = "chained"] /\ ticket' = [ticket EXCEPT ![t] = issued + 1] /\ state[t] = "idle"
  BY DEF Enqueue
<1> DEFINE k == keyOf[t]
           L == LiveOf(k)
<1>2. k \in Key
  BY <1>0 DEF IndInv, TypeOK
<1>3. IsFiniteSet(L) /\ (\A u \in L : ticket[u] \in Nat) /\ Listing(InOrder(k), L, ticket)
  BY <1>2, InOrderLists
<1>4. LiveOf(k)' = L \cup {t} /\ t \notin L
  BY <1>0, <1>1 DEF LiveOf, IndInv, TypeOK
<1>5. \A u \in L : ticket'[u] = ticket[u] /\ ticket'[u] < ticket'[t]
  BY <1>0, <1>1, <1>4 DEF LiveOf, IndInv, TypeOK, TicketInv
<1>6. /\ IsFiniteSet(LiveOf(k)')
      /\ \A u \in LiveOf(k)' : ticket'[u] \in Nat
      /\ Listing(Append(InOrder(k), t), LiveOf(k)', ticket')
  <2>1. Listing(Append(InOrder(k), t), L \cup {t}, ticket')
    <3> DEFINE q == InOrder(k)
    <3> HIDE DEF L, q
    <3>1. Listing(Append(q, t), L \cup {t}, ticket')
      BY <1>3, <1>4, <1>5, ListingAppend DEF q
    <3>2. QED BY <3>1 DEF q
  <2>2. IsFiniteSet(L \cup {t})
    <3> HIDE DEF L
    <3>1. QED BY <1>3, FS_AddElement
  <2>3. \A u \in LiveOf(k)' : ticket'[u] \in Nat
    BY <1>0 DEF LiveOf, IndInv, TypeOK
  <2>4. QED BY <1>4, <2>1, <2>2, <2>3
<1>7. SortedBy(LiveOf(k)', ticket') = Append(InOrder(k), t)
  <2> DEFINE M == LiveOf(k)'
             q == Append(InOrder(k), t)
  <2> HIDE DEF M, q
  <2>1. SortedBy(M, ticket') = q
    BY <1>6, SortedIsListing DEF M, q
  <2>2. QED BY <2>1 DEF M, q
<1>8. InOrder(k)' = SortedBy(LiveOf(k)', ticket')
  BY <1>0 DEF InOrder
<1>9. ASSUME NEW j \in Key, j # k
      PROVE  IsFiniteSet(LiveOf(j))' /\ Listing(InOrder(j), LiveOf(j), ticket)' /\ InOrder(j)' = InOrder(j)
  <2>1. LiveOf(j)' = LiveOf(j) /\ \A u \in LiveOf(j) : ticket'[u] = ticket[u]
    BY <1>0, <1>1, <1>9 DEF LiveOf, IndInv, TypeOK
  <2>2. QED BY <2>1, SameQueue
<1>10. FifoInv'
  <2>1. IsFiniteSet(LiveOf(k)') /\ \E q : Listing(q, LiveOf(k)', ticket')
    BY <1>6
  <2>2. ASSUME NEW j \in Key
        PROVE  IsFiniteSet(LiveOf(j)') /\ \E q : Listing(q, LiveOf(j)', ticket')
    BY <1>0, <1>9, <2>1
  <2>3. QED BY <1>0, <2>2 DEF FifoInv
<1>11. QED BY <1>7, <1>8, <1>9, <1>10

\* The finally handler removes the head of the queue of its key and of no other.
LEMMA ReleaseQueue ==
  ASSUME FifoInv, NEW t \in Task, Release(t)
  PROVE  /\ FifoInv'
         /\ InOrder(keyOf[t])' = Tail(InOrder(keyOf[t]))
         /\ \A k \in Key : k # keyOf[t] => InOrder(k)' = InOrder(k)
<1>0. IndInv /\ IndInv' /\ keyOf' = keyOf /\ ticket' = ticket
  BY ReleaseInd DEF FifoInv, Release
<1>1. state' = [state EXCEPT ![t] = "released"] /\ state[t] = "settled"
  BY DEF Release
<1> DEFINE k == keyOf[t]
           L == LiveOf(k)
<1>2. k \in Key
  BY <1>0 DEF IndInv, TypeOK
<1>3. IsFiniteSet(L) /\ (\A u \in L : ticket[u] \in Nat) /\ Listing(InOrder(k), L, ticket)
  BY <1>2, InOrderLists
<1>4. LiveOf(k)' = L \ {t} /\ t \in L
  BY <1>0, <1>1 DEF LiveOf, IndInv, TypeOK
<1>5. \A u \in L : u # t => ticket[t] < ticket[u]
  BY <1>0, <1>1, BegunIsOldest DEF LiveOf
<1>6. /\ IsFiniteSet(LiveOf(k)')
      /\ \A u \in LiveOf(k)' : ticket'[u] \in Nat
      /\ Listing(Tail(InOrder(k)), LiveOf(k)', ticket')
  <2>1. Listing(Tail(InOrder(k)), L \ {t}, ticket)
    <3> DEFINE q == InOrder(k)
    <3> HIDE DEF L, q
    <3>1. Listing(Tail(q), L \ {t}, ticket)
      BY <1>3, <1>4, <1>5, ListingTail DEF q
    <3>2. QED BY <3>1 DEF q
  <2>2. IsFiniteSet(L \ {t})
    <3> HIDE DEF L
    <3>1. QED BY <1>3, FS_RemoveElement
  <2>3. QED BY <1>0, <1>3, <1>4, <2>1, <2>2
<1>7. SortedBy(LiveOf(k)', ticket') = Tail(InOrder(k))
  <2> DEFINE M == LiveOf(k)'
             q == Tail(InOrder(k))
  <2> HIDE DEF M, q
  <2>1. SortedBy(M, ticket') = q
    BY <1>6, SortedIsListing DEF M, q
  <2>2. QED BY <2>1 DEF M, q
<1>8. InOrder(k)' = SortedBy(LiveOf(k)', ticket')
  BY <1>0 DEF InOrder
<1>9. ASSUME NEW j \in Key, j # k
      PROVE  IsFiniteSet(LiveOf(j))' /\ Listing(InOrder(j), LiveOf(j), ticket)' /\ InOrder(j)' = InOrder(j)
  <2>1. LiveOf(j)' = LiveOf(j) /\ \A u \in LiveOf(j) : ticket'[u] = ticket[u]
    BY <1>0, <1>1, <1>9 DEF LiveOf, IndInv, TypeOK
  <2>2. QED BY <2>1, SameQueue
<1>10. FifoInv'
  <2>1. IsFiniteSet(LiveOf(k)') /\ \E q : Listing(q, LiveOf(k)', ticket')
    BY <1>6
  <2>2. ASSUME NEW j \in Key
        PROVE  IsFiniteSet(LiveOf(j)') /\ \E q : Listing(q, LiveOf(j)', ticket')
    BY <1>0, <1>9, <2>1
  <2>3. QED BY <1>0, <2>2 DEF FifoInv
<1>11. QED BY <1>7, <1>8, <1>9, <1>10

\* Every other step keeps all queues.
LEMMA QuietQueue ==
  ASSUME FifoInv, IndInv', keyOf' = keyOf, ticket' = ticket,
         \A t \in Task : state'[t] \in Live <=> state[t] \in Live
  PROVE  /\ FifoInv'
         /\ \A k \in Key : InOrder(k)' = InOrder(k) /\ LiveOf(k)' = LiveOf(k)
<1>1. ASSUME NEW k \in Key
      PROVE  /\ LiveOf(k)' = LiveOf(k) /\ InOrder(k)' = InOrder(k)
             /\ IsFiniteSet(LiveOf(k)') /\ Listing(InOrder(k)', LiveOf(k)', ticket')
  <2>1. LiveOf(k)' = LiveOf(k)
    BY DEF LiveOf
  <2>2. QED BY <2>1, SameQueue
<1>2. QED BY <1>1 DEF FifoInv

\* Whoever has left the chain, seen from the queue of its key.
Begun(k) == \E t \in LiveOf(k) : state[t] # "chained"

\* Nothing has begun in the queue of a task that may start, or that was the one
\* that had begun and is released.
LEMMA NoneBegun ==
  ASSUME IndInv, NEW t \in Task, NEW k \in Key, keyOf[t] = k
  PROVE  /\ Start(t) => ~Begun(k)
         /\ Release(t) => ~Begun(k)'
<1>1. ASSUME Start(t), NEW u \in LiveOf(k), state[u] # "chained" PROVE FALSE
  <2>1. u \in Task /\ keyOf[u] = keyOf[t] /\ state[u] \in {"running", "settled"} /\ u # t
    BY <1>1 DEF LiveOf, Start
  <2>2. ticket[u] < ticket[t]
    BY <1>1, <2>1, BegunIsOldest DEF Start
  <2>3. prev[t] # NoTask /\ state[prev[t]] \in Live
    BY <1>1, <2>1, <2>2 DEF IndInv, ChainInv, Start
  <2>4. QED BY <1>1, <2>3 DEF Start, PrevOver
<1>2. ASSUME Release(t), NEW u \in LiveOf(k)', state'[u] # "chained" PROVE FALSE
  <2>1. /\ u \in Task /\ keyOf[u] = keyOf[t] /\ state[u] \in {"running", "settled"}
        /\ u # t /\ state[t] = "settled"
    BY <1>2 DEF LiveOf, Release, IndInv, TypeOK
  <2>2. ticket[u] < ticket[t] /\ ticket[t] < ticket[u]
    BY <2>1, BegunIsOldest
  <2>3. ticket[u] \in Nat /\ ticket[t] \in Nat
    BY <2>1 DEF IndInv, TypeOK
  <2>4. QED BY <2>2, <2>3
<1>3. ASSUME Start(t) PROVE ~Begun(k)
  BY <1>1, <1>3 DEF Begun
<1>4. ASSUME Release(t) PROVE ~Begun(k)'
  BY <1>2, <1>4 DEF Begun
<1>5. QED BY <1>3, <1>4

\* The values the explicit queue has under the mapping.
Queues == [k \in Key |-> InOrder(k)]
Busies == [k \in Key |-> \E t \in LiveOf(k) : state[t] # "chained"]
Unsent == {t \in Task : state[t] = "idle"}

\* The first state of the promise chain is the first state of the queue.
LEMMA FifoInit == Init => FifoInv /\ Fifo!Init
<1> SUFFICES ASSUME Init PROVE FifoInv /\ Fifo!Init
  OBVIOUS
<1>1. IndInv
  BY InitInd
<1>2. \A k \in Key : LiveOf(k) = {}
  BY DEF Init, LiveOf
<1>3. Listing(<<>>, {}, ticket) /\ IsFiniteSet({})
  <2>1. Cardinality({}) = 0 /\ IsFiniteSet({})
    BY FS_EmptySet
  <2>2. <<>> \in [1 .. 0 -> {}] /\ DOMAIN <<>> = {}
    OBVIOUS
  <2>3. QED BY <2>1, <2>2 DEF Listing, Arranges
<1>4. FifoInv
  BY <1>1, <1>2, <1>3 DEF FifoInv
<1>5. \A k \in Key : InOrder(k) = <<>>
  <2>1. SortedBy({}, ticket) = <<>>
    BY <1>3, SortedIsListing
  <2>2. QED BY <1>2, <2>1 DEF InOrder
<1>6. Queues = [k \in Key |-> <<>>]
  BY <1>5 DEF Queues
<1>7. Busies = [k \in Key |-> FALSE]
  <2>1. \A k \in Key : (\E t \in LiveOf(k) : state[t] # "chained") = FALSE
    BY <1>2
  <2>2. QED BY <2>1, Zenon DEF Busies
<1>8. Unsent = Task /\ keyOf \in [Task -> Key]
  BY DEF Unsent, Init
<1>9. QED BY <1>4, <1>6, <1>7, <1>8 DEF Fifo!Init, Queues, Busies, Unsent

\* An enqueue submits.
LEMMA EnqueueSubmits ==
  ASSUME FifoInv, NEW t \in Task, Enqueue(t) PROVE Fifo!Submit(t)
<1>0. IndInv
  BY DEF FifoInv
<1>1. keyOf' = keyOf /\ state' = [state EXCEPT ![t] = "chained"] /\ state[t] = "idle" /\ keyOf[t] \in Key
  BY <1>0 DEF Enqueue, IndInv, TypeOK
<1>2. t \in Unsent /\ Unsent' = Unsent \ {t}
  BY <1>0, <1>1 DEF Unsent, IndInv, TypeOK
<1>3. Queues' = [Queues EXCEPT ![keyOf[t]] = Append(@, t)]
  BY <1>1, EnqueueQueue DEF Queues
<1>4. ASSUME NEW k \in Key PROVE Begun(k)' <=> Begun(k)
  BY <1>0, <1>1 DEF Begun, LiveOf, IndInv, TypeOK
<1>5. Busies' = Busies
  BY <1>4, Zenon DEF Busies, Begun
<1>6. QED BY <1>1, <1>2, <1>3, <1>5 DEF Fifo!Submit, Queues, Busies, Unsent

\* A start begins the head of its queue.
LEMMA StartBegins ==
  ASSUME FifoInv, NEW t \in Task, Start(t), NEW k \in Key, keyOf[t] = k
  PROVE  FifoInv' /\ Fifo!Begin(k)
<1>0. IndInv /\ IndInv'
  BY StartInd DEF FifoInv
<1>1. /\ keyOf' = keyOf /\ ticket' = ticket /\ state' = [state EXCEPT ![t] = "running"]
      /\ state[t] = "chained"
  BY <1>0 DEF Start, IndInv, TypeOK
<1>2. \A u \in Task : state'[u] \in Live <=> state[u] \in Live
  BY <1>0, <1>1 DEF IndInv, TypeOK
<1>3. FifoInv' /\ \A j \in Key : InOrder(j)' = InOrder(j) /\ LiveOf(j)' = LiveOf(j)
  BY <1>0, <1>1, <1>2, QuietQueue
<1>4. Queues' = Queues
  BY <1>3 DEF Queues
<1>5. Unsent' = Unsent
  BY <1>0, <1>1 DEF Unsent, IndInv, TypeOK
<1>6. InOrder(k) # <<>>
  <2> DEFINE q == InOrder(k)
  <2>1. t \in LiveOf(k) /\ Listing(q, LiveOf(k), ticket)
    BY <1>1, InOrderLists DEF LiveOf
  <2>2. PICK i \in DOMAIN q : q[i] = t
    BY <2>1 DEF Listing, Arranges
  <2> HIDE DEF q
  <2>3. q # <<>>
    BY <2>2
  <2>4. QED BY <2>3 DEF q
<1>7. ~Begun(k)
  BY <1>0, NoneBegun
<1>8. Begun(k)'
  BY <1>0, <1>1 DEF Begun, LiveOf, IndInv, TypeOK
<1>9. ASSUME NEW j \in Key, j # k PROVE Begun(j)' <=> Begun(j)
  BY <1>0, <1>1, <1>9 DEF Begun, LiveOf, IndInv, TypeOK
<1>10. Busies' = [Busies EXCEPT ![k] = TRUE]
  BY <1>1, <1>8, <1>9, Zenon DEF Busies, Begun
<1>11. ~Busies[k] /\ Queues[k] # <<>>
  BY <1>1, <1>6, <1>7, Zenon DEF Busies, Queues, Begun
<1>12. QED BY <1>1, <1>3, <1>4, <1>5, <1>10, <1>11 DEF Fifo!Begin, Queues, Busies, Unsent

\* The end of the task itself is not visible in the queue.
LEMMA SettleStutters ==
  ASSUME FifoInv, NEW t \in Task, Settle(t) PROVE FifoInv' /\ UNCHANGED Fifo!vars
<1>0. IndInv /\ IndInv'
  BY SettleInd DEF FifoInv
<1>1. /\ keyOf' = keyOf /\ ticket' = ticket /\ state' = [state EXCEPT ![t] = "settled"]
      /\ state[t] = "running" /\ keyOf[t] \in Key
  BY <1>0 DEF Settle, IndInv, TypeOK
<1>2. \A u \in Task : state'[u] \in Live <=> state[u] \in Live
  BY <1>0, <1>1 DEF IndInv, TypeOK
<1>3. FifoInv' /\ \A k \in Key : InOrder(k)' = InOrder(k) /\ LiveOf(k)' = LiveOf(k)
  BY <1>0, <1>1, <1>2, QuietQueue
<1>4. Queues' = Queues
  BY <1>3 DEF Queues
<1>5. Unsent' = Unsent
  BY <1>0, <1>1 DEF Unsent, IndInv, TypeOK
<1>6. ASSUME NEW k \in Key PROVE Begun(k)' <=> Begun(k)
  BY <1>0, <1>1, <1>6 DEF Begun, LiveOf, IndInv, TypeOK
<1>7. Busies' = Busies
  BY <1>6, Zenon DEF Busies, Begun
<1>8. QED BY <1>1, <1>3, <1>4, <1>5, <1>7 DEF Fifo!vars, Queues, Busies, Unsent

\* The finally handler finishes the head of its queue.
LEMMA ReleaseFinishes ==
  ASSUME FifoInv, NEW t \in Task, Release(t), NEW k \in Key, keyOf[t] = k
  PROVE  Fifo!Finish(k)
<1>0. IndInv
  BY DEF FifoInv
<1>1. keyOf' = keyOf /\ state' = [state EXCEPT ![t] = "released"] /\ state[t] = "settled"
  BY <1>0 DEF Release, IndInv, TypeOK
<1>2. Unsent' = Unsent
  BY <1>0, <1>1 DEF Unsent, IndInv, TypeOK
<1>3. Queues' = [Queues EXCEPT ![k] = Tail(@)]
  BY <1>1, ReleaseQueue DEF Queues
<1>4. Begun(k)
  BY <1>1 DEF Begun, LiveOf
<1>5. ~Begun(k)'
  BY <1>0, NoneBegun
<1>6. ASSUME NEW j \in Key, j # k PROVE Begun(j)' <=> Begun(j)
  BY <1>0, <1>1, <1>6 DEF Begun, LiveOf, IndInv, TypeOK
<1>7. Busies' = [Busies EXCEPT ![k] = FALSE]
  <2>1. ~ \E u \in LiveOf(k)' : state'[u] # "chained"
    BY <1>1, <1>5 DEF Begun
  <2>2. QED BY <1>1, <1>6, <2>1, Zenon DEF Busies, Begun
<1>8. Busies[k]
  BY <1>1, <1>4, Zenon DEF Busies, Begun
<1>9. QED BY <1>1, <1>2, <1>3, <1>7, <1>8 DEF Fifo!Finish, Queues, Busies, Unsent

\* Every step of the promise chain is a step of the queue or leaves it alone.
LEMMA FifoStep ==
  ASSUME FifoInv, [Next]_vars PROVE FifoInv' /\ [Fifo!Next]_(Fifo!vars)
<1>1. CASE UNCHANGED vars
  <2>1. IndInv /\ IndInv' /\ keyOf' = keyOf /\ ticket' = ticket /\ state' = state
    BY <1>1, NextInd DEF FifoInv, vars
  <2>2. FifoInv' /\ \A k \in Key : InOrder(k)' = InOrder(k) /\ LiveOf(k)' = LiveOf(k)
    BY <2>1, QuietQueue
  <2>3. Queues' = Queues /\ Unsent' = Unsent
    BY <2>1, <2>2 DEF Queues, Unsent
  <2>4. Busies' = Busies
    BY <2>1, <2>2, Zenon DEF Busies
  <2>5. QED BY <2>1, <2>2, <2>3, <2>4 DEF Fifo!vars, Queues, Busies, Unsent
<1>2. ASSUME NEW t \in Task, Enqueue(t) PROVE FifoInv' /\ Fifo!Next
  BY <1>2, EnqueueQueue, EnqueueSubmits DEF Fifo!Next
<1>3. ASSUME NEW t \in Task, Start(t) PROVE FifoInv' /\ Fifo!Next
  <2>1. keyOf[t] \in Key
    BY DEF FifoInv, IndInv, TypeOK
  <2>2. PICK k \in Key : keyOf[t] = k
    BY <2>1
  <2>3. QED BY <1>3, <2>2, StartBegins DEF Fifo!Next
<1>4. ASSUME NEW t \in Task, Settle(t) PROVE FifoInv' /\ UNCHANGED Fifo!vars
  BY <1>4, SettleStutters
<1>5. ASSUME NEW t \in Task, Release(t) PROVE FifoInv' /\ Fifo!Next
  <2>1. keyOf[t] \in Key
    BY DEF FifoInv, IndInv, TypeOK
  <2>2. PICK k \in Key : keyOf[t] = k
    BY <2>1
  <2>3. QED BY <1>5, <2>2, ReleaseQueue, ReleaseFinishes DEF Fifo!Next
<1>6. QED BY <1>1, <1>2, <1>3, <1>4, <1>5 DEF Next, Quiescent

\* The promise chains of a Map implement the explicit first-in first-out queues:
\* whoever reasons about a queue of the core may reason about KeyedFifo.
THEOREM ChainImplementsFifo == Spec => ImplementsFifo
  BY FifoInit, FifoStep, PTL DEF Spec, ImplementsFifo, Fifo!Spec
=============================================================================
