------------------------ MODULE ArtifactDeliveryProofs ------------------------
(***************************************************************************)
(* At most one arrival per stored receipt, for any calls, runs and files,  *)
(* any size of the memory and any number of crashes.                       *)
(*                                                                         *)
(* SentOnce is not inductive: a second Arrive must be excluded.  What      *)
(* excludes it is the lock (LockIffSending: one sender per key) and that   *)
(* an unforced sender's key has no receipt (SenderIsFirst), so that the    *)
(* arrivals before its own are all among the lost ones (Balance).          *)
(***************************************************************************)
EXTENDS ArtifactDelivery, TLAPS

\* An unforced call that sends has found no receipt, and none came since.
SenderIsFirst == \A c \in Call : pc[c] \in Sending /\ c \notin Resent => KeyOf(c) \notin receipts

\* The arrivals of a key: the lost ones, the one in hand and the one on record.
Balance ==
  \A k \in Key : Unforced(k) =>
    /\ sends[k] <= 1 + lost[k]
    /\ k \notin receipts /\ (\A c \in Call : KeyOf(c) = k => pc[c] # "arrived")
         => sends[k] <= lost[k]

IndInv == TypeOK /\ LockIffSending /\ SenderIsFirst /\ Balance

\* Keys are pairs of a run and a file.
LEMMA KeyType ==
  ASSUME NEW c \in Call PROVE KeyOf(c) \in Key
BY ArtifactAssumption DEF KeyOf, Key

\* rememberCompletedArtifactDelivery keeps the memory a list of keys within its limit.
LEMMA RememberType ==
  ASSUME completed \in Seq(Key), Len(completed) <= MaxKeys, NEW k \in Key, Remember(k)
  PROVE  completed' \in Seq(Key) /\ Len(completed') <= MaxKeys
<1>1. CASE IsCompleted(k)
  BY <1>1 DEF Remember
<1>2. CASE ~IsCompleted(k) /\ Len(completed) < MaxKeys
  BY <1>2, ArtifactAssumption DEF Remember
<1>3. CASE ~IsCompleted(k) /\ ~(Len(completed) < MaxKeys)
  <2>1. completed' = Tail(Append(completed, k))
    BY <1>3 DEF Remember
  <2>2. Append(completed, k) \in Seq(Key) /\ Len(Append(completed, k)) = Len(completed) + 1
    OBVIOUS
  <2>3. QED BY <2>1, <2>2, ArtifactAssumption
<1>4. QED BY <1>1, <1>2, <1>3

\* Init establishes the invariant.
LEMMA InitInv == Init => IndInv
<1> SUFFICES ASSUME Init PROVE IndInv
  OBVIOUS
<1>1. TypeOK
  BY ArtifactAssumption DEF Init, TypeOK
<1>2. LockIffSending
  BY DEF Init, LockIffSending, Sending
<1>3. SenderIsFirst
  BY DEF Init, SenderIsFirst
<1>4. Balance
  BY DEF Init, Balance
<1>5. QED BY <1>1, <1>2, <1>3, <1>4 DEF IndInv

\* A call that returns without sending, waits, wakes or reports changes none
\* of what the invariant counts.
LEMMA QuietStep ==
  ASSUME IndInv, NEW c \in Call, Skip(c) \/ Wait(c) \/ Woken(c) \/ Report(c)
  PROVE  IndInv'
<1> USE DEF IndInv
<1>1. pc[c] \notin Sending /\ pc'[c] \notin Sending /\ \A d \in Call : d # c => pc'[d] = pc[d]
  BY DEF Skip, Wait, Woken, Report, Return, TypeOK, Sending
<1>2. UNCHANGED <<crashes, lock, receipts, sends, lost>>
  BY DEF Skip, Wait, Woken, Report, memory
<1>3. completed' \in Seq(Key) /\ Len(completed') <= MaxKeys
  BY RememberType, KeyType DEF Skip, Wait, Woken, Report, memory, TypeOK
<1>4. TypeOK'
  <2>1. CASE Skip(c)
    BY <2>1, <1>2, <1>3 DEF Skip, Return, TypeOK
  <2>2. CASE Wait(c)
    BY <2>2, <1>2, <1>3, KeyType DEF Wait, TypeOK
  <2>3. CASE Woken(c)
    BY <2>3, <1>2, <1>3 DEF Woken, Return, TypeOK
  <2>4. CASE Report(c)
    BY <2>4, <1>2, <1>3, ArtifactAssumption DEF Report, TypeOK
  <2>5. QED BY <2>1, <2>2, <2>3, <2>4
<1>5. LockIffSending'
  <2>1. ASSUME NEW k \in Key PROVE lock'[k] # NoCall => pc'[lock'[k]] \in Sending /\ KeyOf(lock'[k]) = k
    BY <1>1, <1>2 DEF LockIffSending, TypeOK
  <2>2. ASSUME NEW k \in Key, NEW d \in Call, KeyOf(d) = k, pc'[d] \in Sending PROVE lock'[k] = d
    BY <1>1, <1>2, <2>2 DEF LockIffSending
  <2>3. QED BY <2>1, <2>2 DEF LockIffSending, KeyOf
<1>6. SenderIsFirst'
  BY <1>1, <1>2 DEF SenderIsFirst, KeyOf
<1>7. Balance'
  <2>1. \A d \in Call : pc'[d] = "arrived" <=> pc[d] = "arrived"
    BY <1>1 DEF Sending
  <2>2. QED BY <2>1, <1>2 DEF Balance, Unforced, KeyOf
<1>8. QED BY <1>4, <1>5, <1>6, <1>7

\* The sender is the only one of its key, before and after.
LEMMA StartStep ==
  ASSUME IndInv, NEW c \in Call, Start(c)
  PROVE  IndInv'
<1> USE DEF IndInv
<1>1. pc' = [pc EXCEPT ![c] = "sending"] /\ pc[c] = "new"
  BY DEF Start
<1>2. TypeOK'
  BY KeyType DEF Start, TypeOK, Sending
<1>3. LockIffSending'
  <2>1. lock' = [lock EXCEPT ![KeyOf(c)] = c] /\ lock[KeyOf(c)] = NoCall /\ KeyOf(c) \in Key
    BY KeyType DEF Start
  <2>2. ASSUME NEW k \in Key PROVE lock'[k] # NoCall => pc'[lock'[k]] \in Sending /\ KeyOf(lock'[k]) = k
    BY <1>1, <2>1, ArtifactAssumption DEF LockIffSending, TypeOK, Sending
  <2>3. ASSUME NEW k \in Key, NEW d \in Call, KeyOf(d) = k, pc'[d] \in Sending PROVE lock'[k] = d
    BY <1>1, <2>1, <2>3, ArtifactAssumption DEF LockIffSending, TypeOK, Sending
  <2>4. QED BY <2>2, <2>3 DEF LockIffSending, KeyOf
<1>4. SenderIsFirst'
  BY <1>1 DEF Start, SenderIsFirst, Unknown, KeyOf, TypeOK
<1>5. Balance'
  BY <1>1 DEF Start, Balance, Unforced, KeyOf, TypeOK
<1>6. QED BY <1>2, <1>3, <1>4, <1>5

\* The file arrives: by SenderIsFirst and the lock all earlier arrivals are lost ones.
LEMMA ArriveStep ==
  ASSUME IndInv, NEW c \in Call, Arrive(c)
  PROVE  IndInv'
<1> USE DEF IndInv
<1>1. pc' = [pc EXCEPT ![c] = "arrived"] /\ pc[c] = "sending" /\ KeyOf(c) \in Key
  BY KeyType DEF Arrive
<1>2. UNCHANGED <<crashes, result, waits, completed, lock, receipts, last, lost>>
  BY DEF Arrive, memory
<1>3. sends' = [sends EXCEPT ![KeyOf(c)] = @ + 1]
  BY DEF Arrive
<1>4. TypeOK'
  BY <1>1, <1>2, <1>3 DEF TypeOK, Sending
<1>5. LockIffSending'
  BY <1>1, <1>2 DEF LockIffSending, TypeOK, Sending, KeyOf
<1>6. SenderIsFirst'
  BY <1>1, <1>2 DEF SenderIsFirst, TypeOK, Sending, KeyOf
<1>7. ASSUME NEW k \in Key, Unforced(k)
      PROVE  /\ sends'[k] <= 1 + lost'[k]
             /\ k \notin receipts' /\ (\A d \in Call : KeyOf(d) = k => pc'[d] # "arrived")
                  => sends'[k] <= lost'[k]
  <2>1. CASE k = KeyOf(c)
    <3>1. c \notin Resent
      BY <2>1, <1>7 DEF Unforced
    <3>2. k \notin receipts
      BY <2>1, <3>1, <1>1 DEF SenderIsFirst, Sending
    <3>3. \A d \in Call : KeyOf(d) = k => pc[d] # "arrived"
      BY <2>1, <1>1, ArtifactAssumption DEF LockIffSending, Sending
    <3>4. sends[k] <= lost[k] /\ sends[k] \in Nat /\ lost[k] \in Nat
      BY <1>7, <3>2, <3>3 DEF Balance, TypeOK
    <3>5. sends'[k] = sends[k] + 1 /\ lost'[k] = lost[k] /\ pc'[c] = "arrived"
      BY <2>1, <1>1, <1>2, <1>3 DEF TypeOK
    <3>6. QED BY <2>1, <3>4, <3>5
  <2>2. CASE k # KeyOf(c)
    BY <2>2, <1>1, <1>2, <1>3, <1>7 DEF Balance, TypeOK
  <2>3. QED BY <2>1, <2>2
<1>8. Balance'
  BY <1>7 DEF Balance, Unforced, KeyOf
<1>9. QED BY <1>4, <1>5, <1>6, <1>8

\* A send ends: its arrival is on record, or lost, or there was none.
LEMMA EndStep ==
  ASSUME IndInv, NEW c \in Call,
         (\E stored \in BOOLEAN : Succeed(c, stored)) \/ NothingToSend(c) \/ Throw(c)
  PROVE  IndInv'
<1> USE DEF IndInv
<1> DEFINE k == KeyOf(c)
<1>1. k \in Key
  BY KeyType
<1>2. /\ pc[c] \in Sending /\ pc'[c] \in {"reporting", "over"}
      /\ \A d \in Call : d # c => pc'[d] = pc[d]
  BY DEF Succeed, NothingToSend, Throw, Return, TypeOK, Sending
<1>3. /\ Unlock(c) /\ lock[k] = c
      /\ UNCHANGED <<crashes, waits, last, sends>>
  BY <1>1, <1>2 DEF Succeed, NothingToSend, Throw, LockIffSending
<1>4. completed' \in Seq(Key) /\ Len(completed') <= MaxKeys
  BY <1>1, RememberType DEF Succeed, NothingToSend, Throw, TypeOK
<1>5. \/ receipts' = receipts \cup {k} /\ lost' = lost
      \/ receipts' = receipts /\ lost' = [lost EXCEPT ![k] = @ + 1]
      \/ pc[c] = "sending" /\ receipts' = receipts /\ lost' = lost
  BY <1>1, <1>2 DEF Succeed, NothingToSend, Throw, TypeOK, Sending
<1>6. TypeOK'
  <2>1. pc' \in [Call -> Sending \cup {"new", "waiting", "reporting", "over", "dead"}]
        /\ result' \in [Call -> {"none", "receipt", "skipped", "nothing", "error"}]
    BY DEF Succeed, NothingToSend, Throw, Return, TypeOK
  <2>2. lock' \in [Key -> Call \cup {NoCall}]
    BY <1>1, <1>3 DEF Unlock, TypeOK
  <2>3. receipts' \subseteq Key /\ lost' \in [Key -> Nat]
    <3>1. receipts \subseteq Key /\ lost \in [Key -> Nat]
      BY DEF TypeOK
    <3>2. QED BY <1>1, <1>5, <3>1
  <2>4. QED BY <2>1, <2>2, <2>3, <1>3, <1>4 DEF TypeOK
<1>7. LockIffSending'
  <2>1. lock' = [lock EXCEPT ![k] = NoCall]
    BY <1>1, <1>3 DEF Unlock, TypeOK
  <2>2. ASSUME NEW j \in Key PROVE lock'[j] # NoCall => pc'[lock'[j]] \in Sending /\ KeyOf(lock'[j]) = j
    <3>1. SUFFICES ASSUME lock'[j] # NoCall PROVE pc'[lock'[j]] \in Sending /\ KeyOf(lock'[j]) = j
      OBVIOUS
    <3>2. j # k /\ lock'[j] = lock[j]
      BY <1>1, <2>1, <3>1 DEF TypeOK
    <3>3. lock[j] \in Call /\ pc[lock[j]] \in Sending /\ KeyOf(lock[j]) = j
      BY <3>1, <3>2 DEF LockIffSending, TypeOK
    <3>4. lock[j] # c
      BY <3>2, <3>3
    <3>5. QED BY <1>2, <3>2, <3>3, <3>4
  <2>3. ASSUME NEW j \in Key, NEW d \in Call, KeyOf(d) = j, pc'[d] \in Sending PROVE lock'[j] = d
    <3>1. d # c
      BY <1>2, <2>3 DEF Sending
    <3>2. pc[d] \in Sending /\ lock[j] = d
      BY <1>2, <2>3, <3>1 DEF LockIffSending
    <3>3. j # k
      BY <1>3, <3>1, <3>2
    <3>4. QED BY <1>1, <2>1, <3>2, <3>3 DEF TypeOK
  <2>4. QED BY <2>2, <2>3 DEF LockIffSending, KeyOf
<1>8. SenderIsFirst'
  <2>1. ASSUME NEW d \in Call, pc'[d] \in Sending, d \notin Resent PROVE KeyOf(d) \notin receipts'
    <3>1. d # c /\ pc[d] \in Sending
      BY <1>2, <2>1 DEF Sending
    <3>2. KeyOf(d) # k
      BY <1>3, <3>1, KeyType DEF LockIffSending
    <3>3. KeyOf(d) \notin receipts
      BY <2>1, <3>1 DEF SenderIsFirst
    <3>4. QED BY <1>5, <3>2, <3>3
  <2>2. QED BY <2>1 DEF SenderIsFirst, KeyOf
<1>9. Balance'
  <2>1. ASSUME NEW j \in Key, Unforced(j)
        PROVE  /\ sends'[j] <= 1 + lost'[j]
               /\ j \notin receipts' /\ (\A d \in Call : KeyOf(d) = j => pc'[d] # "arrived")
                    => sends'[j] <= lost'[j]
    <3>1. sends[j] \in Nat /\ lost[j] \in Nat /\ sends'[j] = sends[j] /\ sends[j] <= 1 + lost[j]
      BY <1>3, <2>1 DEF TypeOK, Balance
    <3>2. CASE j # k
      <4>1. lost'[j] = lost[j] /\ (j \in receipts' <=> j \in receipts)
        BY <1>1, <1>5, <3>2 DEF TypeOK
      <4>2. (\A d \in Call : KeyOf(d) = j => pc'[d] # "arrived")
              => \A d \in Call : KeyOf(d) = j => pc[d] # "arrived"
        BY <1>2, <3>2
      <4>3. QED BY <2>1, <3>1, <4>1, <4>2 DEF Balance
    <3>3. CASE j = k
      <4>1. CASE receipts' = receipts \cup {k} /\ lost' = lost
        BY <3>1, <3>3, <4>1
      <4>2. CASE receipts' = receipts /\ lost' = [lost EXCEPT ![k] = @ + 1]
        BY <1>1, <3>1, <3>3, <4>2 DEF TypeOK
      <4>3. CASE pc[c] = "sending" /\ receipts' = receipts /\ lost' = lost
        <5>1. \A d \in Call : KeyOf(d) = k => pc[d] # "arrived"
          BY <1>1, <1>3, <4>3 DEF LockIffSending, Sending
        <5>2. QED BY <2>1, <3>1, <3>3, <4>3, <5>1 DEF Balance
      <4>4. QED BY <1>5, <4>1, <4>2, <4>3
    <3>4. QED BY <3>2, <3>3
  <2>2. QED BY <2>1 DEF Balance, Unforced, KeyOf
<1>10. QED BY <1>6, <1>7, <1>8, <1>9

\* A crash loses at most the arrival in hand, and all senders.
LEMMA CrashStep ==
  ASSUME IndInv, Crash
  PROVE  IndInv'
<1> USE DEF IndInv
<1>1. \A c \in Call : pc'[c] \in {"new", "over", "dead"}
  BY DEF Crash, TypeOK, Sending
<1>2. TypeOK'
  BY ArtifactAssumption DEF Crash, TypeOK
<1>3. LockIffSending'
  BY <1>1 DEF Crash, LockIffSending, Sending
<1>4. SenderIsFirst'
  BY <1>1 DEF SenderIsFirst, Sending
<1>5. ASSUME NEW k \in Key, Unforced(k)
      PROVE  sends'[k] <= 1 + lost'[k] /\ (k \notin receipts' => sends'[k] <= lost'[k])
  <2>1. sends' = sends /\ receipts' = receipts /\ sends[k] \in Nat /\ lost[k] \in Nat
    BY DEF Crash, TypeOK
  <2>2. sends[k] <= 1 + lost[k]
    BY <1>5 DEF Balance
  <2>3. CASE \E c \in Call : KeyOf(c) = k /\ pc[c] = "arrived"
    <3>1. lost'[k] = lost[k] + 1
      BY <2>3 DEF Crash
    <3>2. QED BY <2>1, <2>2, <3>1
  <2>4. CASE ~ \E c \in Call : KeyOf(c) = k /\ pc[c] = "arrived"
    <3>1. lost'[k] = lost[k]
      BY <2>4 DEF Crash
    <3>2. k \notin receipts => sends[k] <= lost[k]
      BY <1>5, <2>4 DEF Balance
    <3>3. QED BY <2>1, <2>2, <3>1, <3>2
  <2>5. QED BY <2>3, <2>4
<1>6. Balance'
  BY <1>5 DEF Balance, Unforced, KeyOf
<1>7. QED BY <1>2, <1>3, <1>4, <1>6

\* Every step preserves the invariant.
LEMMA NextInv == IndInv /\ [Next]_vars => IndInv'
<1> SUFFICES ASSUME IndInv, [Next]_vars PROVE IndInv'
  OBVIOUS
<1>1. ASSUME NEW c \in Call, Step(c) PROVE IndInv'
  BY <1>1, QuietStep, StartStep, ArriveStep, EndStep DEF Step
<1>2. CASE TextDelivered
  BY <1>2, ArtifactAssumption
     DEF TextDelivered, IndInv, TypeOK, LockIffSending, SenderIsFirst, Balance, Unforced, KeyOf, memory
<1>3. CASE Crash
  BY <1>3, CrashStep
<1>4. CASE UNCHANGED vars
  BY <1>4 DEF vars, memory, IndInv, TypeOK, LockIffSending, SenderIsFirst, Balance, Unforced, KeyOf
<1>5. QED BY <1>1, <1>2, <1>3, <1>4 DEF Next

\* The invariant holds always.
THEOREM ArtifactInvariant == Spec => []IndInv
<1>1. QED BY InitInv, NextInv, PTL DEF Spec

\* Type correctness, the limit of the memory of completed keys included.
THEOREM ArtifactTypeOK == Spec => []TypeOK
<1>1. IndInv => TypeOK
  BY DEF IndInv
<1>2. QED BY <1>1, ArtifactInvariant, PTL

\* The locks of deliverArtifactOnce are those of its senders.
THEOREM ArtifactLock == Spec => []LockIffSending
<1>1. IndInv => LockIffSending
  BY DEF IndInv
<1>2. QED BY <1>1, ArtifactInvariant, PTL

\* A file of a run arrives once, and again only for arrivals without a receipt.
THEOREM ArtifactSentOnce == Spec => []SentOnce
<1>1. IndInv => SentOnce
  BY DEF IndInv, Balance, SentOnce
<1>2. QED BY <1>1, ArtifactInvariant, PTL

\* A stored receipt ends the sends of its key.
THEOREM ArtifactReceiptStops == Spec => ReceiptStopsSends
<1>1. ASSUME IndInv, [Next]_vars, NEW k \in Key, k \in receipts, Unforced(k)
      PROVE  sends'[k] = sends[k]
  <2>1. ASSUME NEW c \in Call, Arrive(c) PROVE sends'[k] = sends[k]
    <3>1. KeyOf(c) # k
      <4>1. c \notin Resent => KeyOf(c) \notin receipts
        BY <1>1, <2>1 DEF IndInv, SenderIsFirst, Arrive, Sending
      <4>2. QED BY <1>1, <4>1 DEF Unforced
    <3>2. QED BY <1>1, <2>1, <3>1, KeyType DEF Arrive, IndInv, TypeOK
  <2>2. ASSUME NEW c \in Call, Step(c), ~Arrive(c) PROVE sends' = sends
    BY <2>2 DEF Step, Skip, Wait, Woken, Start, Succeed, NothingToSend, Throw, Report
  <2>3. CASE TextDelivered \/ Crash \/ UNCHANGED vars
    BY <2>3 DEF TextDelivered, Crash, vars
  <2>4. QED BY <1>1, <2>1, <2>2, <2>3 DEF Next
<1>2. IndInv /\ [Next]_vars => [\A k \in Key : k \in receipts /\ Unforced(k) => sends'[k] = sends[k]]_vars
  BY <1>1
<1>3. QED BY <1>2, ArtifactInvariant, PTL DEF Spec, ReceiptStopsSends
==============================================================================
