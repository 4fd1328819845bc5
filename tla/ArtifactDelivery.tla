--------------------------- MODULE ArtifactDelivery ---------------------------
(***************************************************************************)
(* deliverArtifactOnce (runs/delivery.ts): the runs of one lineage send    *)
(* files to one channel.  Three records keep a file from being sent twice: *)
(* the keys completed in memory, the receipts in the database and the last *)
(* delivery receipt of the lineage; a lock keeps two calls from sending at *)
(* the same time.  A call may come while another one is sending, because   *)
(* the queue in front of it lets the next chunk go when a send outlives    *)
(* its timer (ChunkDelivery!TimesOut).  The process may die at any point.  *)
(***************************************************************************)
EXTENDS Naturals, Sequences

CONSTANTS Call,      \* the calls that are made
          NoCall,
          Run, File,
          RunOf,     \* the run of a call
          FileOf,    \* the file of a call
          Resent,    \* the calls of resendArtifact
          NoFile,    \* no file: the last receipt is of a text, or there is none
          MaxKeys,   \* MAX_COMPLETED_ARTIFACT_DELIVERY_KEYS
          MaxCrash   \* bound: crashes

ASSUME ArtifactAssumption ==
  /\ NoCall \notin Call /\ NoFile \notin File /\ Resent \subseteq Call
  /\ RunOf \in [Call -> Run] /\ FileOf \in [Call -> File]
  /\ MaxKeys \in Nat /\ MaxCrash \in Nat

\* buildArtifactDeliveryKey
Key == Run \X File
KeyOf(c) == <<RunOf[c], FileOf[c]>>

VARIABLES
  crashes,    \* how often the process died
  pc,         \* where a call stands
  result,     \* what it returned
  waits,      \* the call whose delivery it waits for
  completed,  \* completedArtifactDeliveryKeys, in the order of insertion
  lock,       \* activeArtifactDeliveryLocks
  receipts,   \* the keys with a row in artifact_receipts
  last,       \* lastDeliveryReceipt of the lineage: a file, or NoFile
  sends,      \* channel: how often the file of a key arrived
  lost        \* arrivals of which no receipt was stored

memory == <<completed, lock>>
vars == <<crashes, pc, result, waits, memory, receipts, last, sends, lost>>

Sending == {"sending", "arrived"}

TypeOK ==
  /\ crashes \in Nat
  /\ pc \in [Call -> Sending \cup {"new", "waiting", "reporting", "over", "dead"}]
  /\ result \in [Call -> {"none", "receipt", "skipped", "nothing", "error"}]
  /\ waits \in [Call -> Call \cup {NoCall}]
  /\ completed \in Seq(Key) /\ Len(completed) <= MaxKeys
  /\ lock \in [Key -> Call \cup {NoCall}]
  /\ receipts \subseteq Key /\ last \in File \cup {NoFile}
  /\ sends \in [Key -> Nat] /\ lost \in [Key -> Nat]

Init ==
  /\ crashes = 0 /\ pc = [c \in Call |-> "new"] /\ result = [c \in Call |-> "none"]
  /\ waits = [c \in Call |-> NoCall]
  /\ completed = <<>> /\ lock = [k \in Key |-> NoCall]
  /\ receipts = {} /\ last = NoFile
  /\ sends = [k \in Key |-> 0] /\ lost = [k \in Key |-> 0]

------------------------------------------------------------------------------
IsCompleted(k) == \E i \in DOMAIN completed : completed[i] = k

\* Mutant: the Map keeps one key more than it may.
RememberBeyond(k) ==
  completed' = IF IsCompleted(k) THEN completed
               ELSE IF Len(completed) <= MaxKeys THEN Append(completed, k)
               ELSE Append(Tail(completed), k)

\* rememberCompletedArtifactDelivery; the oldest key goes.
Remember(k) ==
  completed' = IF IsCompleted(k) THEN completed
               ELSE IF Len(completed) < MaxKeys THEN Append(completed, k)
               ELSE Tail(Append(completed, k))

Return(c, v) ==
  /\ pc' = [pc EXCEPT ![c] = "over"]
  /\ result' = [result EXCEPT ![c] = v]

\* The call finds that its file was delivered.
Skip(c) ==
  LET k == KeyOf(c) IN
  /\ pc[c] = "new" /\ c \notin Resent
  /\ \/ IsCompleted(k) /\ UNCHANGED completed
     \/ /\ ~IsCompleted(k)
        /\ k \in receipts \/ last = FileOf[c]
        /\ Remember(k)
  /\ Return(c, "skipped")
  /\ UNCHANGED <<crashes, waits, lock, receipts, last, sends, lost>>

\* Mutant: the database is not asked.
UnknownByMemory(c) == c \in Resent \/ (~IsCompleted(KeyOf(c)) /\ last # FileOf[c])

\* None of the three records has the file.
Unknown(c) ==
  c \in Resent \/ (~IsCompleted(KeyOf(c)) /\ KeyOf(c) \notin receipts /\ last # FileOf[c])

\* Another call is sending the same file: wait for it, whatever it brings.
Wait(c) ==
  /\ pc[c] = "new" /\ Unknown(c) /\ lock[KeyOf(c)] # NoCall
  /\ pc' = [pc EXCEPT ![c] = "waiting"]
  /\ waits' = [waits EXCEPT ![c] = lock[KeyOf(c)]]
  /\ UNCHANGED <<crashes, result, memory, receipts, last, sends, lost>>

Woken(c) ==
  /\ pc[c] = "waiting" /\ pc[waits[c]] \notin Sending
  /\ Return(c, "skipped")
  /\ UNCHANGED <<crashes, waits, memory, receipts, last, sends, lost>>

\* Mutant: a call does not look for one that is sending.
StartUnlocked(c) ==
  /\ pc[c] = "new" /\ Unknown(c)
  /\ pc' = [pc EXCEPT ![c] = "sending"]
  /\ lock' = [lock EXCEPT ![KeyOf(c)] = c]
  /\ UNCHANGED <<crashes, result, waits, completed, receipts, last, sends, lost>>

\* params.task() begins.
Start(c) ==
  /\ pc[c] = "new" /\ Unknown(c) /\ lock[KeyOf(c)] = NoCall
  /\ pc' = [pc EXCEPT ![c] = "sending"]
  /\ lock' = [lock EXCEPT ![KeyOf(c)] = c]
  /\ UNCHANGED <<crashes, result, waits, completed, receipts, last, sends, lost>>

\* The file reaches the channel.
Arrive(c) ==
  /\ pc[c] = "sending"
  /\ pc' = [pc EXCEPT ![c] = "arrived"]
  /\ sends' = [sends EXCEPT ![KeyOf(c)] = @ + 1]
  /\ UNCHANGED <<crashes, result, waits, memory, receipts, last, lost>>

\* .finally: the lock goes if it is this call's.
Unlock(c) == lock' = [lock EXCEPT ![KeyOf(c)] = IF @ = c THEN NoCall ELSE @]

\* Mutant: the row is not written.
SucceedQuietly(c, stored) ==
  LET k == KeyOf(c) IN
  /\ pc[c] = "arrived"
  /\ Remember(k) /\ Unlock(c)
  /\ UNCHANGED <<receipts, lost>>
  /\ pc' = [pc EXCEPT ![c] = "reporting"] /\ result' = [result EXCEPT ![c] = "receipt"]
  /\ UNCHANGED <<crashes, waits, last, sends>>

\* The task returned a result: memory first, then the row, whose failure is
\* swallowed.
Succeed(c, stored) ==
  LET k == KeyOf(c) IN
  /\ pc[c] = "arrived"
  /\ Remember(k) /\ Unlock(c)
  /\ IF stored THEN receipts' = receipts \cup {k} /\ UNCHANGED lost
               ELSE lost' = [lost EXCEPT ![k] = @ + 1] /\ UNCHANGED receipts
  /\ pc' = [pc EXCEPT ![c] = "reporting"] /\ result' = [result EXCEPT ![c] = "receipt"]
  /\ UNCHANGED <<crashes, waits, last, sends>>

\* The task has nothing to send.
NothingToSend(c) ==
  /\ pc[c] = "sending"
  /\ Return(c, "nothing") /\ Unlock(c)
  /\ UNCHANGED <<crashes, waits, completed, receipts, last, sends, lost>>

\* The task throws, after a file that did not arrive or one that did.
Throw(c) ==
  LET k == KeyOf(c) IN
  /\ pc[c] \in Sending
  /\ lost' = [lost EXCEPT ![k] = IF pc[c] = "arrived" THEN @ + 1 ELSE @]
  /\ Return(c, "error") /\ Unlock(c)
  /\ UNCHANGED <<crashes, waits, completed, receipts, last, sends>>

\* The caller applies the receipt (applyChunkDeliveryReceipt).
Report(c) ==
  /\ pc[c] = "reporting"
  /\ pc' = [pc EXCEPT ![c] = "over"]
  /\ last' = FileOf[c]
  /\ UNCHANGED <<crashes, result, waits, memory, receipts, sends, lost>>

\* A text of the lineage is delivered: its receipt replaces the last one.
TextDelivered ==
  /\ last # NoFile /\ last' = NoFile
  /\ UNCHANGED <<crashes, pc, result, waits, memory, receipts, sends, lost>>

\* The process dies and starts again.
Crash ==
  /\ crashes < MaxCrash /\ crashes' = crashes + 1
  /\ pc' = [c \in Call |-> IF pc[c] \in {"new", "over"} THEN pc[c] ELSE "dead"]
  /\ completed' = <<>> /\ lock' = [k \in Key |-> NoCall]
  /\ lost' = [k \in Key |-> IF \E c \in Call : KeyOf(c) = k /\ pc[c] = "arrived"
                            THEN lost[k] + 1 ELSE lost[k]]
  /\ UNCHANGED <<result, waits, receipts, last, sends>>

------------------------------------------------------------------------------
Step(c) ==
  \/ Skip(c) \/ Wait(c) \/ Woken(c) \/ Start(c) \/ Arrive(c)
  \/ (\E stored \in BOOLEAN : Succeed(c, stored)) \/ NothingToSend(c) \/ Throw(c) \/ Report(c)

Next == (\E c \in Call : Step(c)) \/ TextDelivered \/ Crash

Spec == Init /\ [][Next]_vars

------------------------------------------------------------------------------
(* Properties *)

Unforced(k) == \A c \in Resent : KeyOf(c) # k

\* A file of a run that nobody asks to resend arrives once, and once more for
\* each arrival of which no receipt could be stored: two calls at a time, the
\* limited memory of completed keys and crashes cost nothing else.
SentOnce == \A k \in Key : Unforced(k) => sends[k] <= 1 + lost[k]

\* A stored receipt is the end of it: no later call of its run sends the file
\* again, unless it is told to.
ReceiptStopsSends ==
  [][\A k \in Key : k \in receipts /\ Unforced(k) => sends'[k] = sends[k]]_vars

\* The lock is held exactly while somebody sends, by the one who does: no call
\* leaves a lock on which later calls of its file would hang.
LockIffSending ==
  \A k \in Key :
    /\ lock[k] # NoCall => pc[lock[k]] \in Sending /\ KeyOf(lock[k]) = k
    /\ \A c \in Call : KeyOf(c) = k /\ pc[c] \in Sending => lock[k] = c
==============================================================================
