------------------------------ MODULE Scheduler ------------------------------
(***************************************************************************)
(* The firing of recurring schedules: the tick and the execution queue of  *)
(* the daemon (scheduler/index.ts, tick-policy.ts, queueing.ts), the       *)
(* attempts with their retries and deliveries (contract-executor.ts,       *)
(* delivery-queue.ts), the rows of schedule_runs and of                    *)
(* schedule_delivery_receipts, the processes which the system scheduler    *)
(* starts for the schedules it drives (system-cron.ts, the CLI's           *)
(* scheduleRunCommand), and what a restart makes of unfinished rows.       *)
(*                                                                         *)
(* The task of the execution queue inserts the row and returns; the        *)
(* attempts go on in a promise that nobody queues behind.  All processes   *)
(* share the database and nothing else.                                    *)
(***************************************************************************)
EXTENDS Naturals, Sequences, FiniteSets

CONSTANTS Schedule,
          Tables,      \* the contents of the table of schedules that are considered
          MaxTime,     \* bound: the clock
          Limit,       \* how many unfinished rows a start looks at (200 in the code)
          MaxManual,   \* bound: manual runs
          MaxCrash,    \* bound: crashes of the daemon
          MaxFault     \* bound: firings of the daemon that an exception ends

ASSUME SchedulerAssumption ==
  /\ IsFiniteSet(Schedule)
  /\ MaxTime \in Nat /\ MaxManual \in Nat /\ MaxCrash \in Nat /\ MaxFault \in Nat
  /\ Limit \in Nat \ {0}
  /\ \A t \in Tables : \A s \in Schedule :
       /\ t[s].driver \in {"internal", "system_crontab", "system_schtasks"}
       /\ t[s].due \subseteq 1 .. MaxTime
       /\ t[s].contract \in BOOLEAN
       /\ t[s].retries \in Nat
       /\ t[s].byHand \in BOOLEAN

\* Enough firings for every manual run, for the tick and the system scheduler
\* at every due time, and for a firing that a crash takes out of the queue or
\* that fails before its row is written.
MaxFire == MaxManual + (2 * MaxTime + MaxCrash + MaxFault) * Cardinality(Schedule)
Fire == 1 .. MaxFire

VARIABLES
  table,      \* the schedules: execution_driver, the times which getNextRun
              \* finds, a valid contract or legacy, max_retries, and whether
              \* manual runs of it are considered
  up,         \* the daemon runs
  crashes,    \* how often it died
  faults,     \* how often an exception ended a firing in it
  now,        \* the clock, in due-time units
  manual,     \* how many manual runs were asked for
  fired,      \* how many firings there were
  sched,      \* the schedule of a firing
  due,        \* the due time it is for, 0 for a manual run
  proc,       \* the process it runs in: daemon or cli
  phase,      \* where it stands
  tries,      \* attempts begun
  good,       \* the last attempt succeeded
  arrivals,   \* channel: how often its text arrived
  row,        \* schedule_runs: none, open, ok, failed, interrupted
  started,    \* schedule_runs.started_at
  receipts,   \* the dedupe keys with a delivered receipt
  queue,      \* scheduleExecutionQueues of the daemon
  line        \* the daemon's delivery queue of the target

process  == <<up, crashes, faults, now, manual>>
identity == <<table, fired, sched, due, proc>>
database == <<row, started, receipts>>
vars == <<process, identity, phase, tries, good, arrivals, database, queue, line>>

Driver(s)     == table[s].driver
DueTimes(s)   == table[s].due
MaxRetries(s) == table[s].retries

Live == {"planning", "working", "sending", "sent", "pausing", "finishing"}

\* rejected: its promise was rejected and the daemon goes on without it;
\* lost: its process died.
Phase == Live \cup {"queued", "booting", "booted", "over", "rejected", "lost"}

TypeOK ==
  /\ table \in Tables
  /\ up \in BOOLEAN /\ crashes \in 0 .. MaxCrash /\ faults \in 0 .. MaxFault /\ now \in 0 .. MaxTime
  /\ manual \in 0 .. MaxManual /\ fired \in 0 .. MaxFire
  /\ sched \in [1 .. fired -> Schedule] /\ due \in [1 .. fired -> 0 .. MaxTime]
  /\ proc \in [1 .. fired -> {"daemon", "cli"}]
  /\ phase \in [1 .. fired -> Phase]
  /\ tries \in [1 .. fired -> Nat] /\ arrivals \in [1 .. fired -> Nat]
  /\ \A f \in 1 .. fired : tries[f] \in 0 .. MaxRetries(sched[f]) + 1 /\ arrivals[f] \in 0 .. tries[f]
  /\ good \in [1 .. fired -> BOOLEAN]
  /\ row \in [1 .. fired -> {"none", "open", "ok", "failed", "interrupted"}]
  /\ started \in [1 .. fired -> 0 .. MaxTime]
  /\ queue \in [Schedule -> Seq(Fire)] /\ line \in Seq(Fire)

Init ==
  /\ table \in Tables
  /\ up = TRUE /\ crashes = 0 /\ faults = 0 /\ now = 0 /\ manual = 0 /\ fired = 0
  /\ sched = <<>> /\ due = <<>> /\ proc = <<>> /\ phase = <<>> /\ tries = <<>>
  /\ good = <<>> /\ arrivals = <<>> /\ row = <<>> /\ started = <<>> /\ receipts = {}
  /\ queue = [s \in Schedule |-> <<>>] /\ line = <<>>

------------------------------------------------------------------------------
(* Firing *)

Fires(s) == {f \in 1 .. fired : sched[f] = s}

\* last_run_at: the start of the newest row of the schedule; created_at is 0.
LastRunAt(s) ==
  LET starts == {started[f] : f \in {g \in Fires(s) : row[g] # "none"}} \cup {0}
  IN CHOOSE t \in starts : \A u \in starts : u <= t

\* Mutant: the tick looks at the finished runs only.
DueNowAfterFinished(s) ==
  {d \in DueTimes(s) : /\ d <= now
                  /\ \A f \in Fires(s) : row[f] \in {"ok", "failed"} => started[f] < d}

\* Mutant: a due time counts only once it lies in the past.
DueNowStrictly(s) == {d \in DueTimes(s) : d > LastRunAt(s) /\ d < now}

\* getNextRun from last_run_at on, if it is not in the future.
DueNow(s) == {d \in DueTimes(s) : d > LastRunAt(s) /\ d <= now}

NewFire(s, d, p, l) ==
  /\ fired < MaxFire /\ fired' = fired + 1
  /\ sched' = Append(sched, s) /\ due' = Append(due, d) /\ proc' = Append(proc, p)
  /\ phase' = Append(phase, l) /\ tries' = Append(tries, 0) /\ good' = Append(good, FALSE)
  /\ arrivals' = Append(arrivals, 0) /\ row' = Append(row, "none")
  /\ started' = Append(started, 0)
  /\ UNCHANGED <<table, receipts, line>>

\* tick for one schedule: resolveScheduleTickDirective, runNow.
Tick(s) ==
  /\ up /\ Driver(s) # "system_crontab" /\ queue[s] = <<>> /\ DueNow(s) # {}
  /\ NewFire(s, CHOOSE d \in DueNow(s) : \A e \in DueNow(s) : d <= e, "daemon", "queued")
  /\ queue' = [queue EXCEPT ![s] = Append(@, fired')]
  /\ UNCHANGED process

\* POST /api/schedules/:id/run
RunNow(s) ==
  /\ up /\ table[s].byHand /\ manual < MaxManual /\ manual' = manual + 1
  /\ NewFire(s, 0, "daemon", "queued")
  /\ queue' = [queue EXCEPT ![s] = Append(@, fired')]
  /\ UNCHANGED <<up, crashes, faults, now>>

\* The system scheduler starts scheduleRunCommand at a due time.
SystemFires(s) ==
  /\ Driver(s) # "internal" /\ now \in DueTimes(s)
  /\ \A f \in Fires(s) : ~(proc[f] = "cli" /\ due[f] = now)
  /\ NewFire(s, now, "cli", "booting")
  /\ UNCHANGED <<process, queue>>

\* interruptUnfinishedScheduleRunsOnStartup: listUnfinishedScheduleRuns orders
\* by started_at, newest first, and stops at its limit; rows with one
\* started_at come in any order.
Interrupt ==
  LET open == {f \in 1 .. fired : row[f] = "open"} IN
  \E S \in SUBSET open :
    /\ Cardinality(S) <= Limit /\ (S = open \/ Cardinality(S) = Limit)
    /\ \A f \in S, g \in open \ S : started[g] <= started[f]
    /\ row' = [f \in 1 .. fired |-> IF f \in S THEN "interrupted" ELSE row[f]]

\* bootstrapRuntime of that process recovers as the daemon does.
CliBoots(f) ==
  /\ phase[f] = "booting"
  /\ phase' = [phase EXCEPT ![f] = "booted"]
  /\ Interrupt
  /\ UNCHANGED <<process, identity, tries, good, arrivals, started, receipts, queue, line>>

\* Mutant: a start closes the rows that are still open.
ExecuteQueuedRunAlone(f) ==
  /\ \/ up /\ phase[f] = "queued" /\ Head(queue[sched[f]]) = f
        /\ queue' = [queue EXCEPT ![sched[f]] = Tail(@)]
     \/ phase[f] = "booted" /\ UNCHANGED queue
  /\ row' = [g \in 1 .. fired |->
               IF g = f THEN "open" ELSE IF row[g] = "open" THEN "interrupted" ELSE row[g]]
  /\ started' = [started EXCEPT ![f] = now]
  /\ phase' = [phase EXCEPT ![f] = "planning"] /\ tries' = [tries EXCEPT ![f] = 1]
  /\ UNCHANGED <<process, identity, good, arrivals, receipts, line>>

\* executeQueuedRun: the row is inserted before any work; the queue's task
\* returns, and its finally releases the schedule.
ExecuteQueuedRun(f) ==
  /\ \/ up /\ phase[f] = "queued" /\ Head(queue[sched[f]]) = f
        /\ queue' = [queue EXCEPT ![sched[f]] = Tail(@)]
     \/ phase[f] = "booted" /\ UNCHANGED queue
  /\ row' = [row EXCEPT ![f] = "open"] /\ started' = [started EXCEPT ![f] = now]
  /\ phase' = [phase EXCEPT ![f] = "planning"] /\ tries' = [tries EXCEPT ![f] = 1]
  /\ UNCHANGED <<process, identity, good, arrivals, receipts, line>>

\* insertScheduleRun throws: the queue's task rejects, and the next one runs.
StartRejects(f) ==
  /\ up /\ phase[f] = "queued" /\ Head(queue[sched[f]]) = f
  /\ faults < MaxFault /\ faults' = faults + 1
  /\ queue' = [queue EXCEPT ![sched[f]] = Tail(@)]
  /\ phase' = [phase EXCEPT ![f] = "rejected"]
  /\ UNCHANGED <<up, crashes, now, manual, identity, tries, good, arrivals, database, line>>

------------------------------------------------------------------------------
(* An attempt *)

\* buildDeliveryDedupeKey: the due time is read from the tick's trigger.
DedupeKey(f) ==
  <<sched[f], IF proc[f] = "daemon" /\ due[f] # 0 THEN due[f] ELSE MaxTime + f>>

Conclude(f, ok) ==
  /\ good' = [good EXCEPT ![f] = ok]
  /\ phase' = [phase EXCEPT ![f] = "finishing"]

\* while (attempt <= maxRetries)
Retry(f) ==
  IF tries[f] <= MaxRetries(sched[f])
  THEN phase' = [phase EXCEPT ![f] = "pausing"] /\ UNCHANGED good
  ELSE Conclude(f, FALSE)

\* executeScheduleContract begins: an occurrence with a delivered receipt is
\* skipped.  A legacy schedule goes straight to its work.
Plan(f) ==
  /\ phase[f] = "planning"
  /\ IF table[sched[f]].contract /\ DedupeKey(f) \in receipts
     THEN Conclude(f, TRUE)
     ELSE phase' = [phase EXCEPT ![f] = "working"] /\ UNCHANGED good
  /\ UNCHANGED <<process, identity, tries, arrivals, database, queue, line>>

\* The agent, the tool or the literal text gives something to send.
WorkDone(f) ==
  /\ phase[f] = "working"
  /\ phase' = [phase EXCEPT ![f] = "sending"]
  /\ line' = IF proc[f] = "daemon" THEN Append(line, f) ELSE line
  /\ UNCHANGED <<process, identity, tries, good, arrivals, database, queue>>

\* The result stays here: channels agent, local, webui and none.
WorkKept(f) ==
  /\ phase[f] = "working"
  /\ Conclude(f, TRUE)
  /\ receipts' = IF table[sched[f]].contract THEN receipts \cup {DedupeKey(f)} ELSE receipts
  /\ UNCHANGED <<process, identity, tries, arrivals, row, started, queue, line>>

\* The agent, the tool or its parameters fail.
WorkFails(f) ==
  /\ phase[f] = "working"
  /\ Retry(f)
  /\ UNCHANGED <<process, identity, tries, arrivals, database, queue, line>>

\* A contract's agent ends without a text: no delivery, and no further attempt.
WorkEmpty(f) ==
  /\ phase[f] = "working" /\ table[sched[f]].contract
  /\ Conclude(f, FALSE)
  /\ UNCHANGED <<process, identity, tries, arrivals, database, queue, line>>

\* The turn of the text in the delivery queue: the send succeeds, fails, or
\* fails although the text (or a part of it) arrived.
Send(f, arrives, ok) ==
  /\ phase[f] = "sending" /\ (ok => arrives)
  /\ proc[f] = "daemon" => Head(line) = f
  /\ arrivals' = [arrivals EXCEPT ![f] = IF arrives THEN @ + 1 ELSE @]
  /\ good' = [good EXCEPT ![f] = ok]
  /\ phase' = [phase EXCEPT ![f] = "sent"]
  /\ UNCHANGED <<process, identity, tries, database, queue, line>>

\* Mutant: a failed delivery of a contract is tried again like a failed execution.
RecordDeliveryRetrying(f) ==
  /\ phase[f] = "sent"
  /\ line' = IF proc[f] = "daemon" THEN Tail(line) ELSE line
  /\ receipts' = IF table[sched[f]].contract /\ good[f] THEN receipts \cup {DedupeKey(f)} ELSE receipts
  /\ IF good[f] THEN Conclude(f, TRUE) ELSE Retry(f)
  /\ UNCHANGED <<process, identity, tries, arrivals, row, started, queue>>

\* The send returned: a contract records its receipt and never sends again; a
\* legacy schedule repeats the whole attempt.
RecordDelivery(f) ==
  /\ phase[f] = "sent"
  /\ line' = IF proc[f] = "daemon" THEN Tail(line) ELSE line
  /\ receipts' = IF ~table[sched[f]].contract THEN receipts
                 ELSE IF good[f] THEN receipts \cup {DedupeKey(f)} ELSE receipts \ {DedupeKey(f)}
  /\ IF good[f] \/ table[sched[f]].contract THEN Conclude(f, good[f]) ELSE Retry(f)
  /\ UNCHANGED <<process, identity, tries, arrivals, row, started, queue>>

\* computeScheduleRetryDelayMs has passed.
NextAttempt(f) ==
  /\ phase[f] = "pausing"
  /\ phase' = [phase EXCEPT ![f] = "planning"] /\ tries' = [tries EXCEPT ![f] = @ + 1]
  /\ UNCHANGED <<process, identity, good, arrivals, database, queue, line>>

\* updateScheduleRun, whatever the row says by now.
Finish(f) ==
  /\ phase[f] = "finishing"
  /\ row' = [row EXCEPT ![f] = IF good[f] THEN "ok" ELSE "failed"]
  /\ phase' = [phase EXCEPT ![f] = "over"]
  /\ UNCHANGED <<process, identity, tries, good, arrivals, started, receipts, queue, line>>

\* An exception that nothing in the attempt catches (a listener of the start
\* event, the receipt that is read or written, the dispatch of a tool,
\* updateScheduleRun): the promise of the task or `finished` rejects,
\* installDaemonRejectionGuard logs it, and the row stays as it is.
Rejects(f) ==
  /\ proc[f] = "daemon" /\ faults < MaxFault /\ faults' = faults + 1
  /\ \/ phase[f] \in {"planning", "finishing"}
     \/ table[sched[f]].contract /\ phase[f] \in {"working", "sent"}
  /\ line' = IF phase[f] = "sent" THEN Tail(line) ELSE line
  /\ phase' = [phase EXCEPT ![f] = "rejected"]
  /\ UNCHANGED <<up, crashes, now, manual, identity, tries, good, arrivals, database, queue>>

------------------------------------------------------------------------------
(* The clock and the processes *)

Clock ==
  /\ now < MaxTime /\ now' = now + 1
  /\ UNCHANGED <<up, crashes, faults, manual, identity, phase, tries, good, arrivals, database, queue, line>>

Crash ==
  /\ up /\ crashes < MaxCrash
  /\ up' = FALSE /\ crashes' = crashes + 1
  /\ phase' = [f \in 1 .. fired |->
                 IF proc[f] = "daemon" /\ phase[f] # "over" THEN "lost" ELSE phase[f]]
  /\ queue' = [s \in Schedule |-> <<>>] /\ line' = <<>>
  /\ UNCHANGED <<faults, now, manual, identity, tries, good, arrivals, database>>

\* The process of the system scheduler dies, or an exception ends it.
CliDies(f) ==
  /\ proc[f] = "cli" /\ phase[f] \in Live \cup {"booting", "booted"}
  /\ phase' = [phase EXCEPT ![f] = "lost"]
  /\ UNCHANGED <<process, identity, tries, good, arrivals, database, queue, line>>

\* Mutant: a restart leaves the unfinished rows.
RestartForgetting ==
  /\ ~up /\ up' = TRUE
  /\ UNCHANGED <<crashes, faults, now, manual, identity, phase, tries, good, arrivals, database, queue, line>>

Restart ==
  /\ ~up /\ up' = TRUE
  /\ Interrupt
  /\ UNCHANGED <<crashes, faults, now, manual, identity, phase, tries, good, arrivals, started,
                 receipts, queue, line>>

------------------------------------------------------------------------------
Attempt(f) ==
  \/ Plan(f) \/ WorkDone(f) \/ WorkKept(f) \/ WorkFails(f) \/ WorkEmpty(f) \/ RecordDelivery(f)
  \/ \E arrives, ok \in BOOLEAN : Send(f, arrives, ok)

Advance(f) ==
  f <= fired /\ (CliBoots(f) \/ ExecuteQueuedRun(f) \/ Attempt(f) \/ NextAttempt(f) \/ Finish(f))

Breaks(f) == f <= fired /\ (StartRejects(f) \/ Rejects(f) \/ CliDies(f))

Next ==
  \/ \E s \in Schedule : Tick(s) \/ RunNow(s) \/ SystemFires(s)
  \/ \E f \in Fire : Advance(f) \/ Breaks(f)
  \/ Clock \/ Crash \/ Restart

\* Time passes, the interval timer ticks, promises and retry timers run, an
\* agent run and a send come back, and somebody starts the daemon again.
Fairness ==
  /\ WF_vars(Clock) /\ WF_vars(Restart)
  /\ \A s \in Schedule : WF_vars(Tick(s))
  /\ \A f \in Fire : WF_vars(Advance(f))

Spec == Init /\ [][Next]_vars /\ Fairness

------------------------------------------------------------------------------
(* Properties *)

SameOccurrence(f, g) == f # g /\ sched[f] = sched[g] /\ due[f] = due[g] /\ due[f] # 0

\* An occurrence of a schedule is executed at most once.  Violated: the tick
\* leaves system_crontab to the system scheduler and not system_schtasks.
OccurrenceOnce ==
  \A f, g \in 1 .. fired : SameOccurrence(f, g) => row[f] = "none" \/ row[g] = "none"

\* However ticks, manual runs, retries, exceptions and crashes interleave, that
\* is the only way to execute an occurrence twice: a row counts from its start,
\* so a run that is still retrying, or that a crash or an exception cut off, is
\* not fired again by the process that fired it, and only a schedule of
\* system_schtasks is fired by both.
TwiceBySchtasksOnly ==
  \A f, g \in 1 .. fired :
    SameOccurrence(f, g) /\ row[f] # "none" /\ row[g] # "none"
      => Driver(sched[f]) = "system_schtasks" /\ proc[f] # proc[g]

\* The text of a contract's firing reaches the channel at most once, although
\* its execution is retried and a failed send may have arrived.
ContractSentOnce == \A f \in 1 .. fired : table[sched[f]].contract => arrivals[f] <= 1

\* The rows that were closed and did not begin before that of f.
ClosedSince(f) ==
  {g \in 1 .. fired : row[g] \notin {"none", "open"} /\ started[f] <= started[g]}

\* With the daemon up, an unfinished row of it is worked on, or an exception of
\* this life of the daemon left it, or the starts that should have closed it
\* looked at no more rows than Limit, all of them as new.
OpenRowIsLive ==
  up => \A f \in 1 .. fired :
          row[f] = "open" /\ proc[f] = "daemon"
            => phase[f] \in Live \cup {"rejected"} \/ Cardinality(ClosedSince(f)) >= Limit

\* Without a process of the system scheduler, a firing recorded as interrupted
\* is not being executed: no start of a firing, no retry and no second restart
\* closes a row that somebody works on.
InterruptedIsOver ==
  (\A s \in Schedule : Driver(s) = "internal") =>
    \A f \in 1 .. fired : row[f] = "interrupted" => phase[f] \notin Live

\* A due time of a schedule that the daemon drives is not overlooked: sooner or
\* later a run starts at or after it, through crashes and manual runs.
DueIsFired ==
  \A s \in Schedule, d \in 1 .. MaxTime :
    (Driver(s) = "internal" /\ d \in DueTimes(s)) ~> (\E f \in Fires(s) : started[f] >= d)
=============================================================================
