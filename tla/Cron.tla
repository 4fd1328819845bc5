--------------------------------- MODULE Cron ---------------------------------
(***************************************************************************)
(* When a schedule is due next (scheduler/cron.ts): a five-field cron      *)
(* expression is parsed into five sets of numbers, and getNextRun moves a  *)
(* cursor forward from the minute after the last run, a month, a day, an   *)
(* hour or a minute at a time, until it stands on a minute that is in all  *)
(* five sets or four years have passed.                                    *)
(*                                                                         *)
(* The cursor is a Date of JavaScript, whose setters carry: a day that the *)
(* month does not have is a day of the month after it.  The local zone is  *)
(* one without daylight saving time.                                       *)
(***************************************************************************)
EXTENDS Integers

CONSTANTS Expressions,  \* the expressions tried: a record of five fields, each
                        \* a set of the parts that commas separate
          Starts        \* the times tried as last run, <<y, m, d, h, min>>

VARIABLES
  expr,     \* the cron expression
  from,     \* the last run, or the creation of the schedule
  cursor,   \* the variable d of getNextRun
  outcome   \* how far the call is

vars == <<expr, from, cursor, outcome>>

------------------------------------------------------------------------------
(* The calendar of Date (external) *)

Leap(y) == y % 4 = 0 /\ (y % 100 # 0 \/ y % 400 = 0)

DaysIn(y, m) ==
  CASE m = 2 -> IF Leap(y) THEN 29 ELSE 28
    [] m \in {4, 6, 9, 11} -> 30
    [] OTHER -> 31

DaysBefore == <<0, 31, 59, 90, 120, 151, 181, 212, 243, 273, 304, 334>>

\* Days since the first of January of the year 1, a Monday.
DayNumber(t) ==
  365 * (t[1] - 1) + (t[1] - 1) \div 4 - (t[1] - 1) \div 100 + (t[1] - 1) \div 400
    + DaysBefore[t[2]] + t[3] + (IF Leap(t[1]) /\ t[2] > 2 THEN 1 ELSE 0)

\* getDay
Weekday(t) == DayNumber(t) % 7

MinuteNumber(t) == 1440 * DayNumber(t) + 60 * t[4] + t[5]

\* The first day of the month after y-m.
MonthAfter(y, m) == IF m = 12 THEN <<y + 1, 1>> ELSE <<y, m + 1>>

\* setMonth(getMonth() + 1): the day is kept, and carries when the next month
\* is too short for it.
SetNextMonth(t) ==
  LET n == MonthAfter(t[1], t[2])
      a == MonthAfter(n[1], n[2])
      extra == t[3] - DaysIn(n[1], n[2])
  IN IF extra <= 0 THEN <<n[1], n[2], t[3], t[4], t[5]>>
                   ELSE <<a[1], a[2], extra, t[4], t[5]>>

\* setDate(getDate() + 1)
NextDay(t) ==
  IF t[3] < DaysIn(t[1], t[2]) THEN [t EXCEPT ![3] = @ + 1]
  ELSE LET n == MonthAfter(t[1], t[2]) IN <<n[1], n[2], 1, t[4], t[5]>>

\* setHours(getHours() + 1)
NextHour(t) == IF t[4] < 23 THEN [t EXCEPT ![4] = @ + 1] ELSE [NextDay(t) EXCEPT ![4] = 0]

\* setMinutes(getMinutes() + 1)
NextMinute(t) == IF t[5] < 59 THEN [t EXCEPT ![5] = @ + 1] ELSE [NextHour(t) EXCEPT ![5] = 0]

------------------------------------------------------------------------------
(* parseCron *)

\* parseField: "*", "*/n", "a-b" and "n"; only the first two know the limits.
ParsePart(p, min, max) ==
  CASE p.kind = "all"   -> min .. max
    [] p.kind = "step"  -> {i \in min .. max : (i - min) % p.n = 0}
    [] p.kind = "range" -> p.a .. p.b
    [] p.kind = "value" -> {p.n}

ParseField(parts, min, max) == UNION {ParsePart(p, min, max) : p \in parts}

\* A part that holds no number ("text"), or a step that is not positive, makes
\* parseField throw.
IsValidCron(e) ==
  \A parts \in {e.minutes, e.hours, e.days, e.months, e.weekdays} :
    \A p \in parts : p.kind # "text" /\ (p.kind = "step" => p.n > 0)

Minutes  == ParseField(expr.minutes, 0, 59)
Hours    == ParseField(expr.hours, 0, 23)
Days     == ParseField(expr.days, 1, 31)
Months   == ParseField(expr.months, 1, 12)
Weekdays == ParseField(expr.weekdays, 0, 6)

\* matchesCronFields, of a date
DateMatches(t) == t[2] \in Months /\ t[3] \in Days /\ Weekday(t) \in Weekdays
------------------------------------------------------------------------------
(* getNextRun *)

Init ==
  /\ expr \in Expressions
  /\ from \in Starts
  /\ cursor = from
  /\ outcome = "parsing"

\* parseCron throws.
Reject ==
  /\ outcome = "parsing" /\ ~IsValidCron(expr)
  /\ outcome' = "invalid"
  /\ UNCHANGED <<expr, from, cursor>>

\* The search starts from the next minute.
Begin ==
  /\ outcome = "parsing" /\ IsValidCron(expr)
  /\ cursor' = NextMinute(from)
  /\ outcome' = "searching"
  /\ UNCHANGED <<expr, from>>

\* setFullYear(getFullYear() + 4)
Limit ==
  IF from[2] = 2 /\ from[3] > DaysIn(from[1] + 4, 2)
  THEN <<from[1] + 4, 3, 1, from[4], from[5]>>
  ELSE [from EXCEPT ![1] = @ + 4]

\* The head of the loop; the seconds of `from' are left out, so that a match
\* exactly four years later counts as beyond the limit.
Looping == outcome = "searching" /\ MinuteNumber(cursor) < MinuteNumber(Limit)

MoveTo(t) == cursor' = t /\ UNCHANGED <<expr, from, outcome>>

Midnight(t) == [t EXCEPT ![4] = 0, ![5] = 0]

\* Mutant: the month is left as it is.
SkipMonthStuck ==
  /\ Looping
  /\ cursor[2] \notin Months
  /\ MoveTo(Midnight([cursor EXCEPT ![3] = 1]))

\* Mutant: the day of the month is kept.
SkipMonthSameDay ==
  /\ Looping
  /\ cursor[2] \notin Months
  /\ MoveTo(Midnight(SetNextMonth(cursor)))

\* setMonth, then setDate(1): a day the next month does not have has carried
\* the cursor beyond it by then.
SkipMonth ==
  /\ Looping
  /\ cursor[2] \notin Months
  /\ MoveTo(Midnight([SetNextMonth(cursor) EXCEPT ![3] = 1]))

OffDay == cursor[3] \notin Days \/ Weekday(cursor) \notin Weekdays

SkipDay ==
  /\ Looping
  /\ cursor[2] \in Months /\ OffDay
  /\ MoveTo(Midnight(NextDay(cursor)))

SkipHour ==
  /\ Looping
  /\ cursor[2] \in Months /\ ~OffDay /\ cursor[4] \notin Hours
  /\ MoveTo([NextHour(cursor) EXCEPT ![5] = 0])

SkipMinute ==
  /\ Looping
  /\ cursor[2] \in Months /\ ~OffDay /\ cursor[4] \in Hours /\ cursor[5] \notin Minutes
  /\ MoveTo(NextMinute(cursor))

Return ==
  /\ Looping
  /\ cursor[2] \in Months /\ ~OffDay /\ cursor[4] \in Hours /\ cursor[5] \in Minutes
  /\ outcome' = "found"
  /\ UNCHANGED <<expr, from, cursor>>

\* No match within four years.
GiveUp ==
  /\ outcome = "searching" /\ ~Looping
  /\ outcome' = "none"
  /\ UNCHANGED <<expr, from, cursor>>

Next ==
  \/ Reject \/ Begin
  \/ SkipMonth \/ SkipDay \/ SkipHour \/ SkipMinute
  \/ Return \/ GiveUp

Spec == Init /\ [][Next]_vars

\* The search is one synchronous loop.
FairSpec == Spec /\ WF_vars(Next)

------------------------------------------------------------------------------
(* Properties *)

\* The matching minutes that a step of the search leaves behind.  A step spans
\* less than three months.
Missed ==
  LET a == <<cursor[1], cursor[2]>>
      b == MonthAfter(a[1], a[2])
      c == MonthAfter(b[1], b[2])
      dates == {<<ym[1], ym[2], d, 0, 0>> : ym \in {a, b, c}, d \in 1 .. 31}
  IN {t \in {[e EXCEPT ![4] = h, ![5] = m] :
               e \in {x \in dates : x[3] <= DaysIn(x[1], x[2]) /\ DateMatches(x)},
               h \in Hours, m \in Minutes} :
        /\ MinuteNumber(cursor) <= MinuteNumber(t)
        /\ MinuteNumber(t) < MinuteNumber(cursor')}

\* getNextRun finds the first matching minute after `from': no step of its loop
\* passes one.  Violated: from the 29th to the 31st, the step to the next month
\* may jump over it.
NothingSkipped == [][outcome = "searching" => Missed = {}]_vars

\* What the search may overlook is bounded: only the month after the cursor's,
\* and only if that month has no day of the cursor's number.  Every other step
\* (days, hours, minutes, months from a day up to the 28th, over the end of a
\* year, in a leap year) passes no matching minute, so that a schedule whose
\* last run was not at the end of a month is due at its first match.
OnlyShortMonthSkipped ==
  [][outcome = "searching" =>
       \A t \in Missed :
         /\ <<t[1], t[2]>> = MonthAfter(cursor[1], cursor[2])
         /\ cursor[3] > DaysIn(t[1], t[2])]_vars

\* The loop ends for every expression, impossible dates and values out of range
\* included, which the parser accepts.
SearchEnds == <>(outcome \in {"found", "none", "invalid"})
===============================================================================
