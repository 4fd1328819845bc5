-------------------------------- MODULE MCCron --------------------------------
(* Expressions and times around the ends of months, years and leap years. *)
EXTENDS Cron

All == {[kind |-> "all"]}
Value(n) == {[kind |-> "value", n |-> n]}
Every(n) == {[kind |-> "step", n |-> n]}
Range(a, b) == {[kind |-> "range", a |-> a, b |-> b]}

MCExpressions ==
  [minutes  : {Value(0), Value(30) \cup Value(59)},
   hours    : {Value(0), Range(22, 23)},
   days     : {All, Value(1), Value(29), Value(31), Every(10)},
   months   : {All, Value(2), Value(2) \cup Value(4), Value(13)},
   weekdays : {All, Value(0), Range(5, 7)}]
  \cup [minutes : {All, Every(0), {[kind |-> "text"]}}, hours : {All}, days : {All},
        months : {Value(2)}, weekdays : {All}]

MCStarts ==
  {<<2023, 1, 28, 23, 59>>, <<2023, 1, 31, 12, 0>>, <<2024, 1, 29, 0, 30>>,
   <<2024, 1, 30, 22, 0>>, <<2024, 2, 29, 0, 0>>, <<2023, 12, 31, 23, 59>>,
   <<2023, 3, 31, 23, 58>>, <<2023, 5, 14, 8, 15>>}
===============================================================================
