--------------------------- MODULE CalendarMonths ---------------------------
(***************************************************************************)
(* Calendar-month arithmetic of enrollments/services.py: the exclusive end *)
(* of a Póliza is add_calendar_months(start_date, duration_months), and a  *)
(* renewal starts on the end of the Póliza before it.                      *)
(***************************************************************************)
EXTENDS Integers

CONSTANT MaxYear  \* datetime.MAXYEAR: a later date raises ValueError

ASSUME MaxYearAssumption == MaxYear \in Nat \ {0}

Leap(year) == year % 4 = 0 /\ (year % 100 # 0 \/ year % 400 = 0)

\* calendar.monthrange(year, month)[1]
MonthLength(year, month) ==
    IF month = 2 THEN IF Leap(year) THEN 29 ELSE 28
                 ELSE IF month \in {4, 6, 9, 11} THEN 30 ELSE 31

Valid(date) ==
    /\ date \in [year : Int, month : 1..12, day : 1..31]
    /\ date.day <= MonthLength(date.year, date.month)

Before(a, b) ==
    \/ a.year < b.year
    \/ a.year = b.year /\ a.month < b.month
    \/ a.year = b.year /\ a.month = b.month /\ a.day < b.day

\* Mutant: months are counted from 1, and December of a year becomes month 0.
AddMonthsFromOne(value, months) ==
    LET index == value.month + months
        year == value.year + index \div 12
        month == IF index % 12 = 0 THEN 12 ELSE index % 12
        length == MonthLength(year, month)
    IN  [year |-> year, month |-> month,
         day |-> IF value.day <= length THEN value.day ELSE length]

\* Mutant: a day the target month lacks becomes its 28th.
AddMonthsToTwentyEighth(value, months) ==
    LET index == value.month - 1 + months
        year == value.year + index \div 12
        month == (index % 12) + 1
    IN  [year |-> year, month |-> month,
         day |-> IF value.day <= MonthLength(year, month) THEN value.day ELSE 28]

\* The month that many months later; its last day when it lacks the day.
AddCalendarMonths(value, months) ==
    LET index == value.month - 1 + months
        year == value.year + index \div 12
        month == (index % 12) + 1
        length == MonthLength(year, month)
    IN  [year |-> year, month |-> month,
         day |-> IF value.day <= length THEN value.day ELSE length]

Representable(date) == date.year <= MaxYear
=============================================================================
