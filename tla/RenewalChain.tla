---------------------------- MODULE RenewalChain ----------------------------
(***************************************************************************)
(* The terms of the Pólizas that renew one another: each starts on the     *)
(* exclusive end of the one before it and lasts the duration of the        *)
(* version that is effective then (renew_enrollment, create_enrollment).   *)
(***************************************************************************)
EXTENDS CalendarMonths

CONSTANTS
    FirstStarts, \* start dates of first Pólizas
    Durations,   \* duration_months of published versions
    MaxMonths    \* months a chain may span: a bound of the model

ASSUME FirstStartsAssumption == \A date \in FirstStarts : Valid(date)
ASSUME DurationsAssumption == MaxMonths \in Nat /\ Durations \subseteq 1..MaxMonths

VARIABLES
    origin,  \* start_date of the first Póliza of the chain
    lastStart,   \* start_date of the last one
    lastEnd,     \* its end_date
    months   \* sum of the durations

chainVars == <<origin, lastStart, lastEnd, months>>

ChainInit ==
    \E date \in FirstStarts, duration \in Durations :
        /\ Representable(AddCalendarMonths(date, duration))
        /\ origin = date
        /\ lastStart = date
        /\ lastEnd = AddCalendarMonths(date, duration)
        /\ months = duration

Renew(duration) ==
    LET next == AddCalendarMonths(lastEnd, duration) IN
        /\ months + duration <= MaxMonths
        /\ Representable(next)
        /\ lastStart' = lastEnd
        /\ lastEnd' = next
        /\ months' = months + duration
        /\ UNCHANGED origin

ChainNext == \E duration \in Durations : Renew(duration)

ChainSpec == ChainInit /\ [][ChainNext]_chainVars

-----------------------------------------------------------------------------
(* The same arithmetic, one month after another.                           *)

MonthAfter(date) ==
    IF date.month = 12 THEN [date EXCEPT !.year = @ + 1, !.month = 1]
                       ELSE [date EXCEPT !.month = @ + 1]

\* n single steps through the months, the day left as it is.
Stepped(date, n) ==
    LET step[k \in 0..n] == IF k = 0 THEN date ELSE MonthAfter(step[k - 1])
    IN  step[n]

\* The latest valid date of the month n steps away that is not after the day.
Reference(date, n) ==
    LET target == Stepped(date, n) IN
        CHOOSE d \in {[target EXCEPT !.day = k] : k \in 1..date.day} :
            /\ Valid(d)
            /\ \A k \in (d.day + 1)..date.day : ~Valid([target EXCEPT !.day = k])

\* Every date of a chain is a date of the calendar, and every term of it lasts
\* at least a day, so create_enrollment never refuses a calculated end.
ChainTypeOK ==
    /\ Valid(origin) /\ Valid(lastStart) /\ Valid(lastEnd)
    /\ months \in 1..MaxMonths
    /\ Before(lastStart, lastEnd)

\* add_calendar_months agrees with stepping month by month and taking the
\* latest day that exists, over leap years, year ends and long durations.
MatchesStepping ==
    \A duration \in Durations :
        /\ AddCalendarMonths(origin, duration) = Reference(origin, duration)
        /\ AddCalendarMonths(lastEnd, duration) = Reference(lastEnd, duration)

\* However its months are split into terms, a chain ends in the month that one
\* Póliza of the same length ends in, never on a later day, and at most three
\* days earlier: short months take days that no renewal gives back, and only
\* from a chain that starts after day 28.
DriftIsBounded ==
    LET single == AddCalendarMonths(origin, months) IN
        /\ lastEnd.year = single.year /\ lastEnd.month = single.month
        /\ lastEnd.day <= single.day
        /\ single.day - lastEnd.day <= 3
        /\ origin.day <= 28 => lastEnd.day = single.day
=============================================================================
