------------------------------- MODULE Calendar -------------------------------
(***************************************************************************)
(* The calendar the timestamp parser has to agree with: a walk from the    *)
(* epoch, day by day, towards either end of a range of years.  It knows    *)
(* how long each month is and counts; it does no arithmetic on years.  It  *)
(* is a reference and models no code: the code is in CivilTime.            *)
(***************************************************************************)
EXTENDS CivilTime

CONSTANTS FirstYear, LastYear,  \* how far the walk goes (bounds)
          TimesOfDay,           \* the readings of a wall clock: <<hour, minute, second>>
          Offsets,              \* the offsets of a wall clock from UTC
          TimedDays             \* the days whose seconds are looked at (bound)

ASSUME CalendarAssumption ==
    /\ FirstYear \in Nat /\ LastYear \in Nat
    /\ FirstYear <= 1970 /\ 1970 <= LastYear
    /\ TimesOfDay \subseteq (0 .. 23) \X (0 .. 59) \X (0 .. 60)
    /\ Offsets \subseteq [sign : {-1, 1}, hour : 0 .. 23, minute : 0 .. 59]

VARIABLES year, month, day,     \* today
          days                  \* the days counted since 1970-01-01

vars == <<year, month, day, days>>

\* A leap day every fourth year, but in a century only every fourth time.
LengthOfFebruary(y) ==
    IF y % 4 # 0 \/ (y % 100 = 0 /\ y % 400 # 0) THEN 28 ELSE 29
Length(y, m) ==
    <<31, LengthOfFebruary(y), 31, 30, 31, 30, 31, 31, 30, 31, 30, 31>>[m]

Init == year = 1970 /\ month = 1 /\ day = 1 /\ days = 0

NextDay ==
    /\ day < Length(year, month)
    /\ day' = day + 1
    /\ UNCHANGED <<year, month>>
NextMonth ==
    /\ day = Length(year, month) /\ month < 12
    /\ month' = month + 1 /\ day' = 1
    /\ UNCHANGED year
NextYear ==
    /\ day = 31 /\ month = 12 /\ year < LastYear
    /\ year' = year + 1 /\ month' = 1 /\ day' = 1

PreviousDay ==
    /\ day > 1
    /\ day' = day - 1
    /\ UNCHANGED <<year, month>>
PreviousMonth ==
    /\ day = 1 /\ month > 1
    /\ month' = month - 1 /\ day' = Length(year, month - 1)
    /\ UNCHANGED year
PreviousYear ==
    /\ day = 1 /\ month = 1 /\ year > FirstYear
    /\ year' = year - 1 /\ month' = 12 /\ day' = 31

Tomorrow == (NextDay \/ NextMonth \/ NextYear) /\ days' = days + 1
Yesterday == (PreviousDay \/ PreviousMonth \/ PreviousYear) /\ days' = days - 1

Next == \/ days >= 0 /\ Tomorrow
        \/ days <= 0 /\ Yesterday

Spec == Init /\ [][Next]_vars
-----------------------------------------------------------------------------
(***************************************************************************)
(* Properties.                                                             *)
(***************************************************************************)

\* days_from_civil() counts the days of the calendar, with no day missed or
\* counted twice at the end of any month, year, century or 400-year cycle.
CountsDays == DaysFromCivil(year, month, day) = days

Reading(m, d, at, offset) ==
    [year |-> year, month |-> m, day |-> d, hour |-> at[1], minute |-> at[2], second |-> at[3],
     fraction |-> "none", offset |-> offset]

\* A wall clock anywhere, reading today's date at any time of the day, is
\* parsed to the seconds that passed since the epoch, and refused when they
\* have not yet passed, however far its offset carries it over midnight.
ParsesToTheInstant ==
    days \in TimedDays =>
        \A at \in TimesOfDay, offset \in Offsets :
            LET passed == days * 86400 + at[1] * 3600 + at[2] * 60 + at[3]
                              - offset.sign * (offset.hour * 60 + offset.minute) * 60
            IN  ParseRfc3339Timestamp(Reading(month, day, at, offset))
                    = IF passed < 0 THEN {} ELSE {passed}

\* Of the dates that can be written for a year, with any two digits for the
\* month and the day, exactly those the calendar has are accepted (looked at
\* once a year).
AcceptsExactlyTheCalendar ==
    month = 1 /\ day = 1 =>
        \A m, d \in 0 .. 99 :
            WellFormed(Reading(m, d, <<0, 0, 0>>, [sign |-> 1, hour |-> 0, minute |-> 0]))
                <=> m \in 1 .. 12 /\ d \in 1 .. Length(year, m)
=============================================================================
