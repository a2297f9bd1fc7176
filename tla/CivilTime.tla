------------------------------ MODULE CivilTime ------------------------------
(***************************************************************************)
(* parse_rfc3339_timestamp() past its bytes: from the numbers written in   *)
(* a value of the shape YYYY-MM-DDTHH:MM:SS[.fraction](Z|+HH:MM|-HH:MM) to *)
(* unix seconds.  A value is the record of these numbers; its offset is    *)
(* [sign, hour, minute], all of it neutral for Z.  Every refusal of the    *)
(* code is the same MalformedHeader, so an outcome is an Option.  The      *)
(* numbers have two or four digits: no step of the 64-bit arithmetic       *)
(* overflows, and its checked operations never refuse.                     *)
(***************************************************************************)
EXTENDS Integers

\* Integer division of the code, which truncates towards zero.
TruncDiv(a, b) == IF a >= 0 THEN a \div b ELSE -((-a) \div b)

\* Wrong: February counts as a month after the leap day.
DaysFromCivilFebruary(y, m, d) ==
    LET year == IF m < 2 THEN y - 1 ELSE y
        era == TruncDiv(IF year >= 0 THEN year ELSE year - 399, 400)
        yoe == year - era * 400
        doy == (153 * ((m + 9) % 12) + 2) \div 5 + d - 1
        doe == yoe * 365 + yoe \div 4 - yoe \div 100 + doy
    IN  era * 146097 + doe - 719468

\* days_from_civil: the year starts in March, so the leap day is its last.
DaysFromCivil(y, m, d) ==
    LET year == IF m <= 2 THEN y - 1 ELSE y
        era == TruncDiv(IF year >= 0 THEN year ELSE year - 399, 400)
        yoe == year - era * 400
        doy == (153 * ((m + 9) % 12) + 2) \div 5 + d - 1
        doe == yoe * 365 + yoe \div 4 - yoe \div 100 + doy
    IN  era * 146097 + doe - 719468

Leap(year) == (year % 4 = 0 /\ year % 100 # 0) \/ year % 400 = 0

\* Wrong: every fourth year has a leap day.
DaysInMonthJulian(year, month) ==
    CASE month \in {1, 3, 5, 7, 8, 10, 12} -> 31
      [] month \in {4, 6, 9, 11} -> 30
      [] month = 2 -> IF year % 4 = 0 THEN 29 ELSE 28
      [] OTHER -> 0

DaysInMonth(year, month) ==
    CASE month \in {1, 3, 5, 7, 8, 10, 12} -> 31
      [] month \in {4, 6, 9, 11} -> 30
      [] month = 2 -> IF Leap(year) THEN 29 ELSE 28
      [] OTHER -> 0

\* Second 60, a leap second, is accepted at any minute.
WellFormed(v) ==
    /\ v.month \in 1 .. 12
    /\ v.day \in 1 .. DaysInMonth(v.year, v.month)
    /\ v.hour <= 23 /\ v.minute <= 59 /\ v.second <= 60
    /\ v.fraction # "empty"
    /\ v.offset.hour <= 23 /\ v.offset.minute <= 59

OffsetSeconds(offset) == offset.sign * (offset.hour * 3600 + offset.minute * 60)

\* Wrong: the offset is applied in the direction it is written in.
UnixSecondsAddsOffset(v) ==
    DaysFromCivil(v.year, v.month, v.day) * 86400
        + (v.hour * 3600 + v.minute * 60 + v.second) + OffsetSeconds(v.offset)

UnixSeconds(v) ==
    DaysFromCivil(v.year, v.month, v.day) * 86400
        + (v.hour * 3600 + v.minute * 60 + v.second) - OffsetSeconds(v.offset)

\* An instant before the epoch is refused, whatever its date says.
ParseRfc3339Timestamp(v) ==
    IF WellFormed(v) /\ UnixSeconds(v) >= 0 THEN {UnixSeconds(v)} ELSE {}
=============================================================================
