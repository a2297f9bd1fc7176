--------------------------- MODULE CalendarProofs ---------------------------
(***************************************************************************)
(* The arithmetic of the timestamp parser agrees with the calendar in      *)
(* every year, where the runs look at 2401 of them.  The argument: the     *)
(* code's eras and years of an era add up to one formula in the number of  *)
(* the year (DaysBefore), which grows by the length of the year            *)
(* (YearLength), while its days of the year, counted from March, grow by   *)
(* the length of the month (NextMonthCounts).                              *)
(***************************************************************************)
EXTENDS Calendar, TLAPS

\* The days before the first of March of year y, counted from year 0.
DaysBefore(y) == 365 * y + y \div 4 - y \div 100 + y \div 400

\* The days before month m in a year that starts in March.
MarchDays(m) == (153 * ((m + 9) % 12) + 2) \div 5

\* The days from the first of March of year 0 to 1970-01-01.
Epoch == 719468

(***************************************************************************)
(* Lemmas on integer division and on the code's formula.                   *)
(***************************************************************************)

\* A quotient grows by one exactly at the multiples of its divisor.
LEMMA DivStep ==
    ASSUME NEW y \in Int
    PROVE  /\ (y + 1) \div 4 = y \div 4 + (IF (y + 1) % 4 = 0 THEN 1 ELSE 0)
           /\ (y + 1) \div 100 = y \div 100 + (IF (y + 1) % 100 = 0 THEN 1 ELSE 0)
           /\ (y + 1) \div 400 = y \div 400 + (IF (y + 1) % 400 = 0 THEN 1 ELSE 0)
    BY SMTT(20)

\* days_from_civil() is the sum of the days before the year and in the year.
LEMMA Formula ==
    ASSUME NEW y \in Int, NEW m \in 1 .. 12, NEW d \in Int
    PROVE  DaysFromCivil(y, m, d)
               = DaysBefore(IF m <= 2 THEN y - 1 ELSE y) + MarchDays(m) + d - 1 - Epoch
    BY SMTT(30) DEF DaysFromCivil, TruncDiv, DaysBefore, MarchDays, Epoch

\* From one first of March to the next: 365 days, and the February between.
LEMMA YearLength ==
    ASSUME NEW y \in Int
    PROVE  DaysBefore(y) = DaysBefore(y - 1) + 337 + LengthOfFebruary(y)
<1>1. /\ y \div 4 = (y - 1) \div 4 + (IF y % 4 = 0 THEN 1 ELSE 0)
      /\ y \div 100 = (y - 1) \div 100 + (IF y % 100 = 0 THEN 1 ELSE 0)
      /\ y \div 400 = (y - 1) \div 400 + (IF y % 400 = 0 THEN 1 ELSE 0)
    <2>1. y - 1 \in Int /\ (y - 1) + 1 = y
        OBVIOUS
    <2> QED
        BY <2>1, DivStep
<1>2. /\ y % 400 = 0 => y % 100 = 0
      /\ y % 100 = 0 => y % 4 = 0
    BY SMTT(20)
<1> QED
    BY <1>1, <1>2, SMTT(20) DEF DaysBefore, LengthOfFebruary

\* The days before a month, month by month.
LEMMA MarchDaysTable ==
    /\ MarchDays(1) = 306 /\ MarchDays(2) = 337
    /\ MarchDays(3) = 0 /\ MarchDays(4) = 31 /\ MarchDays(5) = 61
    /\ MarchDays(6) = 92 /\ MarchDays(7) = 122 /\ MarchDays(8) = 153
    /\ MarchDays(9) = 184 /\ MarchDays(10) = 214 /\ MarchDays(11) = 245
    /\ MarchDays(12) = 275
    BY DEF MarchDays

LEMMA LengthTable ==
    ASSUME NEW y \in Int
    PROVE  /\ Length(y, 1) = 31 /\ Length(y, 2) = LengthOfFebruary(y)
           /\ Length(y, 3) = 31 /\ Length(y, 4) = 30 /\ Length(y, 5) = 31
           /\ Length(y, 6) = 30 /\ Length(y, 7) = 31 /\ Length(y, 8) = 31
           /\ Length(y, 9) = 30 /\ Length(y, 10) = 31 /\ Length(y, 11) = 30
           /\ Length(y, 12) = 31
           /\ LengthOfFebruary(y) \in {28, 29}
    BY DEF Length, LengthOfFebruary

\* The first of a month is the day after the last of the month before.
LEMMA NextMonthCounts ==
    ASSUME NEW y \in Int, NEW m \in 1 .. 11
    PROVE  DaysFromCivil(y, m + 1, 1) = DaysFromCivil(y, m, Length(y, m)) + 1
<1> DEFINE last == Length(y, m)
<1>1. last \in Int /\ m \in 1 .. 12 /\ m + 1 \in 1 .. 12
    BY LengthTable
<1>2. DaysFromCivil(y, m, last)
          = DaysBefore(IF m <= 2 THEN y - 1 ELSE y) + MarchDays(m) + last - 1 - Epoch
    <2> HIDE DEF last
    <2> QED BY <1>1, Formula
<1>3. DaysFromCivil(y, m + 1, 1)
          = DaysBefore(IF m + 1 <= 2 THEN y - 1 ELSE y) + MarchDays(m + 1) + 1 - 1 - Epoch
    BY <1>1, Formula
<1>4. DaysBefore(y) \in Int /\ DaysBefore(y - 1) \in Int /\ Epoch \in Int
    BY DEF DaysBefore, Epoch
<1>5. CASE m = 2
    <2>1. DaysBefore(y) = DaysBefore(y - 1) + 337 + LengthOfFebruary(y)
        BY YearLength
    <2> QED
        BY <1>2, <1>3, <1>4, <1>5, <2>1, LengthTable, MarchDaysTable
<1>6. CASE m # 2
    <2>1. MarchDays(m + 1) = MarchDays(m) + last
        BY <1>6, LengthTable, MarchDaysTable
    <2>2. MarchDays(m) \in Int
        BY DEF MarchDays
    <2> HIDE DEF last
    <2>3. (IF m + 1 <= 2 THEN y - 1 ELSE y) = (IF m <= 2 THEN y - 1 ELSE y)
        BY <1>6
    <2>4. DaysBefore(IF m <= 2 THEN y - 1 ELSE y) \in Int
        BY <1>4
    <2>5. DaysFromCivil(y, m + 1, 1) = DaysFromCivil(y, m, last) + 1
        BY <1>1, <1>2, <1>3, <1>4, <2>1, <2>2, <2>3, <2>4
    <2> QED
        BY <2>5 DEF last
<1> QED
    BY <1>5, <1>6

\* New year is the day after the last of December: both months lie in the
\* same year that starts in March.
LEMMA NextYearCounts ==
    ASSUME NEW y \in Int
    PROVE  DaysFromCivil(y + 1, 1, 1) = DaysFromCivil(y, 12, 31) + 1
<1>1. DaysFromCivil(y + 1, 1, 1)
          = DaysBefore(IF 1 <= 2 THEN y + 1 - 1 ELSE y + 1) + MarchDays(1) + 1 - 1 - Epoch
    BY Formula
<1>2. DaysFromCivil(y, 12, 31)
          = DaysBefore(IF 12 <= 2 THEN y - 1 ELSE y) + MarchDays(12) + 31 - 1 - Epoch
    BY Formula
<1>3. (IF 1 <= 2 THEN y + 1 - 1 ELSE y + 1) = y /\ (IF 12 <= 2 THEN y - 1 ELSE y) = y
    OBVIOUS
<1>4. DaysBefore(y) \in Int /\ Epoch \in Int
    BY DEF DaysBefore, Epoch
<1> QED
    BY <1>1, <1>2, <1>3, <1>4, MarchDaysTable

\* Within a month, days are counted one by one.
LEMMA NextDayCounts ==
    ASSUME NEW y \in Int, NEW m \in 1 .. 12, NEW d \in Int
    PROVE  /\ DaysFromCivil(y, m, d) \in Int
           /\ DaysFromCivil(y, m, d + 1) = DaysFromCivil(y, m, d) + 1
    BY SMTT(30) DEF DaysFromCivil, TruncDiv

(***************************************************************************)
(* The walk.                                                               *)
(***************************************************************************)

\* Today is a day of the calendar, and its number is the one the code computes.
\* CountsDays alone is not inductive: of a 31st of February it says nothing
\* about the day after.
IInv ==
    /\ year \in Int /\ month \in 1 .. 12 /\ day \in 1 .. Length(year, month)
    /\ CountsDays

LEMMA IInvInit == Init => IInv
    BY LengthTable, SMTT(30) DEF Init, IInv, CountsDays, DaysFromCivil, TruncDiv

LEMMA IInvNext == IInv /\ [Next]_vars => IInv'
<1> SUFFICES ASSUME IInv, [Next]_vars
             PROVE  IInv'
    OBVIOUS
<1>a. /\ year \in Int /\ month \in 1 .. 12 /\ day \in 1 .. Length(year, month)
      /\ DaysFromCivil(year, month, day) = days
    BY DEF IInv, CountsDays
<1>b. \A m \in 1 .. 12 : Length(year, m) \in Int
    BY <1>a, LengthTable
<1>1. /\ year \in Int /\ month \in 1 .. 12 /\ day \in Int
      /\ 1 <= day /\ day <= Length(year, month) /\ Length(year, month) \in Int
    BY <1>a, <1>b
<1>2. days = DaysFromCivil(year, month, day) /\ days \in Int
    <2>1. DaysFromCivil(year, month, day) \in Int
        BY <1>1, NextDayCounts
    <2> QED
        BY <1>a, <2>1
<1>3. ASSUME NextDay, days' = days + 1
      PROVE  IInv'
    <2>1. year' = year /\ month' = month /\ day' = day + 1 /\ day + 1 \in 1 .. Length(year, month)
        BY <1>1, <1>3 DEF NextDay
    <2>2. DaysFromCivil(year, month, day + 1) = DaysFromCivil(year, month, day) + 1
        BY <1>1, NextDayCounts
    <2> QED
        BY <1>1, <1>2, <1>3, <2>1, <2>2 DEF IInv, CountsDays
<1>4. ASSUME NextMonth, days' = days + 1
      PROVE  IInv'
    <2>1. year' = year /\ month \in 1 .. 11 /\ month' = month + 1 /\ day' = 1
        BY <1>1, <1>4 DEF NextMonth
    <2>2. DaysFromCivil(year, month + 1, 1) = DaysFromCivil(year, month, day) + 1
        BY <1>1, <1>4, <2>1, NextMonthCounts DEF NextMonth
    <2>3. 1 \in 1 .. Length(year, month + 1)
        BY <1>1, <2>1, LengthTable
    <2> QED
        BY <1>1, <1>2, <1>4, <2>1, <2>2, <2>3 DEF IInv, CountsDays
<1>5. ASSUME NextYear, days' = days + 1
      PROVE  IInv'
    <2>1. year' = year + 1 /\ month' = 1 /\ day' = 1 /\ month = 12 /\ day = 31
        BY <1>1, <1>5 DEF NextYear
    <2>2. DaysFromCivil(year + 1, 1, 1) = DaysFromCivil(year, month, day) + 1
        BY <1>1, <2>1, NextYearCounts
    <2>3. 1 \in 1 .. Length(year + 1, 1)
        BY <1>1, LengthTable
    <2> QED
        BY <1>1, <1>2, <1>5, <2>1, <2>2, <2>3 DEF IInv, CountsDays
<1>6. ASSUME PreviousDay, days' = days - 1
      PROVE  IInv'
    <2>1. year' = year /\ month' = month /\ day' = day - 1 /\ day - 1 \in 1 .. Length(year, month)
        BY <1>1, <1>6 DEF PreviousDay
    <2>2. /\ DaysFromCivil(year, month, day - 1) \in Int
          /\ DaysFromCivil(year, month, (day - 1) + 1) = DaysFromCivil(year, month, day - 1) + 1
        <3>1. day - 1 \in Int
            BY <1>1
        <3> QED
            BY <1>1, <3>1, NextDayCounts
    <2>3. (day - 1) + 1 = day
        BY <1>1
    <2> QED
        BY <1>1, <1>2, <1>6, <2>1, <2>2, <2>3 DEF IInv, CountsDays
<1>7. ASSUME PreviousMonth, days' = days - 1
      PROVE  IInv'
    <2> DEFINE m == month - 1
               last == Length(year, m)
    <2>1. year' = year /\ month' = m /\ m \in 1 .. 11 /\ m + 1 = month /\ day = 1 /\ day' = last
        BY <1>1, <1>7 DEF PreviousMonth
    <2>2. last \in 1 .. last
        BY <1>1, <2>1, LengthTable
    <2>3. DaysFromCivil(year, month, day) = DaysFromCivil(year, m, last) + 1
        BY <1>1, <2>1, NextMonthCounts
    <2>4. DaysFromCivil(year, m, last) \in Int
        <3>1. last \in Int /\ m \in 1 .. 12
            BY <2>1, <1>b
        <3> HIDE DEF m, last
        <3> QED
            BY <1>1, <2>1, <3>1, NextDayCounts
    <2> HIDE DEF m, last
    <2>5. DaysFromCivil(year', month', day') = days'
        BY <1>1, <1>2, <1>7, <2>1, <2>3, <2>4
    <2>6. day' \in 1 .. Length(year', month')
        BY <2>1, <2>2 DEF last
    <2> QED
        BY <2>1, <2>5, <2>6 DEF IInv, CountsDays
<1>8. ASSUME PreviousYear, days' = days - 1
      PROVE  IInv'
    <2> DEFINE y == year - 1
    <2>1. year' = y /\ month' = 12 /\ day' = 31 /\ y \in Int /\ y + 1 = year /\ month = 1 /\ day = 1
        BY <1>1, <1>8 DEF PreviousYear
    <2>2. DaysFromCivil(year, month, day) = DaysFromCivil(y, 12, 31) + 1
        BY <1>1, <2>1, NextYearCounts
    <2>3. DaysFromCivil(y, 12, 31) \in Int
        BY <2>1, NextDayCounts
    <2>4. 31 \in 1 .. Length(y, 12)
        BY <1>1, <2>1, LengthTable
    <2> HIDE DEF y
    <2> QED
        BY <1>1, <1>2, <1>8, <2>1, <2>2, <2>3, <2>4 DEF IInv, CountsDays
<1>9. CASE UNCHANGED vars
    BY <1>9 DEF vars, IInv, CountsDays
<1> QED
    BY <1>3, <1>4, <1>5, <1>6, <1>7, <1>8, <1>9 DEF Next, Tomorrow, Yesterday

\* In every year, days_from_civil() counts the days of the calendar.
THEOREM DayCount == Spec => []CountsDays
<1>1. IInv => CountsDays
    BY DEF IInv
<1> QED
    BY <1>1, IInvInit, IInvNext, PTL DEF Spec

(***************************************************************************)
(* What the parser accepts, and what it makes of it.                       *)
(***************************************************************************)

\* The lengths of the months in the code are those of the calendar.
LEMMA SameLengths ==
    ASSUME NEW y \in Int, NEW m \in 1 .. 12
    PROVE  DaysInMonth(y, m) = Length(y, m)
<1>1. y % 400 = 0 => y % 100 = 0 /\ y % 4 = 0
    BY SMTT(20)
<1>2. m = 2 => DaysInMonth(y, m) = LengthOfFebruary(y)
    BY <1>1 DEF DaysInMonth, Leap, LengthOfFebruary
<1>3. m # 2 => DaysInMonth(y, m) = IF m \in {4, 6, 9, 11} THEN 30 ELSE 31
    BY DEF DaysInMonth
<1> QED
    BY <1>2, <1>3, LengthTable

\* In every year, exactly the days of the calendar are accepted.
THEOREM Acceptance == Spec => []AcceptsExactlyTheCalendar
<1>1. ASSUME IInv
      PROVE  AcceptsExactlyTheCalendar
    <2>1. year \in Int
        BY <1>1 DEF IInv
    <2> SUFFICES ASSUME NEW m \in 0 .. 99, NEW d \in 0 .. 99
                 PROVE  WellFormed(Reading(m, d, <<0, 0, 0>>, [sign |-> 1, hour |-> 0, minute |-> 0]))
                            <=> m \in 1 .. 12 /\ d \in 1 .. Length(year, m)
        BY DEF AcceptsExactlyTheCalendar
    <2>2. m \in 1 .. 12 => DaysInMonth(year, m) = Length(year, m)
        BY <2>1, SameLengths
    <2>3. WellFormed(Reading(m, d, <<0, 0, 0>>, [sign |-> 1, hour |-> 0, minute |-> 0]))
              <=> m \in 1 .. 12 /\ d \in 1 .. DaysInMonth(year, m)
        BY DEF WellFormed, Reading
    <2> QED
        BY <2>2, <2>3
<1> QED
    BY <1>1, IInvInit, IInvNext, PTL DEF Spec

\* The code adds the time of the day and takes off the offset in seconds; the
\* offset of a wall clock is a number of minutes.
LEMMA OffsetArithmetic ==
    ASSUME NEW n \in Int, NEW hour \in Int, NEW minute \in Int, NEW second \in Int,
           NEW sign \in {-1, 1}, NEW h \in Int, NEW m \in Int
    PROVE  /\ n * 86400 + (hour * 3600 + minute * 60 + second) - sign * (h * 3600 + m * 60)
                  = n * 86400 + hour * 3600 + minute * 60 + second - sign * (h * 60 + m) * 60
           /\ n * 86400 + hour * 3600 + minute * 60 + second - sign * (h * 60 + m) * 60 \in Int
<1>1. CASE sign = 1
    BY <1>1, SMTT(20)
<1>2. CASE sign = -1
    BY <1>2, SMTT(20)
<1> QED
    BY <1>1, <1>2

\* In every year, at every time of the day and behind every offset, the parser
\* yields the seconds since the epoch, or refuses what lies before it.
THEOREM Instants == Spec => []ParsesToTheInstant
<1>1. ASSUME IInv
      PROVE  ParsesToTheInstant
    <2> SUFFICES ASSUME days \in TimedDays, NEW at \in TimesOfDay, NEW offset \in Offsets
                 PROVE  LET passed == days * 86400 + at[1] * 3600 + at[2] * 60 + at[3]
                                          - offset.sign * (offset.hour * 60 + offset.minute) * 60
                        IN  ParseRfc3339Timestamp(Reading(month, day, at, offset))
                                = IF passed < 0 THEN {} ELSE {passed}
        BY DEF ParsesToTheInstant
    <2> DEFINE v == Reading(month, day, at, offset)
               passed == days * 86400 + at[1] * 3600 + at[2] * 60 + at[3]
                             - offset.sign * (offset.hour * 60 + offset.minute) * 60
    <2>1. at[1] \in 0 .. 23 /\ at[2] \in 0 .. 59 /\ at[3] \in 0 .. 60
        BY CalendarAssumption
    <2>2. offset.sign \in {-1, 1} /\ offset.hour \in 0 .. 23 /\ offset.minute \in 0 .. 59
        BY CalendarAssumption
    <2>3. /\ year \in Int /\ month \in 1 .. 12 /\ day \in 1 .. DaysInMonth(year, month)
          /\ DaysFromCivil(year, month, day) = days
        BY <1>1, SameLengths DEF IInv, CountsDays
    <2>4. WellFormed(v)
        BY <2>1, <2>2, <2>3 DEF WellFormed, Reading
    <2>5. days \in Int
        <3>1. day \in Int
            BY <2>3, LengthTable, SameLengths
        <3> QED
            BY <2>3, <3>1, NextDayCounts
    <2>6. UnixSeconds(v) = passed /\ passed \in Int
        <3>1. UnixSeconds(v) = days * 86400 + (at[1] * 3600 + at[2] * 60 + at[3])
                                   - offset.sign * (offset.hour * 3600 + offset.minute * 60)
            BY <2>3 DEF UnixSeconds, OffsetSeconds, Reading
        <3>2. at[1] \in Int /\ at[2] \in Int /\ at[3] \in Int
            BY <2>1
        <3>3. offset.hour \in Int /\ offset.minute \in Int
            BY <2>2
        <3> DEFINE hour == at[1]
                   minute == at[2]
                   second == at[3]
                   sign == offset.sign
                   h == offset.hour
                   m == offset.minute
                   code == days * 86400 + (hour * 3600 + minute * 60 + second)
                               - sign * (h * 3600 + m * 60)
                   clock == days * 86400 + hour * 3600 + minute * 60 + second
                                - sign * (h * 60 + m) * 60
        <3>4. code = clock /\ clock \in Int
            <4> HIDE DEF hour, minute, second, sign, h, m
            <4>1. /\ hour \in Int /\ minute \in Int /\ second \in Int
                  /\ sign \in {-1, 1} /\ h \in Int /\ m \in Int
                BY <2>2, <3>2, <3>3 DEF hour, minute, second, sign, h, m
            <4> QED
                BY <2>5, <4>1, OffsetArithmetic
        <3>5. UnixSeconds(v) = code
            BY <3>1
        <3>6. clock = passed
            OBVIOUS
        <3> HIDE DEF code, clock, passed
        <3> QED
            BY <3>4, <3>5, <3>6
    <2>7. ParseRfc3339Timestamp(v) = IF passed < 0 THEN {} ELSE {passed}
        <3> HIDE DEF passed
        <3> QED
            BY <2>4, <2>6 DEF ParseRfc3339Timestamp
    <2> QED
        BY <2>7
<1> QED
    BY <1>1, IInvInit, IInvNext, PTL DEF Spec
=============================================================================
