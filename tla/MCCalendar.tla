------------------------------ MODULE MCCalendar ------------------------------
(***************************************************************************)
(* The wall clocks the parser is checked on: midnight, the last second of  *)
(* a day, a leap second and a time in between, at both extreme offsets, at *)
(* UTC written either way, and at offsets of hours and minutes.            *)
(***************************************************************************)
EXTENDS Calendar

MCTimesOfDay == {<<0, 0, 0>>, <<12, 34, 56>>, <<23, 59, 59>>, <<23, 59, 60>>}
MCOffsets ==
    {[sign |-> s, hour |-> at[1], minute |-> at[2]] :
        s \in {-1, 1}, at \in {<<0, 0>>, <<5, 45>>, <<23, 59>>}}

\* The days from 1968 to 2037, whose seconds TLC's 32-bit integers hold.
MCTimedDays == -730 .. 24836
=============================================================================
