CONSTANTS
    FirstYear = 0
    LastYear = 2400
    TimesOfDay <- MCTimesOfDay
    Offsets <- MCOffsets
    TimedDays <- MCTimedDays
SPECIFICATION Spec
INVARIANTS
    CountsDays
    AcceptsExactlyTheCalendar
    ParsesToTheInstant
CHECK_DEADLOCK FALSE
