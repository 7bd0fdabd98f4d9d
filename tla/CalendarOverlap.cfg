SPECIFICATION CalendarSpec
CONSTANTS
    MaxEvents = 3
    LastDay = 1
    DayLength = 5
    Ahead = FALSE
CHECK_DEADLOCK FALSE
INVARIANTS
    OverlapsSideBySide
