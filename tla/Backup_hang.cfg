SPECIFICATION Spec
CONSTANTS
    Processes = {p1}
    Backups = {b1, b2}
    Keys = {k1}
    Dump = Dump
    Manifest = Manifest
    None = None
    Depth = 2
    Chunks = 3
    KeepDaily = 0
    KeepWeekly = 1
    KeepMonthly = 0
    WeekDays = 2
    MonthDays = 3
    HistoryDays = 2
    GraceDays = 1
    LastDay = 1
    MaxFaults = 1
CHECK_DEADLOCK FALSE
PROPERTIES RunsEnd
