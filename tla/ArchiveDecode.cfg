SPECIFICATION Spec
CONSTANTS
    MaxHour = 1
    HourLen = 2
    HourGrace = 1
    ArchiveGrace = 3
    QueueCap = 1
    MaxLag = 0
    Blocking = TRUE
    MaxReceptions = 2
    MaxTime = 3
    MaxStops = 1
INVARIANT
    AppendedMembersDecode
CHECK_DEADLOCK FALSE
