SPECIFICATION Spec
CONSTANTS
    MaxHour = 2
    HourLen = 2
    HourGrace = 1
    ArchiveGrace = 4
    QueueCap = 1
    MaxLag = 2
    Blocking = FALSE
    MaxReceptions = 3
    MaxTime = 5
    MaxStops = 1
INVARIANTS
    OwnersAreSafe
    NoOverdueHour
PROPERTIES
    ObjectsOnlyGrow
