SPECIFICATION FairSpec
CONSTANTS
    MaxHour = 2
    HourLen = 2
    HourGrace = 1
    ArchiveGrace = 3
    QueueCap = 1
    MaxLag = 1
    Blocking = TRUE
    MaxReceptions = 2
    MaxTime = 4
    MaxStops = 1
PROPERTIES
    OnlyACrashLoses
    KeepsPromise
    ClosedHoursAreUploaded
