SPECIFICATION Spec
CONSTANTS
    Ships = {s1}
    MaxTime = 3
    TTL = 1
    Names = {}
    GearNames = {}
    Imos = {}
    Reports <- OnlyPositions
    History <- NoHistory
PROPERTIES FlushWritesFolded
