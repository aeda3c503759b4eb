SPECIFICATION FairSpec
CONSTANTS
    Ships = {s1, s2}
    MaxTime = 2
    TTL = 0
    Names = {"ship", "buoy"}
    GearNames = {"ship", "buoy"}
    Imos = {}
    Reports <- OnlyAid
    History <- NoHistory

PROPERTIES FoldsReachTheRow
