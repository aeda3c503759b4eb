SPECIFICATION Spec
CONSTANTS
    Ships = {s1}
    MaxTime = 2
    TTL = 0
    Names = {"ship", "buoy"}
    GearNames = {"buoy"}
    Imos = {"i1", "i2"}
    Reports <- MCReports
    History <- MCHistory
INVARIANTS MarkedOrWritten ClosedIsWritten MirrorFollows
PROPERTIES LookupFinds AnswerHolds RowOnlyGrows
