SPECIFICATION FairSpec
CONSTANTS
    MaxCopies = 2
    Cap = 2
    Tenth = 1
    RefuseFor = 2
    Poison = {1}
PROPERTIES
    OutagesNeverCount
CHECK_DEADLOCK FALSE
