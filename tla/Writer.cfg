SPECIFICATION FairSpec
CONSTANTS
    MaxCopies = 5
    Cap = 2
    Tenth = 1
    RefuseFor = 2
    Poison = {2}
INVARIANTS
    AtMostOneRow
    Accounted
    QueueHoldsLatest
    DrainLeavesNothing
PROPERTIES
    AnswerMeansStored
    QueuedCopiesLeave
CHECK_DEADLOCK FALSE
