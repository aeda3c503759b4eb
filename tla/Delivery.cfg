SPECIFICATION FairSpec
CONSTANTS
    m1 = m1
    m2 = m2
    Ships = {m1, m2}
    MaxTime = 2
    Reports <- TwoShips
    Clients = {c1}
    Buffer = 2
INVARIANTS NoGap
PROPERTIES SlowIsClosed CatchesUp
