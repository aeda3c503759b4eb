SPECIFICATION Spec
CONSTANTS
    m1 = m1
    m2 = m2
    Ships = {m1}
    MaxTime = 2
    Reports <- OneShip
    Clients = {c1}
    Buffer = 1
PROPERTIES NoSupersededReport
