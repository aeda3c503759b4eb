----------------------------- MODULE MCDelivery -----------------------------
\* Instances of Delivery for TLC: reports of one ship, or of two where the
\* second's order against the first is all that matters.
EXTENDS Delivery

CONSTANTS m1, m2

OneShip == [ship : {m1}, time : 1..MaxTime]
TwoShips == OneShip \union {[ship |-> m2, time |-> 1]}
=============================================================================
