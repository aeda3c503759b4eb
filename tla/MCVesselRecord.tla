--------------------------- MODULE MCVesselRecord ---------------------------
\* Small instances of VesselRecord.
EXTENDS VesselRecord

Position == [pos |-> TRUE, name |-> NoName, imo |-> NoImo, kind |-> "vessel"]
Static(n, i) == [pos |-> FALSE, name |-> n, imo |-> i, kind |-> "vessel"]

\* A position report, and the static reports of a ship and of a buoy, each with
\* an IMO number of its own: the station changes kind with its IMO.
MCReports == {Position} \union {Static(n, i) : <<n, i>> \in {<<"ship", "i1">>, <<"buoy", "i2">>}}

\* History that knows the station as a buoy.
MCHistory == {[name |-> "buoy", imo |-> NoImo]}

\* Vessels with nothing but positions, and an aid to navigation's report, whose
\* kind its message type sets.
OnlyPositions == {Position}
Aid == [pos |-> TRUE, name |-> "buoy", imo |-> NoImo, kind |-> "aton"]
OnlyAid == {Aid}

NoHistory == {}
=============================================================================
