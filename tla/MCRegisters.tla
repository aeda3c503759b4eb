----------------------------- MODULE MCRegisters -----------------------------
EXTENDS Registers

\* One licence, a record only its number finds, and one of an outgrown
\* service that a call sign finds.
MCLicence == [mmsi |-> 1, usi |-> 1, active |-> TRUE, official |-> "o1"]
MCRequests == [r \in {"fcc"} |-> {{MCLicence}}]
MCByNumber == [id |-> 1, call |-> "", official |-> "o1", name |-> "n1", active |-> TRUE, service |-> "Recreational", year |-> 1]
MCByCallSign == [id |-> 2, call |-> "c2", official |-> "", name |-> "n2", active |-> FALSE, service |-> "fishing", year |-> 1]
MCVessels == {MCByNumber, MCByCallSign}
MCShips == <<[mmsi |-> 2, name |-> "n2", call |-> "c2"], [mmsi |-> 1, name |-> "n1", call |-> "c2"]>>
MCCanadians == <<11>>
=============================================================================
