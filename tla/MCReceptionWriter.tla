-------------------------- MODULE MCReceptionWriter --------------------------
(* Instances of ReceptionWriter for TLC: a queue of two that gives up one,   *)
(* so that the queue overflows behind a failed batch of two.                 *)
EXTENDS ReceptionWriter
=============================================================================
