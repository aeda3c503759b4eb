------------------------------ MODULE MCArchive ------------------------------
(* Instances of Archive for TLC: an hour is 2 ticks, its grace 1 and         *)
(* archiveGrace 3, the least that covers an hour and the lag.                *)
EXTENDS Archive
=============================================================================
