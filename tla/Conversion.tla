---------------------------- MODULE Conversion ----------------------------
(* Receptions in their first layout rewritten a day at a time into the      *)
(* current one, beside a server that may be rolled back to the version that *)
(* writes the first, and the cleanup that drops what was rewritten          *)
(* (src/server/convert.go, and the positions view of clickhouse.go).        *)
EXTENDS Integers, FiniteSets, FiniteSetsExt

CONSTANTS
  ConvertDays,  \* UTC days, as numbers
  PerDay,       \* transmissions heard on a day, at most
  Rollbacks,    \* bound: returns of the server to the first layout
  Halts         \* bound: commands that stop partway

ASSUME ConversionAssumption ==
  ConvertDays \subseteq Nat /\ IsFiniteSet(ConvertDays) /\ PerDay \in Nat /\ Rollbacks \in Nat /\ Halts \in Nat

VARIABLES
  layout,     \* the layout the running server writes
  heard,      \* per day, how many transmissions receptions were given in the first layout
  first,      \* per day, those whose first-layout rows are still there (tx != 0)
  rewritten,  \* per day, the rows the converter wrote, named by transmission and batch
  converted,  \* receptions_converted: per day, the rows counted when it was rewritten
  legacy,     \* whether receptions still has the first layout's columns
  reads,      \* the tables only a rolled-back server reads
  converter,  \* aiscast convert-receptions
  cleaner,    \* aiscast clickhouse-cleanup
  tries       \* rollbacks and halts so far

convertVars == <<layout, heard, first, rewritten, converted, legacy, reads, converter, cleaner, tries>>

OldTables == {"positions_15m", "positions_old", "coverage"}
Uncount == [d \in ConvertDays |-> 0]

ConvertInit ==
  /\ layout = "first"
  /\ heard = Uncount /\ first = [d \in ConvertDays |-> {}] /\ rewritten = first
  /\ converted = Uncount
  /\ legacy = TRUE /\ reads = OldTables
  /\ converter = [pc |-> "idle", days |-> {}, count |-> 0, todo |-> {}, run |-> 0]
  /\ cleaner = "idle"
  /\ tries = [rollbacks |-> 0, halts |-> 0]

Try(what, bound) == tries[what] < bound /\ tries' = [tries EXCEPT ![what] = @ + 1]

\* A server of the first layout hears a transmission of the day, now or late.
Hear(d) ==
  /\ layout = "first" /\ heard[d] < PerDay
  /\ heard' = [heard EXCEPT ![d] = @ + 1]
  /\ first' = [first EXCEPT ![d] = @ \union {heard[d] + 1}]
  /\ UNCHANGED <<layout, rewritten, converted, legacy, reads, converter, cleaner, tries>>

\* The current server is deployed, or rolled back; not while a cleanup runs or
\* after one, when a server of the first layout can no longer write.
Deploy ==
  /\ layout = "first" /\ layout' = "current"
  /\ UNCHANGED <<heard, first, rewritten, converted, legacy, reads, converter, cleaner, tries>>

RollBack ==
  /\ layout = "current" /\ cleaner = "idle" /\ reads = OldTables /\ legacy
  /\ Try("rollbacks", Rollbacks) /\ layout' = "first"
  /\ UNCHANGED <<heard, first, rewritten, converted, legacy, reads, converter, cleaner>>

---------------------------------------------------------------------------
(* convertDays, convertDay. *)

\* Days with rows in the first layout that receptions_converted does not hold
\* with as many rows as there are now.
Unconverted == {d \in ConvertDays : legacy /\ first[d] # {} /\ converted[d] # Cardinality(first[d])}

ConvertBegin ==
  /\ converter.pc = "idle" /\ Unconverted # {}
  /\ converter' = [converter EXCEPT !.pc = "count", !.days = Unconverted]
  /\ UNCHANGED <<layout, heard, first, rewritten, converted, legacy, reads, cleaner, tries>>

Day == Min(converter.days)

\* The rows of the day counted, and what an earlier run wrote deleted.
Emptied == [rewritten EXCEPT ![Day] = {}]

CountDay ==
  /\ converter.pc = "count"
  /\ rewritten' = Emptied
  /\ converter' = [converter EXCEPT !.pc = "read", !.count = Cardinality(first[Day])]
  /\ UNCHANGED <<layout, heard, first, converted, legacy, reads, cleaner, tries>>

\* The day's rows are read while its batches go out, under tokens of the run.
ReadRows ==
  /\ converter.pc = "read"
  /\ converter' = [converter EXCEPT !.pc = "write", !.todo = first[Day], !.run = @ + 1]
  /\ UNCHANGED <<layout, heard, first, rewritten, converted, legacy, reads, cleaner, tries>>

WriteBatch ==
  /\ converter.pc = "write" /\ converter.todo # {}
  /\ LET t == Min(converter.todo) IN
       /\ rewritten' = [rewritten EXCEPT ![Day] = @ \union {<<t, converter.run>>}]
       /\ converter' = [converter EXCEPT !.todo = @ \ {t}]
  /\ UNCHANGED <<layout, heard, first, converted, legacy, reads, cleaner, tries>>

\* Mutant: the rows are counted when the day is done.
CountNow == Cardinality(first[Day])

\* The rows counted before the day was read.
CountBefore == converter.count

\* The day's hours are marked for the station series and the day recorded.
RecordDay ==
  /\ converter.pc = "write" /\ converter.todo = {}
  /\ converted' = [converted EXCEPT ![Day] = CountBefore]
  /\ converter' = [converter EXCEPT !.pc = IF converter.days = {Day} THEN "idle" ELSE "count", !.days = @ \ {Day}, !.count = 0]
  /\ UNCHANGED <<layout, heard, first, rewritten, legacy, reads, cleaner, tries>>

ConvertStops ==
  /\ converter.pc # "idle" /\ Try("halts", Halts)
  /\ converter' = [converter EXCEPT !.pc = "idle", !.days = {}, !.count = 0, !.todo = {}]
  /\ UNCHANGED <<layout, heard, first, rewritten, converted, legacy, reads, cleaner>>

---------------------------------------------------------------------------
(* cleanup, run by hand beside a current server once no converter runs. *)

\* Nothing goes while a day is left to convert.
CleanBegin ==
  /\ cleaner = "idle" /\ layout = "current" /\ converter.pc = "idle" /\ legacy
  /\ Unconverted = {}
  /\ cleaner' = "positions_15m"
  /\ UNCHANGED <<layout, heard, first, rewritten, converted, legacy, reads, converter, tries>>

DropTable(t, next) ==
  /\ cleaner = t /\ cleaner' = next /\ reads' = reads \ {t}
  /\ UNCHANGED <<layout, heard, first, rewritten, converted, legacy, converter, tries>>

\* The rows go first, then the columns and the converter's ledger.
DeleteFirst ==
  /\ cleaner = "rows" /\ cleaner' = "columns"
  /\ first' = [d \in ConvertDays |-> {}]
  /\ UNCHANGED <<layout, heard, rewritten, converted, legacy, reads, converter, tries>>

DropColumns ==
  /\ cleaner = "columns" /\ cleaner' = "idle"
  /\ legacy' = FALSE /\ converted' = Uncount
  /\ UNCHANGED <<layout, heard, first, rewritten, reads, converter, tries>>

CleanStops ==
  /\ cleaner # "idle" /\ Try("halts", Halts) /\ cleaner' = "idle"
  /\ UNCHANGED <<layout, heard, first, rewritten, converted, legacy, reads, converter>>

ConvertNext ==
  \/ \E d \in ConvertDays : Hear(d)
  \/ Deploy \/ RollBack
  \/ ConvertBegin \/ CountDay \/ ReadRows \/ WriteBatch \/ RecordDay \/ ConvertStops
  \/ CleanBegin
  \/ DropTable("positions_15m", "positions_old") \/ DropTable("positions_old", "coverage") \/ DropTable("coverage", "rows")
  \/ DeleteFirst \/ DropColumns \/ CleanStops

ConvertSpec == ConvertInit /\ [][ConvertNext]_convertVars

---------------------------------------------------------------------------
(* What the positions view serves of a day: the first layout's rows until   *)
(* the day is recorded, and the rewritten rows at any time (chFirstCopies). *)
InView(d) == (IF legacy /\ converted[d] = 0 THEN {<<t, 0>> : t \in first[d]} ELSE {}) \union rewritten[d]
TimesServed(d, t) == Cardinality({s \in InView(d) : s[1] = t})

\* Whatever stopped partway and was run again, and whatever a rolled-back
\* server wrote meanwhile, no transmission heard is ever without a row; and a
\* day the converter is not on and that has no rows left to convert serves each
\* of them exactly once, before the cleanup and after it (convertDay, cleanup).
ServedOnce ==
  \A d \in ConvertDays : \A t \in 1..heard[d] :
    /\ t \in first[d] \/ (\E r \in rewritten[d] : r[1] = t)
    /\ (d \notin Unconverted /\ d \notin converter.days) => TimesServed(d, t) = 1
=============================================================================
