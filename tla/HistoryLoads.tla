---------------------------- MODULE HistoryLoads ----------------------------
(* The days of receptions as archives are loaded into them, the raw archive *)
(* is replayed over them, and positions_1m and station_coverage are rebuilt *)
(* from them (src/server/history.go, replay_clickhouse.go, coveragemap.go). *)
(*                                                                          *)
(* The server runs the history loader and the first backfill of coverage;   *)
(* a replay is a command of its own beside it, which no lock of the server  *)
(* reaches.  A day's receptions are a set of parts: the network's own       *)
(* copies, as the n-th replay left them, and the two batches of each load   *)
(* of the day's archive file, with the copies of the network they were      *)
(* matched against.  One file a day, one archive.                           *)
EXTENDS Integers, FiniteSets, FiniteSetsExt

CONSTANTS
  LoadDays,    \* UTC days with raw hours and an archive file, consecutive
  Replays,     \* bound: replays begun
  Upsets       \* bound: new editions of a file, and loads, replays and binnings that fail or stop

ASSUME LoadsAssumption ==
  /\ LoadDays \subseteq Nat /\ IsFiniteSet(LoadDays)
  /\ Replays \in Nat /\ Upsets \in Nat

VARIABLES
  rows,       \* receptions of each day
  rollups,    \* positions_1m and station_coverage of each day: the parts they count
  copies,     \* how often the network's copies of each day were replaced
  published,  \* the edition (etag) of each day's file the archive lists
  loads,      \* history_loads: the latest row of each file
  covered,    \* station_coverage_backfilled
  loader,     \* the history loader
  replay,     \* the replay command
  filler,     \* the coverage backfill
  crossed,    \* days a replay and a load both had in hand at once
  halfway,    \* days a stopped replay left, to be replayed again
  tally       \* replays and upsets so far

loadsVars == <<rows, rollups, copies, published, loads, covered, loader, replay, filler, crossed, halfway, tally>>

Rollups == {"positions_1m", "station_coverage"}
Beside(d) == {d - 1, d, d + 1} \intersect LoadDays
Net(d) == [kind |-> "net", copies |-> copies[d]]
Batch(n, d) == [kind |-> "archive", run |-> loader.run, etag |-> loader.etag, matched |-> loader.matched, batch |-> n]
InLoad(d) == loader.pc \notin {"idle", "file"} /\ loader.day = d
InReplay(d) == d \in halfway \/ (replay.pc # "idle" /\ d \in Beside(replay.day))
Archived(d) == {r \in rows[d] : r.kind = "archive"}

NoLoad == [etag |-> 0, complete |-> FALSE, matched |-> FALSE]
Resting == [pc |-> "idle", day |-> 0, todo |-> {}, etag |-> 0, again |-> FALSE, matched |-> 0, beside |-> FALSE,
            run |-> 0, read |-> {}, table |-> ""]
NoReplay == [pc |-> "idle", day |-> 0, todo |-> {}, read |-> {}, table |-> ""]

LoadsInit ==
  /\ copies = [d \in LoadDays |-> 0]
  /\ rows = [d \in LoadDays |-> {Net(d)}]
  /\ rollups = [t \in Rollups |-> [d \in LoadDays |-> IF t = "positions_1m" THEN {Net(d)} ELSE {}]]
  /\ published = [d \in LoadDays |-> 1]
  /\ loads = [d \in LoadDays |-> NoLoad]
  /\ covered = {} /\ crossed = {} /\ halfway = {}
  /\ loader = Resting /\ replay = NoReplay
  /\ filler = [pc |-> "idle", day |-> 0, read |-> {}]
  /\ tally = [replays |-> 0, upsets |-> 0]

Tally(what, bound) == tally[what] < bound /\ tally' = [tally EXCEPT ![what] = @ + 1]

\* The archive publishes a file again, corrected.
Publish(d) ==
  /\ Tally("upsets", Upsets)
  /\ published' = [published EXCEPT ![d] = @ + 1]
  /\ UNCHANGED <<rows, rollups, copies, loads, covered, loader, replay, filler, crossed, halfway>>

\* A part goes into the receptions of some days, and through the views into
\* both rollups.
Put(D, part(_)) ==
  /\ rows' = [d \in LoadDays |-> rows[d] \union (IF d \in D THEN {part(d)} ELSE {})]
  /\ rollups' = [t \in Rollups |-> [d \in LoadDays |-> rollups[t][d] \union (IF d \in D THEN {part(d)} ELSE {})]]

---------------------------------------------------------------------------
(* The loader: loadHistory, loadHistoryFile, loadHistoryDay. *)

\* A pass: the files listed that history_loads does not hold complete as they
\* are now.
ListFiles ==
  /\ loader.pc = "idle"
  /\ LET D == {d \in LoadDays : ~loads[d].complete \/ loads[d].etag # published[d]} IN
       /\ D # {}
       /\ loader' = [loader EXCEPT !.pc = "file", !.todo = {[day |-> d, etag |-> published[d], seen |-> loads[d] # NoLoad] : d \in D}]
  /\ UNCHANGED <<rows, rollups, copies, published, loads, covered, replay, filler, crossed, halfway, tally>>

\* The newest file left of the pass, staged and counted.
StageFile ==
  /\ loader.pc = "file"
  /\ \E f \in loader.todo :
       /\ \A g \in loader.todo : g.day <= f.day
       /\ loader' = [loader EXCEPT !.pc = "begin", !.todo = @ \ {f}, !.day = f.day, !.etag = f.etag, !.again = f.seen, !.run = @ + 1]
  /\ UNCHANGED <<rows, rollups, copies, published, loads, covered, replay, filler, crossed, halfway, tally>>

\* Mutant: a file is recorded only once it is loaded.
RecordLate(complete) == 
  IF complete THEN [loads EXCEPT ![loader.day] = [etag |-> loader.etag, complete |-> TRUE, matched |-> loader.beside]] ELSE loads

Recorded(complete) ==
  [loads EXCEPT ![loader.day] = [etag |-> loader.etag, complete |-> complete, matched |-> complete /\ loader.beside]]

\* The file is recorded begun, so that a load that stops is known.
BeginFile ==
  /\ loader.pc = "begin"
  /\ loads' = Recorded(FALSE)
  /\ loader' = [loader EXCEPT !.pc = IF loader.again THEN "delete" ELSE "read"]
  /\ crossed' = crossed \union {d \in {loader.day} : InReplay(d)}
  /\ UNCHANGED <<rows, rollups, copies, published, covered, replay, filler, halfway, tally>>

\* A file begun before: its day's rows from this archive go first.
DeleteEarlier ==
  /\ loader.pc = "delete"
  /\ rows' = [rows EXCEPT ![loader.day] = @ \ Archived(loader.day)]
  /\ loader' = [loader EXCEPT !.pc = "read"]
  /\ UNCHANGED <<rollups, copies, published, loads, covered, replay, filler, crossed, halfway, tally>>

\* The staged rows are read beside the transmissions the network holds now,
\* and go out in batches.
ReadDay ==
  /\ loader.pc = "read"
  /\ loader' = [loader EXCEPT !.pc = "batch1", !.matched = copies[loader.day],
                              !.beside = Net(loader.day) \in rows[loader.day]]
  /\ UNCHANGED <<rows, rollups, copies, published, loads, covered, replay, filler, crossed, halfway, tally>>

InsertBatch(n) ==
  /\ loader.pc = <<"batch1", "batch2">>[n]
  /\ Put({loader.day}, LAMBDA d : Batch(n, d))
  /\ loader' = [loader EXCEPT !.pc = IF n = 1 THEN "batch2" ELSE IF loader.again THEN "rebuild" ELSE "finish",
                              !.table = "positions_1m"]
  /\ UNCHANGED <<copies, published, loads, covered, replay, filler, crossed, halfway, tally>>

\* coverageBinning: within the server, one binning of coverage at a time.
Unbinned(table) == table = "station_coverage" => filler.pc # "binning"

\* rebuildPositions1m, rebuildCoverage: the day's rows go, and receptions are
\* read in the statement that puts them back.
RebuildDay ==
  /\ loader.pc = "rebuild" /\ Unbinned(loader.table)
  /\ rollups' = [rollups EXCEPT ![loader.table][loader.day] = {}]
  /\ loader' = [loader EXCEPT !.pc = "rebuilding", !.read = rows[loader.day]]
  /\ UNCHANGED <<rows, copies, published, loads, covered, replay, filler, crossed, halfway, tally>>

RebuiltDay ==
  /\ loader.pc = "rebuilding"
  /\ rollups' = [rollups EXCEPT ![loader.table][loader.day] = @ \union loader.read]
  /\ loader' = IF loader.table = "positions_1m" THEN [loader EXCEPT !.pc = "rebuild", !.table = "station_coverage", !.read = {}]
               ELSE [loader EXCEPT !.pc = "finish", !.read = {}]
  /\ UNCHANGED <<rows, copies, published, loads, covered, replay, filler, crossed, halfway, tally>>

\* The next file of the pass, or its end.
FileOver == [Resting EXCEPT !.pc = IF loader.todo = {} THEN "idle" ELSE "file", !.todo = loader.todo, !.run = loader.run]

FinishFile ==
  /\ loader.pc = "finish"
  /\ loads' = Recorded(TRUE) /\ loader' = FileOver
  /\ UNCHANGED <<rows, rollups, copies, published, covered, replay, filler, crossed, halfway, tally>>

\* A step of the load fails, or its hour is over: the file is left for the
\* next pass.
FailFile ==
  /\ loader.pc \notin {"idle", "file"} /\ Tally("upsets", Upsets)
  /\ loader' = FileOver
  /\ UNCHANGED <<rows, rollups, copies, published, loads, covered, replay, filler, crossed, halfway>>

Load == ListFiles \/ StageFile \/ BeginFile \/ DeleteEarlier \/ ReadDay
          \/ InsertBatch(1) \/ InsertBatch(2) \/ RebuildDay \/ RebuiltDay \/ FinishFile

---------------------------------------------------------------------------
(* The replay of a day: replayDay. *)

\* The day is replayed into a staging table and found whole enough.  Nothing in
\* the code keeps the command from a backfill's binning: it is "not run while a
\* server's first backfill is still binning" (coverageBinning).
ReplayBegin(d) ==
  /\ replay.pc = "idle" /\ covered = LoadDays /\ Tally("replays", Replays)
  /\ replay' = [NoReplay EXCEPT !.pc = "delete", !.day = d]
  /\ crossed' = crossed \union {e \in Beside(d) : InLoad(e)}
  /\ UNCHANGED <<rows, rollups, copies, published, loads, covered, loader, filler, halfway>>

\* The network's copies that arrived that day go, from its own receptions and
\* from those of the days beside it, and the replayed ones come.  The hours
\* are marked between the two, as StationSeries models it.
SwapOut ==
  /\ replay.pc = "delete"
  /\ rows' = [d \in LoadDays |-> IF d \in Beside(replay.day) THEN Archived(d) ELSE rows[d]]
  /\ copies' = [d \in LoadDays |-> IF d \in Beside(replay.day) THEN copies[d] + 1 ELSE copies[d]]
  /\ replay' = [replay EXCEPT !.pc = "insert"]
  /\ halfway' = halfway \union Beside(replay.day)
  /\ UNCHANGED <<rollups, published, loads, covered, loader, filler, crossed, tally>>

\* Copies that arrived on a day carry stamps on the days beside it too.
Rebuilt(d) == Beside(d)

SwapIn ==
  /\ replay.pc = "insert"
  /\ copies' = [d \in LoadDays |-> IF d \in Beside(replay.day) THEN copies[d] + 1 ELSE copies[d]]
  /\ Put(Beside(replay.day), LAMBDA d : [kind |-> "net", copies |-> copies'[d]])
  /\ replay' = [replay EXCEPT !.pc = "rebuild", !.todo = Rebuilt(replay.day), !.table = "positions_1m"]
  /\ UNCHANGED <<published, loads, covered, loader, filler, crossed, halfway, tally>>

\* The rollups of the days are rebuilt in turn, the earliest day first.
ReplayRebuild ==
  LET d == Min(replay.todo) IN
  /\ replay.pc = "rebuild"
  /\ rollups' = [rollups EXCEPT ![replay.table][d] = {}]
  /\ replay' = [replay EXCEPT !.pc = "rebuilding", !.read = rows[d]]
  /\ UNCHANGED <<rows, copies, published, loads, covered, loader, filler, crossed, halfway, tally>>

ReplayRebuilt ==
  LET d == Min(replay.todo)
      next == IF replay.table = "positions_1m" THEN [replay EXCEPT !.pc = "rebuild", !.table = "station_coverage", !.read = {}]
              ELSE [replay EXCEPT !.pc = IF replay.todo = {d} THEN "reload" ELSE "rebuild",
                                  !.todo = @ \ {d}, !.table = "positions_1m", !.read = {}]
  IN  /\ replay.pc = "rebuilding"
      /\ rollups' = [rollups EXCEPT ![replay.table][d] = @ \union replay.read]
      /\ replay' = next
      /\ UNCHANGED <<rows, copies, published, loads, covered, loader, filler, crossed, halfway, tally>>

\* Archive days that matched the network's transmissions of these days are
\* marked to load again.
MarkedToReload ==
  [d \in LoadDays |-> IF d \in Beside(replay.day) /\ loads[d].complete /\ loads[d].matched
                      THEN [loads[d] EXCEPT !.complete = FALSE] ELSE loads[d]]

\* The last of the replay; the own-ship sightings and static states that
\* follow touch nothing here.
ReplayEnd ==
  /\ replay.pc = "reload"
  /\ loads' = MarkedToReload
  /\ halfway' = halfway \ Beside(replay.day)
  /\ replay' = NoReplay
  /\ UNCHANGED <<rows, rollups, copies, published, covered, loader, filler, crossed, tally>>

\* A step fails or the command is stopped; it is run again for the same day.
ReplayStops ==
  /\ replay.pc \notin {"idle", "delete"} /\ Tally("upsets", Upsets)
  /\ replay' = [NoReplay EXCEPT !.pc = "delete", !.day = replay.day]
  /\ UNCHANGED <<rows, rollups, copies, published, loads, covered, loader, filler, crossed, halfway>>

Replay == SwapOut \/ SwapIn \/ ReplayRebuild \/ ReplayRebuilt \/ ReplayEnd

---------------------------------------------------------------------------
(* coverageBackfill: the days held before the view of coverage. *)

\* The newest day not binned yet; its receptions are read by the statement
\* that writes them, which holds coverageBinning.
FillDay ==
  /\ filler.pc = "idle" /\ LoadDays \ covered # {}
  /\ ~(loader.pc = "rebuilding" /\ loader.table = "station_coverage")
  /\ LET d == Max(LoadDays \ covered) IN filler' = [pc |-> "binning", day |-> d, read |-> rows[d]]
  /\ UNCHANGED <<rows, rollups, copies, published, loads, covered, loader, replay, crossed, halfway, tally>>

FilledDay ==
  /\ filler.pc = "binning"
  /\ rollups' = [rollups EXCEPT !["station_coverage"][filler.day] = @ \union filler.read]
  /\ filler' = [filler EXCEPT !.pc = "ledger", !.read = {}]
  /\ UNCHANGED <<rows, copies, published, loads, covered, loader, replay, crossed, halfway, tally>>

FillRecorded ==
  /\ filler.pc = "ledger"
  /\ covered' = covered \union {filler.day}
  /\ filler' = [filler EXCEPT !.pc = "idle", !.day = 0]
  /\ UNCHANGED <<rows, rollups, copies, published, loads, loader, replay, crossed, halfway, tally>>

FillFails ==
  /\ filler.pc # "idle" /\ Tally("upsets", Upsets)
  /\ filler' = [pc |-> "idle", day |-> 0, read |-> {}]
  /\ UNCHANGED <<rows, rollups, copies, published, loads, covered, loader, replay, crossed, halfway>>

Fill == FillDay \/ FilledDay \/ FillRecorded

LoadsNext ==
  \/ \E d \in LoadDays : Publish(d) \/ ReplayBegin(d)
  \/ Load \/ FailFile \/ Replay \/ ReplayStops \/ Fill \/ FillFails

LoadsSpec == LoadsInit /\ [][LoadsNext]_loadsVars

---------------------------------------------------------------------------
\* A day neither being worked on nor left for a later run to finish.
Settled(d) == ~InLoad(d) /\ ~InReplay(d) /\ d \notin crossed /\ (loads[d] = NoLoad \/ loads[d].complete)

\* A file recorded complete is in receptions whole and once, as it was listed,
\* and names the network's transmissions as the last replay left them
\* (loadHistoryFile, replayDay's mark), unless it was loaded while a replay
\* had the day in hand.
ArchiveCopiesMatch ==
  \A d \in LoadDays : (Settled(d) /\ loads[d].complete) =>
    /\ {r.batch : r \in Archived(d)} = {1, 2} /\ Cardinality(Archived(d)) = 2
    /\ \A r \in Archived(d) : r.etag = loads[d].etag /\ r.matched = copies[d]

\* positions_1m and station_coverage hold what receptions hold: nothing that
\* was deleted lingers in them, and nothing is missing once the day's coverage
\* is filled in (rebuildPositions1m, rebuildCoverage, coverageBackfill).
RollupsHoldReceptions ==
  \A d \in LoadDays : Settled(d) =>
    /\ rollups["positions_1m"][d] = rows[d]
    /\ rollups["station_coverage"][d] \subseteq rows[d]
    /\ d \in covered => rollups["station_coverage"][d] = rows[d]

\* Once a day's loads and replays are done, its receptions are whole and the
\* tables kept beside them agree (replayDay, loadHistoryFile), but for a day the
\* two processes once had in hand together, or that a stopped replay left.
LoadsSettle == ArchiveCopiesMatch /\ RollupsHoldReceptions
=============================================================================
