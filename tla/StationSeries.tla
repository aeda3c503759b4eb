--------------------------- MODULE StationSeries ---------------------------
(* station_hours and station_vessels: what each station heard each hour,    *)
(* rebuilt from receptions as new versions of the hours a view marks dirty  *)
(* (src/server/stationseries.go).                                           *)
(*                                                                          *)
(* The receptions of an hour are abstracted to the number of changes made   *)
(* to them: a binning that read an hour is good for as long as no change    *)
(* has followed.  Markers of an hour are numbered in the order of their     *)
(* times; a marker settles once it is old enough that its own insert is     *)
(* over, which chInsertTimeout < stationSeriesSettle guarantees.  Every     *)
(* statement of a binning is a step of its own, and any may fail partway.   *)
EXTENDS Integers, FiniteSets, FiniteSetsExt

CONSTANTS
  Hours,        \* hours, as numbers, so that consecutive ones are known
  DayOf,        \* the UTC day of each hour
  Recent,       \* today and yesterday, which the job rebuilds itself
  VesselHours,  \* hours within chStationVesselDays, which station_vessels keeps
  Held,         \* hours whose receptions were there before the view
  Inserts,      \* bound: inserts of receptions
  Deletes,      \* bound: deletes from receptions
  Faults,       \* bound: failed statements, stopped commands and restarts
  Events        \* bound: all three together

ASSUME SeriesAssumption ==
  /\ Hours \subseteq Nat /\ IsFiniteSet(Hours)
  /\ DayOf \in [Hours -> Nat]
  /\ \A h \in VesselHours, k \in Hours : h <= k => k \in VesselHours  \* those since a moment
  /\ VesselHours \subseteq Hours /\ Held \subseteq Hours
  /\ Inserts \in Nat /\ Deletes \in Nat /\ Faults \in Nat /\ Events \in Nat

VARIABLES
  change,     \* receptions: how often each hour's rows have changed
  marked,     \* station_dirty: the newest marker of each hour
  settled,    \* the newest of them older than stationSeriesSettle
  builtMark,  \* station_built: the newest marker a rebuild took in
  flying,     \* inserts whose markers are written and whose rows are not visible yet
  tables,     \* station_hours and station_vessels: per hour, the blocks of rows written
  recorded,   \* station_versions: per hour, the versions both tables hold whole
  ledger,     \* station_series_backfilled
  last,       \* seriesVersions.last, of this process
  worker,     \* the job, the older days' worker and the backfill
  purge,      \* a path that deletes receptions and then marks their hours
  unmarked,   \* hours a stopped delete left changed and unmarked
  spent       \* inserts, deletes and faults so far

seriesVars == <<change, marked, settled, builtMark, flying, tables, recorded,
                ledger, last, worker, purge, unmarked, spent>>

Days == {DayOf[h] : h \in Hours}
HoursOf(d) == {h \in Hours : DayOf[h] = d}
Workers == {"job", "older", "backfill"}
Tables == {"station_hours", "station_vessels"}
Highest(S) == Max(S \union {0})

Idle == [pc |-> "idle", days |-> {}, marks |-> [h \in Hours |-> 0],
         left |-> {}, run |-> {}, built |-> 0]

SeriesInit ==
  /\ change = [h \in Hours |-> IF h \in Held THEN 1 ELSE 0]
  /\ marked = [h \in Hours |-> 0] /\ settled = marked /\ builtMark = marked
  /\ flying = {}
  /\ tables = [t \in Tables |-> [h \in Hours |-> {}]]
  /\ recorded = [h \in Hours |-> {}]
  /\ ledger = {} /\ last = 0
  /\ worker = [w \in Workers |-> Idle]
  /\ purge = [pc |-> "idle", hours |-> {}]
  /\ unmarked = {}
  /\ spent = [inserts |-> 0, deletes |-> 0, faults |-> 0]

\* A further use of what a bound counts.
Spend(what, bound) ==
  /\ spent[what] < bound /\ spent.inserts + spent.deletes + spent.faults < Events
  /\ spent' = [spent EXCEPT ![what] = @ + 1]

Bump(f, S) == [h \in Hours |-> IF h \in S THEN f[h] + 1 ELSE f[h]]

---------------------------------------------------------------------------
(* Receptions and their markers. *)

\* The view writes the hour's marker as the insert's rows go in.
Insert(h) ==
  /\ Spend("inserts", Inserts)
  /\ marked' = Bump(marked, {h}) /\ unmarked' = unmarked \ {h}
  /\ flying' = flying \union {[hour |-> h, marker |-> marked[h] + 1]}
  /\ UNCHANGED <<change, settled, builtMark, tables, recorded, ledger, last, worker, purge>>

\* The rows of an insert become visible, or the insert fails after all.
Land(f) ==
  /\ flying' = flying \ {f}
  /\ change' \in {change, Bump(change, {f.hour})}
  /\ UNCHANGED <<marked, settled, builtMark, tables, recorded, ledger, last, worker, purge, unmarked, spent>>

\* Mutant: markers are taken at once.
SettlesYoung(h) == settled[h] < marked[h]

\* A marker is older than stationSeriesSettle only after its insert is over.
Settles(h) ==
  /\ settled[h] < marked[h]
  /\ \A f \in flying : f.hour = h => f.marker > settled[h] + 1

Age(h) ==
  /\ Settles(h)
  /\ settled' = Bump(settled, {h})
  /\ UNCHANGED <<change, marked, builtMark, flying, tables, recorded, ledger, last, worker, purge, unmarked, spent>>

\* dirtyHours: the hours a delete will empty, read before it.
DeleteBegin ==
  /\ purge.pc = "idle" /\ Spend("deletes", Deletes)
  /\ \E S \in SUBSET {h \in Hours : change[h] > 0} \ {{}} :
       purge' = [pc |-> "delete", hours |-> S]
  /\ UNCHANGED <<change, marked, settled, builtMark, flying, tables, recorded, ledger, last, worker, unmarked>>

\* The rows go, and only then are their hours marked.
DeleteThenMark ==
  \/ /\ purge.pc = "delete" /\ change' = Bump(change, purge.hours)
     /\ purge' = [purge EXCEPT !.pc = "mark"] /\ UNCHANGED marked
  \/ /\ purge.pc = "mark" /\ marked' = Bump(marked, purge.hours)
     /\ purge' = [purge EXCEPT !.pc = "idle", !.hours = {}] /\ UNCHANGED change

Delete ==
  /\ DeleteThenMark
  /\ unmarked' = IF marked' = marked THEN unmarked ELSE unmarked \ purge.hours
  /\ UNCHANGED <<settled, builtMark, flying, tables, recorded, ledger, last, worker, spent>>

\* The deleting command stops; what it deleted stays unmarked until the hour
\* is marked by something else.
DeleteStops ==
  /\ purge.pc # "idle" /\ Spend("faults", Faults)
  /\ unmarked' = IF purge.pc = "mark" THEN unmarked \union purge.hours ELSE unmarked
  /\ purge' = [pc |-> "idle", hours |-> {}]
  /\ UNCHANGED <<change, marked, settled, builtMark, flying, tables, recorded, ledger, last, worker>>

---------------------------------------------------------------------------
(* What a read takes: each hour's newest recorded version.                 *)

Newest(h) == Highest(recorded[h])
Served(t, h) == {b \in tables[t][h] : b.built = Newest(h)}
Kept(t) == IF t = "station_vessels" THEN VesselHours ELSE Hours

\* The change of receptions the figures of an hour reflect.
Reflects(t, h) == Highest({b.at : b \in Served(t, h)})

---------------------------------------------------------------------------
(* Binning. *)

DayAt(r) == Max(r.days)
Holds(w, d) == worker[w].pc \notin {"idle", "day"} /\ DayAt(worker[w]) = d

\* Mutant: a day is binned by two at once.
Unlocked(w, d) == TRUE

\* lockDay: one binning of a day at a time.
Free(w, d) == \A u \in Workers \ {w} : ~Holds(u, d)

\* A run of consecutive hours, the earliest.
FirstRun(S) == {h \in S : \A k \in Min(S)..h : k \in S}

\* The hours marked since their last rebuild, with the markers to take in.
Due == {h \in Hours : settled[h] > builtMark[h]}

\* Mutant: days before yesterday are left out.
RecentOnly(S) == S \intersect Recent

\* The days a query of the job hands out: today's and yesterday's to itself,
\* the others to the older days' worker, if it is not busy.
Handed(S) == IF worker["older"].pc = "idle" THEN S ELSE S \intersect Recent

Assigned(w, D) ==
  IF D = {} THEN worker[w]
  ELSE [Idle EXCEPT !.pc = "day", !.days = D,
                    !.marks = [h \in Hours |-> IF h \in Due /\ DayOf[h] \in D THEN settled[h] ELSE 0]]

Query ==
  LET D == Handed({DayOf[h] : h \in Due}) IN
  /\ worker["job"].pc = "idle" /\ D # {}
  /\ worker' = [worker EXCEPT !["job"] = Assigned("job", D \intersect Recent),
                              !["older"] = Assigned("older", D \ Recent)]
  /\ UNCHANGED <<change, marked, settled, builtMark, flying, tables, recorded, ledger, last, purge, unmarked, spent>>

\* A pass of the backfill over the days its ledger has not, newest first.
Backfill ==
  /\ worker["backfill"].pc = "idle" /\ Days \ ledger # {}
  /\ worker' = [worker EXCEPT !["backfill"] = [Idle EXCEPT !.pc = "day", !.days = Days \ ledger]]
  /\ UNCHANGED <<change, marked, settled, builtMark, flying, tables, recorded, ledger, last, purge, unmarked, spent>>

StartDay(w) ==
  LET r == worker[w] IN
  /\ r.pc = "day" /\ Free(w, DayAt(r))
  /\ worker' = [worker EXCEPT ![w].pc = "bin",
                  ![w].left = {h \in HoursOf(DayAt(r)) : w = "backfill" \/ r.marks[h] > 0}]
  /\ UNCHANGED <<change, marked, settled, builtMark, flying, tables, recorded, ledger, last, purge, unmarked, spent>>

\* The least version seriesVersion can give: later than the last it gave and
\* than the newest the hours hold, whatever the clock says.
VersionAfter(S) ==
  1 + Max({last} \union (UNION {recorded[h] : h \in S})
                 \union {b.built : b \in UNION {tables[t][h] : t \in Tables, h \in S}})

StartRun(w) ==
  LET r == worker[w]
      run == IF w = "backfill" THEN r.left ELSE FirstRun(r.left)
  IN  /\ r.pc = "bin"
      /\ last' = VersionAfter(run)
      /\ worker' = [worker EXCEPT ![w].pc = "station_hours", ![w].run = run, ![w].built = last']
      /\ UNCHANGED <<change, marked, settled, builtMark, flying, tables, recorded, ledger, purge, unmarked, spent>>

\* Mutant: the version is recorded once the first table holds it.
EarlyRecord == [station_hours |-> "station_versions", station_versions |-> "station_vessels",
                station_vessels |-> "drop_hours", drop_hours |-> "drop_vessels",
                drop_vessels |-> "drop_versions", drop_versions |-> "finish"]

\* The statements of a binning, in their order.
After == [station_hours |-> "station_vessels", station_vessels |-> "station_versions",
          station_versions |-> "drop_hours", drop_hours |-> "drop_vessels",
          drop_vessels |-> "drop_versions", drop_versions |-> "finish"]

\* Rows of a table, read from receptions as they are now.
Binned(t, r, part) ==
  [tables EXCEPT ![t] = [h \in Hours |->
     IF h \in part
     THEN @[h] \union {[built |-> r.built, at |-> change[h], copy |-> Cardinality({b \in @[h] : b.built = r.built})]}
     ELSE @[h]]]

WithoutOlder(t, r, part) ==
  [tables EXCEPT ![t] = [h \in Hours |-> IF h \in part THEN {b \in @[h] : b.built >= r.built} ELSE @[h]]]

\* The statement a binning is at, done for part of its hours: binHours, then
\* recordBuilt or the backfill's ledger.
Statement(w, part) ==
  LET r == worker[w] IN
  \/ /\ r.pc = "station_hours" /\ tables' = Binned("station_hours", r, part)
     /\ UNCHANGED <<recorded, builtMark, ledger>>
  \/ /\ r.pc = "station_vessels"  \* none for hours past what it keeps
     /\ tables' = Binned("station_vessels", r, IF Max(r.run) \in VesselHours THEN part ELSE {})
     /\ UNCHANGED <<recorded, builtMark, ledger>>
  \/ /\ r.pc = "station_versions"
     /\ recorded' = [h \in Hours |-> recorded[h] \union (IF h \in part THEN {r.built} ELSE {})]
     /\ UNCHANGED <<tables, builtMark, ledger>>
  \/ /\ r.pc = "drop_hours" /\ tables' = WithoutOlder("station_hours", r, part)
     /\ UNCHANGED <<recorded, builtMark, ledger>>
  \/ /\ r.pc = "drop_vessels" /\ tables' = WithoutOlder("station_vessels", r, part)
     /\ UNCHANGED <<recorded, builtMark, ledger>>
  \/ /\ r.pc = "drop_versions"
     /\ recorded' = [h \in Hours |-> {v \in recorded[h] : h \in part => v >= r.built}]
     /\ UNCHANGED <<tables, builtMark, ledger>>
  \/ /\ r.pc = "finish" /\ w # "backfill"
     /\ builtMark' = [h \in Hours |-> IF h \in part THEN Max({builtMark[h], r.marks[h]}) ELSE builtMark[h]]
     /\ UNCHANGED <<tables, recorded, ledger>>
  \/ /\ r.pc = "finish" /\ w = "backfill"
     /\ ledger' = IF part = r.run THEN ledger \union {DayAt(r)} ELSE ledger
     /\ UNCHANGED <<tables, recorded, builtMark>>

\* A worker once it is through with its run: the next run of its day, the
\* next day, or nothing.
RunOver(r) ==
  IF r.left # r.run THEN [r EXCEPT !.pc = "bin", !.left = @ \ r.run, !.run = {}, !.built = 0]
  ELSE IF r.days # {DayAt(r)} THEN [r EXCEPT !.pc = "day", !.days = @ \ {DayAt(r)}, !.left = {}, !.run = {}, !.built = 0]
  ELSE Idle

Bin(w) ==
  LET r == worker[w] IN
  /\ r.pc \in DOMAIN After \union {"finish"}
  /\ Statement(w, r.run)
  /\ worker' = [worker EXCEPT ![w] = IF r.pc = "finish" THEN RunOver(r) ELSE [r EXCEPT !.pc = After[r.pc]]]
  /\ UNCHANGED <<change, marked, settled, flying, last, purge, unmarked, spent>>

\* A statement fails, having reached any part of its hours: the run is left
\* for the job's next query, or the day for the backfill's next pass.
Fail(w) ==
  LET r == worker[w] IN
  /\ r.pc \in DOMAIN After \union {"finish"} /\ Spend("faults", Faults)
  /\ \E part \in SUBSET r.run : Statement(w, part)
  /\ worker' = [worker EXCEPT ![w] = RunOver(r)]
  /\ UNCHANGED <<change, marked, settled, flying, last, purge, unmarked>>

\* The server restarts: its workers and its last version are gone.
Restart ==
  /\ Spend("faults", Faults)
  /\ worker' = [w \in Workers |-> Idle] /\ last' = 0
  /\ UNCHANGED <<change, marked, settled, builtMark, flying, tables, recorded, ledger, purge, unmarked>>

Work(w) == StartDay(w) \/ StartRun(w) \/ Bin(w)

SeriesNext ==
  \/ \E h \in Hours : Insert(h) \/ Age(h)
  \/ \E f \in flying : Land(f)
  \/ DeleteBegin \/ Delete \/ DeleteStops
  \/ Query \/ Backfill
  \/ \E w \in Workers : Work(w) \/ Fail(w)
  \/ Restart

\* The job queries every stationSeriesEvery, the backfill passes until every
\* day is done, and an insert ends within chInsertTimeout.
SeriesFairness ==
  /\ WF_seriesVars(Query) /\ WF_seriesVars(Backfill)
  /\ \A w \in Workers : WF_seriesVars(Work(w))
  /\ \A h \in Hours : WF_seriesVars(Age(h))
  /\ WF_seriesVars(\E f \in flying : Land(f)) /\ WF_seriesVars(Delete)

SeriesSpec == SeriesInit /\ [][SeriesNext]_seriesVars /\ SeriesFairness

---------------------------------------------------------------------------
\* Every variable has its type; a marker is taken in only once it settled.
SeriesTypeOK ==
  /\ change \in [Hours -> Nat] /\ marked \in [Hours -> Nat]
  /\ \A h \in Hours : builtMark[h] \in 0..settled[h] /\ settled[h] \in 0..marked[h]
  /\ flying \subseteq [hour : Hours, marker : Nat]
  /\ \A t \in Tables, h \in Hours : tables[t][h] \subseteq [built : Nat, at : Nat, copy : Nat]
  /\ recorded \in [Hours -> SUBSET Nat] /\ ledger \subseteq Days /\ last \in Nat
  /\ \A w \in Workers :
       /\ worker[w].pc \in {"idle", "day", "bin", "finish"} \union DOMAIN After
       /\ worker[w].run \subseteq worker[w].left /\ worker[w].days \subseteq Days
  /\ unmarked \subseteq Hours

\* "An hour is never read empty or twice while it is rebuilt": the newest
\* recorded version of an hour is in both tables, whole and once (binHours,
\* src/server/stationseries.go:413).
ReadOnce ==
  \A h \in Hours : recorded[h] # {} =>
    \A t \in Tables : h \in Kept(t) => Cardinality(Served(t, h)) = 1

\* Whatever changed in receptions since an hour's figures were binned is
\* still owed a rebuild: a marker newer than the last one taken in, or a
\* delete that has yet to mark what it deleted (rebuildStationSeries).
EveryChangeIsOwed ==
  \A h \in Hours, t \in Tables :
    (recorded[h] # {} /\ h \in Kept(t) /\ Reflects(t, h) # change[h]) =>
      \/ marked[h] > builtMark[h]
      \/ purge.pc = "mark" /\ h \in purge.hours
      \/ h \in unmarked

\* A rebuild never serves an older reading of receptions than the one served
\* before it, in an hour the table keeps (seriesVersion, lockDay).
ReadsOnlyAdvance ==
  [][\A h \in Hours, t \in Tables : h \in Kept(t) => Reflects(t, h)' >= Reflects(t, h)]_seriesVars

\* Once receptions rest, every hour comes to be served as they are, but for
\* hours a stopped delete left unmarked (rebuildStationSeries,
\* backfillStationSeries).
SeriesCatchesUp ==
  <>[](\A h \in Hours \ unmarked : change[h] > 0 =>
         \A t \in Tables : h \in Kept(t) => Served(t, h) # {} /\ Reflects(t, h) = change[h])
=============================================================================
