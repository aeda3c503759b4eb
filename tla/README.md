# A TLA+ model of aiscast

aiscast (`src/`) takes AIS receptions from many sources, archives them, folds
them into a cache and a permanent record of vessels, writes each one to
ClickHouse and streams the result to subscribers.  The server is one Go process
(`src/server`).  This directory models the parts of it where interleavings,
failures and restarts decide whether it is right.

## The system

| component | state | operations | what makes it hard |
|---|---|---|---|
| Admission and fold (`pipeline.go`) | `intake`, `order`, `closing`, `seen`, `bad`, `folding` | `admit`/`release`, `Ingest`, `emit`, `settleFold` | sources run concurrently; window and verdicts are pruned by stamps that one clock ahead can move; old times are trusted from some sources |
| Raw and access archives (`archive.go`, `s3.go`) | queue, open hour files, `holds`, put locks, the bucket | `write`, `offer`, `handle`, `rotate`, `close`, `sweep`, `shutdown` | uploads of minutes beside the writer and the sweep; crash and restart inside an hour; shutdown with producers past admission |
| Vessel cache (`vessels.go`) | `vessels`, `nextSweep` | `updateVessel`, `sweepLocked`, `newestState` | state dropped and folded anew; late reports |
| Vessel record (`store.go`, `mirror.go`, `import.go`, `imo.go`) | dirty and flushing sets, the SQLite rows, the mirror's ships | `flushStore`, `upsert`, `refresh`, `file`, `importRows`, `resolveIMOs`, `closeStore`, `attachStore` | three writers of one row; reads that combine cache and mirror in two steps; transactions and refreshes that fail separately |
| Reception writer (`clickhouse.go`, `tracks.go`) | `chQueue`, `failed`, `token`, `refused`, counters | `noteReception`, `flushClickHouse`, `drainClickHouse` | lost answers, late commits, refusals, overflow, two flushers at shutdown |
| Fan-out and streams (`pipeline.go`, `stream.go`, `aishub.go`) | `subs`, queues, `overflow`, subscription, replay, paced backlog | `broadcast`, `serveV0`, `serveV1`, `serveV1SSE`, `deliverPaced`, `snapshotEvents` | a client that subscribes while events flow; slow clients; delivery later than the fold |
| Station series (`stationseries.go`) | `station_dirty`, `station_built`, `station_versions`, versions of binned hours in two tables | `markHours`, `rebuildStationSeries`, `binHours`, `backfillStationSeries` | rebuilt while read; stops between any two statements; deletes of receptions by commands beside the server |
| Stream slots, claims, tiers (`tiers.go`, `auth.go`, `stream.go`) | connection counters per token and address, the gauge of streams, `feeding` | `acquireStreamSlots`, `register`, `effective` | a reader re-keys a slot while its handler exits |
| History loader, replay, conversion (`history.go`, `replay*.go`, `convert.go`, `coveragemap.go`) | `history_loads`, staging tables, `positions_1m`, `station_coverage`, `receptions_converted` | `loadHistoryFile`, `replayDay`, `coverageBackfill`, `convertDay`, `cleanup` | days swapped under readers and other writers; every command may stop and be run again |
| Stations and names (`names.go`, `auth.go`) | `stationNames.m`, unsaved ids, the stations table | `mintPersonal`, `applyNames`, `write`, `flush`, `refreshOwn` | two writers of a row; a crash between a check and its token |
| Own vessels (`stations.go`, `tracks.go`, `clickhouse.go`) | candidates, `station_own` | `noteOwn`, `restoreOwn`, `decideOwn` | evidence from before a restart comes back late |
| Usage (`stats.go`, `stations.go`, `main.go`) | rings of events by hour, `restored`, the usage file | `add`, `sum`, `get`, `rings`, `saveUsage` | a station may not be heard between two restarts |
| Statics history (`statics.go`, `aishub.go`) | `chStatics`, `aishubStaticAt`, the statics table | `noteStaticPacket`, `flushStatics`, `seedStatics`, `pruneAishubStatics` | failed inserts that may have been kept; a bound; TIMEs that repeat |
| Registers (`uscg.go`, `fcc.go`, `wikidata.go`, `tc.go`, `amsa.go`, `fiskeridir.go`, `ised.go`) | a stored table and a stamp each, vessels asked about | sync loops, `syncUSCGIfDue`, `backfillUSCG`, `backfillISED` | one depends on another; bad records, services down, restarts |
| Reads (`vessels.go`, `tiles.go`, `mcp.go`, `imo.go`) | none of their own | areas, tiles, near, names, vessel, MCP tools | cache and record read at two moments |
| Coverage map (`coveragemap.go`, `tiles.go`) | the network's cells, stations kept, tiles | `load`, `station`, `tile` | a read of one load kept after the next |
| Adapters (`aisstream.go`, `barentswatch.go`, `digitraffic.go`, `mqtt.go`, `ingest.go`, `source.go`) | connections, packet ids held | connect, read, `ingestCatcher`, `serveMQTT`, retry; `dispatch` again in a replay | they run at once and take their times before they wait; packets sent again; a replay must be what live was |
| Web client, Signal K plugin | view state; a reconnect timer | | |

A reception enters by `admit`, which takes the intake read lock and `order`, so
receptions are processed one at a time in receive-time order.  `arch.write`
queues it for the archive; `emit` drops copies by payload, folds the rest into
the cache (`updateVessel`, which also queues the copy for ClickHouse and marks
the vessel dirty), and broadcasts it.  A ticker flushes dirty vessels to the
record and the queue to ClickHouse.  At shutdown `main` closes the intake,
drains the archives, saves the dedupe window, then drains record and ClickHouse.

What makes each right: a clean stop loses nothing and a crash only what was not
on disk; the bucket's objects only grow; a copy has one row; what was folded
reaches its row; readers never see a vessel move back or disappear between cache
and mirror; a subscriber misses no vessel without being told; a message is one
transmission, and its copies are served or not as one; a day's figures come to
be what its receptions are, and are never read empty or twice; a key that signed
never mints unsigned again; what a station earned survives a restart.

## The modules

| module | models |
|---|---|
| `ArchivePromise` | what an archive promises: taken, durable, published |
| `Archive` | one stream's queue, hour files, uploads, sweep, stop, crash, restart, and the raw archive's admission |
| `ReceptionWriter` | the ClickHouse queue, the batch and its token, both flushers, the server's table |
| `VesselRecord` | cache, dirty sets, rows, mirror, import, IMO lookup, stop, crash, restart |
| `Delivery` | admission order, fold and broadcast, paced snapshots, client queues, subscription, snapshot replay |
| `Dedupe` | event times, the dedupe window, the verdict and the copies it is kept for, the prune, the window's file |
| `StationSeries` | marked hours binned again as new versions in two tables, by the job, the worker of older days and the backfill, beside inserts and deletes |
| `HistoryLoads` | archive files loaded into days of receptions, the raw archive replayed over them, the rollups rebuilt, the first binning of coverage |
| `Conversion` | the first layout of receptions rewritten a day at a time, a rolled-back server, the cleanup |
| `StreamSlots` | slots per token and address and the gauge, handshake to exit, the upgrade of an open socket |
| `StationNames` | mints, the signature lock, names, and the two writers of the stations table |
| `UsageRings` | the rings of events, by stamps late and ahead of the clock, and the usage file across stops and crashes |
| `OwnVessels` | own-ship messages, `station_own`, the decision each minute, restarts |
| `StaticStates` | static states gathered, sent, put back and seeded |
| `RawReplay` | adapters, admission under the ordering lock, records and marks, one reader per source, the merge and its dispatch |
| `MqttSession` | a publisher over MQTT, QoS 1 and 2, packets sent again, lines turned away, sessions that end |
| `Registers` | syncs of registers stored whole, the PSIX listing, rounds that ask about a vessel at a time |
| `VesselReads` | requests of nine kinds answered from the cache and the record while boats report, are written and are swept |
| `CoverageTiles` | network loads, stations kept for a load, tiles |
| `ArchiveProofs`, `ReceptionWriterProofs`, `VesselRecordProofs`, `DeliveryProofs`, `MqttSessionProofs` | the theorems of the module of that name |
| `StationsProofs` | those of `StationNames`, `UsageRings` and `StreamSlots` |
| `LoadsProofs` | those of `Conversion`, `HistoryLoads`, `CoverageTiles` and `RawReplay` |
| `PartsProofs` | those of `Dedupe`, `StationSeries`, `OwnVessels`, `VesselReads` and `StaticStates` |
| `MCParts` | the fourteen modules above joined for one run |
| `MC...` | the other instances TLC checks |

State and actions keep the source's names or say in a comment which variable
they stand for; `PROJECT.json` maps every definition to its lines.  Each module
abstracts the data to what its properties compare: in `Archive` an hour file is
a sequence of members' parts and reception ids; in `ReceptionWriter` a copy is
its number; in `VesselRecord` a vessel is the time of its position, when it was
seen, a name, a kind and an IMO number; in `Delivery` an event is a ship and a
time, in units of the second by which `staleFor` compares.  In `StationSeries`
the receptions of an hour are the number of changes made to them; in
`HistoryLoads` a day is a set of parts, each a batch of a file's edition or the
network's copies as one replay left them; in `Registers` a register is the rows
it stores.  In `RawReplay` a body is its shape, which is all that dispatch reads of
it, and the replay is of what the adapters are given: what it then writes is in
`HistoryLoads`.

Actions follow the locks and the blocking calls.  What runs under one lock, such
as a fold under `vmu` or a broadcast under `smu`, is one action; what spans an
I/O call is cut there.  A flush is `FlushBegin` (copies taken under the locks),
`FlushCommit` or `FlushFail` (the transaction) and `FlushEnd`; an insert is
`FlushBegin`, what the server does of its own accord (`Apply`, `LateApply`), and
`Answer`, `Written` or `Refuse`; a sweep visit is the requests and stats it
makes, in their order; a binning, a load or a replay is one action per statement,
and any of them may be the last.

How the modules meet.  `Archive` starts from `admit`, `Dedupe` from what `admit`
lets through; a copy `Dedupe` puts in `written` is one `ReceptionWriter` notes.
`VesselRecord` folds and writes, `VesselReads` takes its cache and record at the
grain of a request, with a sweep as free as the code's, and `Delivery` takes the fold as one step.  `HistoryLoads`
and `Conversion` change receptions; of that `StationSeries` sees inserts, deletes
and marks (`Insert`, `Land`, `Delete`).  `CoverageTiles` reads what
`HistoryLoads` bins.  Beyond that they share no state, so they are checked
apart.

## The runs

| run | instance | shows |
|---|---|---|
| `archive_access` | two hours, three receptions up to two ticks late, one stop or crash | the files' owners are counted and no file is deleted under one (`OwnersAreSafe`), hours close when due, objects only grow |
| `archive_raw` | blocking admission, two receptions, one stop or crash, fairness | only a crash loses a reception; `Archive` implements `ArchivePromise` (`KeepsPromise`); what is on disk and closed is uploaded |
| `archive_decode` | one hour, one crash | finding: an hour reopened after a crash appends a gzip member to one with no footer |
| `writer` | five copies, a queue of two that gives up one, the second copy always refused, fairness | one row per copy, all copies accounted for, the queue is the latest copies, a drain without error leaves nothing, a batch counted written is in the table, every copy leaves the queue |
| `writer_outage` | two copies | finding: a refused batch's clock runs on through an outage |
| `record` | one station that is a ship, then a buoy, with an IMO of each; two times; an import; shutdown, crash | folded or marked, nothing unwritten after `closeStore`, the mirror follows the rows, lookups miss none, answers and rows never move back |
| `record_live` | two ships, fairness | a cached position reaches its row though transactions fail |
| `record_sweep` | one ship, three times | finding: a vessel is swept before the flush that would write it |
| `delivery` | two ships, one client that uses a socket or SSE, a queue of two, fairness | no gap after a snapshot, a client that lost an event is disconnected, a subscribed client catches up |
| `delivery_paced` | one ship | finding: a paced AISHub report goes out after a live one that superseded it |
| `parts` | fourteen components, each by itself | the table below |
| `licences` | one licence, two records | finding: a listing read with the old licences is not read again |

The run `parts` starts each behaviour in one of its components, which the
variable `part` names; that one takes its own steps and the others stand still.
So its states are the sum of theirs, and its properties are checked together.

| part | instance | shows |
|---|---|---|
| series | two hours of consecutive days, one within `station_vessels`, one with receptions from before the view; two inserts, a delete, two faults, two of these at most | `ReadOnce`: a recorded hour is served whole and once; `EveryChangeIsOwed`: a change not yet binned is still to be rebuilt; `ReadsOnlyAdvance`: figures never go back, in hours the table keeps; `SeriesCatchesUpHere`: in the end they are those of the receptions |
| loads | two consecutive days; a replay, and one new edition, failure or stop | `LoadsSettle`: but for days a load and a replay had in hand together or a stopped replay left, a complete file is in receptions whole and once, as listed and matched against the network's copies as they are, and the rollups hold what receptions hold |
| conversion | two days, two transmissions each, a rollback, two stops | `ServedOnce`: every transmission has a row; a converted day serves each once |
| dedupe | two payloads, three arrivals, two processes, a window of two, a skew of one | `CopiesCarryVerdict`: no copy of a transmission judged bad is served; `AcceptedOnce`: a message is accepted again within the window only when it lagged by the prune age |
| slots | three streams of one address, one station | `SlotsMatchStreams`: counters and gauge are the streams that are open |
| names | one key, two mints, the pass, a crash | `SignedStaysSigned`: after a token was signed for, no mint passes unsigned or with an old timestamp |
| registers | licences and the listing, an outgrown service, vessels one of which is always unreadable; one query, request or store that fails, a publication, a restart | `DueIsServedHere`: whatever is due is in the end stored or asked about |
| reads | one boat, three moments, two reports, a cache that forgets after the moment and an area that looks back one | `AnswersAreNewest`: a boat neither heard nor swept between the reads of a request, written or not, is answered exactly as the cache and one row of it have it; one asked for itself is never lost; no answer is older than the first reading but for the sweep's row |
| coverage | two stations and two visitors, two loads, one change of the cells, and for each station as many cells before as its window may hold or none, so that a station is put out for another | `CoverageFollowsTheLoad`: no tile is older than the load it was asked under, and no station kept is of another load or past the bound |
| rings | one station, rings of three hours, seven hours, stamps of the next hour, this one, the last and one a ring ago, two ends | `RingsCountTheirHours`: over any span of hours a station's events are those it sent, restored or live, but that the ring's oldest hour gives way to an event of the next |
| own | one station, two vessels, a restart | `OwnWasAlone`: a round that found its candidates back decides on no vessel while another was sent within `ownSettle`, before a restart or since |
| statics | one vessel, two states, two days, a bound of one, a failure | `StatesAreKept`: each state's times are written, on their way, waiting, or dropped past the bound; an AISHub TIME is passed over only for a row that was |
| raw | a station that posts and publishes, a UDP sender, a feed; three receptions, hours of two readings of the clock, a stop | `ReplayIsLive`: a replay gives the adapters what live gave them, each to the same one, in the same order with the same times |
| mqtt | two messages at QoS 2 and one at QoS 1, two ids, two packets sent again, one session lost | `AckedIsTakenOnce`: what was acknowledged was ingested in its session once or turned away once, never both, and no QoS 2 message is offered twice |

Every bound is a constant of its module.  They are the least that let the hard
cases happen: two hours are one open and one due or late; an hour's grace and the
sweep's are set so that a file may be reopened between any two steps of a sweep;
a queue of two overflows behind a failed batch of two; two flushers hold batches
at once; two times and two names are an old and a new state; a queue of two holds
an event of the replayed ship and one of another.  In `delivery` the first ship
reports at two times and the second at one: events of different ships meet only
in the client's queue and the order of its replay.  One client is enough, as
clients share nothing but the broadcast, which waits for none.

Deadlock is checked but where the system may stop: `writer`, `writer_outage` end
with the process, `archive_decode` at its bound on time, `parts` and `licences`
at theirs on time, faults and inputs.

The least bounds of the parts are chosen alike.  Two hours of consecutive days
put two workers on either side of the lock of a day; a ring of three hours turns
twice in seven; `PruneEvery` is two so that a prune happens; `MaxStatics` is one
so that what is put back meets the bound.  In `parts` a round has at most two
vessels, which neither its `Budget` of three nor three failures in a row cut:
`Registers` was checked alone with three Canadian vessels, one unreadable vessel
in each loop and both limits two (315 thousand states).  `loads` was also
checked alone with both a new edition and a stop (898 thousand states).  Where a budget
is joint (`Events`, `Upsets`), every kind of fault still meets every step.

### Fairness

* Archive: the goroutines are scheduled, the sweep's loop goes on, a store asked
  again and again for a key at some point serves it, and systemd restarts a
  process that ended.
* Writer: the ticker flushes, an insert ends (it has a timeout), time passes, and
  an insert tried again and again is at some point answered, written or refused.
* Record: the ticker flushes; a transaction tried again and again at some point
  commits; a refresh ends.
* Delivery: a reception under way ends, `deliverPaced`'s timer fires, a
  connection's goroutines run, as every write has a deadline.  Over SSE live
  events go before the replay, so `CatchesUp` supposes, for SSE, that the client
  empties its queue again and again; a client that never does is sent live
  events and never the rest of its snapshot.
* Station series: the job queries every few minutes, the backfill passes until
  every day is done, workers run, markers age, an insert ends within its timeout
  (`SeriesFairness`).
* Registers: the sync loops tick, a request ends, a round goes on
  (`RegistersFairness`).  In `MCParts` the same holds of the part that runs
  (`PartsFairness`); the others promise no progress.

Nothing is assumed of receptions, of what clients send, or of when the process
stops or dies.

## What is proved

Every safety property of a passing run is a theorem of its module's
specification, for every value of the constants its assumptions admit.  What a
proof supposes is the named assumption of the module, and each says what the code
or its configuration fixes:

* `GraceCoversReopening` (`Archive`): the sweep's grace is no shorter than an
  hour and the lag of a reception; without it a file may be reopened under its
  delete.
* `RecordAssumption`: times from 1, and no name or number is the absent one;
  `DeliveryAssumption`: finitely many ships, and a queue that holds something.
* `SeriesAssumption`: `VesselHours`, what `station_vessels` keeps, are the hours
  since a moment.  `DedupeAssumption`: `"none"`, which stands for no fold, is no
  payload.  `RingsAssumption`: finitely many stations, a ring of at least an hour,
  and a clock past one turn of it, as hours are counted from 1970.
* `RawAssumption`: the names of sources tell sockets, feeds and stations apart.
* `DedupeAssumption`: the prune age is no shorter than the window; `OwnAssumption`:
  a sighting is forgotten later than it settles; `ReadsAssumption`: a vessel leaves
  the cache before it is too old for an area.
* The rest say that bounds are naturals and sets of days finite.

A property is seldom inductive as it stands.  For each module, the invariant that
is, and what it adds:

**Archive** (`ArchiveInv`, which `ArchiveHolds` proves).  `OwnersAreSafe`,
`NoOverdueHour`, `ObjectsOnlyGrow` and `OnlyACrashLoses` need each other.  That
objects only grow needs the prefixes a put reads (`FilesInv`) and that nobody
reopens the hour of a file the sweep took for old, which is a matter of clocks:
files date from their hour, an object without a file is of an hour that nothing
reopens (`ClockInv`, `SweepInv`).  That only a crash loses needs that a reception
is in one place of the memory at a time (`PlacesInv`) and that a stop goes in
order, intake, offers, queue, open hours (`ProcessInv`).  `ArchiveKeepsPromise`
is the refinement: from `ArchiveInv`, each action of `Archive` is an accept, a
persist, a publication or a crash of `ArchivePromise`, or a stutter.

**Reception writer.**  `TypeInv` adds to the types that the drain flushes only
while it has a flush to make and an insert runs only on a batch.  `LedgerInv`,
`QueueHoldsLatest /\ Accounted`, is inductive on top of it.  `AtMostOneRow` is
not: `SafeInv` adds that only copies that left the queue were ever sent, under
tokens given so far (`SentInv`), that a token names one batch and no copy is in
the batches of two (`TokenInv`), and that every copy of a batch the server may
still be sent has one row if its token is in the table and none if not
(`RowInv`).  A late insert is then of a token the server has seen, and skipped,
or of copies with no row.  `DrainInv` follows the two flushes of the drain.

**Vessel record.**  The rules `merge`, `upsertKind` and the import's were each
shown to lose nothing a state had (`RowStep`), which is `RowsGrow`.
`NoFoldIsLost` and `CloseWritesAll` come from `FlushInv`: what a flush holds and
no fold marked since is in its batch as it is in the cache, until the commit, and
in its row after it.  `MirrorHasTheRows` comes from `MirrorInv`: what a writer
read to file is the row, or that row's writer has still to refresh.
`AnswersHold` needs `MirrorLags`, that the mirror is an earlier row and what is
being filed lies between; `LookupsFind` needs `LookupInv`, that a vessel the cache
did not answer for has its IMO number in row, mirror and batches alike.

**Delivery.**  `NothingMissed` says `NoGap` of a client whose snapshot is under
way too: what it has still to replay counts as on its way.

**Station series.**  `SeriesInv` says of each worker how far the version it
writes has come, at each statement (`RunHolds`): that its blocks are whole, that
no version is newer, and that what changed since its rows were read is owed past
the markers it took in as well as past those recorded before.  Days are locked
(`DaysLocked`), or two workers could each hold the newest version.

**Loads.**  `LoadsInv` says for each day what a load and a replay left at each of
their statements: the archive's parts in receptions (`ArchiveHeld`), the network's
copies, which tables hold what receptions hold (`LoadedTables`,
`ReplayedTables`), and what a binning under way has still to bring
(`CoverageFollows`).  The theorem, as the property, leaves out days in `crossed`
or `halfway`, and a replay begins once the first binning is over.  `ConvertInv` says of a day in hand that what was counted is
written once or still to be, and that no way leads back to the first layout once
a table is dropped (`Cleaning`).  `CoverageInv` adds to the property what a
request and a load under way carry with them: cells of the load they are for.

**Raw replay.**  `RawInv` says that live runs in the order of its times
(`LiveInv`), that files and queue do and no time is in two (`FilesInv`), that each
record would go to the adapter live gave it to (`RecordHolds`, from
`ReplayedAsLive`), that nothing is missing (`NothingMissing`), and of a replay
under way that what it gave is what live gave from its floor on, without a gap,
while what it has left is later and all of the rest (`MergeInv`).  The record
`replayReaders` takes next is then the next of live: an earlier one would be at
the head of some reader.

**Stations.**  `LockHolds` follows what was signed on its way (`LockInv`): in
memory once checked, in the rows the request writes, then in the table unless the
write failed, while every row in a writer's hands is as new as the table's and no
newer than memory.  `RingsInv` says of a ring wherever it is, live, restored, in
the file or on its way there, that the slots of the hours it can still be asked
for have their counts, the oldest until an event of the next hour takes its slot,
and that no later hour has any.  `SlotsMatchStreams` is
inductive with the types: sums over streams are shown to change by the stream
that moved.

**Dedupe.**  `VerdictsKept` and `WindowKept`: window and verdicts are pruned by one
cutoff, so a key that is in the one as it was judged is in the other; while the
process is down, the file stands for the window.

**Own vessels.**  `OwnInv`: what a station sent lately is in memory or, until the
candidates are back, in the table (`Remembered`), and a round that found them back
read all of it (`RoundKnows`).

**Reads.**  `ReadsInv`: the record never runs ahead of the cache
(`RecordFollows`); while a request is under way cache and row are no older than
when it first read, the cache of a swept boat apart, and of a boat neither heard
nor swept only the flush moved the row (`RequestHolds`).

**MQTT.**  `MqttInv` follows packets and acknowledgements in their order: an id is
one message's at a time, and after a message's PUBREL no PUBLISH of it comes.
Ingested and turned away are counted apart: an id is held after either.

**Statics.**  `StatesAreKept` is inductive with the types.

Sums and sequences are handled by lemmas stated once: a least element exists
(`LeastNatural`, by well-foundedness), finite sets of naturals have a largest,
removing a term of a sum removes its value, remainders of consecutive hours
differ.

Only model-checked: the liveness properties (`ClosedHoursAreUploaded`,
`QueuedCopiesLeave`, `FoldsReachTheRow`, `SlowIsClosed`, `CatchesUp`,
`SeriesCatchesUpHere`, `DueIsServedHere`), as liveness under fairness is out of
the prover's reach, and the findings' runs, which are counterexamples.

## What the models found

* The sweep drops vessels whose state no flush has written (`record_sweep`).
* An hour file reopened after a crash is not valid gzip (`archive_decode`).
* The refusal clock counts outages (`writer_outage`).
* Paced reports reach subscribers after reports that superseded them
  (`delivery_paced`).
* A licence sync stored while the PSIX listing is in flight never reaches that
  listing (`licences`).

`PROJECT.json` quotes the line of the source each contradicts.

### Seen while modelling

These follow from the code too.  No run refutes a promise by them: the models
grant the outcome as a choice or leave the case out of the property.

* A replay that stops after it deleted a day's receptions and before `markHours`
  leaves their hours unmarked (`stationseries.go:179-183`,
  `replay_clickhouse.go:264-273`): `unmarked` in `StationSeries`.
* A history load and a replay of one day, in two processes, can overwrite each
  other's mark that the day is not whole: `crossed` and `halfway` in
  `HistoryLoads`, whose properties leave out days of the first kind for good and
  those of the second until the replay is run again.
* A clean stop saves the dedupe window and not the verdicts, so a copy that
  comes after the restart is written as if its transmission were plausible.
* An unsigned mint that was checked before a signed one may get its token after
  it; `SignedStaysSigned` is about those checked later.
* `refreshOwn` reads the candidates before it asks whether those of the last
  process are back (`names.go:212-213`), so a restore between the two lets a round
  decide on part of them; `OwnWasAlone` leaves such a round out.
* `stationStat.noteOwn` takes the time of the message that came last, a late one's
  too (`stations.go:43-45`), and evidence from stale or implausible accepted copies
  reaches `station_own` and not the candidates in memory (`pipeline.go:503-518`).
* The ticker's and the shutdown's saves of the usage file share a temporary file
  (`stats.go:157`), so the earlier counts or an unreadable file may be what stays:
  a choice of `Stop`, and `RingsCountTheirHours` counts from the file that was read.
* A TAG or source time is taken up to 30 s ahead (`pipeline.go:336-339`), and an
  event of the next hour opens it in the ring (`stats.go:53-59`), so until then
  `last_7d` lacks its oldest hour: `Remembered` in `UsageRings`.  `last_24h`, which
  the feeder tier asks, is exact.
* A vessel back from the sweep whose mirror refresh failed writes the mirror's kind
  over its row's (`vessels.go:242`), which `MarkedOrWritten` leaves aside; `merge`
  and `upsertKind` differ for a station that renames itself (`store.go:1128`).
* A request reads the vessels twice, and what comes between shows
  (`vessels.go:576-606`).  A named vessel that only the record had and that is
  heard again before the merge is passed over, as are the newly heard and the
  swept of an area or a tile; where the cache is asked again, a vessel swept
  meanwhile is answered from the row as it was read.  `StillAnswers` and
  `AnswersNothingOlder` in `VesselReads` name what is left out.
* A line of a plain body posted to `/v1/receive` that by itself parses as an
  AIS-catcher envelope is a line live and an envelope in a replay, as only
  published lines are marked (`ingest.go:78-81`, `replay.go:118-121`);
  `RawAssumption` leaves it out.
* The files of a source whose licence is edited lie in two directories, and a
  replay reads them in the order of the licences' names, not of their hours
  (`replay.go:133-167`, against the comment at 180).
* An MQTT message past its publisher's allowance, or that comes once the intake is
  closing, is acknowledged like one that was ingested (`mqtt.go:308-323`,
  `pipeline.go:207-211`), and a QoS 2 one sent again is not offered again:
  `turnedAway` in `MqttSession`.
* Copies are kept for a verdict (`pipeline.go:447-454`) that they cannot come
  before: the ordering lock is held from admission to the end of the fold.
* The wait of `runAisstream` doubles with each session and never goes back
  (`aisstream.go:87-95`).
* Three unreadable vessels at the head of a round end it, and keep those behind
  them from being asked about for as long as they stay there
  (`RegistersAssumption`).

## What is not modelled

The configurations without a bucket, a store or ClickHouse; the columns and
fields the properties do not tell apart; filters, rate limits but as a choice in `MqttSession`, admin and unlimited
tokens and anonymous access switched off; static messages in
the stream, which follow the same path as positions with a clock of their own;
the decoder, a library; the assembly of fragments; what registers and archives
hold and how vessels are matched to it; limits, thinning, ranking and rendering
of answers, tracks and their despiking; allowances per source and station; the
backfill's and the replay's budgets of disk and time.  Of the adapters, the
decoding of feeds and the loops that connect again; of MQTT, the packets that
change nothing and QoS 0.  The web client and the Signal K plugin are views and a
publisher of the public API.  IndexNow's rounds are small
and sequential: its budget rests on one row logged per round, whose failure is
only printed.

Time is abstract: the sleep between retries is left to fairness, and clocks go
forward.  The S3, SQLite and ClickHouse servers are modelled from how the code
uses them: a put is atomic, a transaction commits whole or not at all, an insert
whose token the server has seen is skipped, and one ClickHouse statement reads at
one instant.  In `VesselReads` a flush files a vessel's row in one step and every
refresh follows its commit; where it does not is `VesselRecord`'s.

## Plan

Written, in this order: `Archive` (the only copy of the data), `ReceptionWriter`,
`VesselRecord`, `Delivery`; then from `Dedupe` on, in the order of the table; then
the proofs.  What is left to prove is what the components are to each other: that
`VesselRecord`'s answers are those `VesselReads` makes where no refresh fails,
that a copy `Dedupe` puts in `written` and `ReceptionWriter` stores is in the
table once, and abstract specifications of the dedupe (accepted once a
window) and of the loader (a day is what its sources are), each shown to be
implemented.
