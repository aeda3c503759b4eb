---------------------------- MODULE CoverageTiles ----------------------------
(* The coverage map: the network's cells, loaded and published whole, a      *)
(* station's, loaded when it is first asked for and kept until the next      *)
(* network load, and the tiles built from either, kept by the load they      *)
(* were built for (coverageMap in src/server/coveragemap.go, tileCache in    *)
(* src/server/tiles.go). What fills station_coverage is HistoryLoads'.       *)
EXTENDS Integers, FiniteSets, FiniteSetsExt

CONSTANTS
  Heards,      \* stations that coverage is asked of
  CellsMax,    \* bound: cells a station has in the window
  Share,       \* stationCoverageShare
  Visitors,    \* requests for tiles
  Edits,       \* bound: times the window's cells change
  NetLoads     \* bound: network loads

ASSUME CoverageAssumption ==
  /\ {CellsMax, Share, Edits, NetLoads} \subseteq Nat
  /\ IsFiniteSet(Heards) /\ IsFiniteSet(Visitors)

VARIABLES
  cells,     \* station_coverage's window: station -> how many cells
  edits,     \* how often it has changed, to tell how old a read is
  netLoad,   \* coverageMap.load under way
  net,       \* coverageMap.d
  kept,      \* coverageMap.stations: station -> [net, size, read]
  tiles,     \* tileCache: <<station, load>> -> when its cells were read
  visitor    \* per request: where it is

coverageVars == <<cells, edits, netLoad, net, kept, tiles, visitor>>

NoNet == [loaded |-> 0, read |-> 0, size |-> 0, listed |-> {}]
Away == [pc |-> "away", of |-> "", net |-> NoNet, d |-> NoNet]

CoverageInit ==
  /\ cells \in [Heards -> 0..CellsMax] /\ edits = 0
  /\ netLoad = [pc |-> "idle", d |-> NoNet] /\ net = NoNet
  /\ kept = [s \in {} |-> NoNet] /\ tiles = [k \in {} |-> 0]
  /\ visitor = [v \in Visitors |-> Away]

---------------------------------------------------------------------------
(* ClickHouse: a day ends, its receptions are binned, or a rebuild deletes   *)
(* a day and has not yet binned it.                                          *)

Rebin(s) ==
  /\ edits < Edits /\ edits' = edits + 1
  /\ \E n \in 0..CellsMax \ {cells[s]} : cells' = [cells EXCEPT ![s] = n]
  /\ UNCHANGED <<netLoad, net, kept, tiles, visitor>>

Sizes(f) == FoldSet(LAMBDA s, sum : sum + f[s], 0, DOMAIN f)

---------------------------------------------------------------------------
(* The network's load, hourly. *)

\* A window without a day of coverage leaves the map as it was.
ReadCells ==
  /\ netLoad.pc = "idle" /\ net.loaded < NetLoads
  /\ Sizes(cells) > 0
  /\ netLoad' = [pc |-> "stations",
                 d |-> [NoNet EXCEPT !.loaded = net.loaded + 1, !.read = edits, !.size = Sizes(cells)]]
  /\ UNCHANGED <<cells, edits, net, kept, tiles, visitor>>

\* The stations are a query of their own: one heard since may be listed.
ReadStations ==
  /\ netLoad.pc = "stations"
  /\ netLoad' = [pc |-> "publish", d |-> [netLoad.d EXCEPT !.listed = {s \in Heards : cells[s] > 0}]]
  /\ UNCHANGED <<cells, edits, net, kept, tiles, visitor>>

LoadFails ==
  /\ netLoad.pc = "stations"
  /\ netLoad' = [pc |-> "idle", d |-> NoNet]
  /\ UNCHANGED <<cells, edits, net, kept, tiles, visitor>>

PublishNet ==
  /\ netLoad.pc = "publish"
  /\ net' = netLoad.d /\ netLoad' = [pc |-> "clear", d |-> NoNet]
  /\ UNCHANGED <<cells, edits, kept, tiles, visitor>>

ClearStations ==
  /\ netLoad.pc = "clear"
  /\ netLoad' = [netLoad EXCEPT !.pc = "idle"]
  /\ kept' = [s \in {} |-> NoNet]
  /\ UNCHANGED <<cells, edits, net, tiles, visitor>>

---------------------------------------------------------------------------
(* A request, coverageFor and stationData. *)

Moves(v, pc) == visitor' = [visitor EXCEPT ![v].pc = pc]
Sees(v, d) == visitor' = [visitor EXCEPT ![v].pc = "tile", ![v].d = d]
Answered(v) == visitor' = [visitor EXCEPT ![v] = Away]

\* Unavailable until the first load. A station the network does not list is not
\* queried for. A tile of the network's needs no load of its own, and is left out.
Ask(v) ==
  /\ visitor[v].pc = "away" /\ net # NoNet
  /\ \E s \in net.listed :
       visitor' = [visitor EXCEPT ![v] = [Away EXCEPT !.pc = "asked", !.of = s, !.net = net]]
  /\ UNCHANGED <<cells, edits, netLoad, net, kept, tiles>>

\* The closure cached: a station's cells of the load the request was asked under.
\* It is looked for before c.loading is waited for, and again when it is taken:
\* the request this one waited behind may have loaded the station.
Cached(v) == visitor[v].of \in DOMAIN kept /\ kept[visitor[v].of].loaded = visitor[v].net.loaded

FindKept(v) ==
  /\ visitor[v].pc = "asked" /\ Cached(v)
  /\ Sees(v, kept[visitor[v].of])
  /\ UNCHANGED <<cells, edits, netLoad, net, kept, tiles>>

Busy == \E v \in Visitors : visitor[v].pc \in {"read", "keep"}

Admit(v) ==
  /\ visitor[v].pc = "asked" /\ ~Cached(v) /\ ~Busy
  /\ Moves(v, "read")
  /\ UNCHANGED <<cells, edits, netLoad, net, kept, tiles>>

\* The request is gone, or the query failed.
GiveUp(v) ==
  /\ visitor[v].pc \in {"asked", "read"}
  /\ Answered(v)
  /\ UNCHANGED <<cells, edits, netLoad, net, kept, tiles>>

\* stationCoverageCells, over the window of the load the request was asked under.
ReadStation(v) ==
  LET q == visitor[v] IN
  /\ q.pc = "read"
  /\ visitor' = [visitor EXCEPT ![v].pc = "keep",
       ![v].d = [NoNet EXCEPT !.loaded = q.net.loaded, !.read = edits, !.size = cells[q.of]]]
  /\ UNCHANGED <<cells, edits, netLoad, net, kept, tiles>>

\* Mutant: kept whatever the network has loaded since.
AnyLoad(v) == TRUE

\* Kept only for the network load it was asked under.
StillTheLoad(v) == net = visitor[v].net

Limit == Share * Max({net.size, 1})
SizeOf(f) == FoldSet(LAMBDA s, sum : sum + f[s].size, 0, DOMAIN f)

\* Others go, in an order of the map's own, until d fits or is alone. Its own
\* earlier cells, were there any, count beside it.
Rests(d) ==
  {rest \in SUBSET DOMAIN kept :
     /\ rest = {} \/ d.size + SizeOf([s \in rest |-> kept[s]]) <= Limit
     /\ \A s \in DOMAIN kept \ rest :
          \E more \in SUBSET DOMAIN kept :
            rest \union {s} \subseteq more /\ d.size + SizeOf([t \in more |-> kept[t]]) > Limit}

\* Empty, as while a day is rebuilt, it is not kept and not found.
Keep(v) ==
  LET q == visitor[v] IN
  /\ q.pc = "keep"
  /\ IF q.d.size > 0 /\ StillTheLoad(v)
     THEN \E rest \in Rests(q.d) :
            kept' = [s \in rest \union {q.of} |-> IF s = q.of THEN q.d ELSE kept[s]]
     ELSE UNCHANGED kept
  /\ IF q.d.size = 0 THEN Answered(v) ELSE Moves(v, "tile")
  /\ UNCHANGED <<cells, edits, netLoad, net, tiles>>

---------------------------------------------------------------------------
(* The tiles. *)

\* Mutant: by the station alone, whose window has the same dates all day.
TheStation(v) == <<visitor[v].of, 0>>

\* serveCoverageTile's key, the load in it.
Key(v) == <<visitor[v].of, visitor[v].d.loaded>>

\* tileCache.get: shared once built, and built again past its ttl, or past
\* tileCacheMax, where all of a cache goes.
Draw(v) ==
  /\ visitor[v].pc = "tile"
  /\ \/ Key(v) \in DOMAIN tiles /\ UNCHANGED tiles
     \/ tiles' = [k \in DOMAIN tiles \union {Key(v)} |-> IF k = Key(v) THEN visitor[v].d.read ELSE tiles[k]]
  /\ Answered(v)
  /\ UNCHANGED <<cells, edits, netLoad, net, kept>>

CoverageNext ==
  \/ \E s \in Heards : Rebin(s)
  \/ ReadCells \/ ReadStations \/ LoadFails \/ PublishNet \/ ClearStations
  \/ \E v \in Visitors : \/ Ask(v) \/ FindKept(v) \/ Admit(v) \/ GiveUp(v) \/ ReadStation(v)
                         \/ Keep(v) \/ Draw(v)

CoverageSpec == CoverageInit /\ [][CoverageNext]_coverageVars

---------------------------------------------------------------------------
(* Properties. *)

\* Once a network load has cleared what was kept before it, no station is kept
\* for another load, however long before it the read began; and what is kept is
\* within the bound, or one station alone.
KeptForTheLoad ==
  netLoad.pc # "clear" =>
    /\ \A s \in DOMAIN kept : kept[s].loaded = net.loaded
    /\ SizeOf(kept) <= Limit \/ Cardinality(DOMAIN kept) = 1

\* No tile is older than the network load it was asked under, whoever built it,
\* and no station is kept past the load it was read for.
CoverageFollowsTheLoad ==
  [][/\ KeptForTheLoad'
     /\ \A v \in Visitors :
          visitor[v].pc = "tile" /\ visitor'[v].pc = "away" => tiles'[Key(v)] >= visitor[v].net.read]_coverageVars
=============================================================================
