----------------------------- MODULE VesselReads -----------------------------
(* The reads of vessels: each takes the cache and the record at moments of  *)
(* its own, while vessels report, are written and are swept, and answers    *)
(* with one state per vessel (serveVessels, serveVesselSearch and           *)
(* serveVessel in src/server/vessels.go, tiles.go, mcp.go, imo.go and       *)
(* mirror.go). The record is read through its mirror, as far as the last    *)
(* flush, which files a vessel's row in one step here: its own steps and    *)
(* failures are VesselRecord's.                                             *)
EXTENDS Integers, FiniteSets, Functions

CONSTANTS
  Boats,      \* MMSIs; every one matches a search's text
  CacheAge,   \* vesselTTL
  AreaAge,    \* areaWindow
  LastClock,  \* bound: the last moment
  Reports     \* bound: reports

ASSUME ReadsAssumption ==
  /\ {CacheAge, AreaAge, LastClock, Reports} \subseteq Nat
  /\ IsFiniteSet(Boats) /\ CacheAge < AreaAge

VARIABLES
  moment,
  cached,   \* Pipeline.vessels: per boat its state, or Unknown
  filed,    \* the record's row as the mirror files it
  reported, \* reports so far
  request,  \* the request under way
  answer    \* boat -> state, the last answer's

readVars == <<moment, cached, filed, reported, request, answer>>

Unknown == [seen |-> -1, at |-> "none", posAt |-> -1, fast |-> FALSE]
Known(v) == v # Unknown
Positioned(v) == v.at # "none"
NoBoats == [b \in {} |-> Unknown]
NoRequest == [kind |-> "none", pc |-> "idle", now |-> 0, first |-> NoBoats, recs |-> NoBoats,
              had |-> NoBoats, rows |-> NoBoats, heard |-> {}, swept |-> {}]

ReadsInit ==
  /\ moment = 0 /\ reported = 0
  /\ cached = [b \in Boats |-> Unknown] /\ filed = cached
  /\ request = NoRequest /\ answer = NoBoats

---------------------------------------------------------------------------
(* The vessels. *)

\* vessel.merge: the record completes what the cache lacks, and wins where newer.
Merged(c, r) ==
  IF ~Known(c) THEN r ELSE IF ~Known(r) THEN c ELSE
  LET fixed == IF Positioned(r) /\ (~Positioned(c) \/ r.posAt > c.posAt)
               THEN [c EXCEPT !.at = r.at, !.posAt = r.posAt, !.fast = r.fast] ELSE c
  IN  IF r.seen > c.seen THEN [fixed EXCEPT !.seen = r.seen] ELSE fixed

\* A position inside or outside the box asked about, or a static report.
Report(b) ==
  /\ reported < Reports /\ reported' = reported + 1
  /\ \/ \E at \in {"in", "out"}, fast \in BOOLEAN :
          cached' = [cached EXCEPT ![b] = [seen |-> moment, at |-> at, posAt |-> moment, fast |-> fast]]
     \/ cached' = [cached EXCEPT ![b].seen = moment]
  /\ request' = IF request.pc = "idle" THEN request ELSE [request EXCEPT !.heard = @ \union {b}]
  /\ UNCHANGED <<moment, filed, answer>>

Searches == {"search", "prefix"}

\* flushRecord and the mirror's refresh.
Write(b) ==
  /\ Known(cached[b])
  /\ filed' = [filed EXCEPT ![b] = Merged(cached[b], filed[b])]
  /\ UNCHANGED <<moment, cached, reported, request, answer>>

\* sweepLocked drops a vessel unseen since the cutoff, written or not.
SweepBoat(b) ==
  /\ Known(cached[b]) /\ cached[b].seen < moment - CacheAge
  /\ cached' = [cached EXCEPT ![b] = Unknown]
  /\ request' = IF request.pc = "idle" THEN request ELSE [request EXCEPT !.swept = @ \union {b}]
  /\ UNCHANGED <<moment, filed, reported, answer>>

Pass == moment < LastClock /\ moment' = moment + 1 /\ UNCHANGED <<cached, filed, reported, request, answer>>

---------------------------------------------------------------------------
(* What a request admits. *)

\* vesselFilter.match's age of a moving vessel, which only an area limits.
StillThere(v, now) == v.fast => now - v.seen <= CacheAge

\* ageRules.match: an area shows a week, a named vessel however old.
Admits(v, now) == now - v.seen <= AreaAge /\ StillThere(v, now)

InBox(v) == v.at = "in"
Shown(v, now) == InBox(v) /\ Admits(v, now)

\* What the cache answers: eachMatch and vesselsIn, or the vessels asked for.
FromCache(kind, now) ==
  {b \in Boats :
     LET v == cached[b] IN
       \/ kind \in {"area", "tile"} /\ Shown(v, now)
       \/ kind = "near" /\ InBox(v)
       \/ kind \in {"named", "centre"} /\ Positioned(v)
       \/ kind \in {"vessel", "get"} /\ Known(v)}

\* mirrorQuery.match. An area leaves the last half hour to the cache.
MirrorFinds(kind, v, now) ==
  \/ kind \in {"area", "tile"} /\ Shown(v, now) /\ v.seen < now - CacheAge
  \/ kind \in {"named", "centre"} /\ Positioned(v)
  \/ kind \in {"vessel", "get"} /\ Known(v)

\* recordQuery.where, for the searches by text: a name's or a prefix's, in a box.
SearchFinds(kind, v) == kind \in Searches /\ InBox(v)

FromRecord(kind, now) == {b \in Boats : MirrorFinds(kind, filed[b], now) \/ SearchFinds(kind, filed[b])}

---------------------------------------------------------------------------
(* The requests. *)

Kinds == {"area", "named", "tile", "near", "centre", "vessel", "get"} \union Searches
Either(f, g) == [b \in DOMAIN f \union DOMAIN g |-> IF b \in DOMAIN f THEN f[b] ELSE g[b]]

\* A request's first reading of the vessels, and what there was of them then.
FirstRead(rq) == [rq EXCEPT !.had = cached, !.rows = filed, !.heard = {}, !.swept = {}]

\* A tile waits for one of tileBuilds slots with its moment taken, and a search
\* begins with the record: the others take the cache's answer first.
Begin(kind) ==
  /\ request.pc = "idle"
  /\ request' = FirstRead([NoRequest EXCEPT
       !.kind = kind, !.now = moment,
       !.pc = IF kind = "tile" \/ kind \in Searches THEN "record" ELSE "cache"])
  /\ answer' = NoBoats
  /\ UNCHANGED <<moment, cached, filed, reported>>

ReadCache ==
  /\ request.pc = "cache"
  /\ request' = FirstRead([request EXCEPT !.pc = "record", !.first = Restrict(cached, FromCache(request.kind, request.now))])
  /\ UNCHANGED <<moment, cached, filed, reported, answer>>

\* recordVessels, tileRecords, store.find, store.get.
ReadRecord ==
  /\ request.pc = "record"
  /\ request' = [request EXCEPT !.pc = "merge", !.recs = Restrict(filed, FromRecord(request.kind, request.now))]
  /\ UNCHANGED <<moment, cached, filed, reported, answer>>

\* newestState, under the cache's lock.
NewestState(b) == Merged(cached[b], request.recs[b])

\* Mutant: every record found is answered with.
AnyRecord(b) == TRUE

\* serveVessels: a record for a boat the cache holds with a position that it did
\* not answer with is outside the request.
RecordCounts(b) == b \in DOMAIN request.first \/ ~Positioned(cached[b])

\* The cache's first answer stands unless the record adds to it.
ListAnswer ==
  LET extra == {b \in DOMAIN request.recs : RecordCounts(b)} IN
  [b \in DOMAIN request.first \union extra |->
     IF b \in extra /\ (b \notin DOMAIN request.first \/ NewestState(b) # cached[b])
     THEN NewestState(b) ELSE request.first[b]]

\* vesselTile: a vessel the cache holds is the cache's to answer.
TileAnswer ==
  Either(Restrict(cached, FromCache("tile", request.now)),
         Restrict(request.recs, {b \in DOMAIN request.recs : ~Known(cached[b])}))

\* find_vessels_near's centre: the record only where the cache has no position.
CentreAnswer == Either(request.first, request.recs)

\* serveVessel completes the copy it took of the cache's.
VesselAnswer ==
  [b \in DOMAIN request.first \union DOMAIN request.recs |->
     IF b \notin DOMAIN request.first THEN request.recs[b]
     ELSE IF b \notin DOMAIN request.recs THEN request.first[b]
     ELSE Merged(request.first[b], request.recs[b])]

\* mcpWithRecord completes what the cache holds by then.
GetAnswer == Either([b \in DOMAIN request.recs |-> NewestState(b)], request.first)

\* serveVesselSearch shows what it found where it is now; mcpSearchByName drops
\* what has moved out of the box since it was written.
PrefixAnswer == [b \in DOMAIN request.recs |-> NewestState(b)]
NameAnswer == Restrict(PrefixAnswer, {b \in DOMAIN request.recs : InBox(NewestState(b))})

Answer ==
  /\ request.pc = "merge"
  /\ answer' = CASE request.kind \in {"area", "named"} -> ListAnswer
                 [] request.kind = "tile" -> TileAnswer
                 [] request.kind = "near" -> request.first
                 [] request.kind = "centre" -> CentreAnswer
                 [] request.kind = "vessel" -> VesselAnswer
                 [] request.kind = "get" -> GetAnswer
                 [] request.kind = "prefix" -> PrefixAnswer
                 [] request.kind = "search" -> NameAnswer
  /\ request' = NoRequest
  /\ UNCHANGED <<moment, cached, filed, reported>>

ReadsNext ==
  \/ \E b \in Boats : Report(b) \/ Write(b) \/ SweepBoat(b)
  \/ Pass
  \/ \E kind \in Kinds : Begin(kind)
  \/ ReadCache \/ ReadRecord \/ Answer

ReadsSpec == ReadsInit /\ [][ReadsNext]_readVars

---------------------------------------------------------------------------
(* Properties. *)

\* What the request is answered with where the cache completes nothing: what it
\* holds of a boat, else the row.
HeldOr(c, row) == IF Known(c) THEN c ELSE row
Placed(c, row) == IF Positioned(c) THEN c ELSE row

\* Which boats a request of each kind is for, by what the cache holds and the
\* row read. A tile draws what the cache holds and only otherwise the record; an
\* area shows in addition where the record has a boat the cache knows no
\* position of, unless it was heard lately. A search knows a boat once written.
AskedFor(kind, c, row, now) ==
  CASE kind = "area" -> Shown(Placed(c, row), now) /\ (Positioned(c) \/ row.seen < now - CacheAge)
    [] kind = "tile" -> Shown(HeldOr(c, row), now)
    [] kind = "near" -> InBox(c)
    [] kind \in {"named", "centre"} -> Positioned(Merged(c, row))
    [] kind \in {"vessel", "get"} -> Known(Merged(c, row))
    [] kind = "prefix" -> InBox(row)
    [] kind = "search" -> InBox(row) /\ InBox(Merged(c, row))

AnswerOf(kind, c, row) ==
  CASE kind \in {"tile", "near"} -> HeldOr(c, row)
    [] kind = "centre" -> Placed(c, row)
    [] OTHER -> Merged(c, row)

\* A boat neither heard nor swept since the request first read: the answer is of
\* what the cache holds and of one row, the one from before a flush or after it.
AnswersInFull(b) ==
  \E row \in {request.rows[b], filed[b]} :
    /\ b \in DOMAIN answer' <=> AskedFor(request.kind, cached[b], row, request.now)
    /\ b \in DOMAIN answer' => answer'[b] = AnswerOf(request.kind, cached[b], row)

\* What was known of a boat when the request first read.
Was(b) == Merged(request.had[b], request.rows[b])

\* A boat asked for itself is still answered, heard, written or swept meanwhile;
\* but serveVessels passes over one heard that it had from the record alone.
StillAnswers(b) ==
  /\ request.kind \in {"centre", "vessel", "get"} \/ (request.kind = "named" /\ b \notin request.heard)
  /\ IF request.kind \in {"named", "centre"} THEN Positioned(Was(b)) ELSE Known(Was(b))
  => b \in DOMAIN answer'

\* An answer has nothing older, of the centre's position as of a whole state; but
\* where the cache is read again the sweep may leave it the row as it was read.
AnswersNothingOlder(b) ==
  /\ b \in DOMAIN answer'
  /\ request.kind \in {"near", "centre", "vessel"} \/ b \notin request.swept
  => /\ Positioned(Was(b)) => Positioned(answer'[b]) /\ answer'[b].posAt >= Was(b).posAt
     /\ request.kind # "centre" => answer'[b].seen >= Was(b).seen

\* Between the two reads of a request the flush, the sweep and new reports move
\* boats from cache to record and back, and no answer takes one for another
\* state of it, loses one asked for or goes back behind what was known of it.
AnswersAreNewest ==
  [][request.pc = "merge" /\ request'.pc = "idle" =>
       \A b \in Boats : /\ b \notin request.heard \union request.swept => AnswersInFull(b)
                        /\ StillAnswers(b) /\ AnswersNothingOlder(b)]_readVars
=============================================================================
