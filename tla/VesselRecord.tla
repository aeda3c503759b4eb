---------------------------- MODULE VesselRecord ----------------------------
(***************************************************************************)
(* The vessel cache of src/server/vessels.go, the durable record behind it *)
(* (store.go), the mirror of the record in memory (mirror.go), the import  *)
(* of history into the record (import.go) and the IMO lookup that reads    *)
(* cache and mirror one after the other (imo.go).                          *)
(*                                                                         *)
(* A tick is at least vesselSweep, coarser than the second of skew the     *)
(* fold allows; a vessel unheard for more than TTL ticks is swept.         *)
(* A position is known by its time.  Reports are receptions; the further   *)
(* test of rebuilt copies (staleFor) only makes more of them stale.        *)
(***************************************************************************)
EXTENDS Naturals, FiniteSets

CONSTANTS
    Ships,      \* MMSIs
    MaxTime,    \* bound on the clock, in ticks
    TTL,        \* vesselTTL, in whole ticks
    Names,      \* names a static report may carry
    GearNames,  \* the names derivedKind takes for fishing gear's
    Imos,       \* IMO numbers
    Reports,    \* what a report may carry
    History     \* what ClickHouse may hold of a vessel besides its last position

NoName == "no name"
NoImo == "no IMO"
Kinds == {"vessel", "gear", "aton"}
Times == 1..MaxTime
Report == [pos : BOOLEAN, name : Names \union {NoName}, imo : Imos \union {NoImo}, kind : {"vessel", "aton"}]
Particulars == [name : Names \union {NoName}, imo : Imos \union {NoImo}]

ASSUME RecordAssumption ==
    /\ MaxTime \in Nat \ {0} /\ TTL \in Nat
    /\ GearNames \subseteq Names /\ NoName \notin Names /\ NoImo \notin Imos
    /\ Reports \subseteq Report /\ History \subseteq Particulars

\* A vessel's folded state; posAt 0 is no position and seen 0 no vessel.
State == [posAt : 0..MaxTime, seen : 0..MaxTime, name : Names \union {NoName},
          imo : Imos \union {NoImo}, kind : Kinds]

Writers == {"flush", "import"}
Phases == {"idle", "write", "refresh", "file", "filed"}

VARIABLES
    now,        \* the clock
    cache,      \* Pipeline.vessels
    nextSweep,  \* Pipeline.nextSweep
    dirty,      \* Pipeline.dirty
    flushing,   \* Pipeline.flushing
    closed,     \* Pipeline.storesClosed: "no", "yes", or "error" when closeStore's flush failed
    row,        \* the vessels table
    mirror,     \* recordMirror.entries
    pending,    \* recordMirror.pending
    refreshMu,  \* who holds recordMirror.refreshMu, or "free"
    phase,      \* how far each writer is
    batch,      \* the vessels a writer is writing or refreshing
    rows,       \* the states a writer took from the cache, then from the table
    lookup      \* an IMO lookup between its two reads, or NoLookup

cacheVars == <<cache, nextSweep>>
recordVars == <<row, mirror, pending, refreshMu>>
writerVars == <<phase, batch, rows>>
vars == <<now, cache, nextSweep, dirty, flushing, closed, row, mirror, pending, refreshMu,
          phase, batch, rows, lookup>>

\* newVessel, and the absence of one.
Blank == [posAt |-> 0, seen |-> 0, name |-> NoName, imo |-> NoImo, kind |-> "vessel"]
Nothing == [m \in Ships |-> Blank]
NoLookup == [imo |-> NoImo, fresh |-> {}, hits |-> {}, steady |-> {}]

Init ==
    /\ now = 1
    /\ cache = Nothing /\ nextSweep = 0
    /\ dirty = {} /\ flushing = {} /\ closed = "no"
    /\ row = Nothing /\ mirror = Nothing /\ pending = {} /\ refreshMu = "free"
    /\ phase = [w \in Writers |-> "idle"]
    /\ batch = [w \in Writers |-> {}]
    /\ rows = [w \in Writers |-> Nothing]
    /\ lookup = NoLookup

Held(v) == v.seen # 0
Later(a, b) == IF a >= b THEN a ELSE b
Given(x, none, otherwise) == IF x # none THEN x ELSE otherwise

-----------------------------------------------------------------------------
(* The three rules by which two states of a vessel become one *)

\* derivedKind, as a name decides it.
DerivedKind(name) == IF name \in GearNames THEN "gear" ELSE "vessel"

\* upsertKind.
UpsertKind(r, v) ==
    IF v.kind = "aton" THEN "aton"
    ELSE IF r.kind = "aton" THEN "aton"
    ELSE IF v.kind = "vessel" /\ r.kind = "gear" /\ v.name = NoName THEN "gear"
    ELSE v.kind

\* Mutant: any position replaces the stored one.
UpsertAnyTime(r, v) ==
    [posAt |-> IF v.posAt # 0 THEN v.posAt ELSE r.posAt, seen |-> Later(v.seen, r.seen),
     name |-> Given(v.name, NoName, r.name), imo |-> Given(v.imo, NoImo, r.imo),
     kind |-> UpsertKind(r, v)]

\* upsertSQL: row r after cache state v.
Upsert(r, v) ==
    [posAt |-> Later(v.posAt, r.posAt), seen |-> Later(v.seen, r.seen),
     name |-> Given(v.name, NoName, r.name), imo |-> Given(v.imo, NoImo, r.imo),
     kind |-> UpsertKind(r, v)]

\* Mutant: a cached position wins however old.
MergeCacheFirst(v, r) ==
    [posAt |-> IF v.posAt = 0 THEN r.posAt ELSE v.posAt, seen |-> Later(r.seen, v.seen),
     name |-> Given(v.name, NoName, r.name), imo |-> Given(v.imo, NoImo, r.imo), kind |-> v.kind]

\* vessel.merge: cache state v completed by row r.
Merge(v, r) ==
    [posAt |-> IF v.posAt = 0 \/ r.posAt > v.posAt THEN r.posAt ELSE v.posAt,
     seen |-> Later(r.seen, v.seen),
     name |-> Given(v.name, NoName, r.name), imo |-> Given(v.imo, NoImo, r.imo),
     kind |-> IF r.kind # "vessel" /\ (v.kind = "vessel" \/ (v.kind = "gear" /\ r.kind # "gear"))
              THEN r.kind ELSE v.kind]

\* importUpsertSQL: row r after history h with a last position at p (0 without
\* one) and a latest static update at s.
ImportInto(r, h, p, s) ==
    LET name == Given(r.name, NoName, h.name)
    IN  [posAt |-> Later(p, r.posAt),
         seen |-> IF p > r.posAt THEN Later(p, r.seen) ELSE IF Held(r) THEN r.seen ELSE s,
         name |-> name, imo |-> Given(r.imo, NoImo, h.imo),
         kind |-> IF r.kind = "aton" THEN "aton" ELSE DerivedKind(name)]

-----------------------------------------------------------------------------
(* The fold *)

\* sweepLocked, when the reception clock reached the next sweep.
Swept == IF now >= nextSweep THEN {m \in Ships : Held(cache[m]) /\ cache[m].seen + TTL < now} ELSE {}

\* When the sweep after this report is due.
NextSweep == IF now >= nextSweep THEN now + 1 ELSE nextSweep
Kept == [m \in Ships |-> IF m \in Swept THEN Blank ELSE cache[m]]

\* What updateVessel begins with: the cached vessel, or a blank one of the kind
\* the mirror knew.
Found(m) == IF Held(Kept[m]) THEN Kept[m] ELSE [Blank EXCEPT !.kind = mirror[m].kind]

\* A vessel that has a position takes no report older than its newest.
Stale(v, t) == v.posAt # 0 /\ t < v.seen

\* updateVessel: v after report r of time t.
Folded(v, r, t) ==
    LET name == Given(r.name, NoName, v.name)
        typed == IF r.kind = "aton" THEN "aton" ELSE v.kind
    IN  [posAt |-> IF r.pos /\ ~Stale(v, t) THEN t ELSE v.posAt,
         seen |-> IF Stale(v, t) THEN v.seen ELSE t,
         name |-> name,
         imo |-> Given(r.imo, NoImo, v.imo),
         kind |-> IF typed # "aton" /\ r.name # NoName THEN DerivedKind(name) ELSE typed]

\* The lookup under way forgets the vessels whose IMO a step changes.
Steady(next) == lookup.steady \intersect {m \in Ships : next[m].imo = cache[m].imo}

\* Mutant: a fold marks nothing while a flush is writing the vessel.
MarksIdle(m) == IF m \in flushing THEN {} ELSE {m}

\* The vessel a fold marks for the next flush.
Marks(m) == {m}

\* Mutant: receptions go on after shutdown closed the store.
AlwaysOpen == TRUE

\* Receptions are turned away once shutdown began.
IntakeOpen == closed = "no"

\* updateVessel: a report of any time up to the clock, "trusted arbitrarily far
\* back".
Fold(m, r, t) ==
    /\ IntakeOpen
    /\ cache' = [Kept EXCEPT ![m] = Folded(Found(m), r, t)]
    /\ nextSweep' = NextSweep
    /\ dirty' = dirty \union Marks(m)
    /\ lookup' = [lookup EXCEPT !.steady = Steady(cache')]
    /\ UNCHANGED <<now, flushing, closed, recordVars, writerVars>>

\* updateVessel on a report of a vessel outside Ships, or on a position too far
\* from the vessel's last: here the sweep is all it does.
FoldElse ==
    /\ IntakeOpen
    /\ cache' = Kept
    /\ nextSweep' = NextSweep
    /\ lookup' = [lookup EXCEPT !.steady = Steady(cache')]
    /\ UNCHANGED <<now, dirty, flushing, closed, recordVars, writerVars>>

-----------------------------------------------------------------------------
(* The flush *)

\* The dirty vessels the cache still holds.
Writable == {m \in dirty : Held(cache[m])}

\* flushRecord up to the upsert, from the ticker or from an MCP call.
FlushBegin ==
    /\ phase["flush"] = "idle"
    /\ dirty # {}
    /\ closed = "no"
    /\ flushing' = dirty
    /\ dirty' = {}
    /\ phase' = [phase EXCEPT !["flush"] = "write"]
    /\ batch' = [batch EXCEPT !["flush"] = Writable]
    /\ rows' = [rows EXCEPT !["flush"] = [m \in Ships |-> IF m \in Writable THEN cache[m] ELSE Blank]]
    /\ UNCHANGED <<now, cacheVars, closed, recordVars, lookup>>

\* closeStore: the last flush, once no other runs, after intake closed.
CloseStore ==
    /\ phase["flush"] = "idle"
    /\ closed = "no"
    /\ closed' = "yes"
    /\ IF dirty # {}
       THEN /\ flushing' = dirty
            /\ dirty' = {}
            /\ phase' = [phase EXCEPT !["flush"] = "write"]
            /\ batch' = [batch EXCEPT !["flush"] = Writable]
            /\ rows' = [rows EXCEPT !["flush"] = [m \in Ships |-> IF m \in Writable THEN cache[m] ELSE Blank]]
       ELSE UNCHANGED <<flushing, dirty, writerVars>>
    /\ UNCHANGED <<now, cacheVars, recordVars, lookup>>

\* upsert commits the batch in one transaction.
FlushCommit ==
    /\ phase["flush"] = "write"
    /\ row' = [m \in Ships |-> IF m \in batch["flush"] THEN Upsert(row[m], rows["flush"][m]) ELSE row[m]]
    /\ phase' = [phase EXCEPT !["flush"] = "refresh"]
    /\ rows' = [rows EXCEPT !["flush"] = Nothing]
    /\ UNCHANGED <<now, cacheVars, dirty, flushing, closed, mirror, pending, refreshMu, batch, lookup>>

\* Mutant: a failed batch is not marked again.
MarkNone == {}

\* The vessels a failed flush marks again.
MarkAgain == batch["flush"]

\* upsert fails and rolls back.
FlushFail ==
    /\ phase["flush"] = "write"
    /\ flushing' = {}
    /\ dirty' = dirty \union MarkAgain
    /\ closed' = IF closed = "no" THEN "no" ELSE "error"
    /\ phase' = [phase EXCEPT !["flush"] = "idle"]
    /\ batch' = [batch EXCEPT !["flush"] = {}]
    /\ rows' = [rows EXCEPT !["flush"] = Nothing]
    /\ UNCHANGED <<now, cacheVars, recordVars, lookup>>

\* flushRecord after a successful upsert: the flush lets go of its vessels.
FlushEnd ==
    /\ phase["flush"] = "filed"
    /\ flushing' = {}
    /\ phase' = [phase EXCEPT !["flush"] = "idle"]
    /\ UNCHANGED <<now, cacheVars, dirty, closed, recordVars, batch, rows, lookup>>

\* importRows commits a vessel's history.
ImportCommit(m, h, p, s) ==
    /\ phase["import"] = "idle"
    /\ closed = "no"
    /\ row' = [row EXCEPT ![m] = ImportInto(row[m], h, p, s)]
    /\ phase' = [phase EXCEPT !["import"] = "refresh"]
    /\ batch' = [batch EXCEPT !["import"] = {m}]
    /\ UNCHANGED <<now, cacheVars, dirty, flushing, closed, mirror, pending, refreshMu, rows, lookup>>

-----------------------------------------------------------------------------
(* The mirror *)

\* Mutant: refreshes overlap.
RefreshFreeAlways == TRUE

\* recordMirror.refreshMu is free.
RefreshFree == refreshMu = "free"

\* Where a writer's refresh leaves it.
Filed(w) == IF w = "flush" THEN "filed" ELSE "idle"

\* The vessels a refresh reads: the writer's and those an earlier one failed on.
RefreshSet(w) == batch[w] \union pending

\* recordMirror.refresh reads the table.
RefreshRead(w) ==
    /\ phase[w] = "refresh"
    /\ RefreshFree
    /\ refreshMu' = w
    /\ batch' = [batch EXCEPT ![w] = RefreshSet(w)]
    /\ rows' = [rows EXCEPT ![w] = [m \in Ships |-> IF m \in RefreshSet(w) THEN row[m] ELSE Blank]]
    /\ pending' = {}
    /\ phase' = [phase EXCEPT ![w] = "file"]
    /\ UNCHANGED <<now, cacheVars, dirty, flushing, closed, row, mirror, lookup>>

\* recordMirror.refresh cannot read: the vessels wait for the next refresh.
RefreshFail(w) ==
    /\ phase[w] = "refresh"
    /\ RefreshFree
    /\ pending' = RefreshSet(w)
    /\ phase' = [phase EXCEPT ![w] = Filed(w)]
    /\ batch' = [batch EXCEPT ![w] = {}]
    /\ UNCHANGED <<now, cacheVars, dirty, flushing, closed, row, mirror, refreshMu, rows, lookup>>

\* recordMirror.file.
RefreshFile(w) ==
    /\ phase[w] = "file"
    /\ mirror' = [m \in Ships |-> IF m \in batch[w] THEN rows[w][m] ELSE mirror[m]]
    /\ refreshMu' = "free"
    /\ phase' = [phase EXCEPT ![w] = Filed(w)]
    /\ batch' = [batch EXCEPT ![w] = {}]
    /\ rows' = [rows EXCEPT ![w] = Nothing]
    /\ UNCHANGED <<now, cacheVars, dirty, flushing, closed, row, pending, lookup>>

-----------------------------------------------------------------------------
(* The IMO lookup: the cache first, then the mirror *)

\* Mutant: the vessels a flush is writing are left to the mirror.
DirtyOnly == dirty

\* The vessels the cache answers for.
Unfiled == dirty \union flushing

\* The vessels whose row the mirror may lack after a refresh that failed.
Unmirrored == (pending \union UNION {batch[w] : w \in Writers}) \ (dirty \union flushing)

\* resolveIMOs reads the cache.
LookupCache(x) ==
    LET fresh == {m \in Unfiled : Held(cache[m]) /\ cache[m].imo # NoImo}
    IN  /\ lookup = NoLookup
        /\ lookup' = [imo |-> x, fresh |-> fresh, hits |-> {m \in fresh : cache[m].imo = x},
                      steady |-> {m \in Ships \ Unmirrored : Held(cache[m]) /\ cache[m].imo # NoImo}]
        /\ UNCHANGED <<now, cacheVars, dirty, flushing, closed, recordVars, writerVars>>

\* The vessels an IMO lookup answers with.
Resolved == lookup.hits \union {m \in Ships \ lookup.fresh : mirror[m].imo = lookup.imo}

\* resolveIMOs reads the mirror and answers.
LookupMirror ==
    /\ lookup # NoLookup
    /\ lookup' = NoLookup
    /\ UNCHANGED <<now, cacheVars, dirty, flushing, closed, recordVars, writerVars>>

-----------------------------------------------------------------------------
(* Time and restarts *)

Tick ==
    /\ now < MaxTime
    /\ now' = now + 1
    /\ UNCHANGED <<cacheVars, dirty, flushing, closed, recordVars, writerVars, lookup>>

\* attachStore: a row heard within vesselTTL, without a position older than that.
Attached(r) ==
    IF r.seen + TTL < now THEN Blank
    ELSE IF r.posAt + TTL < now THEN [r EXCEPT !.posAt = 0] ELSE r

\* The process dies or exits and the next one opens the record: what was not
\* committed is gone, loadMirror reads the table, attachStore fills the cache.
Restart ==
    /\ cache' = [m \in Ships |-> Attached(row[m])]
    /\ nextSweep' = 0
    /\ dirty' = {} /\ flushing' = {} /\ closed' = "no"
    /\ mirror' = row /\ pending' = {} /\ refreshMu' = "free"
    /\ phase' = [w \in Writers |-> "idle"]
    /\ batch' = [w \in Writers |-> {}]
    /\ rows' = [w \in Writers |-> Nothing]
    /\ lookup' = NoLookup
    /\ UNCHANGED <<now, row>>

Next ==
    \/ FoldElse
    \/ \E m \in Ships, r \in Reports, t \in 1..now : Fold(m, r, t)
    \/ FlushBegin \/ CloseStore \/ FlushCommit \/ FlushFail \/ FlushEnd
    \/ \E m \in Ships, h \in History :
          \/ \E p \in 1..now : ImportCommit(m, h, p, p)
          \/ \E s \in 1..now : ImportCommit(m, h, 0, s)
    \/ \E w \in Writers : RefreshRead(w) \/ RefreshFail(w) \/ RefreshFile(w)
    \/ \E x \in Imos : LookupCache(x)
    \/ LookupMirror \/ Tick \/ Restart

Spec == Init /\ [][Next]_vars

(* Fairness: the ticker flushes each second, a writer's steps are taken, and *)
(* a transaction tried again and again at some point commits.                *)
Fairness ==
    /\ WF_vars(FlushBegin) /\ WF_vars(FlushEnd)
    /\ SF_vars(FlushCommit)
    /\ \A w \in Writers : SF_vars(RefreshRead(w) \/ RefreshFail(w)) /\ WF_vars(RefreshFile(w))

FairSpec == Spec /\ Fairness

-----------------------------------------------------------------------------
(* Properties *)

\* Every variable has its type.
TypeOK ==
    /\ now \in Times
    /\ cache \in [Ships -> State] /\ nextSweep \in 0..(MaxTime + 1)
    /\ dirty \subseteq Ships /\ flushing \subseteq Ships /\ closed \in {"no", "yes", "error"}
    /\ row \in [Ships -> State] /\ mirror \in [Ships -> State]
    /\ pending \subseteq Ships /\ refreshMu \in Writers \union {"free"}
    /\ phase \in [Writers -> Phases]
    /\ batch \in [Writers -> SUBSET Ships]
    /\ rows \in [Writers -> [Ships -> State]]
    /\ lookup \in [imo : Imos \union {NoImo}, fresh : SUBSET Ships, hits : SUBSET Ships, steady : SUBSET Ships]

\* Writing cache state v would change nothing in row r, its kind aside: an
\* import derives the row's kind anew, and the cache may have taken its own from
\* a mirror whose refresh failed.
Covers(r, v) == [Upsert(r, v) EXCEPT !.kind = r.kind] = r

\* A cached vessel neither marked nor being written has nothing its row lacks,
\* whatever was folded while a flush was writing, failing or restarting
\* (flushRecord, store.go:1072-1087).
MarkedOrWritten ==
    \A m \in Ships : Held(cache[m]) /\ m \notin dirty \union flushing => Covers(row[m], cache[m])

\* closeStore returning no error leaves no fold unwritten (store.go:1042-1055).
ClosedIsWritten ==
    closed = "yes" /\ phase["flush"] = "idle"
        => \A m \in Ships : Held(cache[m]) => Covers(row[m], cache[m])

\* The mirror holds the row of every vessel but those a writer has yet to file
\* and those whose refresh failed (mirror.go:42-65).
MirrorFollows ==
    \A m \in Ships : m \in pending \/ mirror[m] = row[m]
                     \/ \E w \in Writers : phase[w] \in {"refresh", "file"} /\ m \in batch[w]

\* A vessel whose cached IMO does not change while a lookup reads the cache and
\* then the mirror is found under that IMO and under no other, "none falls
\* between the two reads" (imo.go:88-92).
LookupFinds ==
    [][lookup # NoLookup /\ lookup' = NoLookup /\ nextSweep' = nextSweep
        => \A m \in lookup.steady : m \in Resolved <=> cache[m].imo = lookup.imo]_vars

\* newestState: what the API answers for a vessel.
Answer(m) == Merge(cache[m], mirror[m])

\* Cache, flush, row and mirror agree on a vessel.
Settled(m) ==
    /\ m \notin dirty \union flushing \union pending
    /\ \A w \in Writers : m \notin batch[w]

\* What the API answers for a vessel never moves back along its track and never
\* loses a name or an IMO number, across flush, import, sweep and restart, but
\* for a vessel swept or restarted before its row was written and mirrored
\* (newestState and merge).
AnswerHolds ==
    [][\A m \in Ships :
        \/ /\ Answer(m)'.posAt >= Answer(m).posAt
           /\ Answer(m).name # NoName => Answer(m)'.name # NoName
           /\ Answer(m).imo # NoImo => Answer(m)'.imo # NoImo
        \/ ~Settled(m) /\ (m \in Swept \/ nextSweep' = 0)]_vars

\* A row's position and seen never move back and its name and IMO number never
\* blank, though the cache comes back blank from the sweep and the import
\* brings old history (upsertSQL, importUpsertSQL).
RowOnlyGrows ==
    [][\A m \in Ships :
        /\ row'[m].posAt >= row[m].posAt /\ row'[m].seen >= row[m].seen
        /\ row[m].name # NoName => row'[m].name # NoName
        /\ row[m].imo # NoImo => row'[m].imo # NoImo]_vars

\* A position the cache holds reaches the row, unless the vessel is swept or
\* the process stops first (runStore).
FoldsReachTheRow ==
    \A m \in Ships, t \in Times :
        cache[m].posAt = t ~> (row[m].posAt >= t \/ cache[m].posAt < t \/ closed # "no")

\* What the comment on flushStore states: a flush writes the vessels folded
\* since the last, and those a failed one marked again (store.go:1028, 1082).
FlushWritesFolded ==
    [][phase["flush"] = "idle" /\ phase'["flush"] = "write" => batch'["flush"] = flushing']_vars
=============================================================================
