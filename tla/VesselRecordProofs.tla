-------------------------- MODULE VesselRecordProofs --------------------------
(* The row loses nothing, whatever is folded while a flush writes, fails or  *)
(* restarts, and the answer never moves back: proofs about VesselRecord.     *)
EXTENDS VesselRecord, TLAPS

\* A state as the code leaves one: its position is one it was seen at, and a
\* vessel never seen has no particulars.
Whole(v) ==
    /\ v \in State
    /\ v.posAt <= v.seen
    /\ ~Held(v) => v.name = NoName /\ v.imo = NoImo

\* State r lost nothing the API answers that state s had,
Keeps(r, s) ==
    /\ r.posAt >= s.posAt
    /\ s.name # NoName => r.name # NoName
    /\ s.imo # NoImo => r.imo # NoImo

\* and was not seen earlier either.
Grows(r, s) == Keeps(r, s) /\ r.seen >= s.seen

---------------------------------------------------------------------------
(* The rules by which states become one. *)

LEMMA StateFields ==
    ASSUME NEW v \in State
    PROVE  /\ v.posAt \in Nat /\ v.seen \in Nat /\ v.posAt <= MaxTime /\ v.seen <= MaxTime
           /\ v.posAt \in 0..MaxTime /\ v.seen \in 0..MaxTime
           /\ v.name \in Names \union {NoName} /\ v.imo \in Imos \union {NoImo} /\ v.kind \in Kinds
    BY RecordAssumption DEF State

LEMMA BlankIsWhole == Whole(Blank) /\ \A k \in Kinds : Whole([Blank EXCEPT !.kind = k])
    BY RecordAssumption DEF Whole, Blank, State, Kinds, Held

LEMMA GrowsSelf == ASSUME NEW r \in State PROVE Grows(r, r)
    BY StateFields DEF Grows, Keeps

LEMMA GrowsChain ==
    ASSUME NEW r \in State, NEW s \in State, NEW u \in State, Grows(r, s), Grows(s, u)
    PROVE  Grows(r, u)
    BY StateFields DEF Grows, Keeps

\* What covering means, field by field.
LEMMA CoversMeans ==
    ASSUME NEW r \in State, NEW v \in State
    PROVE  Covers(r, v) <=> /\ v.posAt <= r.posAt /\ v.seen <= r.seen
                            /\ v.name # NoName => r.name = v.name
                            /\ v.imo # NoImo => r.imo = v.imo
<1>1. r = [posAt |-> r.posAt, seen |-> r.seen, name |-> r.name, imo |-> r.imo, kind |-> r.kind]
    BY DEF State
<1>2. [Upsert(r, v) EXCEPT !.kind = r.kind]
        = [posAt |-> Later(v.posAt, r.posAt), seen |-> Later(v.seen, r.seen),
           name |-> Given(v.name, NoName, r.name), imo |-> Given(v.imo, NoImo, r.imo), kind |-> r.kind]
    BY DEF Upsert
<1>3. Covers(r, v) <=> /\ Later(v.posAt, r.posAt) = r.posAt /\ Later(v.seen, r.seen) = r.seen
                       /\ Given(v.name, NoName, r.name) = r.name /\ Given(v.imo, NoImo, r.imo) = r.imo
    BY <1>1, <1>2 DEF Covers
<1> QED  BY <1>3, StateFields DEF Later, Given

LEMMA UpsertWhole ==
    ASSUME NEW r, NEW v, Whole(r), Whole(v)
    PROVE  Whole(Upsert(r, v)) /\ Grows(Upsert(r, v), r) /\ Covers(Upsert(r, v), v)
<1>1. r \in State /\ v \in State  BY DEF Whole
<1>2. UpsertKind(r, v) \in Kinds  BY <1>1, StateFields DEF UpsertKind, Kinds
<1>3. Upsert(r, v) \in State
    BY <1>1, <1>2, StateFields DEF Upsert, State, Later, Given
<1>4. /\ Upsert(r, v).posAt = Later(v.posAt, r.posAt) /\ Upsert(r, v).seen = Later(v.seen, r.seen)
      /\ Upsert(r, v).name = Given(v.name, NoName, r.name) /\ Upsert(r, v).imo = Given(v.imo, NoImo, r.imo)
    BY DEF Upsert
<1>5. Whole(Upsert(r, v)) /\ Grows(Upsert(r, v), r)
    BY <1>1, <1>3, <1>4, StateFields DEF Whole, Held, Grows, Keeps, Later, Given
<1>6. Covers(Upsert(r, v), v)
    BY <1>1, <1>3, <1>4, CoversMeans, StateFields DEF Later, Given
<1> QED  BY <1>5, <1>6

\* An import fills what the row lacks, and leaves what a cached state would.
LEMMA ImportWhole ==
    ASSUME NEW r, Whole(r), NEW h \in History, NEW p \in 0..MaxTime, NEW s \in 1..MaxTime
    PROVE  /\ Whole(ImportInto(r, h, p, s)) /\ Grows(ImportInto(r, h, p, s), r)
           /\ \A v \in State : Covers(r, v) => Covers(ImportInto(r, h, p, s), v)
<1> DEFINE i == ImportInto(r, h, p, s)
<1>1. r \in State  BY DEF Whole
<1>2. h.name \in Names \union {NoName} /\ h.imo \in Imos \union {NoImo}
    BY RecordAssumption DEF Particulars
<1>3. \A n : DerivedKind(n) \in Kinds  BY DEF DerivedKind, Kinds
<1>4. p \in Nat /\ s \in Nat /\ p <= MaxTime /\ s <= MaxTime /\ s > 0  BY RecordAssumption
<1>5. /\ i.posAt = Later(p, r.posAt)
      /\ i.seen = IF p > r.posAt THEN Later(p, r.seen) ELSE IF Held(r) THEN r.seen ELSE s
      /\ i.name = Given(r.name, NoName, h.name) /\ i.imo = Given(r.imo, NoImo, h.imo)
      /\ i.kind \in Kinds
    BY <1>1, <1>3 DEF ImportInto, Kinds
<1>6. i \in State
    <2>1. i = [posAt |-> i.posAt, seen |-> i.seen, name |-> i.name, imo |-> i.imo, kind |-> i.kind]
        BY DEF ImportInto
    <2>2. i.posAt \in 0..MaxTime /\ i.seen \in 0..MaxTime
        BY <1>1, <1>4, <1>5, StateFields, RecordAssumption DEF Later
    <2>3. i.name \in Names \union {NoName} /\ i.imo \in Imos \union {NoImo}
        BY <1>1, <1>2, <1>5, StateFields DEF Given
    <2> HIDE DEF i
    <2> QED  BY <1>5, <2>1, <2>2, <2>3 DEF State
<1> HIDE DEF i
<1>7. Whole(i) /\ Grows(i, r)
    BY <1>1, <1>4, <1>5, <1>6, StateFields DEF Whole, Held, Grows, Keeps, Later, Given
<1>8. ASSUME NEW v \in State, Covers(r, v) PROVE Covers(i, v)
    BY <1>1, <1>6, <1>5, <1>7, <1>8, CoversMeans, StateFields DEF Grows, Keeps, Given
<1> QED  BY <1>7, <1>8 DEF i

\* A fold keeps what the vessel has, and marks it as seen.
LEMMA FoldWhole ==
    ASSUME NEW v, Whole(v), NEW r \in Reports, NEW t \in 1..MaxTime
    PROVE  Whole(Folded(v, r, t)) /\ Keeps(Folded(v, r, t), v)
<1> DEFINE f == Folded(v, r, t)
<1>1. v \in State /\ v.posAt <= v.seen  BY DEF Whole
<1>2. r.name \in Names \union {NoName} /\ r.imo \in Imos \union {NoImo} /\ r.pos \in BOOLEAN
      /\ r.kind \in {"vessel", "aton"}
    BY RecordAssumption DEF Report
<1>3. \A n : DerivedKind(n) \in Kinds  BY DEF DerivedKind, Kinds
<1>4. t \in Nat /\ t <= MaxTime /\ t > 0  BY RecordAssumption
<1>5. /\ f.posAt = IF r.pos /\ ~Stale(v, t) THEN t ELSE v.posAt
      /\ f.seen = IF Stale(v, t) THEN v.seen ELSE t
      /\ f.name = Given(r.name, NoName, v.name) /\ f.imo = Given(r.imo, NoImo, v.imo)
      /\ f = [posAt |-> f.posAt, seen |-> f.seen, name |-> f.name, imo |-> f.imo, kind |-> f.kind]
    BY DEF Folded
<1>6. f.kind \in Kinds
    BY <1>1, <1>3, StateFields DEF Folded, Kinds
<1> HIDE DEF f
<1>7. f \in State
    <2>1. f.posAt \in 0..MaxTime /\ f.seen \in 0..MaxTime
        BY <1>1, <1>4, <1>5, StateFields, RecordAssumption
    <2>2. f.name \in Names \union {NoName} /\ f.imo \in Imos \union {NoImo}
        BY <1>1, <1>2, <1>5, StateFields DEF Given
    <2> QED  BY <1>5, <1>6, <2>1, <2>2 DEF State
<1>8. f.seen > 0 /\ f.posAt <= f.seen /\ Keeps(f, v)
    BY <1>1, <1>4, <1>5, StateFields DEF Stale, Given, Keeps
<1>9. Whole(f)  BY <1>7, <1>8, StateFields DEF Whole, Held
<1> QED  BY <1>8, <1>9 DEF f

\* A restart reads from a row nothing that it lacks.
LEMMA AttachedWhole ==
    ASSUME NEW r, Whole(r)
    PROVE  Whole(Attached(r)) /\ Covers(r, Attached(r))
<1>1. r \in State  BY DEF Whole
<1>2. CASE Attached(r) = Blank
    <2>1. Covers(r, Blank)
        BY <1>1, BlankIsWhole, CoversMeans, StateFields DEF Whole, Blank
    <2> QED  BY <1>2, <2>1, BlankIsWhole
<1>3. CASE Attached(r) = [r EXCEPT !.posAt = 0]
    <2> DEFINE a == [r EXCEPT !.posAt = 0]
    <2>1. a \in State /\ a.posAt = 0 /\ a.seen = r.seen /\ a.name = r.name /\ a.imo = r.imo
        BY <1>1, RecordAssumption DEF State
    <2> HIDE DEF a
    <2>2. Whole(a)  BY <1>1, <2>1, StateFields DEF Whole, Held
    <2>3. Covers(r, a)  BY <1>1, <2>1, CoversMeans, StateFields
    <2> QED  BY <1>3, <2>2, <2>3 DEF a
<1>4. CASE Attached(r) = r
    <2>1. Covers(r, r)  BY <1>1, CoversMeans, StateFields
    <2> QED  BY <1>4, <2>1
<1> QED  BY <1>2, <1>3, <1>4 DEF Attached

\* An answer has what the cache has and what the row has.
LEMMA MergeFields ==
    ASSUME NEW v \in State, NEW r \in State
    PROVE  /\ Merge(v, r).posAt = Later(v.posAt, r.posAt)
           /\ Merge(v, r).name = Given(v.name, NoName, r.name)
           /\ Merge(v, r).imo = Given(v.imo, NoImo, r.imo)
    BY StateFields DEF Merge, Later

LEMMA MergeKeeps ==
    ASSUME NEW v \in State, NEW r \in State, NEW w \in State, NEW s \in State,
           Keeps(w, v) \/ Keeps(s, v), Keeps(w, r) \/ Keeps(s, r)
    PROVE  /\ Merge(w, s).posAt >= Merge(v, r).posAt
           /\ Merge(v, r).name # NoName => Merge(w, s).name # NoName
           /\ Merge(v, r).imo # NoImo => Merge(w, s).imo # NoImo
    BY MergeFields, StateFields DEF Keeps, Later, Given

---------------------------------------------------------------------------
(* Types. *)

Typed == TypeOK /\ \A m \in Ships : /\ Whole(cache[m]) /\ Whole(row[m]) /\ Whole(mirror[m])
                                    /\ \A w \in Writers : Whole(rows[w][m])

LEMMA TypedInit == Init => Typed
<1> SUFFICES ASSUME Init PROVE Typed
    OBVIOUS
<1>1. Nothing \in [Ships -> State] /\ \A m \in Ships : Whole(Nothing[m])
    BY BlankIsWhole DEF Nothing, Whole
<1>2. TypeOK
    BY <1>1, RecordAssumption DEF Init, TypeOK, Times, Writers, Phases, NoLookup
<1> QED  BY <1>1, <1>2 DEF Init, Typed

\* What a sweep leaves, and the vessel a fold begins with.
LEMMA KeptWhole ==
    ASSUME Typed
    PROVE  /\ Kept \in [Ships -> State] /\ \A m \in Ships : Whole(Kept[m]) /\ Whole(Found(m))
           /\ NextSweep \in 0..(MaxTime + 1)
<1>1. \A m \in Ships : Whole(Kept[m])  BY BlankIsWhole DEF Typed, Kept
<1>2. Kept \in [Ships -> State]  BY <1>1 DEF Kept, Whole
<1>3. ASSUME NEW m \in Ships PROVE Whole(Found(m))
    <2>1. mirror[m].kind \in Kinds  BY StateFields DEF Typed, TypeOK
    <2> QED  BY <1>1, <2>1, BlankIsWhole DEF Found
<1>4. NextSweep \in 0..(MaxTime + 1)
    BY RecordAssumption DEF Typed, TypeOK, Times, NextSweep
<1> QED  BY <1>1, <1>2, <1>3, <1>4

\* Ships a lookup still follows.
LEMMA SteadyTyped ==
    ASSUME Typed, NEW next
    PROVE  Steady(next) \in SUBSET Ships
    BY DEF Steady

LEMMA LookupSteadyTyped ==
    ASSUME Typed, NEW S \in SUBSET Ships
    PROVE  [lookup EXCEPT !.steady = S] \in
              [imo : Imos \union {NoImo}, fresh : SUBSET Ships, hits : SUBSET Ships, steady : SUBSET Ships]
    BY DEF Typed, TypeOK

LEMMA TypedFold ==
    ASSUME Typed, NEW m \in Ships, NEW r \in Reports, NEW t \in 1..now, Fold(m, r, t)
    PROVE  Typed'
<1>1. t \in 1..MaxTime  BY RecordAssumption DEF Typed, TypeOK, Times
<1>2. Whole(Folded(Found(m), r, t))  BY <1>1, KeptWhole, FoldWhole
<1>3. /\ cache' = [Kept EXCEPT ![m] = Folded(Found(m), r, t)] /\ nextSweep' = NextSweep
      /\ dirty' = dirty \union {m} /\ lookup' = [lookup EXCEPT !.steady = Steady(cache')]
      /\ UNCHANGED <<now, flushing, closed, row, mirror, pending, refreshMu, phase, batch, rows>>
    BY DEF Fold, Marks, recordVars, writerVars
<1>4. \A n \in Ships : Whole(cache'[n])  BY <1>2, <1>3, KeptWhole
<1>5. cache' \in [Ships -> State]  BY <1>2, <1>3, KeptWhole DEF Whole
<1>6. Steady(cache') \in SUBSET Ships
    BY DEF Steady, Typed, TypeOK
<1>7. lookup' \in [imo : Imos \union {NoImo}, fresh : SUBSET Ships, hits : SUBSET Ships, steady : SUBSET Ships]
    BY <1>3, <1>6, LookupSteadyTyped
<1>8. TypeOK'  BY <1>3, <1>5, <1>7, KeptWhole DEF Typed, TypeOK
<1> QED  BY <1>3, <1>4, <1>8 DEF Typed

LEMMA TypedFoldElse ==
    ASSUME Typed, FoldElse
    PROVE  Typed'
<1>1. /\ cache' = Kept /\ nextSweep' = NextSweep /\ lookup' = [lookup EXCEPT !.steady = Steady(cache')]
      /\ UNCHANGED <<now, dirty, flushing, closed, row, mirror, pending, refreshMu, phase, batch, rows>>
    BY DEF FoldElse, recordVars, writerVars
<1>2. Steady(cache') \in SUBSET Ships  BY DEF Steady, Typed, TypeOK
<1>3. lookup' \in [imo : Imos \union {NoImo}, fresh : SUBSET Ships, hits : SUBSET Ships, steady : SUBSET Ships]
    BY <1>1, <1>2, LookupSteadyTyped
<1>4. TypeOK'  BY <1>1, <1>3, KeptWhole DEF Typed, TypeOK
<1> QED  BY <1>1, <1>4, KeptWhole DEF Typed

\* The states a writer takes: those of its vessels.
LEMMA TakenWhole ==
    ASSUME Typed, NEW f \in [Ships -> State], \A m \in Ships : Whole(f[m]), NEW S, NEW w \in Writers,
           rows' = [rows EXCEPT ![w] = [m \in Ships |-> IF m \in S THEN f[m] ELSE Blank]]
    PROVE  /\ rows' \in [Writers -> [Ships -> State]]
           /\ \A v \in Writers, m \in Ships : Whole(rows'[v][m])
<1> DEFINE h == [m \in Ships |-> IF m \in S THEN f[m] ELSE Blank]
<1>1. h \in [Ships -> State] /\ \A m \in Ships : Whole(h[m])
    BY BlankIsWhole DEF Whole
<1>2. rows' = [rows EXCEPT ![w] = h]  OBVIOUS
<1> HIDE DEF h
<1>3. rows \in [Writers -> [Ships -> State]]  BY DEF Typed, TypeOK
<1>4. rows' \in [Writers -> [Ships -> State]]  BY <1>1, <1>2, <1>3
<1>5. \A v \in Writers, m \in Ships : Whole(rows'[v][m])
    BY <1>1, <1>2, <1>3 DEF Typed
<1> QED  BY <1>4, <1>5

LEMMA NothingTaken ==
    ASSUME Typed, NEW w \in Writers
    PROVE  /\ [rows EXCEPT ![w] = Nothing] \in [Writers -> [Ships -> State]]
           /\ \A v \in Writers, m \in Ships : Whole([rows EXCEPT ![w] = Nothing][v][m])
<1>1. Nothing \in [Ships -> State] /\ \A m \in Ships : Whole(Nothing[m])
    BY BlankIsWhole DEF Nothing, Whole
<1> QED  BY <1>1 DEF Typed, TypeOK

LEMMA WritersTyped == "flush" \in Writers /\ "import" \in Writers
    BY DEF Writers

\* What both flushes do when there is something to write.
TakesBatch ==
    /\ flushing' = dirty /\ dirty' = {}
    /\ phase' = [phase EXCEPT !["flush"] = "write"]
    /\ batch' = [batch EXCEPT !["flush"] = Writable]
    /\ rows' = [rows EXCEPT !["flush"] = [m \in Ships |-> IF m \in Writable THEN cache[m] ELSE Blank]]

LEMMA TypedFlushBegin ==
    ASSUME Typed, FlushBegin \/ CloseStore
    PROVE  Typed'
<1>1. /\ closed' \in {"no", "yes", "error"}
      /\ UNCHANGED <<now, cache, nextSweep, row, mirror, pending, refreshMu, lookup>>
      /\ TakesBatch \/ UNCHANGED <<flushing, dirty, phase, batch, rows>>
    BY DEF FlushBegin, CloseStore, cacheVars, recordVars, writerVars, TakesBatch, Typed, TypeOK
<1>2. /\ rows' \in [Writers -> [Ships -> State]]
      /\ \A w \in Writers, m \in Ships : Whole(rows'[w][m])
    <2>1. cache \in [Ships -> State] /\ \A m \in Ships : Whole(cache[m])  BY DEF Typed, TypeOK
    <2>2. CASE TakesBatch  BY <2>1, <2>2, WritersTyped, TakenWhole DEF TakesBatch
    <2>3. CASE UNCHANGED rows  BY <2>3 DEF Typed, TypeOK
    <2> QED  BY <1>1, <2>2, <2>3
<1>3. /\ phase' \in [Writers -> Phases] /\ batch' \in [Writers -> SUBSET Ships]
      /\ dirty' \subseteq Ships /\ flushing' \subseteq Ships
    <2>1. Writable \in SUBSET Ships /\ "write" \in Phases  BY DEF Writable, Phases, Typed, TypeOK
    <2>2. CASE TakesBatch  BY <2>1, <2>2 DEF TakesBatch, Typed, TypeOK
    <2>3. CASE UNCHANGED <<flushing, dirty, phase, batch, rows>>  BY <2>3 DEF Typed, TypeOK
    <2> QED  BY <1>1, <2>2, <2>3
<1>4. TypeOK'  BY <1>1, <1>2, <1>3 DEF Typed, TypeOK
<1> QED  BY <1>1, <1>2, <1>4 DEF Typed

LEMMA TypedFlushCommit ==
    ASSUME Typed, FlushCommit
    PROVE  Typed'
<1>1. /\ row' = [m \in Ships |-> IF m \in batch["flush"] THEN Upsert(row[m], rows["flush"][m]) ELSE row[m]]
      /\ phase' = [phase EXCEPT !["flush"] = "refresh"]
      /\ rows' = [rows EXCEPT !["flush"] = Nothing]
      /\ UNCHANGED <<now, cache, nextSweep, dirty, flushing, closed, mirror, pending, refreshMu, batch, lookup>>
    BY DEF FlushCommit, cacheVars
<1>2. \A m \in Ships : Whole(row'[m])
    BY <1>1, WritersTyped, UpsertWhole DEF Typed
<1>3. row' \in [Ships -> State]
    <2>1. \A m \in Ships : row'[m] \in State  BY <1>2 DEF Whole
    <2> QED  BY <1>1, <2>1
<1>4. phase' \in [Writers -> Phases]  BY <1>1 DEF Typed, TypeOK, Phases
<1>5. /\ rows' \in [Writers -> [Ships -> State]]
      /\ \A w \in Writers, m \in Ships : Whole(rows'[w][m])
    BY <1>1, WritersTyped, NothingTaken
<1>6. TypeOK'  BY <1>1, <1>3, <1>4, <1>5 DEF Typed, TypeOK
<1> QED  BY <1>1, <1>2, <1>5, <1>6 DEF Typed

LEMMA TypedFlushFail ==
    ASSUME Typed, FlushFail
    PROVE  Typed'
<1>1. /\ flushing' = {} /\ dirty' = dirty \union batch["flush"]
      /\ closed' = IF closed = "no" THEN "no" ELSE "error"
      /\ phase' = [phase EXCEPT !["flush"] = "idle"]
      /\ batch' = [batch EXCEPT !["flush"] = {}]
      /\ rows' = [rows EXCEPT !["flush"] = Nothing]
      /\ UNCHANGED <<now, cache, nextSweep, row, mirror, pending, refreshMu, lookup>>
    BY DEF FlushFail, MarkAgain, cacheVars, recordVars
<1>2. /\ rows' \in [Writers -> [Ships -> State]]
      /\ \A w \in Writers, m \in Ships : Whole(rows'[w][m])
    BY <1>1, WritersTyped, NothingTaken
<1>3. /\ phase' \in [Writers -> Phases] /\ batch' \in [Writers -> SUBSET Ships]
      /\ dirty' \subseteq Ships /\ flushing' \subseteq Ships
    BY <1>1, WritersTyped DEF Typed, TypeOK, Phases
<1>4. TypeOK'  BY <1>1, <1>2, <1>3 DEF Typed, TypeOK
<1> QED  BY <1>1, <1>2, <1>4 DEF Typed

LEMMA TypedFlushEnd ==
    ASSUME Typed, FlushEnd
    PROVE  Typed'
<1>1. /\ flushing' = {} /\ phase' = [phase EXCEPT !["flush"] = "idle"]
      /\ UNCHANGED <<now, cache, nextSweep, dirty, closed, row, mirror, pending, refreshMu, batch, rows, lookup>>
    BY DEF FlushEnd, cacheVars, recordVars
<1>2. phase' \in [Writers -> Phases]  BY <1>1 DEF Typed, TypeOK, Phases
<1> QED  BY <1>1, <1>2 DEF Typed, TypeOK

LEMMA TypedImport ==
    ASSUME Typed, NEW m \in Ships, NEW h \in History, NEW p \in 0..MaxTime, NEW s \in 1..MaxTime,
           ImportCommit(m, h, p, s)
    PROVE  Typed'
<1>1. /\ row' = [row EXCEPT ![m] = ImportInto(row[m], h, p, s)]
      /\ phase' = [phase EXCEPT !["import"] = "refresh"]
      /\ batch' = [batch EXCEPT !["import"] = {m}]
      /\ UNCHANGED <<now, cache, nextSweep, dirty, flushing, closed, mirror, pending, refreshMu, rows, lookup>>
    BY DEF ImportCommit, cacheVars
<1>2. Whole(ImportInto(row[m], h, p, s))  BY ImportWhole DEF Typed
<1>3. row' \in [Ships -> State] /\ \A n \in Ships : Whole(row'[n])
    BY <1>1, <1>2 DEF Typed, TypeOK, Whole
<1>4. phase' \in [Writers -> Phases] /\ batch' \in [Writers -> SUBSET Ships]
    BY <1>1 DEF Typed, TypeOK, Phases
<1>5. TypeOK'  BY <1>1, <1>3, <1>4 DEF Typed, TypeOK
<1> QED  BY <1>1, <1>3, <1>5 DEF Typed

LEMMA TypedRefreshRead ==
    ASSUME Typed, NEW w \in Writers, RefreshRead(w)
    PROVE  Typed'
<1>1. /\ refreshMu' = w /\ pending' = {} /\ phase' = [phase EXCEPT ![w] = "file"]
      /\ batch' = [batch EXCEPT ![w] = RefreshSet(w)]
      /\ rows' = [rows EXCEPT ![w] = [m \in Ships |-> IF m \in RefreshSet(w) THEN row[m] ELSE Blank]]
      /\ UNCHANGED <<now, cache, nextSweep, dirty, flushing, closed, row, mirror, lookup>>
    BY DEF RefreshRead, cacheVars
<1>2. /\ rows' \in [Writers -> [Ships -> State]]
      /\ \A v \in Writers, m \in Ships : Whole(rows'[v][m])
    <2>1. row \in [Ships -> State] /\ \A m \in Ships : Whole(row[m])  BY DEF Typed, TypeOK
    <2> QED  BY <1>1, <2>1, TakenWhole
<1>3. phase' \in [Writers -> Phases] /\ batch' \in [Writers -> SUBSET Ships]
    BY <1>1 DEF Typed, TypeOK, Phases, RefreshSet
<1>4. TypeOK'  BY <1>1, <1>2, <1>3 DEF Typed, TypeOK
<1> QED  BY <1>1, <1>2, <1>4 DEF Typed

LEMMA TypedRefreshFail ==
    ASSUME Typed, NEW w \in Writers, RefreshFail(w)
    PROVE  Typed'
<1>1. /\ pending' = RefreshSet(w) /\ phase' = [phase EXCEPT ![w] = Filed(w)]
      /\ batch' = [batch EXCEPT ![w] = {}]
      /\ UNCHANGED <<now, cache, nextSweep, dirty, flushing, closed, row, mirror, refreshMu, rows, lookup>>
    BY DEF RefreshFail, cacheVars
<1>2. phase' \in [Writers -> Phases] /\ batch' \in [Writers -> SUBSET Ships] /\ pending' \subseteq Ships
    BY <1>1 DEF Typed, TypeOK, Phases, RefreshSet, Filed
<1>3. TypeOK'  BY <1>1, <1>2 DEF Typed, TypeOK
<1> QED  BY <1>1, <1>3 DEF Typed

LEMMA TypedRefreshFile ==
    ASSUME Typed, NEW w \in Writers, RefreshFile(w)
    PROVE  Typed'
<1>1. /\ mirror' = [m \in Ships |-> IF m \in batch[w] THEN rows[w][m] ELSE mirror[m]]
      /\ refreshMu' = "free" /\ phase' = [phase EXCEPT ![w] = Filed(w)]
      /\ batch' = [batch EXCEPT ![w] = {}] /\ rows' = [rows EXCEPT ![w] = Nothing]
      /\ UNCHANGED <<now, cache, nextSweep, dirty, flushing, closed, row, pending, lookup>>
    BY DEF RefreshFile, cacheVars
<1>2. mirror' \in [Ships -> State] /\ \A m \in Ships : Whole(mirror'[m])
    BY <1>1 DEF Typed, TypeOK
<1>3. /\ rows' \in [Writers -> [Ships -> State]]
      /\ \A v \in Writers, m \in Ships : Whole(rows'[v][m])
    BY <1>1, NothingTaken
<1>4. phase' \in [Writers -> Phases] /\ batch' \in [Writers -> SUBSET Ships]
    BY <1>1 DEF Typed, TypeOK, Phases, Filed
<1>5. TypeOK'  BY <1>1, <1>2, <1>3, <1>4 DEF Typed, TypeOK
<1> QED  BY <1>1, <1>2, <1>3, <1>5 DEF Typed

LEMMA TypedLookup ==
    ASSUME Typed, LookupMirror \/ \E x \in Imos : LookupCache(x)
    PROVE  Typed'
<1>1. UNCHANGED <<now, cache, nextSweep, dirty, flushing, closed, row, mirror, pending, refreshMu, phase, batch, rows>>
    BY DEF LookupMirror, LookupCache, cacheVars, recordVars, writerVars
<1>2. lookup' \in [imo : Imos \union {NoImo}, fresh : SUBSET Ships, hits : SUBSET Ships, steady : SUBSET Ships]
    BY DEF LookupMirror, LookupCache, NoLookup, Typed, TypeOK, Unfiled
<1> QED  BY <1>1, <1>2 DEF Typed, TypeOK

LEMMA TypedRestart ==
    ASSUME Typed, Restart
    PROVE  Typed'
<1>1. cache' \in [Ships -> State] /\ \A m \in Ships : Whole(cache'[m])
    BY AttachedWhole DEF Restart, Typed, Whole
<1>2. Nothing \in [Ships -> State] /\ \A m \in Ships : Whole(Nothing[m])
    BY BlankIsWhole DEF Nothing, Whole
<1>3. /\ rows' \in [Writers -> [Ships -> State]]
      /\ \A v \in Writers, m \in Ships : Whole(rows'[v][m])
    BY <1>2 DEF Restart
<1>4. /\ nextSweep' \in 0..(MaxTime + 1) /\ phase' \in [Writers -> Phases] /\ batch' \in [Writers -> SUBSET Ships]
      /\ dirty' = {} /\ flushing' = {} /\ closed' = "no" /\ mirror' = row /\ pending' = {} /\ refreshMu' = "free"
      /\ lookup' = NoLookup /\ UNCHANGED <<now, row>>
    BY RecordAssumption DEF Restart, Phases
<1>5. TypeOK'  BY <1>1, <1>3, <1>4 DEF Typed, TypeOK, NoLookup
<1> QED  BY <1>1, <1>3, <1>4, <1>5 DEF Typed

\* Every import of Next, by the times it may bring.
LEMMA ImportTimes ==
    ASSUME Typed, NEW m \in Ships, NEW h \in History,
           \/ \E p \in 1..now : ImportCommit(m, h, p, p)
           \/ \E s \in 1..now : ImportCommit(m, h, 0, s)
    PROVE  \E p \in 0..MaxTime, s \in 1..MaxTime : ImportCommit(m, h, p, s)
<1>1. 1..now \subseteq 1..MaxTime /\ 1..now \subseteq 0..MaxTime /\ 0 \in 0..MaxTime
    BY RecordAssumption DEF Typed, TypeOK, Times
<1> QED  BY <1>1

LEMMA TypedStep == Typed /\ [Next]_vars => Typed'
<1> SUFFICES ASSUME Typed, [Next]_vars PROVE Typed'
    OBVIOUS
<1>1. CASE Tick
    BY <1>1, RecordAssumption DEF Tick, cacheVars, recordVars, writerVars, Typed, TypeOK, Times
<1>2. CASE UNCHANGED vars
    BY <1>2 DEF vars, cacheVars, recordVars, writerVars, Typed, TypeOK
<1>3. ASSUME NEW m \in Ships, NEW h \in History,
             \/ \E p \in 1..now : ImportCommit(m, h, p, p)
             \/ \E s \in 1..now : ImportCommit(m, h, 0, s)
      PROVE  Typed'
    BY <1>3, ImportTimes, TypedImport
<1> QED
    BY <1>1, <1>2, <1>3, TypedFold, TypedFoldElse, TypedFlushBegin, TypedFlushCommit, TypedFlushFail,
       TypedFlushEnd, TypedRefreshRead, TypedRefreshFail, TypedRefreshFile, TypedLookup, TypedRestart DEF Next

\* Every variable has its type, and every state of a vessel, cached, stored,
\* mirrored or being written, is one the code leaves (vessels.go, store.go).
THEOREM RecordTyped == Spec => []Typed
<1> QED  BY TypedInit, TypedStep, PTL DEF Spec

---------------------------------------------------------------------------
(* The row.                                                                 *)

LEMMA RowStep ==
    ASSUME Typed, [Next]_vars, NEW m \in Ships
    PROVE  Grows(row'[m], row[m])
<1>1. Whole(row[m]) /\ row[m] \in State  BY DEF Typed, Whole
<1>2. CASE UNCHANGED row  BY <1>1, <1>2, GrowsSelf
<1>3. CASE FlushCommit
    <2>1. row'[m] = IF m \in batch["flush"] THEN Upsert(row[m], rows["flush"][m]) ELSE row[m]
        BY <1>3 DEF FlushCommit
    <2>2. Whole(rows["flush"][m])  BY WritersTyped DEF Typed
    <2> QED  BY <1>1, <2>1, <2>2, UpsertWhole, GrowsSelf
<1>4. ASSUME NEW n \in Ships, NEW h \in History, NEW p \in 0..MaxTime, NEW s \in 1..MaxTime,
             ImportCommit(n, h, p, s)
      PROVE  Grows(row'[m], row[m])
    <2>1. row'[m] = IF m = n THEN ImportInto(row[m], h, p, s) ELSE row[m]
        BY <1>4 DEF ImportCommit, Typed, TypeOK
    <2> QED  BY <1>1, <2>1, ImportWhole, GrowsSelf
<1>5. ASSUME NEW n \in Ships, NEW h \in History,
             \/ \E p \in 1..now : ImportCommit(n, h, p, p)
             \/ \E s \in 1..now : ImportCommit(n, h, 0, s)
      PROVE  Grows(row'[m], row[m])
    BY <1>4, <1>5, ImportTimes
<1>6. FlushCommit \/ UNCHANGED row
      \/ \E n \in Ships, h \in History : \/ \E p \in 1..now : ImportCommit(n, h, p, p)
                                         \/ \E s \in 1..now : ImportCommit(n, h, 0, s)
    BY DEF Next, vars, Fold, FoldElse, FlushBegin, CloseStore, FlushFail, FlushEnd, RefreshRead,
         RefreshFail, RefreshFile, LookupCache, LookupMirror, Tick, Restart, recordVars
<1> QED  BY <1>2, <1>3, <1>5, <1>6

\* upsertSQL and importUpsertSQL: a row's position and seen never move back, its
\* name and IMO number never blank.
THEOREM RowsGrow == Spec => RowOnlyGrows
<1>1. Typed /\ [Next]_vars
        => [\A m \in Ships :
              /\ row'[m].posAt >= row[m].posAt /\ row'[m].seen >= row[m].seen
              /\ row[m].name # NoName => row'[m].name # NoName
              /\ row[m].imo # NoImo => row'[m].imo # NoImo]_vars
    BY RowStep DEF Grows, Keeps
<1> QED  BY <1>1, RecordTyped, PTL DEF Spec, RowOnlyGrows

---------------------------------------------------------------------------
(* The flush.                                                               *)

\* A vessel folded since the flush took its batch is marked; the others' states
\* are in the batch until it commits and in their rows after.
FlushInv ==
    /\ MarkedOrWritten
    /\ phase["flush"] = "idle" => flushing = {}
    /\ phase["flush"] = "write" =>
          /\ batch["flush"] \subseteq flushing
          /\ \A m \in flushing \ dirty :
                Held(cache[m]) => m \in batch["flush"] /\ rows["flush"][m] = cache[m]
    /\ phase["flush"] \in {"refresh", "file", "filed"} =>
          \A m \in flushing \ dirty : Held(cache[m]) => Covers(row[m], cache[m])
    /\ closed = "yes" => dirty = {}

\* Nobody reads for the mirror while another files; what it read is the row,
\* or the row's writer has yet to refresh.
MirrorInv ==
    /\ MirrorFollows
    /\ \A w \in Writers : phase[w] = "file" => refreshMu = w
    /\ \A w \in Writers, m \in Ships :
          phase[w] = "file" /\ m \in batch[w] =>
              rows[w][m] = row[m] \/ \E v \in Writers : phase[v] = "refresh" /\ m \in batch[v]

\* The mirror is some earlier row, and what is being filed one between the two.
MirrorLags ==
    \A m \in Ships :
        /\ Grows(row[m], mirror[m])
        /\ \A w \in Writers : phase[w] = "file" /\ m \in batch[w] =>
              Grows(row[m], rows[w][m]) /\ Grows(rows[w][m], mirror[m])

\* A followed vessel the cache did not answer for has its IMO everywhere.
SameImo(m) ==
    /\ row[m].imo = cache[m].imo /\ mirror[m].imo = cache[m].imo
    /\ \A w \in Writers : phase[w] \in {"write", "file"} /\ m \in batch[w] => rows[w][m].imo = cache[m].imo

LookupInv ==
    /\ lookup.hits \subseteq lookup.fresh
    /\ \A m \in lookup.steady :
          /\ cache[m].imo # NoImo
          /\ m \in lookup.fresh => (m \in lookup.hits <=> cache[m].imo = lookup.imo)
          /\ m \notin lookup.fresh => SameImo(m)

LEMMA NoShipHeld == ~Held(Blank)
    BY DEF Held, Blank

\* Whoever a fold does not mark is as it was, or swept.
LEMMA UnmarkedAsBefore ==
    ASSUME Typed, FoldElse \/ \E m \in Ships, r \in Reports, t \in 1..now : Fold(m, r, t)
    PROVE  /\ \A n \in Ships : n \notin dirty' => cache'[n] = cache[n] \/ ~Held(cache'[n])
           /\ dirty \subseteq dirty'
           /\ closed = "no" \/ dirty' = dirty
           /\ UNCHANGED <<now, flushing, closed, row, mirror, pending, refreshMu, phase, batch, rows>>
<1>1. \A n \in Ships : Kept[n] = cache[n] \/ ~Held(Kept[n])  BY NoShipHeld DEF Kept
<1>2. CASE FoldElse  BY <1>1, <1>2 DEF FoldElse, recordVars, writerVars
<1>3. ASSUME NEW m \in Ships, NEW r \in Reports, NEW t \in 1..now, Fold(m, r, t)
      PROVE  /\ \A n \in Ships : n \notin dirty' => cache'[n] = cache[n] \/ ~Held(cache'[n])
             /\ dirty \subseteq dirty' /\ closed = "no"
             /\ UNCHANGED <<now, flushing, closed, row, mirror, pending, refreshMu, phase, batch, rows>>
    <2>1. /\ cache' = [Kept EXCEPT ![m] = Folded(Found(m), r, t)] /\ dirty' = dirty \union {m}
          /\ closed = "no"
          /\ UNCHANGED <<now, flushing, closed, row, mirror, pending, refreshMu, phase, batch, rows>>
        BY <1>3 DEF Fold, Marks, IntakeOpen, recordVars, writerVars
    <2>2. \A n \in Ships \ {m} : cache'[n] = Kept[n]  BY <2>1, KeptWhole
    <2> QED  BY <1>1, <2>1, <2>2
<1> QED  BY <1>2, <1>3

LEMMA FlushInvFold ==
    ASSUME Typed, FlushInv, FoldElse \/ \E m \in Ships, r \in Reports, t \in 1..now : Fold(m, r, t)
    PROVE  FlushInv'
<1>1. /\ \A n \in Ships : n \notin dirty' => cache'[n] = cache[n] \/ ~Held(cache'[n])
      /\ dirty \subseteq dirty'
      /\ closed = "no" \/ dirty' = dirty
      /\ UNCHANGED <<flushing, closed, row, phase, batch, rows>>
    BY UnmarkedAsBefore
<1>2. flushing \subseteq Ships  BY DEF Typed, TypeOK
<1> QED  BY <1>1, <1>2 DEF FlushInv, MarkedOrWritten

LEMMA FlushInvBegin ==
    ASSUME Typed, FlushInv, FlushBegin \/ CloseStore
    PROVE  FlushInv'
<1>1. /\ phase["flush"] = "idle" /\ closed = "no" /\ UNCHANGED <<cache, row>>
      /\ TakesBatch \/ (dirty = {} /\ UNCHANGED <<flushing, dirty, phase, batch, rows>>)
      /\ closed' = "yes" => dirty' = {}
    BY DEF FlushBegin, CloseStore, cacheVars, recordVars, writerVars, TakesBatch
<1>2. flushing = {} /\ dirty \subseteq Ships  BY <1>1 DEF FlushInv, Typed, TypeOK
<1>3. CASE TakesBatch
    <2>1. phase'["flush"] = "write" /\ batch'["flush"] = Writable
        BY <1>3, WritersTyped DEF TakesBatch, Typed, TypeOK
    <2>2. \A m \in Writable : rows'["flush"][m] = cache[m]
        BY <1>2, <1>3, WritersTyped DEF TakesBatch, Typed, TypeOK, Writable
    <2>3. MarkedOrWritten'
        BY <1>1, <1>2, <1>3 DEF TakesBatch, FlushInv, MarkedOrWritten
    <2>4. \A m \in flushing' : Held(cache'[m]) => m \in batch'["flush"] /\ rows'["flush"][m] = cache'[m]
        BY <1>1, <1>3, <2>1, <2>2 DEF TakesBatch, Writable
    <2>5. batch'["flush"] \subseteq flushing'  BY <1>3, <2>1 DEF TakesBatch, Writable
    <2> QED  BY <1>1, <2>1, <2>3, <2>4, <2>5 DEF FlushInv
<1>4. CASE dirty = {} /\ UNCHANGED <<flushing, dirty, phase, batch, rows>>
    BY <1>1, <1>4 DEF FlushInv, MarkedOrWritten
<1> QED  BY <1>1, <1>3, <1>4

LEMMA FlushInvCommit ==
    ASSUME Typed, FlushInv, FlushCommit
    PROVE  FlushInv'
<1>1. /\ phase["flush"] = "write" /\ phase'["flush"] = "refresh"
      /\ row' = [m \in Ships |-> IF m \in batch["flush"] THEN Upsert(row[m], rows["flush"][m]) ELSE row[m]]
      /\ UNCHANGED <<cache, dirty, flushing, closed>>
    BY WritersTyped DEF FlushCommit, cacheVars, Typed, TypeOK
<1>2. \A m \in Ships : m \in batch["flush"] => Covers(row'[m], rows["flush"][m])
    BY <1>1, WritersTyped, UpsertWhole DEF Typed
<1>3. \A m \in flushing \ dirty : Held(cache[m]) => Covers(row'[m], cache[m])
    BY <1>1, <1>2 DEF FlushInv, Typed, TypeOK
<1>4. ASSUME NEW m \in Ships, Held(cache[m]), m \notin dirty \union flushing
      PROVE  Covers(row'[m], cache[m])
    <2>1. Covers(row[m], cache[m])  BY <1>4 DEF FlushInv, MarkedOrWritten
    <2>2. m \notin batch["flush"]  BY <1>1, <1>4 DEF FlushInv
    <2> QED  BY <1>1, <2>1, <2>2
<1>5. MarkedOrWritten'  BY <1>1, <1>4 DEF MarkedOrWritten
<1> QED  BY <1>1, <1>3, <1>5 DEF FlushInv

LEMMA FlushInvFail ==
    ASSUME Typed, FlushInv, FlushFail
    PROVE  FlushInv'
<1>1. /\ phase["flush"] = "write" /\ phase'["flush"] = "idle"
      /\ flushing' = {} /\ dirty' = dirty \union batch["flush"] /\ closed' # "yes"
      /\ UNCHANGED <<cache, row>>
    BY WritersTyped DEF FlushFail, MarkAgain, cacheVars, recordVars, Typed, TypeOK
<1>2. MarkedOrWritten'  BY <1>1 DEF FlushInv, MarkedOrWritten
<1> QED  BY <1>1, <1>2 DEF FlushInv

LEMMA FlushInvEnd ==
    ASSUME Typed, FlushInv, FlushEnd
    PROVE  FlushInv'
<1>1. /\ phase["flush"] = "filed" /\ phase'["flush"] = "idle" /\ flushing' = {}
      /\ UNCHANGED <<cache, dirty, closed, row>>
    BY WritersTyped DEF FlushEnd, cacheVars, recordVars, Typed, TypeOK
<1>2. MarkedOrWritten'  BY <1>1 DEF FlushInv, MarkedOrWritten
<1> QED  BY <1>1, <1>2 DEF FlushInv

\* An import leaves covered what was.
LEMMA FlushInvImport ==
    ASSUME Typed, FlushInv, NEW m \in Ships, NEW h \in History, NEW p \in 0..MaxTime, NEW s \in 1..MaxTime,
           ImportCommit(m, h, p, s)
    PROVE  FlushInv'
<1>1. /\ row' = [row EXCEPT ![m] = ImportInto(row[m], h, p, s)]
      /\ phase'["flush"] = phase["flush"] /\ batch'["flush"] = batch["flush"]
      /\ UNCHANGED <<cache, dirty, flushing, closed, rows>>
    BY WritersTyped DEF ImportCommit, cacheVars, Typed, TypeOK
<1>2. \A n \in Ships : Covers(row[n], cache[n]) => Covers(row'[n], cache[n])
    BY <1>1, ImportWhole DEF Typed, TypeOK
<1>3. flushing \subseteq Ships  BY DEF Typed, TypeOK
<1>4. MarkedOrWritten'  BY <1>1, <1>2 DEF FlushInv, MarkedOrWritten
<1> QED  BY <1>1, <1>2, <1>3, <1>4 DEF FlushInv

LEMMA FlushInvRefresh ==
    ASSUME Typed, FlushInv, NEW w \in Writers, RefreshRead(w) \/ RefreshFail(w) \/ RefreshFile(w)
    PROVE  FlushInv'
<1>1. /\ UNCHANGED <<cache, dirty, flushing, closed, row>>
      /\ phase[w] \in {"refresh", "file"} /\ phase'[w] \in {"file", "filed", "idle"}
      /\ w = "flush" => phase'[w] \in {"file", "filed"}
      /\ w # "flush" => UNCHANGED <<phase["flush"], batch["flush"], rows["flush"]>>
    BY WritersTyped DEF RefreshRead, RefreshFail, RefreshFile, cacheVars, Filed, Typed, TypeOK
<1>2. MarkedOrWritten'  BY <1>1 DEF FlushInv, MarkedOrWritten
<1>3. CASE w = "flush"  BY <1>1, <1>2, <1>3 DEF FlushInv
<1>4. CASE w # "flush"  BY <1>1, <1>2, <1>4 DEF FlushInv
<1> QED  BY <1>3, <1>4

LEMMA FlushInvRestart ==
    ASSUME Typed, Restart
    PROVE  FlushInv'
<1>1. /\ phase'["flush"] = "idle" /\ flushing' = {} /\ dirty' = {} /\ row' = row
      /\ cache' = [m \in Ships |-> Attached(row[m])]
    BY WritersTyped DEF Restart
<1>2. \A m \in Ships : Covers(row'[m], cache'[m])  BY <1>1, AttachedWhole DEF Typed
<1> QED  BY <1>1, <1>2 DEF FlushInv, MarkedOrWritten

LEMMA FlushInvStep == Typed /\ FlushInv /\ [Next]_vars => FlushInv'
<1> SUFFICES ASSUME Typed, FlushInv, [Next]_vars PROVE FlushInv'
    OBVIOUS
<1>1. CASE UNCHANGED <<cache, dirty, flushing, closed, row, phase, batch, rows>>
    BY <1>1 DEF FlushInv, MarkedOrWritten
<1>2. Tick \/ LookupMirror \/ (\E x \in Imos : LookupCache(x)) \/ UNCHANGED vars
        => UNCHANGED <<cache, dirty, flushing, closed, row, phase, batch, rows>>
    BY DEF Tick, LookupMirror, LookupCache, vars, cacheVars, recordVars, writerVars
<1>3. ASSUME NEW m \in Ships, NEW h \in History,
             \/ \E p \in 1..now : ImportCommit(m, h, p, p)
             \/ \E s \in 1..now : ImportCommit(m, h, 0, s)
      PROVE  FlushInv'
    BY <1>3, ImportTimes, FlushInvImport
<1> QED
    BY <1>1, <1>2, <1>3, FlushInvFold, FlushInvBegin, FlushInvCommit, FlushInvFail, FlushInvEnd,
       FlushInvRefresh, FlushInvRestart DEF Next

LEMMA FlushInvInit == Init => FlushInv
    BY WritersTyped, NoShipHeld DEF Init, FlushInv, MarkedOrWritten, Nothing

\* flushRecord: a cached vessel neither marked nor in a flush's hands has
\* nothing its row lacks, whatever is folded while the flush writes or fails.
THEOREM NoFoldIsLost == Spec => []MarkedOrWritten
<1>1. FlushInv => MarkedOrWritten  BY DEF FlushInv
<1> QED  BY <1>1, RecordTyped, FlushInvInit, FlushInvStep, PTL DEF Spec

\* closeStore: once it returned without an error, every vessel is in its row.
THEOREM CloseWritesAll == Spec => []ClosedIsWritten
<1>1. FlushInv => ClosedIsWritten  BY DEF FlushInv, MarkedOrWritten, ClosedIsWritten
<1> QED  BY <1>1, RecordTyped, FlushInvInit, FlushInvStep, PTL DEF Spec

---------------------------------------------------------------------------
(* The mirror.                                                              *)

LEMMA MirrorInvBegin ==
    ASSUME Typed, MirrorInv, FlushBegin \/ CloseStore \/ FlushFail \/ FlushEnd
    PROVE  MirrorInv'
<1>1. /\ UNCHANGED <<row, mirror, pending, refreshMu>>
      /\ phase["flush"] \notin {"refresh", "file"} /\ phase'["flush"] \notin {"refresh", "file"}
      /\ UNCHANGED <<phase["import"], batch["import"], rows["import"]>>
    BY WritersTyped DEF FlushBegin, CloseStore, FlushFail, FlushEnd, recordVars, writerVars, Typed, TypeOK
<1> QED  BY <1>1 DEF MirrorInv, MirrorFollows, Writers

LEMMA MirrorInvCommit ==
    ASSUME Typed, MirrorInv, FlushCommit
    PROVE  MirrorInv'
<1>1. /\ UNCHANGED <<mirror, pending, refreshMu, batch>>
      /\ phase["flush"] = "write" /\ phase'["flush"] = "refresh"
      /\ UNCHANGED <<phase["import"], rows["import"]>>
      /\ \A m \in Ships : m \notin batch["flush"] => row'[m] = row[m]
    BY WritersTyped DEF FlushCommit, Typed, TypeOK
<1> QED  BY <1>1, WritersTyped DEF MirrorInv, MirrorFollows, Writers

LEMMA MirrorInvImport ==
    ASSUME Typed, MirrorInv, NEW m \in Ships, NEW h \in History, NEW p \in 0..MaxTime, NEW s \in 1..MaxTime,
           ImportCommit(m, h, p, s)
    PROVE  MirrorInv'
<1>1. /\ UNCHANGED <<mirror, pending, refreshMu, rows>>
      /\ phase["import"] = "idle" /\ phase'["import"] = "refresh" /\ batch'["import"] = {m}
      /\ UNCHANGED <<phase["flush"], batch["flush"]>>
      /\ \A n \in Ships : n # m => row'[n] = row[n]
    BY WritersTyped DEF ImportCommit, Typed, TypeOK
<1> QED  BY <1>1, WritersTyped DEF MirrorInv, MirrorFollows, Writers

\* A refresh's steps, as its writer and the other see them.
LEMMA MirrorInvRefresh ==
    ASSUME Typed, MirrorInv, NEW w \in Writers, RefreshRead(w) \/ RefreshFail(w) \/ RefreshFile(w)
    PROVE  MirrorInv'
<1>1. /\ row' = row /\ phase \in [Writers -> Phases] /\ batch \in [Writers -> SUBSET Ships]
      /\ \A v \in Writers \ {w} : UNCHANGED <<phase[v], batch[v], rows[v]>>
    BY DEF RefreshRead, RefreshFail, RefreshFile, Typed, TypeOK
<1>2. CASE RefreshRead(w)
    <2>1. /\ phase[w] = "refresh" /\ phase'[w] = "file" /\ refreshMu = "free" /\ refreshMu' = w
          /\ batch'[w] = batch[w] \union pending /\ pending' = {} /\ mirror' = mirror
          /\ \A m \in Ships : m \in batch'[w] => rows'[w][m] = row[m]
        BY <1>1, <1>2 DEF RefreshRead, RefreshFree, RefreshSet, Typed, TypeOK
    <2>2. "free" \notin Writers  BY DEF Writers
    <2>3. \A v \in Writers \ {w} : phase[v] # "file"  BY <2>1, <2>2 DEF MirrorInv
    <2>4. MirrorFollows'  BY <1>1, <2>1 DEF MirrorInv, MirrorFollows
    <2> QED  BY <1>1, <2>1, <2>3, <2>4 DEF MirrorInv
<1>3. CASE RefreshFail(w)
    <2>1. /\ phase[w] = "refresh" /\ phase'[w] \in {"filed", "idle"} /\ refreshMu = "free" /\ refreshMu' = "free"
          /\ pending' = batch[w] \union pending /\ mirror' = mirror
        BY <1>1, <1>3 DEF RefreshFail, RefreshFree, RefreshSet, Filed
    <2>2. "free" \notin Writers  BY DEF Writers
    <2>3. \A v \in Writers : phase'[v] # "file"  BY <1>1, <2>1, <2>2 DEF MirrorInv
    <2>4. MirrorFollows'  BY <1>1, <2>1 DEF MirrorInv, MirrorFollows
    <2> QED  BY <2>3, <2>4 DEF MirrorInv
<1>4. CASE RefreshFile(w)
    <2>1. /\ phase[w] = "file" /\ phase'[w] \in {"filed", "idle"} /\ pending' = pending
          /\ mirror' = [m \in Ships |-> IF m \in batch[w] THEN rows[w][m] ELSE mirror[m]]
        BY <1>1, <1>4 DEF RefreshFile, Filed
    <2>2. \A v \in Writers \ {w} : phase[v] # "file"  BY <2>1 DEF MirrorInv
    <2>3. \A v \in Writers : phase'[v] # "file"  BY <1>1, <2>1, <2>2
    <2>4. \A m \in Ships : m \in batch[w] =>
              rows[w][m] = row[m] \/ \E v \in Writers \ {w} : phase[v] = "refresh" /\ m \in batch[v]
        BY <2>1 DEF MirrorInv
    <2>5. ASSUME NEW m \in Ships
          PROVE  m \in pending' \/ mirror'[m] = row'[m]
                 \/ \E v \in Writers : phase'[v] \in {"refresh", "file"} /\ m \in batch'[v]
        <3>1. CASE m \in batch[w]  BY <1>1, <2>1, <2>4, <3>1
        <3>2. CASE m \notin batch[w]
            <4>1. mirror'[m] = mirror[m]  BY <2>1, <3>2
            <4>2. m \in pending \/ mirror[m] = row[m]
                  \/ \E v \in Writers \ {w} : phase[v] \in {"refresh", "file"} /\ m \in batch[v]
                BY <3>2 DEF MirrorInv, MirrorFollows
            <4> QED  BY <1>1, <2>1, <4>1, <4>2
        <3> QED  BY <3>1, <3>2
    <2>6. MirrorFollows'  BY <2>5 DEF MirrorFollows
    <2> QED  BY <2>3, <2>6 DEF MirrorInv
<1> QED  BY <1>2, <1>3, <1>4

LEMMA MirrorInvRestart == Restart => MirrorInv'
    BY DEF Restart, MirrorInv, MirrorFollows

LEMMA MirrorInvStep == Typed /\ MirrorInv /\ [Next]_vars => MirrorInv'
<1> SUFFICES ASSUME Typed, MirrorInv, [Next]_vars PROVE MirrorInv'
    OBVIOUS
<1>1. CASE UNCHANGED <<row, mirror, pending, refreshMu, phase, batch, rows>>
    BY <1>1 DEF MirrorInv, MirrorFollows
<1>2. Tick \/ LookupMirror \/ (\E x \in Imos : LookupCache(x)) \/ FoldElse \/ UNCHANGED vars
      \/ (\E m \in Ships, r \in Reports, t \in 1..now : Fold(m, r, t))
        => UNCHANGED <<row, mirror, pending, refreshMu, phase, batch, rows>>
    BY DEF Tick, LookupMirror, LookupCache, Fold, FoldElse, vars, recordVars, writerVars
<1>3. ASSUME NEW m \in Ships, NEW h \in History,
             \/ \E p \in 1..now : ImportCommit(m, h, p, p)
             \/ \E s \in 1..now : ImportCommit(m, h, 0, s)
      PROVE  MirrorInv'
    BY <1>3, ImportTimes, MirrorInvImport
<1> QED
    BY <1>1, <1>2, <1>3, MirrorInvBegin, MirrorInvCommit, MirrorInvRefresh, MirrorInvRestart DEF Next

LEMMA MirrorInvInit == Init => MirrorInv
    BY DEF Init, MirrorInv, MirrorFollows

\* recordMirror.refresh: the mirror has every vessel's row but those a writer has
\* yet to file, and those whose refresh failed.
THEOREM MirrorHasTheRows == Spec => []MirrorFollows
<1>1. MirrorInv => MirrorFollows  BY DEF MirrorInv
<1> QED  BY <1>1, RecordTyped, MirrorInvInit, MirrorInvStep, PTL DEF Spec

---------------------------------------------------------------------------
(* What the API answers.                                                    *)

\* Whatever is not a refresh leaves what is being filed as it is.
LEMMA LagsOtherwise ==
    ASSUME Typed, MirrorLags, [Next]_vars, mirror' = mirror,
           \A w \in Writers : phase'[w] = "file"
               => phase[w] = "file" /\ batch'[w] = batch[w] /\ rows'[w] = rows[w]
    PROVE  MirrorLags'
<1>1. ASSUME NEW m \in Ships PROVE Grows(row'[m], mirror'[m])
    <2>1. row'[m] \in State /\ row[m] \in State /\ mirror[m] \in State
        BY TypedStep DEF Typed, Whole
    <2> QED  BY <2>1, RowStep, GrowsChain DEF MirrorLags
<1>2. ASSUME NEW m \in Ships, NEW w \in Writers, phase'[w] = "file", m \in batch'[w]
      PROVE  Grows(row'[m], rows'[w][m]) /\ Grows(rows'[w][m], mirror'[m])
    <2>1. row'[m] \in State /\ row[m] \in State /\ rows[w][m] \in State
        BY TypedStep DEF Typed, Whole
    <2>2. Grows(row[m], rows[w][m]) /\ Grows(rows[w][m], mirror[m])  BY <1>2 DEF MirrorLags
    <2>3. Grows(row'[m], rows[w][m])  BY <2>1, <2>2, RowStep, GrowsChain
    <2> QED  BY <1>2, <2>2, <2>3
<1> QED  BY <1>1, <1>2 DEF MirrorLags

LEMMA LagsRead ==
    ASSUME Typed, MirrorInv, MirrorLags, NEW w \in Writers, RefreshRead(w)
    PROVE  MirrorLags'
<1>1. /\ UNCHANGED <<row, mirror>> /\ refreshMu = "free"
      /\ \A v \in Writers \ {w} : UNCHANGED <<phase[v], batch[v], rows[v]>>
      /\ \A m \in Ships : m \in batch'[w] => rows'[w][m] = row[m]
    BY DEF RefreshRead, RefreshFree, RefreshSet, Typed, TypeOK
<1>2. "free" \notin Writers  BY DEF Writers
<1>3. \A v \in Writers : phase[v] # "file"  BY <1>1, <1>2 DEF MirrorInv
<1>4. \A v \in Writers \ {w} : phase'[v] # "file"  BY <1>1, <1>3
<1>5. \A m \in Ships : Grows(row[m], row[m])  BY GrowsSelf DEF Typed, Whole
<1> QED  BY <1>1, <1>4, <1>5 DEF MirrorLags

LEMMA LagsFile ==
    ASSUME Typed, MirrorInv, MirrorLags, NEW w \in Writers, RefreshFile(w)
    PROVE  MirrorLags' /\ \A m \in Ships : Grows(mirror'[m], mirror[m])
<1>1. /\ row' = row /\ phase[w] = "file" /\ phase'[w] # "file"
      /\ \A v \in Writers \ {w} : phase'[v] = phase[v]
      /\ mirror' = [m \in Ships |-> IF m \in batch[w] THEN rows[w][m] ELSE mirror[m]]
    BY DEF RefreshFile, Filed, Typed, TypeOK
<1>2. \A v \in Writers : phase'[v] # "file"  BY <1>1 DEF MirrorInv
<1>3. \A m \in Ships : Grows(mirror[m], mirror[m])  BY GrowsSelf DEF Typed, Whole
<1> QED  BY <1>1, <1>2, <1>3 DEF MirrorLags

LEMMA LagsRestart ==
    ASSUME Typed, MirrorLags, Restart
    PROVE  MirrorLags' /\ \A m \in Ships : Grows(mirror'[m], mirror[m])
<1>1. row' = row /\ mirror' = row /\ \A w \in Writers : phase'[w] # "file"
    BY DEF Restart
<1>2. \A m \in Ships : Grows(row[m], row[m])  BY GrowsSelf DEF Typed, Whole
<1> QED  BY <1>1, <1>2 DEF MirrorLags

LEMMA LagsStep ==
    ASSUME Typed, MirrorInv, MirrorLags, [Next]_vars
    PROVE  MirrorLags' /\ \A m \in Ships : Grows(mirror'[m], mirror[m])
<1>1. \A m \in Ships : Grows(mirror[m], mirror[m])  BY GrowsSelf DEF Typed, Whole
<1>2. CASE \E w \in Writers : RefreshRead(w)
    BY <1>1, <1>2, LagsRead DEF RefreshRead
<1>3. CASE \E w \in Writers : RefreshFile(w)  BY <1>3, LagsFile
<1>4. CASE Restart  BY <1>4, LagsRestart
<1> DEFINE Quiet == /\ mirror' = mirror
                    /\ \A w \in Writers : phase'[w] = "file"
                           => phase[w] = "file" /\ batch'[w] = batch[w] /\ rows'[w] = rows[w]
<1>5. CASE Quiet
    BY <1>1, <1>5, LagsOtherwise
<1>6. ASSUME FlushBegin \/ CloseStore \/ FlushCommit \/ FlushFail \/ FlushEnd \/ \E w \in Writers : RefreshFail(w)
      PROVE  Quiet
    BY <1>6, WritersTyped DEF FlushBegin, CloseStore, FlushCommit, FlushFail, FlushEnd, RefreshFail, Filed,
       recordVars, writerVars, Typed, TypeOK
<1>7. ASSUME NEW m \in Ships, NEW h \in History, NEW p, NEW q, ImportCommit(m, h, p, q)
      PROVE  Quiet
    BY <1>7, WritersTyped DEF ImportCommit, Typed, TypeOK
<1>8. ASSUME \/ Tick \/ LookupMirror \/ (\E x \in Imos : LookupCache(x)) \/ FoldElse \/ UNCHANGED vars
             \/ (\E m \in Ships, r \in Reports, t \in 1..now : Fold(m, r, t))
      PROVE  Quiet
    BY <1>8 DEF Tick, LookupMirror, LookupCache, Fold, FoldElse, vars, recordVars, writerVars
<1> HIDE DEF Quiet
<1>9. Quiet \/ Restart \/ (\E w \in Writers : RefreshRead(w)) \/ (\E w \in Writers : RefreshFile(w))
    BY <1>6, <1>7, <1>8 DEF Next
<1> QED  BY <1>2, <1>3, <1>4, <1>5, <1>9

LEMMA LagsInit == Init => MirrorLags
<1> SUFFICES ASSUME Init PROVE MirrorLags
    OBVIOUS
<1>1. \A m \in Ships : Grows(row[m], row[m])  BY TypedInit, GrowsSelf DEF Typed, Whole
<1> QED  BY <1>1 DEF Init, MirrorLags

\* What one step may do to what the cache holds of a vessel.
LEMMA CacheStep ==
    ASSUME Typed, [Next]_vars, NEW m \in Ships
    PROVE  Keeps(cache'[m], cache[m]) \/ Restart
           \/ (m \in Swept /\ UNCHANGED <<row, mirror>>)
<1>1. cache[m] \in State /\ Keeps(cache[m], cache[m])
    BY GrowsSelf DEF Typed, Whole, Grows
<1>2. m \notin Swept => Keeps(Found(m), cache[m])
    <2>1. CASE Held(cache[m])  BY <1>1, <2>1 DEF Kept, Found
    <2>2. CASE ~Held(cache[m])
        <3>1. cache[m].posAt = 0 /\ cache[m].name = NoName /\ cache[m].imo = NoImo
            BY <1>1, <2>2, StateFields DEF Typed, Whole, Held
        <3>2. Whole(Found(m))  BY KeptWhole
        <3> QED  BY <3>1, <3>2, StateFields DEF Keeps, Whole
    <2> QED  BY <2>1, <2>2
<1>3. ASSUME NEW n \in Ships, NEW r \in Reports, NEW t \in 1..now, Fold(n, r, t), m \notin Swept
      PROVE  Keeps(cache'[m], cache[m])
    <2>1. cache' = [Kept EXCEPT ![n] = Folded(Found(n), r, t)]  BY <1>3 DEF Fold
    <2>2. CASE m # n  BY <1>1, <1>3, <2>1, <2>2, KeptWhole DEF Kept
    <2>3. CASE m = n
        <3>1. t \in 1..MaxTime  BY RecordAssumption DEF Typed, TypeOK, Times
        <3>2. Whole(Found(m)) /\ Whole(Folded(Found(m), r, t)) /\ Keeps(Folded(Found(m), r, t), Found(m))
            BY <3>1, KeptWhole, FoldWhole
        <3>3. cache'[m] = Folded(Found(m), r, t)  BY <2>1, <2>3, KeptWhole
        <3> QED  BY <1>1, <1>2, <1>3, <3>2, <3>3, StateFields DEF Keeps, Whole
    <2> QED  BY <2>2, <2>3
<1>4. ASSUME FoldElse, m \notin Swept PROVE Keeps(cache'[m], cache[m])
    BY <1>1, <1>4 DEF FoldElse, Kept
<1>5. ASSUME FoldElse \/ \E n \in Ships, r \in Reports, t \in 1..now : Fold(n, r, t)
      PROVE  UNCHANGED <<row, mirror>>
    BY <1>5 DEF FoldElse, Fold, recordVars
<1>6. ASSUME ~Restart, ~FoldElse, ~\E n \in Ships, r \in Reports, t \in 1..now : Fold(n, r, t)
      PROVE  cache' = cache
    BY <1>6 DEF Next, vars, FlushBegin, CloseStore, FlushCommit, FlushFail, FlushEnd, ImportCommit, RefreshRead,
       RefreshFail, RefreshFile, LookupCache, LookupMirror, Tick, cacheVars
<1> QED  BY <1>1, <1>3, <1>4, <1>5, <1>6

\* A settled vessel's row has what its cache does, and the mirror that row.
LEMMA SettledKeeps ==
    ASSUME Typed, FlushInv, MirrorInv, NEW m \in Ships, Settled(m)
    PROVE  mirror[m] = row[m] /\ Keeps(row[m], cache[m])
<1>1. mirror[m] = row[m]  BY DEF MirrorInv, MirrorFollows, Settled
<1>2. cache[m] \in State /\ row[m] \in State  BY DEF Typed, Whole
<1>3. CASE Held(cache[m])
    <2>1. Covers(row[m], cache[m])  BY <1>3 DEF FlushInv, MarkedOrWritten, Settled
    <2> QED  BY <1>1, <1>2, <2>1, CoversMeans, StateFields DEF Keeps
<1>4. CASE ~Held(cache[m])
    <2>1. cache[m].posAt = 0 /\ cache[m].name = NoName /\ cache[m].imo = NoImo
        BY <1>2, <1>4, StateFields DEF Typed, Whole, Held
    <2> QED  BY <1>1, <1>2, <2>1, StateFields DEF Keeps
<1> QED  BY <1>3, <1>4

LEMMA AnswerStep ==
    ASSUME Typed, FlushInv, MirrorInv, MirrorLags, [Next]_vars, NEW m \in Ships
    PROVE  \/ /\ Answer(m)'.posAt >= Answer(m).posAt
              /\ Answer(m).name # NoName => Answer(m)'.name # NoName
              /\ Answer(m).imo # NoImo => Answer(m)'.imo # NoImo
           \/ ~Settled(m) /\ (m \in Swept \/ nextSweep' = 0)
<1>1. /\ cache[m] \in State /\ mirror[m] \in State /\ row[m] \in State
      /\ cache'[m] \in State /\ mirror'[m] \in State
    BY TypedStep DEF Typed, Whole
<1>2. Keeps(mirror'[m], mirror[m])  BY LagsStep DEF Grows
<1>3. Answer(m) = Merge(cache[m], mirror[m]) /\ Answer(m)' = Merge(cache'[m], mirror'[m])
    BY DEF Answer
<1>4. CASE Keeps(cache'[m], cache[m])
    BY <1>1, <1>2, <1>3, <1>4, MergeKeeps
<1>5. CASE Settled(m) /\ (Restart \/ (m \in Swept /\ UNCHANGED <<row, mirror>>))
    <2>1. mirror'[m] = row[m]  BY <1>5, SettledKeeps DEF Restart
    <2>2. Keeps(mirror'[m], cache[m])  BY <1>5, <2>1, SettledKeeps
    <2> QED  BY <1>1, <1>2, <1>3, <2>2, MergeKeeps
<1>6. CASE ~Settled(m) /\ (Restart \/ m \in Swept)
    BY <1>6 DEF Restart
<1> QED  BY <1>4, <1>5, <1>6, CacheStep

\* newestState and merge: across flush, import, refresh, sweep and restart, what
\* the API answers for a vessel never moves back nor loses a name or an IMO
\* number, but for a vessel swept or restarted before it was settled.
THEOREM AnswersHold == Spec => AnswerHolds
<1>1. Typed /\ FlushInv /\ MirrorInv /\ MirrorLags /\ [Next]_vars
        => [\A m \in Ships :
              \/ /\ Answer(m)'.posAt >= Answer(m).posAt
                 /\ Answer(m).name # NoName => Answer(m)'.name # NoName
                 /\ Answer(m).imo # NoImo => Answer(m)'.imo # NoImo
              \/ ~Settled(m) /\ (m \in Swept \/ nextSweep' = 0)]_vars
    BY AnswerStep
<1>2. Typed /\ MirrorInv /\ MirrorLags /\ [Next]_vars => MirrorLags'
    BY LagsStep
<1> QED
    BY <1>1, <1>2, RecordTyped, FlushInvInit, FlushInvStep, MirrorInvInit, MirrorInvStep, LagsInit, PTL
       DEF Spec, AnswerHolds

---------------------------------------------------------------------------
(* The IMO lookup.                                                          *)

\* A vessel's IMO stays the same everywhere while its cached one does.
LEMMA SameImoStep ==
    ASSUME Typed, [Next]_vars, ~Restart, NEW m \in Ships, SameImo(m),
           cache[m].imo # NoImo, cache'[m].imo = cache[m].imo
    PROVE  SameImo(m)'
<1> DEFINE i == cache[m].imo
<1> USE DEF SameImo
<1>1. CASE FoldElse \/ \E n \in Ships, r \in Reports, t \in 1..now : Fold(n, r, t)
    BY <1>1 DEF Fold, FoldElse, recordVars, writerVars
<1>2. CASE Tick \/ LookupMirror \/ (\E x \in Imos : LookupCache(x)) \/ UNCHANGED vars
    BY <1>2 DEF Tick, LookupMirror, LookupCache, vars, recordVars, writerVars
<1>3. CASE FlushBegin \/ CloseStore
    <2>1. /\ UNCHANGED <<cache, row, mirror, phase["import"], batch["import"], rows["import"]>>
          /\ UNCHANGED <<phase["flush"], batch["flush"], rows["flush"]>>
             \/ (batch'["flush"] = Writable /\ \A n \in Ships : n \in Writable => rows'["flush"][n] = cache[n])
        BY <1>3, WritersTyped DEF FlushBegin, CloseStore, cacheVars, recordVars, writerVars, Typed, TypeOK
    <2> QED  BY <2>1 DEF Writers
<1>4. CASE FlushCommit
    <2>1. /\ UNCHANGED <<cache, mirror, batch, phase["import"], rows["import"]>>
          /\ phase["flush"] = "write" /\ phase'["flush"] = "refresh"
          /\ row'[m] = IF m \in batch["flush"] THEN Upsert(row[m], rows["flush"][m]) ELSE row[m]
        BY <1>4, WritersTyped DEF FlushCommit, cacheVars, Typed, TypeOK
    <2>2. row'[m].imo = i
        <3>1. CASE m \in batch["flush"]
            <4>1. rows["flush"][m].imo = i  BY <2>1, <3>1, WritersTyped
            <4> QED  BY <2>1, <3>1, <4>1 DEF Upsert, Given
        <3>2. CASE m \notin batch["flush"]  BY <2>1, <3>2
        <3> QED  BY <3>1, <3>2
    <2> QED  BY <2>1, <2>2 DEF Writers
<1>5. CASE FlushFail \/ FlushEnd
    <2>1. /\ UNCHANGED <<cache, row, mirror, phase["import"], batch["import"], rows["import"]>>
          /\ phase'["flush"] = "idle"
        BY <1>5, WritersTyped DEF FlushFail, FlushEnd, cacheVars, recordVars, Typed, TypeOK
    <2> QED  BY <2>1 DEF Writers
<1>6. ASSUME NEW n \in Ships, NEW h \in History, NEW p, NEW q, ImportCommit(n, h, p, q)
      PROVE  SameImo(m)'
    <2>1. /\ UNCHANGED <<cache, mirror, phase["flush"], batch["flush"], rows>>
          /\ phase'["import"] = "refresh"
          /\ row'[m] = IF m = n THEN ImportInto(row[m], h, p, q) ELSE row[m]
        BY <1>6, WritersTyped DEF ImportCommit, cacheVars, Typed, TypeOK
    <2>2. row'[m].imo = i  BY <2>1 DEF ImportInto, Given
    <2> QED  BY <2>1, <2>2 DEF Writers
<1>7. ASSUME NEW w \in Writers, RefreshRead(w) PROVE SameImo(m)'
    <2>1. /\ UNCHANGED <<cache, row, mirror>>
          /\ \A v \in Writers \ {w} : UNCHANGED <<phase[v], batch[v], rows[v]>>
          /\ m \in batch'[w] => rows'[w][m] = row[m]
        BY <1>7 DEF RefreshRead, cacheVars, Typed, TypeOK
    <2> QED  BY <2>1
<1>8. ASSUME NEW w \in Writers, RefreshFail(w) PROVE SameImo(m)'
    <2>1. /\ UNCHANGED <<cache, row, mirror, rows>>
          /\ \A v \in Writers \ {w} : UNCHANGED <<phase[v], batch[v]>>
          /\ phase'[w] \in {"filed", "idle"}
        BY <1>8 DEF RefreshFail, Filed, cacheVars, Typed, TypeOK
    <2> QED  BY <2>1
<1>9. ASSUME NEW w \in Writers, RefreshFile(w) PROVE SameImo(m)'
    <2>1. /\ UNCHANGED <<cache, row>> /\ phase[w] = "file" /\ phase'[w] \in {"filed", "idle"}
          /\ \A v \in Writers \ {w} : UNCHANGED <<phase[v], batch[v], rows[v]>>
          /\ mirror'[m] = IF m \in batch[w] THEN rows[w][m] ELSE mirror[m]
        BY <1>9 DEF RefreshFile, Filed, cacheVars, Typed, TypeOK
    <2>2. mirror'[m].imo = i  BY <2>1
    <2> QED  BY <2>1, <2>2
<1> QED  BY <1>1, <1>2, <1>3, <1>4, <1>5, <1>6, <1>7, <1>8, <1>9 DEF Next

\* A lookup that begins leaves to the mirror who is settled and has an IMO.
LEMMA LookupBegins ==
    ASSUME Typed, FlushInv, MirrorInv, NEW x \in Imos, LookupCache(x)
    PROVE  LookupInv'
<1> DEFINE fresh == {m \in Unfiled : Held(cache[m]) /\ cache[m].imo # NoImo}
<1>1. /\ lookup' = [imo |-> x, fresh |-> fresh, hits |-> {m \in fresh : cache[m].imo = x},
                    steady |-> {m \in Ships \ Unmirrored : Held(cache[m]) /\ cache[m].imo # NoImo}]
      /\ UNCHANGED <<cache, dirty, flushing, row, mirror, pending, phase, batch, rows>>
    BY DEF LookupCache, cacheVars, recordVars, writerVars
<1>2. ASSUME NEW m \in Ships \ Unmirrored, Held(cache[m]), cache[m].imo # NoImo, m \notin fresh
      PROVE  SameImo(m)
    <2>1. m \notin dirty \union flushing  BY <1>2 DEF Unfiled
    <2>2. m \notin pending /\ \A w \in Writers : m \notin batch[w]
        BY <1>2, <2>1 DEF Unmirrored
    <2>3. Covers(row[m], cache[m])  BY <1>2, <2>1 DEF FlushInv, MarkedOrWritten
    <2>4. row[m].imo = cache[m].imo
        <3>1. row[m] \in State /\ cache[m] \in State  BY DEF Typed, Whole
        <3> QED  BY <1>2, <2>3, <3>1, CoversMeans
    <2>5. mirror[m] = row[m]  BY <2>2 DEF MirrorInv, MirrorFollows
    <2> QED  BY <2>2, <2>4, <2>5 DEF SameImo
<1>3. \A m \in Ships : SameImo(m) => SameImo(m)'  BY <1>1 DEF SameImo
<1> HIDE DEF fresh
<1> QED  BY <1>1, <1>2, <1>3 DEF LookupInv

LEMMA LookupStep == Typed /\ FlushInv /\ MirrorInv /\ LookupInv /\ [Next]_vars => LookupInv'
<1> SUFFICES ASSUME Typed, FlushInv, MirrorInv, LookupInv, [Next]_vars PROVE LookupInv'
    OBVIOUS
<1>1. CASE Restart \/ LookupMirror
    BY <1>1 DEF Restart, LookupMirror, NoLookup, LookupInv
<1>2. CASE \E x \in Imos : LookupCache(x)  BY <1>2, LookupBegins
<1>3. CASE ~Restart /\ /\ lookup'.hits = lookup.hits /\ lookup'.fresh = lookup.fresh /\ lookup'.imo = lookup.imo
                       /\ lookup'.steady \subseteq {m \in lookup.steady : cache'[m].imo = cache[m].imo}
    <2>1. lookup.steady \subseteq Ships  BY DEF Typed, TypeOK
    <2>2. ASSUME NEW m \in lookup'.steady
          PROVE  /\ m \in Ships /\ m \in lookup.steady /\ cache'[m].imo = cache[m].imo /\ cache[m].imo # NoImo
                 /\ m \notin lookup.fresh => SameImo(m)'
        BY <1>3, <2>1, SameImoStep DEF LookupInv
    <2> QED  BY <1>3, <2>2 DEF LookupInv
<1>4. ASSUME FoldElse \/ \E n \in Ships, r \in Reports, t \in 1..now : Fold(n, r, t)
      PROVE  /\ lookup'.hits = lookup.hits /\ lookup'.fresh = lookup.fresh /\ lookup'.imo = lookup.imo
             /\ lookup'.steady \subseteq {m \in lookup.steady : cache'[m].imo = cache[m].imo}
    <2>1. lookup' = [lookup EXCEPT !.steady = Steady(cache')]  BY <1>4 DEF Fold, FoldElse
    <2> QED  BY <2>1 DEF Steady, Typed, TypeOK
<1>5. ASSUME ~Restart, ~LookupMirror, ~\E x \in Imos : LookupCache(x), ~FoldElse,
             ~\E n \in Ships, r \in Reports, t \in 1..now : Fold(n, r, t)
      PROVE  UNCHANGED <<cache, lookup>>
    BY <1>5 DEF Next, vars, FlushBegin, CloseStore, FlushCommit, FlushFail, FlushEnd, ImportCommit, RefreshRead,
       RefreshFail, RefreshFile, Tick, cacheVars
<1> QED  BY <1>1, <1>2, <1>3, <1>4, <1>5

LEMMA LookupInit == Init => LookupInv
    BY DEF Init, NoLookup, LookupInv

\* resolveIMOs: a vessel whose cached IMO stays the same from the read of the
\* cache to that of the mirror is found under it and under no other.
THEOREM LookupsFind == Spec => LookupFinds
<1>1. ASSUME Typed, LookupInv, NEW m \in lookup.steady
      PROVE  m \in Resolved <=> cache[m].imo = lookup.imo
    <2>1. m \in Ships  BY <1>1 DEF Typed, TypeOK
    <2> QED  BY <1>1, <2>1 DEF LookupInv, Resolved, SameImo
<1>2. Typed /\ LookupInv
        => [lookup # NoLookup /\ lookup' = NoLookup /\ nextSweep' = nextSweep
              => \A m \in lookup.steady : m \in Resolved <=> cache[m].imo = lookup.imo]_vars
    BY <1>1
<1> QED
    BY <1>2, RecordTyped, FlushInvInit, FlushInvStep, MirrorInvInit, MirrorInvStep, LookupInit, LookupStep, PTL
       DEF Spec, LookupFinds
=============================================================================
