----------------------------- MODULE StaticStates -----------------------------
(* The history of static states: gathered from every copy of a message and  *)
(* from AISHub's snapshots, written in batches, and seeded once from the     *)
(* vessel record (src/server/statics.go, aishub.go, clickhouse.go). A state  *)
(* is what one message carries, in a row of its own per source and day with  *)
(* when it was first and last heard.                                         *)
EXTENDS Integers, FiniteSets, FiniteSetsExt, Functions

CONSTANTS
  Hulks,       \* vessels
  Fields,      \* what a static message says
  DayLength,   \* moments in a day
  BadAge,      \* clockBadAge
  MaxStatics,  \* maxStaticsPending
  LastMoment,  \* bound: the last moment
  Copies,      \* bound: messages, and rows AISHub and the record change
  Troubles     \* bound: inserts and seeds that fail, stops and crashes

ASSUME StaticsAssumption ==
  /\ {DayLength, BadAge, MaxStatics, LastMoment, Copies, Troubles} \subseteq Nat
  /\ DayLength > 0 /\ MaxStatics > 0 /\ LastMoment > 0
  /\ IsFiniteSet(Hulks) /\ IsFiniteSet(Fields)

VARIABLES
  time,      \* receive time
  on,        \* ClickHouse is attached: chStatics is not nil
  gathered,  \* chStatics: row -> first and last time
  sending,   \* flushStatics' batch
  statics,   \* the table
  hubRow,    \* AISHub's row of each vessel
  hubAt,     \* aishubStaticAt: the TIME last noted, 0 for none
  record,    \* the vessel record's static state of each vessel
  seed,      \* seedStatics: its read of the record, and what it has yet to insert
  seeded,    \* statics_seeded
  counts,    \* copies and troubles so far
  noted,     \* history: what was heard, less what was dropped or lost with a process
  passedOver \* history: rows dropped or of a bad clock

staticsVars == <<time, on, gathered, sending, statics, hubRow, hubAt, record, seed, seeded, counts, noted, passedOver>>

NoStatics == [k \in {} |-> [first |-> 0, last |-> 0]]
RowOf(source, v, fields, t) == <<source, v, fields, t \div DayLength>>
Nothing == [at |-> 0, fields |-> "none"]
NotSeeding == [pc |-> "idle", left |-> NoStatics]

\* Minimum and maximum of the times of both, as AggregatingMergeTree merges rows.
Spanning(f, g) ==
  [k \in DOMAIN f \union DOMAIN g |->
     IF k \notin DOMAIN f THEN g[k] ELSE IF k \notin DOMAIN g THEN f[k]
     ELSE [first |-> Min({f[k].first, g[k].first}), last |-> Max({f[k].last, g[k].last})]]

At(k, t) == [x \in {k} |-> [first |-> t, last |-> t]]

StaticsInit ==
  /\ time = 1 /\ on = FALSE
  /\ gathered = NoStatics /\ sending = NoStatics /\ statics = NoStatics
  /\ hubRow = [v \in Hulks |-> Nothing] /\ hubAt = [v \in Hulks |-> 0]
  /\ record = [v \in Hulks |-> Nothing] /\ seed = NotSeeding /\ seeded = FALSE
  /\ counts = [copies |-> 0, troubles |-> 0]
  /\ noted = NoStatics /\ passedOver = {}

OneMore == counts.copies < Copies /\ counts' = [counts EXCEPT !.copies = @ + 1]
Trouble == counts.troubles < Troubles /\ counts' = [counts EXCEPT !.troubles = @ + 1]

\* attachClickHouse.
Attach ==
  /\ ~on /\ on' = TRUE
  /\ UNCHANGED <<time, gathered, sending, statics, hubRow, hubAt, record, seed, seeded, counts, noted, passedOver>>

MomentPasses ==
  /\ time < LastMoment /\ time' = time + 1
  /\ UNCHANGED <<on, gathered, sending, statics, hubRow, hubAt, record, seed, seeded, counts, noted, passedOver>>

---------------------------------------------------------------------------
(* Messages. *)

BadClock(t) == time - t >= BadAge
Full(rows, k) == k \notin DOMAIN rows /\ Cardinality(DOMAIN rows) >= MaxStatics

\* noteStaticPacket: nothing of a bad clock, and no new row past the bound.
Keeps(k, t) == on /\ ~BadClock(t) /\ ~Full(gathered, k)
Gathers(k, t) ==
  IF Keeps(k, t)
  THEN gathered' = Spanning(gathered, At(k, t)) /\ noted' = Spanning(noted, At(k, t)) /\ UNCHANGED passedOver
  ELSE /\ passedOver' = IF on THEN passedOver \union {<<k, t>>} ELSE passedOver
       /\ UNCHANGED <<gathered, noted>>

\* A static message, stamped now or late.
Message(v, fields, t) ==
  /\ OneMore /\ Gathers(RowOf("live", v, fields, t), t)
  /\ UNCHANGED <<time, on, sending, statics, hubRow, hubAt, record, seed, seeded>>

\* AISHub hears a vessel.
HubHears(v, fields) ==
  /\ OneMore /\ hubRow[v].at # time
  /\ hubRow' = [hubRow EXCEPT ![v] = [at |-> time, fields |-> fields]]
  /\ UNCHANGED <<time, on, gathered, sending, statics, hubAt, record, seed, seeded, noted, passedOver>>

\* Mutant: a TIME is noted before there is anything to note it for.
AnyTime(v) == hubRow[v].at > hubAt[v]

\* aishubStaticMoved.
Moved(v) == on /\ hubRow[v].at > hubAt[v]

\* ingestAishub's row of a vessel, of the snapshot it serves now.
SnapshotRow(v) ==
  LET row == hubRow[v] IN
  /\ row # Nothing /\ Moved(v)
  /\ hubAt' = [hubAt EXCEPT ![v] = row.at]
  /\ Gathers(RowOf("aishub", v, row.fields, row.at), row.at)
  /\ UNCHANGED <<time, on, sending, statics, hubRow, record, seed, seeded, counts>>

\* pruneAishubStatics.
PruneHub ==
  /\ \E v \in Hulks : hubAt[v] > 0 /\ hubAt[v] < time - BadAge
  /\ hubAt' = [v \in Hulks |-> IF hubAt[v] < time - BadAge THEN 0 ELSE hubAt[v]]
  /\ UNCHANGED <<time, on, gathered, sending, statics, hubRow, record, seed, seeded, counts, noted, passedOver>>

---------------------------------------------------------------------------
(* flushStatics. *)

TakeStatics ==
  /\ on /\ sending = NoStatics /\ gathered # NoStatics
  /\ sending' = gathered /\ gathered' = NoStatics
  /\ UNCHANGED <<time, on, statics, hubRow, hubAt, record, seed, seeded, counts, noted, passedOver>>

SendStatics ==
  /\ sending # NoStatics
  /\ statics' = Spanning(statics, sending) /\ sending' = NoStatics
  /\ UNCHANGED <<time, on, gathered, hubRow, hubAt, record, seed, seeded, counts, noted, passedOver>>

\* Rows of the batch that fit back, in the map's own order.
Fitting ==
  {back \in SUBSET DOMAIN sending :
     /\ DOMAIN sending \intersect DOMAIN gathered \subseteq back
     /\ Cardinality(back \union DOMAIN gathered) <= MaxStatics
     /\ back = DOMAIN sending \/ Cardinality(back \union DOMAIN gathered) = MaxStatics}

PutBack(back) == Spanning(gathered, Restrict(sending, back))

\* The insert fails, though ClickHouse may have it; the rest is dropped.
FailStatics ==
  /\ sending # NoStatics /\ Trouble
  /\ \E back \in Fitting, landed \in BOOLEAN :
       /\ gathered' = PutBack(back)
       /\ statics' = IF landed THEN Spanning(statics, sending) ELSE statics
       /\ LET lost == IF landed THEN {} ELSE DOMAIN sending \ back IN
            /\ noted' = [k \in (DOMAIN noted \ lost) \union (lost \intersect DOMAIN statics) |->
                           IF k \in lost THEN statics[k] ELSE noted[k]]
            /\ passedOver' = passedOver \union (lost \X (1..LastMoment))
  /\ sending' = NoStatics
  /\ UNCHANGED <<time, on, hubRow, hubAt, record, seed, seeded>>

\* The process ends; a clean stop's drain sends what waits unless it fails too.
EndProcess(table) ==
  /\ Trouble
  /\ statics' = table /\ noted' = table
  /\ on' = FALSE /\ gathered' = NoStatics /\ sending' = NoStatics
  /\ hubAt' = [v \in Hulks |-> 0] /\ seed' = NotSeeding
  /\ UNCHANGED <<time, hubRow, record, seeded, passedOver>>

EndsClean == EndProcess(Spanning(statics, Spanning(sending, gathered)))
EndsAbruptly == EndProcess(statics)

---------------------------------------------------------------------------
(* The seed: runStatics and seedStatics. *)

\* The record folds a static state in.
RecordFolds(v, fields) ==
  /\ OneMore /\ record' = [record EXCEPT ![v] = [at |-> time, fields |-> fields]]
  /\ UNCHANGED <<time, on, gathered, sending, statics, hubRow, hubAt, seed, seeded, noted, passedOver>>

RecordRows ==
  LET known == {v \in Hulks : record[v] # Nothing}
      key(v) == RowOf("record", v, record[v].fields, record[v].at)
  IN  [k \in {key(v) : v \in known} |-> LET v == CHOOSE u \in known : key(u) = k IN [first |-> record[v].at, last |-> record[v].at]]

BeginSeed ==
  /\ on /\ ~seeded /\ seed.pc = "idle"
  /\ seed' = [pc |-> "rows", left |-> RecordRows]
  /\ UNCHANGED <<time, on, gathered, sending, statics, hubRow, hubAt, record, seeded, counts, noted, passedOver>>

\* A batch of the read's rows.
SeedSome ==
  /\ seed.pc = "rows"
  /\ \E some \in SUBSET DOMAIN seed.left \ {{}} :
       /\ statics' = Spanning(statics, Restrict(seed.left, some))
       /\ noted' = Spanning(noted, Restrict(seed.left, some))
       /\ seed' = [seed EXCEPT !.left = Restrict(@, DOMAIN @ \ some)]
  /\ UNCHANGED <<time, on, gathered, sending, hubRow, hubAt, record, seeded, counts, passedOver>>

FailSeed ==
  /\ seed.pc = "rows" /\ Trouble /\ seed' = NotSeeding
  /\ UNCHANGED <<time, on, gathered, sending, statics, hubRow, hubAt, record, seeded, noted, passedOver>>

EndSeed ==
  /\ seed.pc = "rows" /\ seed.left = NoStatics
  /\ seed' = NotSeeding /\ seeded' = TRUE
  /\ UNCHANGED <<time, on, gathered, sending, statics, hubRow, hubAt, record, counts, noted, passedOver>>

StaticsNext ==
  \/ \E v \in Hulks : \/ \E fields \in Fields : \/ \E t \in 1..time : Message(v, fields, t)
                                               \/ HubHears(v, fields) \/ RecordFolds(v, fields)
                      \/ SnapshotRow(v)
  \/ Attach \/ MomentPasses \/ PruneHub \/ TakeStatics \/ SendStatics \/ FailStatics
  \/ EndsClean \/ EndsAbruptly \/ BeginSeed \/ SeedSome \/ FailSeed \/ EndSeed

StaticsSpec == StaticsInit /\ [][StaticsNext]_staticsVars

---------------------------------------------------------------------------
(* Properties. *)

\* Written, on its way or waiting, each state's first and last times are those
\* it was heard at, less what the bound dropped and what went with a process;
\* and no more wait than the bound.
NothingHeardIsLost ==
  /\ Spanning(statics, Spanning(sending, gathered)) = noted
  /\ Cardinality(DOMAIN gathered) <= MaxStatics

\* An AISHub TIME is passed over only once its row is kept, dropped past the
\* bound, or a bad clock's, so the snapshot that repeats it may be skipped.
SkippedRowsAreKept ==
  \A v \in Hulks : hubAt[v] > 0 =>
    \E fields \in Fields :
      LET k == RowOf("aishub", v, fields, hubAt[v]) IN
        \/ k \in DOMAIN noted /\ hubAt[v] \in noted[k].first .. noted[k].last
        \/ <<k, hubAt[v]>> \in passedOver

\* Each state heard is accounted for, from a receiver or from a snapshot
\* (insertStatics, noteAISHub).
StatesAreKept == NothingHeardIsLost /\ SkippedRowsAreKept
=============================================================================
