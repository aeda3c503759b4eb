----------------------------- MODULE RawReplay -----------------------------
(* What the adapters are given live, as the raw archive keeps it, and the   *)
(* replay that merges the archive and gives it to them again: admission     *)
(* under the ordering lock, records and their marks, one reader per source,    *)
(* dispatch (src/server/pipeline.go, archive.go, ingest.go, replay.go). A   *)
(* crash is left to Archive: hours it cut short fail a replay.              *)
EXTENDS Integers, Sequences, FiniteSets

CONSTANTS
  Inputs,     \* kinds of receptions: [via, source, shape, buffered]
  HourTicks,  \* ticks in an hour
  DayHours,   \* hours in a day
  Warmup,     \* how long before a day its replay begins, to build up state
  Received,   \* bound: receptions
  Queued,     \* capacity of the archive's queue
  RawStops    \* bound: stops

Vias == {"receive", "publish", "socket", "feed"}  \* socket: UDP and TCP, lines from no one known
Shapes == {"line", "envelope", "own"}  \* envelope: a body that parses as AIS-catcher's; own: a feed's format

\* The sources are apart as their names are: station: for /v1/receive and
\* publishers, others for sockets, a feed's own name. A body of /v1/receive that
\* opens like an envelope is one or is refused; its lines look like none.
ASSUME RawAssumption ==
  /\ {HourTicks, DayHours, Warmup, Received, Queued, RawStops} \subseteq Nat
  /\ HourTicks > 0 /\ DayHours > 0 /\ Queued > 0
  /\ \A k \in Inputs : /\ k.via \in Vias /\ k.shape \in Shapes /\ k.buffered \in BOOLEAN
                       /\ k.buffered => k.via = "publish"
                       /\ (k.via = "feed") = (k.shape = "own")
  /\ \A j, k \in Inputs : j.source = k.source => \/ j.via = k.via
                                                 \/ {j.via, k.via} \subseteq {"receive", "publish"}

VARIABLES
  instant,    \* the time; each reading is later than the one before
  waiting,    \* receptions whose adapter waits at admit
  serving,    \* "up", "closing" (receptions are turned away), "down"
  unwritten,  \* the archive's queue
  hours,      \* source -> hour -> records of its file
  live,       \* history: what the adapters were given, in order
  sent,       \* receptions so far
  ends,       \* stops so far
  replaying   \* the replay: its range, what each source's reader has left, what it gave the adapters

rawVars == <<instant, waiting, serving, unwritten, hours, live, sent, ends, replaying>>

Sources == {k.source : k \in Inputs}
Feeds == {k.source : k \in {j \in Inputs : j.via = "feed"}}
Stationed == {k.source : k \in {j \in Inputs : j.via \in {"receive", "publish"}}}
MaxClock == 2 * Received
HourOfTick(t) == t \div HourTicks
HourRange == 0 .. HourOfTick(MaxClock)
NotReplaying == [pc |-> "idle", floor |-> 0, to |-> 0, left |-> [s \in Sources |-> {}], out |-> <<>>]

RawInit ==
  /\ instant = 0 /\ waiting = {} /\ serving = "up" /\ unwritten = <<>>
  /\ hours = [s \in Sources |-> [h \in HourRange |-> <<>>]]
  /\ live = <<>> /\ sent = 0 /\ ends = 0 /\ replaying = NotReplaying

---------------------------------------------------------------------------
(* Live. *)

\* The adapter a reception goes to, which its transport decides.
LiveAdapter(k) ==
  IF k.via = "feed" THEN k.source
  ELSE IF k.via = "receive" /\ k.shape = "envelope" THEN "catcher" ELSE "lines"

\* A request, a frame, a datagram or a fetch begins, and takes the time.
Start(k) ==
  /\ serving # "down" /\ sent < Received
  /\ sent' = sent + 1 /\ instant' = instant + 1
  /\ waiting' = waiting \union {[id |-> sent + 1, kind |-> k, taken |-> instant]}
  /\ UNCHANGED <<serving, unwritten, hours, live, ends, replaying>>

\* Mutant: the time the adapter took before it waited.
TimeTaken(w) == w.taken

\* Read again inside the lock.
Stamp(w) == instant

\* What the station's name is followed by, in this order.
Marks(k) == (IF k.via = "publish" THEN <<"published">> ELSE <<>>) \o (IF k.buffered THEN <<"buffered">> ELSE <<>>)

Record(w) == [id |-> w.id, recv |-> Stamp(w), source |-> w.kind.source, shape |-> w.kind.shape, marks |-> Marks(w.kind)]

Fed(id, recv, adapter, buffered) == [id |-> id, recv |-> recv, adapter |-> adapter, buffered |-> buffered]

\* One reception at a time: stamped, archived and processed under order. A full
\* queue holds it up; a stop waits for those past the check of closing.
AdmitOne(w) ==
  /\ serving # "down" /\ Len(unwritten) < Queued
  /\ unwritten' = Append(unwritten, Record(w))
  /\ live' = Append(live, Fed(w.id, Stamp(w), LiveAdapter(w.kind), w.kind.buffered))
  /\ instant' = instant + 1 /\ waiting' = waiting \ {w}
  /\ UNCHANGED <<serving, hours, sent, ends, replaying>>

\* One that finds closing set.
TurnAway(w) ==
  /\ serving = "closing"
  /\ waiting' = waiting \ {w}
  /\ UNCHANGED <<instant, serving, unwritten, hours, live, sent, ends, replaying>>

\* The writer puts a record in the file of its source and its own hour.
HandleRecord ==
  /\ serving # "down" /\ unwritten # <<>>
  /\ LET rx == Head(unwritten) IN
       hours' = [hours EXCEPT ![rx.source][HourOfTick(rx.recv)] = Append(@, rx)]
  /\ unwritten' = Tail(unwritten)
  /\ UNCHANGED <<instant, waiting, serving, live, sent, ends, replaying>>

CloseIntake ==
  /\ serving = "up" /\ ends < RawStops
  /\ serving' = "closing" /\ ends' = ends + 1
  /\ UNCHANGED <<instant, waiting, unwritten, hours, live, sent, replaying>>

\* The writer has drained its queue; what waits is dropped with the process.
StopServing ==
  /\ serving = "closing" /\ unwritten = <<>>
  /\ serving' = "down" /\ waiting' = {}
  /\ UNCHANGED <<instant, unwritten, hours, live, sent, ends, replaying>>

StartServing ==
  /\ serving = "down"
  /\ serving' = "up"
  /\ UNCHANGED <<instant, waiting, unwritten, hours, live, sent, ends, replaying>>

---------------------------------------------------------------------------
(* Replay. *)

\* The places in a source's files whose hours overlap the range, less those of
\* records from before it.
ReaderOf(s, floor, to) ==
  UNION {{h} \X {i \in DOMAIN hours[s][h] : hours[s][h][i].recv >= floor} :
           h \in {j \in HourRange : j >= HourOfTick(floor) /\ j * HourTicks < to}}

RecordAt(s, place) == hours[s][place[1]][place[2]]

DayTicks == DayHours * HourTicks

\* A day is replayed, with the time before it, once its hours are past and on
\* disk.
ReplayStarts(day) ==
  LET to == (day + 1) * DayTicks
      floor == IF day * DayTicks > Warmup THEN day * DayTicks - Warmup ELSE 0
  IN  /\ replaying.pc = "idle" /\ to <= instant
      /\ \A i \in DOMAIN unwritten : unwritten[i].recv >= to
      /\ replaying' = [pc |-> "merging", floor |-> floor, to |-> to,
                       left |-> [s \in Sources |-> ReaderOf(s, floor, to)], out |-> <<>>]
      /\ UNCHANGED <<instant, waiting, serving, unwritten, hours, live, sent, ends>>

\* The marks come off in the opposite order.
EndsWith(marks, n, mark) == n > 0 /\ marks[n] = mark
Buffered(rx) == EndsWith(rx.marks, Len(rx.marks), "buffered")
Published(rx) == EndsWith(rx.marks, IF Buffered(rx) THEN Len(rx.marks) - 1 ELSE Len(rx.marks), "published")

\* The adapter a record goes to, which its mark, its source and its body decide.
Dispatched(s, rx) ==
  IF Published(rx) THEN "lines"
  ELSE IF s \in Feeds THEN s
  ELSE IF s \in Stationed /\ rx.shape = "envelope" THEN "catcher" ELSE "lines"

\* A reader is at the first place it has left, in its earliest file: files go by
\* their names, and lines as they were written.
Reads(s, p) ==
  /\ p \in replaying.left[s]
  /\ \A q \in replaying.left[s] : p[1] < q[1] \/ (p[1] = q[1] /\ p[2] <= q[2])

\* The reader whose record is the earliest: no two are of one time.
ReadsFirst(s, p) ==
  /\ Reads(s, p)
  /\ \A r \in Sources : \A q \in replaying.left[r] : Reads(r, q) => RecordAt(s, p).recv <= RecordAt(r, q).recv

\* Its record goes to the adapter; past the range, the source is done with.
ReplayNext(s, p) ==
  /\ replaying.pc = "merging" /\ ReadsFirst(s, p)
  /\ LET rx == RecordAt(s, p) IN
       replaying' = IF rx.recv >= replaying.to THEN [replaying EXCEPT !.left[s] = {}]
                    ELSE [replaying EXCEPT !.left[s] = @ \ {p},
                                           !.out = Append(@, Fed(rx.id, rx.recv, Dispatched(s, rx), Buffered(rx)))]
  /\ UNCHANGED <<instant, waiting, serving, unwritten, hours, live, sent, ends>>

RawNext ==
  \/ \E k \in Inputs : Start(k)
  \/ \E w \in waiting : AdmitOne(w) \/ TurnAway(w)
  \/ HandleRecord \/ CloseIntake \/ StopServing \/ StartServing
  \/ \E day \in 0 .. MaxClock \div DayTicks : ReplayStarts(day)
  \/ \E s \in Sources : \E p \in replaying.left[s] : ReplayNext(s, p)

RawSpec == RawInit /\ [][RawNext]_rawVars

---------------------------------------------------------------------------
(* Properties. *)

\* A replay gives the adapters what live gave them in its range, each reception
\* to the same adapter, with the same time and in the same order, across sources,
\* hours and stops: admit stamps inside the lock that orders processing, handle
\* marks what the path does not tell, and replayReaders merges.
ReplayIsLive ==
  replaying.pc = "merging" /\ (\A s \in Sources : replaying.left[s] = {}) =>
    \E from, upto \in 0 .. Len(live) :
      /\ replaying.out = SubSeq(live, from + 1, upto)
      /\ \A i \in DOMAIN live : i \in from + 1 .. upto <=> live[i].recv >= replaying.floor /\ live[i].recv < replaying.to
=============================================================================
