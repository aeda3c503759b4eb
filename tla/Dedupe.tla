------------------------------- MODULE Dedupe -------------------------------
(* One sentence or rebuilt message at a time through emit: the window that  *)
(* tells a copy from a new transmission, the fold's verdict its copies are  *)
(* written with, and the window's file across a stop                        *)
(* (src/server/pipeline.go, dedupe_state.go, tracks.go).                    *)
EXTENDS Integers, Sequences, FiniteSets, FiniteSetsExt

CONSTANTS
  Payloads,    \* payload and channel together: what dedupe keys on
  Window,      \* dedupeWindow
  PruneAge,    \* 6 * dedupeWindow: how far behind the newest stamp an entry is kept
  PruneEvery,  \* 4096: acceptances from one prune to the next
  Skew,        \* maxSkew
  ReplayAge,   \* replayAge
  Last,        \* bound: the last moment
  Arrivals,    \* bound: receptions
  Boots        \* bound: processes

ASSUME DedupeAssumption ==
  /\ {Window, PruneAge, PruneEvery, Skew, ReplayAge, Last, Arrivals, Boots} \subseteq Nat
  /\ Window > 0 /\ PruneEvery > 0 /\ PruneAge >= Window
  /\ "none" \notin Payloads  \* the key of NoFold

VARIABLES
  now,      \* receive time
  up,       \* the process takes receptions
  boots,    \* processes so far
  chOn,     \* ClickHouse is attached
  order,    \* the ordering lock: NoFold, or the accepted copy that folds under it
  seen,     \* key -> event time of the copy accepted last, for the keys kept
  bad,      \* key -> event time of the transmission judged bad last
  folding,  \* key -> copies that wait for the fold's verdict
  seenHW,   \* the newest event time accepted
  nSeen,    \* acceptances, modulo PruneEvery
  file,     \* dedupe.json
  arrived,  \* receptions so far
  accepted, \* history: the window a process that never crashed should hold
  judged,   \* history: per key, the last transmission, its verdict and its process
  written   \* history: the dedupe copies ClickHouse's queue was given

dedupeVars == <<now, up, boots, chOn, order, seen, bad, folding, seenHW, nSeen, file, arrived,
                accepted, judged, written>>

NoFold == [key |-> "none", at |-> 0]
NoEntries == [k \in {} |-> 0]
Verdicts == {"good", "implausible", "unserved"}  \* unserved: a stale report ClickHouse's writer does not believe
Distance(a, b) == IF a > b THEN a - b ELSE b - a
WithEntry(f, k, v) == [x \in DOMAIN f \union {k} |-> IF x = k THEN v ELSE f[x]]
Without(f, k) == [x \in DOMAIN f \ {k} |-> f[x]]

DedupeInit ==
  /\ now = 0 /\ up = TRUE /\ boots = 1 /\ chOn = FALSE /\ order = NoFold
  /\ seen = NoEntries /\ bad = NoEntries /\ folding = NoEntries /\ seenHW = 0 /\ nSeen = 0
  /\ file = [hw |-> 0, seen |-> NoEntries]
  /\ arrived = 0 /\ accepted = NoEntries /\ judged = NoEntries /\ written = {}

---------------------------------------------------------------------------
(* When a reception happened. *)

Stamps == 0 .. Last + Skew
NoStamp == -1

\* A line's event time: its TAG time within the skew, or any past TAG time of a
\* buffered line; else the source's within the skew; else the receive time.
EventTime(rx) ==
  IF rx.tag # NoStamp /\ (Distance(rx.tag, now) <= Skew \/ (rx.buffered /\ rx.tag < now)) THEN rx.tag
  ELSE IF rx.source # NoStamp /\ Distance(rx.source, now) <= Skew THEN rx.source
  ELSE now

\* A buffered line from before the replay age goes to the raw archive alone.
TooOld(rx) == rx.buffered /\ rx.tag # NoStamp /\ now - rx.tag > ReplayAge

Lines == [tag : Stamps \union {NoStamp}, source : Stamps \union {NoStamp}, buffered : BOOLEAN]
LineTimes == {EventTime(rx) : rx \in {l \in Lines : ~TooOld(l)}}

\* A rebuilt message keeps its source's time however far back, never ahead.
PacketTimes == {IF t > now THEN now ELSE t : t \in Stamps}

---------------------------------------------------------------------------
(* emit. *)

IsCopy(k, t) == k \in DOMAIN seen /\ Distance(t, seen[k]) < Window

\* A copy on ClickHouse's queue: its transmission, and whether reads skip it.
Row(k, flag) == [key |-> k, at |-> seen[k], implausible |-> flag]

\* A copy is written with what the fold made of its transmission. The ordering
\* lock lets none arrive while that folds, so none waits, as one would.
Copy(k, t) ==
  /\ IsCopy(k, t)
  /\ IF k \in DOMAIN folding /\ chOn
     THEN folding' = [folding EXCEPT ![k] = @ \union {Row(k, FALSE)}] /\ UNCHANGED written
     ELSE /\ UNCHANGED folding
          /\ written' = IF chOn THEN written \union {Row(k, k \in DOMAIN bad /\ bad[k] = seen[k])} ELSE written
  /\ UNCHANGED <<order, seen, bad, seenHW, nSeen, accepted>>

Younger(f, cutoff) == [k \in {x \in DOMAIN f : f[x] >= cutoff} |-> f[k]]

\* Mutant: one window behind the newest stamp, where stamps lag by more.
OneWindow(hw) == hw - Window

\* What lags the newest stamp by more is forgotten.
Cutoff(hw) == hw - PruneAge

\* A transmission of its own: its entry, the prune of what lags, and the fold.
Accept(k, t) ==
  LET hw == Max({seenHW, t})
      prune == nSeen + 1 = PruneEvery
      entries == WithEntry(seen, k, t)
  IN  /\ ~IsCopy(k, t)
      /\ seen' = IF prune THEN Younger(entries, Cutoff(hw)) ELSE entries
      /\ bad' = IF prune THEN Younger(bad, Cutoff(hw)) ELSE bad
      /\ folding' = IF chOn THEN WithEntry(folding, k, {}) ELSE folding
      /\ seenHW' = hw
      /\ nSeen' = (nSeen + 1) % PruneEvery
      /\ order' = [key |-> k, at |-> t]
      /\ accepted' = WithEntry(accepted, k, t)
      /\ UNCHANGED written

\* A reception is admitted once the one before it is through.
Admitted == up /\ order = NoFold /\ arrived < Arrivals

Arrive(k, t) ==
  /\ Admitted /\ arrived' = arrived + 1
  /\ Copy(k, t) \/ Accept(k, t)
  /\ UNCHANGED <<now, up, boots, chOn, file, judged>>

ArriveLine(k) == \E t \in LineTimes : Arrive(k, t)
ArrivePacket(k) == \E t \in PacketTimes : Arrive(k, t)

\* Mutant: only what the stream dropped is remembered.
DroppedOnly(verdict) == verdict = "implausible"

\* The verdicts under which a transmission's copies are written implausible.
Unread(verdict) == verdict \in {"implausible", "unserved"}

\* settleFold: the verdict is recorded, and the copies that waited are written
\* with it. Only with ClickHouse attached does a fold find a report unserved.
Settle(verdict) ==
  LET k == order.key
      flag == Unread(verdict)
      settles == chOn \/ verdict = "implausible"
  IN  /\ up /\ order # NoFold
      /\ verdict = "unserved" => chOn
      /\ bad' = IF settles /\ flag THEN WithEntry(bad, k, order.at) ELSE bad
      /\ folding' = IF settles THEN Without(folding, k) ELSE folding
      /\ written' = IF settles /\ k \in DOMAIN folding
                    THEN written \union {[r EXCEPT !.implausible = flag] : r \in folding[k]} ELSE written
      /\ judged' = WithEntry(judged, k, [at |-> order.at, bad |-> verdict # "good", boot |-> boots])
      /\ order' = NoFold
      /\ UNCHANGED <<now, up, boots, chOn, seen, seenHW, nSeen, file, arrived, accepted>>

---------------------------------------------------------------------------
(* The process. *)

Tick == now < Last /\ now' = now + 1
        /\ UNCHANGED <<up, boots, chOn, order, seen, bad, folding, seenHW, nSeen, file, arrived, accepted, judged, written>>

AttachClickHouse ==
  /\ up /\ ~chOn /\ chOn' = TRUE
  /\ UNCHANGED <<now, up, boots, order, seen, bad, folding, seenHW, nSeen, file, arrived, accepted, judged, written>>

Gone ==
  /\ up' = FALSE /\ chOn' = FALSE /\ order' = NoFold
  /\ seen' = NoEntries /\ bad' = NoEntries /\ folding' = NoEntries /\ seenHW' = 0 /\ nSeen' = 0

\* A stop waits out the reception in flight, then saves the window.
SaveDedupe ==
  /\ up /\ order = NoFold
  /\ file' = [hw |-> seenHW, seen |-> Younger(seen, Cutoff(seenHW))]
  /\ Gone
  /\ UNCHANGED <<now, boots, arrived, accepted, judged, written>>

\* A crash leaves the last clean stop's file.
Crash ==
  /\ up /\ Gone
  /\ accepted' = NoEntries
  /\ UNCHANGED <<now, boots, file, arrived, judged, written>>

LoadDedupe ==
  /\ ~up /\ boots < Boots
  /\ up' = TRUE /\ boots' = boots + 1
  /\ seen' = file.seen /\ seenHW' = file.hw
  /\ UNCHANGED <<now, chOn, order, bad, folding, nSeen, file, arrived, accepted, judged, written>>

DedupeNext ==
  \/ \E k \in Payloads : ArriveLine(k) \/ ArrivePacket(k)
  \/ \E verdict \in Verdicts : Settle(verdict)
  \/ Tick \/ AttachClickHouse \/ SaveDedupe \/ Crash \/ LoadDedupe

DedupeSpec == DedupeInit /\ [][DedupeNext]_dedupeVars

---------------------------------------------------------------------------
(* Properties. *)

JudgedBad(r) == r.key \in DOMAIN judged' /\ judged'[r.key].at = r.at /\ judged'[r.key].bad

\* A copy of a transmission this process judged bad is never queued as one that
\* reads serve, however much later it comes: `bad` has the verdict for as long as
\* the window, pruned apart from it, has the transmission. A stop saves the
\* window and not the verdicts, so it says nothing of an earlier process's.
CopiesCarryVerdict ==
  [][\A r \in written' \ written : JudgedBad(r) /\ judged'[r.key].boot = boots => r.implausible]_dedupeVars

\* Unless a crash lost the window, a transmission is accepted within the window
\* of the one accepted last under its key only when that one lagged the newest
\* stamp by more than the prune age: the prune, the save and the load forget
\* nothing younger.
AcceptedOnce ==
  [][\A k \in DOMAIN accepted :
       order = NoFold /\ order'.key = k /\ Distance(order'.at, accepted[k]) < Window
         => accepted[k] < seenHW' - PruneAge]_dedupeVars
=============================================================================
