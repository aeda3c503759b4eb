----------------------------- MODULE UsageRings -----------------------------
(* What the server counts of each station across restarts: its ring of      *)
(* events per clock hour, which earns the feeder tier, claimed from the     *)
(* usage file when the station is heard again (src/server/stats.go,         *)
(* stations.go, main.go). The rings of the sources and of the whole are     *)
(* kept the same way and claimed at once.                                   *)
EXTENDS Integers, FiniteSets, FiniteSetsExt

CONSTANTS
  Sensors,     \* stations
  RingHours,   \* hours a ring holds: 7 * 24
  LastHour,    \* bound: the last hour
  Sightings,   \* bound: events
  Exits        \* bound: stops and crashes

ASSUME RingsAssumption ==
  /\ {RingHours, LastHour, Sightings, Exits} \subseteq Nat /\ RingHours > 0 /\ LastHour > RingHours
  /\ IsFiniteSet(Sensors)

VARIABLES
  hour,      \* clock hours
  stats,     \* stationStats.m: each station's ring
  restored,  \* rings of the usage file not claimed yet
  usage,     \* the usage file, with the counts it was saved for
  saver,     \* saveUsage by the ticker
  sighted,   \* events so far
  exits,     \* stops and crashes so far
  truth      \* history: events per station and hour, as far as they were saved

ringVars == <<hour, stats, restored, usage, saver, sighted, exits, truth>>

Slots == 0 .. RingHours - 1
ClockHours == 0 .. LastHour + 1
NoRing == [at |-> 0, b |-> [i \in Slots |-> 0]]
NoRings == [s \in {} |-> NoRing]
NoUsage == [rings |-> NoRings, truth |-> [s \in Sensors |-> [h \in ClockHours |-> 0]]]
NoSave == [pc |-> "idle", shot |-> NoUsage]

\* The first hour is later than a ring is long, as today's is.
RingsInit ==
  /\ hour = RingHours + 1
  /\ stats = NoRings /\ restored = NoRings
  /\ usage = NoUsage /\ saver = NoSave
  /\ sighted = 0 /\ exits = 0 /\ truth = NoUsage.truth

---------------------------------------------------------------------------
(* hourRing. *)

\* add: the slots since the newest hour are cleared first, those of one turn
\* at most, and a late event still goes into its hour's.
Added(r, h) ==
  LET since == {j % RingHours : j \in r.at + 1 .. Min({h, r.at + RingHours})}
      kept  == [i \in Slots |-> IF i \in since THEN 0 ELSE r.b[i]]
      at    == Max({r.at, h})
  IN  [at |-> at, b |-> IF at - h < RingHours THEN [kept EXCEPT ![h % RingHours] = @ + 1] ELSE kept]

\* sum, over the hours ending now.
Summed(r, hours) ==
  MapThenSumSet(LAMBDA hh : IF hh <= r.at /\ r.at - hh < RingHours THEN r.b[hh % RingHours] ELSE 0,
                hour - hours + 1 .. hour)

\* events24h: a station not heard since the start by its restored ring.
Counted(s, hours) == Summed(IF s \in DOMAIN stats THEN stats[s] ELSE IF s \in DOMAIN restored THEN restored[s] ELSE NoRing, hours)

Stale(r) == hour - r.at >= RingHours

---------------------------------------------------------------------------
(* Stations heard. *)

\* get: a station heard again claims what was restored of it, once.
RingOf(s) == IF s \in DOMAIN stats THEN stats[s] ELSE IF s \in DOMAIN restored THEN restored[s] ELSE NoRing

Hears(s, ring) ==
  /\ sighted < Sightings /\ sighted' = sighted + 1
  /\ stats' = [t \in DOMAIN stats \union {s} |-> IF t = s THEN ring ELSE stats[t]]
  /\ restored' = [t \in DOMAIN restored \ {s} |-> restored[t]]
  /\ UNCHANGED <<hour, usage, saver, exits>>

\* The hours of a stamp: a buffered line's may be older than a ring is long, and
\* a TAG or source time is taken up to maxSkew ahead of the clock.
Stamped == {hour + 1, hour, hour - 1, hour - RingHours}

\* An event counts in its stamp's hour.
Event(s, at) ==
  /\ Hears(s, Added(RingOf(s), at))
  /\ truth' = [truth EXCEPT ![s][at] = @ + 1]

\* A copy dedupe dropped counts no event.
Dup(s) == Hears(s, RingOf(s)) /\ UNCHANGED truth

NextHour == hour < LastHour /\ hour' = hour + 1 /\ UNCHANGED <<stats, restored, usage, saver, sighted, exits, truth>>

---------------------------------------------------------------------------
(* The usage file, and the process. *)

\* Mutant: only the stations heard since the start are saved.
HeardOnly == DOMAIN stats

\* rings: those not claimed yet with the live ones, none that is stale.
Saved == DOMAIN stats \union DOMAIN restored

Shot == [rings |-> [s \in {t \in Saved : ~Stale(RingOf(t))} |-> RingOf(s)], truth |-> truth]

SnapUsage ==
  /\ saver.pc = "idle" /\ saver' = [pc |-> "write", shot |-> Shot]
  /\ UNCHANGED <<hour, stats, restored, usage, sighted, exits, truth>>

\* Written beside the file and renamed over it, or failed.
PutUsage ==
  /\ saver.pc = "write" /\ saver' = NoSave
  /\ usage' \in {saver.shot, usage}
  /\ UNCHANGED <<hour, stats, restored, sighted, exits, truth>>

\* The process ends, and the next loads the file.
Reload(file) ==
  /\ exits < Exits /\ exits' = exits + 1
  /\ usage' = file /\ restored' = file.rings /\ truth' = file.truth
  /\ stats' = NoRings /\ saver' = NoSave
  /\ UNCHANGED <<hour, sighted>>

\* A clean stop saves. The ticker's save shares its temporary file: begun
\* before it, the older counts may be renamed into place, or a file cut short,
\* which the next process cannot read.
Stop == \E file \in {Shot} \union (IF saver.pc = "write" THEN {saver.shot, NoUsage} ELSE {}) : Reload(file)

Killed == Reload(usage)

RingsNext ==
  \/ \E s \in Sensors : Dup(s) \/ \E at \in Stamped : Event(s, at)
  \/ NextHour \/ SnapUsage \/ PutUsage \/ Stop \/ Killed

RingsSpec == RingsInit /\ [][RingsNext]_ringVars

---------------------------------------------------------------------------
(* Properties. *)

\* add opens the next hour for a stamp ahead of the clock, in the oldest one's slot.
Remembered(s, h) == IF h = hour + 1 - RingHours /\ truth[s][hour + 1] > 0 THEN 0 ELSE truth[s][h]

\* Restored or live, late, ahead of the clock or long silent, a station's events
\* over the hours ending now are those since the start and those of the file it
\* started from, whichever of its stations have been heard again: exactly in
\* events24h, which the feeder tier asks, and in last_7d but for the oldest of
\* its hours while an event of the next one has been counted (add, sum).
RingsCountTheirHours ==
  \A s \in Sensors, hours \in 1..RingHours :
    Counted(s, hours) = MapThenSumSet(LAMBDA h : Remembered(s, h), hour - hours + 1 .. hour)
=============================================================================
