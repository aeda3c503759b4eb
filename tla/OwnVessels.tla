----------------------------- MODULE OwnVessels -----------------------------
(* Which vessel a station is on: the MMSIs it sends as its own, kept in the *)
(* process and in ClickHouse's station_own, brought back after a restart,   *)
(* and decided on every minute (src/server/stations.go, names.go,           *)
(* pipeline.go, tracks.go, clickhouse.go, stationseries.go). The allowances *)
(* that drop sightings of too many vessels or stations are left out.        *)
EXTENDS Integers, FiniteSets, FiniteSetsExt

CONSTANTS
  Masts,       \* stations
  OwnShips,    \* MMSIs stations send as their own
  OwnSettle,   \* ownSettle
  Forget,      \* stationVesselTTL
  LastTick,    \* bound: the last moment
  Sendings,    \* bound: own-ship messages
  Restarts     \* bound: stops and crashes

ASSUME OwnAssumption ==
  /\ {OwnSettle, Forget, LastTick, Sendings, Restarts} \subseteq Nat
  /\ 0 < OwnSettle /\ OwnSettle < Forget
  /\ IsFiniteSet(Masts) /\ IsFiniteSet(OwnShips)

VARIABLES
  tick,      \* the time
  heardOf,   \* stationStats.m: the stations listed
  cands,     \* stationStat.own of those: when each vessel was last sent
  restOwn,   \* restoredOwn
  pending,   \* ownPending
  unsent,    \* chOwn: sightings to write
  ownTable,  \* station_own
  decider,   \* refreshOwn
  own,       \* stationMeta.Own
  sendings,  \* messages so far
  restarts,  \* stops and crashes so far
  told,      \* history: when each vessel was last sent, as far as was written
  back       \* history: this process has its candidates back

ownVars == <<tick, heardOf, cands, restOwn, pending, unsent, ownTable, decider, own, sendings, restarts, told, back>>

NotSent == 0
NoCands == [s \in Masts |-> [o \in OwnShips |-> NotSent]]
NotDeciding == [pc |-> "idle", cands |-> NoCands, told |-> NoCands, now |-> 0, back |-> FALSE]
Latest(f, g) == [s \in Masts |-> [o \in OwnShips |-> Max({f[s][o], g[s][o]})]]

OwnInit ==
  /\ tick = 1 /\ heardOf = {} /\ cands = NoCands /\ restOwn = NoCands /\ pending = TRUE
  /\ unsent = NoCands /\ ownTable = NoCands
  /\ decider = NotDeciding /\ own = [s \in Masts |-> "none"]
  /\ sendings = 0 /\ restarts = 0 /\ told = NoCands /\ back = FALSE

---------------------------------------------------------------------------
(* Messages. *)

\* noteOwn, for ClickHouse: whatever is made of the message, its latest time.
Gather(s, o, at) ==
  /\ sendings < Sendings /\ sendings' = sendings + 1
  /\ unsent' = [unsent EXCEPT ![s][o] = Max({@, at})]

\* Mutant: a station heard again forgets what was brought back of it.
BeginsAnew(s) == cands[s]

\* get: a station heard first claims what was brought back of it.
Claimed(s) == IF s \in heardOf THEN cands[s] ELSE Latest(cands, restOwn)[s]

Lists(s) == heardOf' = heardOf \union {s} /\ restOwn' = [restOwn EXCEPT ![s] = NoCands[s]]

\* An accepted copy or a duplicate: stationStat.noteOwn takes the time of the
\* message that came last, a late copy's too.
SendOwn(s, o, at) ==
  /\ Gather(s, o, at) /\ Lists(s)
  /\ cands' = [cands EXCEPT ![s] = [Claimed(s) EXCEPT ![o] = at]]
  /\ told' = [told EXCEPT ![s][o] = at]
  /\ UNCHANGED <<tick, pending, ownTable, decider, own, restarts, back>>

\* Accepted, but stale or implausible: it reaches ClickHouse alone.
SendOvertaken(s, o, at) ==
  /\ Gather(s, o, at)
  /\ UNCHANGED <<tick, heardOf, cands, restOwn, pending, ownTable, decider, own, restarts, told, back>>

\* Any other message.
Send(s) ==
  /\ s \notin heardOf /\ Lists(s)
  /\ cands' = [cands EXCEPT ![s] = Claimed(s)]
  /\ UNCHANGED <<tick, pending, unsent, ownTable, decider, own, sendings, restarts, told, back>>

\* Time passes, and the sweep forgets what a station has not sent since.
TimePasses ==
  /\ tick < LastTick /\ tick' = tick + 1
  /\ cands' = [s \in Masts |-> [o \in OwnShips |-> IF cands[s][o] < tick' - Forget THEN NotSent ELSE cands[s][o]]]
  /\ UNCHANGED <<heardOf, restOwn, pending, unsent, ownTable, decider, own, sendings, restarts, told, back>>

\* flushOwn: a failed insert puts the sightings back.
FlushOwn ==
  /\ unsent # NoCands /\ unsent' = NoCands /\ ownTable' = Latest(ownTable, unsent)
  /\ UNCHANGED <<tick, heardOf, cands, restOwn, pending, decider, own, sendings, restarts, told, back>>

\* The process ends and the next begins, its ClickHouse yet to answer. A clean
\* stop flushes first.
Relaunch ==
  /\ restarts < Restarts /\ restarts' = restarts + 1
  /\ heardOf' = {} /\ cands' = NoCands /\ restOwn' = NoCands /\ unsent' = NoCands
  /\ pending' = TRUE /\ decider' = NotDeciding
  /\ told' = ownTable /\ back' = FALSE
  /\ UNCHANGED <<tick, ownTable, own, sendings>>

---------------------------------------------------------------------------
(* Own vessels. *)

\* ownCandidates and restoreOwn: each station heard by now takes its own.
BringBack ==
  /\ ~back /\ back' = TRUE /\ pending' = FALSE
  /\ LET past == [s \in Masts |-> [o \in OwnShips |-> IF ownTable[s][o] > tick - OwnSettle - 1 THEN ownTable[s][o] ELSE NotSent]] IN
       /\ cands' = [s \in Masts |-> IF s \in heardOf THEN Latest(cands, past)[s] ELSE cands[s]]
       /\ restOwn' = [s \in Masts |-> IF s \in heardOf THEN NoCands[s] ELSE past[s]]
  /\ UNCHANGED <<tick, heardOf, unsent, ownTable, decider, own, sendings, restarts, told>>

\* ownPendingMax without an answer.
WaitedEnough ==
  /\ pending /\ pending' = FALSE
  /\ UNCHANGED <<tick, heardOf, cands, restOwn, unsent, ownTable, decider, own, sendings, restarts, told, back>>

\* ownShips, the first read of refreshOwn: a station not heard since the start
\* has what was brought back of it.
ReadOwn ==
  /\ decider.pc = "idle"
  /\ decider' = [pc |-> "decide", cands |-> [s \in Masts |-> Claimed(s)], told |-> told, now |-> tick, back |-> back]
  /\ UNCHANGED <<tick, heardOf, cands, restOwn, pending, unsent, ownTable, own, sendings, restarts, told, back>>

\* decideOwn: the vessel sent last, none while another was within the hour, the
\* earlier decision while none was.
Decisions(sentAt, now, before) ==
  LET sent   == {o \in OwnShips : sentAt[o] # NotSent}
      latest == {o \in sent : \A p \in sent : sentAt[p] <= sentAt[o]}
      alone  == {o \in latest : \A p \in sent \ {o} : sentAt[p] <= now - OwnSettle}
  IN  IF sent = {} THEN {before} ELSE IF alone = {} THEN {"none"} ELSE alone

\* The second read: nothing is decided before the candidates are back.
DecideRound ==
  /\ decider.pc = "decide" /\ decider' = NotDeciding
  /\ \/ pending /\ UNCHANGED own
     \/ ~pending /\ own' \in {f \in [Masts -> OwnShips \union {"none"}] :
                                \A s \in Masts : f[s] \in Decisions(decider.cands[s], decider.now, own[s])}
  /\ UNCHANGED <<tick, heardOf, cands, restOwn, pending, unsent, ownTable, sendings, restarts, told, back>>

OwnNext ==
  \/ \E s \in Masts : \/ Send(s)
                      \/ \E o \in OwnShips, at \in {tick, tick - 1} \ {NotSent} : SendOwn(s, o, at) \/ SendOvertaken(s, o, at)
  \/ TimePasses \/ FlushOwn \/ Relaunch \/ BringBack \/ WaitedEnough \/ ReadOwn \/ DecideRound

OwnSpec == OwnInit /\ [][OwnNext]_ownVars

---------------------------------------------------------------------------
(* Properties. *)

\* A round that finds its candidates back leaves no vessel as a station's own
\* that another was sent beside within ownSettle, before a restart or since
\* it. A vessel never sent has no time to compare.
OwnWasAlone ==
  [][decider.pc = "decide" /\ decider.back /\ restarts' = restarts /\ decider'.pc = "idle" =>
       \A s \in Masts : own'[s] # "none" =>
         \A o \in OwnShips \ {own'[s]} :
           decider.told[s][o] # NotSent => decider.told[s][o] <= decider.now - OwnSettle]_ownVars
=============================================================================
