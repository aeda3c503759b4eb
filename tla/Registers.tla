------------------------------ MODULE Registers ------------------------------
(* The vessel registers: the weekly syncs that replace a stored register    *)
(* whole, the PSIX listing that depends on the FCC licences, and the rounds *)
(* that ask a register about one vessel at a time (src/server/wikidata.go,  *)
(* fiskeridir.go, fcc.go, tc.go, amsa.go, uscg.go, ised.go).                *)
EXTENDS Integers, Sequences, FiniteSets
LOCAL INSTANCE SequencesExt

CONSTANTS
  Whole,      \* the registers stored whole, "fcc" among them
  Requests,   \* per register of Whole, the sets of rows it is read in, one request each;
              \* those of "fcc" are licences [mmsi, usi, active, official]
  Hulls,    \* PSIX records [id, call, official, name, active, service, year]
  Services,   \* PSIX service types asked for whole
  Outgrown,   \* those whose whole listing PSIX no longer builds
  Years,      \* the build years an outgrown service is asked by
  Ships,      \* the US vessels heard [mmsi, name, call], most recently heard first
  Canadians,  \* the Canadian vessels heard, most recently heard first
  MinRows,       \* psixMinVessels and its like
  Week,       \* psixEvery and its like
  Recheck,    \* psixDetailsEvery, isedRecheck
  InARow,     \* psixFailuresInARow, isedFailuresInARow
  Budget,     \* vessels a round's hour reaches
  Bad,        \* vessels whose reading always fails
  Horizon,       \* bound: the last moment
  Misses,     \* bound: requests that fail or are cut short
  Publications,    \* bound: publications
  Reboots     \* bound

Registers == Whole \union {"uscg"}
Loops == {"uscg", "ised"}  \* the registers asked a vessel at a time
Ids(x) == IF x = "uscg" THEN {v.id : v \in Hulls} ELSE ToSet(Canadians)
RowsOf(r) == IF r = "uscg" THEN Hulls ELSE UNION Requests[r]

ASSUME RegistersAssumption ==
  /\ "fcc" \in Whole /\ "uscg" \notin Whole /\ Outgrown \subseteq Services
  /\ {MinRows, Week, Recheck, InARow, Budget, Horizon, Misses, Publications, Reboots} \subseteq Nat
  /\ MinRows > 0 /\ Week > 0 /\ Recheck > 0
  /\ \A x \in Loops : Cardinality(Bad \intersect Ids(x)) < InARow
  /\ InARow <= Budget

VARIABLES
  clock,
  offered,   \* what each register publishes
  stored,      \* register -> rows
  stamp,       \* register -> the start of its last sync, or Never
  sync,        \* register -> NoSync, or the sync in flight
  askedAt,     \* details_at and checked_at: loop -> vessel -> time, or Never
  turn,        \* what the PSIX loop does next: "sync" or "round"
  round,       \* loop -> NoRound, or the round in flight
  listedWith,  \* history: the licensed numbers the stored listing was read with
  misses, publications, reboots

registerVars == <<clock, offered, stored, stamp, sync, askedAt, turn, round, listedWith, misses, publications, reboots>>

Never == -1
NoSync == [at |-> Never]
NoRound == [at |-> Never]
NoVessel == [id |-> 0]

RegistersInit ==
  /\ clock = 0
  /\ offered = [r \in Registers |-> RowsOf(r)]
  /\ stored = [r \in Registers |-> {}]
  /\ stamp = [r \in Registers |-> Never]
  /\ sync = [r \in Registers |-> NoSync]
  /\ askedAt = [x \in Loops |-> [i \in Ids(x) |-> Never]]
  /\ turn = "sync" /\ round = [x \in Loops |-> NoRound]
  /\ listedWith = {}
  /\ misses = 0 /\ publications = 0 /\ reboots = 0

Missed == misses < Misses /\ misses' = misses + 1

---------------------------------------------------------------------------
(* A register stored whole. *)

WeekOld(r) == stamp[r] = Never \/ clock - stamp[r] >= Week

\* Only an active licence is kept, and of two for one ship the newest.
KeptLicences(rows) ==
  {l \in rows : l.active /\ \A o \in rows : o.active /\ o.mmsi = l.mmsi => o.usi <= l.usi}
KeptRows(r, rows) == IF r = "fcc" THEN KeptLicences(rows) ELSE rows

\* A collapse is refused: fewer rows than expected, fewer than half of those
\* stored, or, where each field has a query of its own, half of any field.
Parts(r) == IF r = "wikidata" THEN Requests[r] \union {RowsOf(r)} ELSE {RowsOf(r)}
Plausible(r, got) ==
  /\ Cardinality(got) >= MinRows
  /\ \A F \in Parts(r) : 2 * Cardinality(got \intersect F) >= Cardinality(stored[r] \intersect F)

StartSync(r) ==
  /\ sync[r] = NoSync /\ WeekOld(r)
  /\ sync' = [sync EXCEPT ![r] = [at |-> clock, got |-> {}, left |-> Requests[r]]]
  /\ UNCHANGED <<clock, offered, stored, stamp, askedAt, turn, round, listedWith, misses, publications, reboots>>

\* A request's answer, whole or cut short without saying so.
Fetch(r) ==
  /\ sync[r] # NoSync
  /\ \E F \in sync[r].left :
       \E rows \in SUBSET (offered[r] \intersect F) :
         /\ IF rows = offered[r] \intersect F THEN UNCHANGED misses ELSE Missed
         /\ sync' = [sync EXCEPT ![r].got = @ \union rows, ![r].left = @ \ {F}]
  /\ UNCHANGED <<clock, offered, stored, stamp, askedAt, turn, round, listedWith, publications, reboots>>

\* One transaction: the rows and the stamp. A refused set leaves both.
Replace(r) ==
  /\ sync[r] # NoSync /\ sync[r].left = {}
  /\ IF Plausible(r, KeptRows(r, sync[r].got))
     THEN /\ stored' = [stored EXCEPT ![r] = KeptRows(r, sync[r].got)]
          /\ stamp' = [stamp EXCEPT ![r] = sync[r].at]
     ELSE UNCHANGED <<stored, stamp>>
  /\ sync' = [sync EXCEPT ![r] = NoSync]
  /\ UNCHANGED <<clock, offered, askedAt, turn, round, listedWith, misses, publications, reboots>>

\* A failed request, or a failed write, ends the sync; the next check retries.
FailSync(r) ==
  /\ sync[r] # NoSync /\ Missed
  /\ sync' = [sync EXCEPT ![r] = NoSync]
  /\ turn' = IF r = "uscg" THEN "round" ELSE turn
  /\ UNCHANGED <<clock, offered, stored, stamp, askedAt, round, listedWith, publications, reboots>>

---------------------------------------------------------------------------
(* The PSIX listing. *)

Licensed == {l.official : l \in stored["fcc"]} \ {""}

\* Due when a week old, and early when a licence sync is newer than it.
ListingDue == WeekOld("uscg") \/ (stamp["fcc"] # Never /\ stamp["fcc"] > stamp["uscg"])

CheckListing ==
  /\ turn = "sync" /\ sync["uscg"] = NoSync
  /\ IF ListingDue
     THEN sync' = [sync EXCEPT !["uscg"] = [at |-> clock, got |-> {}, left |-> {}, licensed |-> {}, asking |-> FALSE]]
          /\ UNCHANGED turn
     ELSE turn' = "round" /\ UNCHANGED sync
  /\ UNCHANGED <<clock, offered, stored, stamp, askedAt, round, listedWith, misses, publications, reboots>>

ByYear(s) == {<<s, y>> : y \in Years}

\* The licences are read once, after the stamp and before the first ask.
ReadLicences ==
  /\ sync["uscg"] # NoSync /\ ~sync["uscg"].asking
  /\ sync' = [sync EXCEPT !["uscg"].licensed = Licensed, !["uscg"].asking = TRUE,
                          !["uscg"].left = {<<s, 0>> : s \in Services} \union ByYear("Recreational")]
  /\ UNCHANGED <<clock, offered, stored, stamp, askedAt, turn, round, listedWith, misses, publications, reboots>>

\* What a listing keeps: vessels a call sign or a licensed number can find.
Findable(v, licensed) == v.call # "" \/ v.official \in licensed

\* An outgrown service's years join the asks in its place.
AskService ==
  /\ sync["uscg"] # NoSync
  /\ \E ask \in sync["uscg"].left :
       LET rows == {v \in offered["uscg"] : v.service = ask[1] /\ ask[2] \in {0, v.year}}
           kept == {v \in rows : Findable(v, sync["uscg"].licensed)}
           grown == ask[2] = 0 /\ ask[1] \in Outgrown
       IN  sync' = [sync EXCEPT !["uscg"].got = IF grown THEN @ ELSE @ \union kept,
                                !["uscg"].left = (@ \ {ask}) \union (IF grown THEN ByYear(ask[1]) ELSE {})]
  /\ UNCHANGED <<clock, offered, stored, stamp, askedAt, turn, round, listedWith, misses, publications, reboots>>

\* An upsert and a delete of what is no longer listed: a vessel that stays
\* keeps the details read for it.
ReplaceListing ==
  LET s == sync["uscg"] IN
  /\ s # NoSync /\ s.asking /\ s.left = {}
  /\ IF Plausible("uscg", s.got)
     THEN /\ stored' = [stored EXCEPT !["uscg"] = s.got]
          /\ stamp' = [stamp EXCEPT !["uscg"] = s.at]
          /\ listedWith' = s.licensed
          /\ askedAt' = [askedAt EXCEPT !["uscg"] =
                          [i \in DOMAIN @ |-> IF \E v \in s.got : v.id = i THEN @[i] ELSE Never]]
     ELSE UNCHANGED <<stored, stamp, listedWith, askedAt>>
  /\ sync' = [sync EXCEPT !["uscg"] = NoSync] /\ turn' = "round"
  /\ UNCHANGED <<clock, offered, round, misses, publications, reboots>>

---------------------------------------------------------------------------
(* The rounds. *)

\* Among records sharing a key: active over not, then the newest.
NewestRecord(cands) ==
  IF cands = {} THEN NoVessel
  ELSE CHOOSE v \in cands : \A w \in cands : (w.active => v.active) /\ (w.active = v.active => w.id <= v.id)

\* The one record a ship gets. A number its licence carries wins when nothing
\* disagrees; a record without a call sign needs the names to agree as well.
Choose(ship) ==
  LET officials == {l.official : l \in {x \in stored["fcc"] : x.mmsi = ship.mmsi}} \ {""}
      fromID == NewestRecord({v \in stored["uscg"] : v.official \in officials})
      fuzzy == NewestRecord({v \in stored["uscg"] : v.call # "" /\ v.call = ship.call /\ v.name = ship.name})
      agrees == fromID # NoVessel /\ fromID.name = ship.name
      usable == fromID # NoVessel /\ (fuzzy = NoVessel /\ fromID.call = "" => agrees)
  IN  IF usable /\ (fuzzy = NoVessel \/ fuzzy.id = fromID.id \/ agrees) THEN fromID ELSE fuzzy

\* A vessel is asked about when it never was, or not since the recheck.
AskDue(x, i) == askedAt[x][i] = Never \/ askedAt[x][i] < clock - Recheck

ListingIds == [n \in DOMAIN Ships |-> Choose(Ships[n]).id]
Heard(x) == IF x = "uscg" THEN SelectSeq(ListingIds, LAMBDA i : i # 0) ELSE Canadians

\* The first of each, in the order they were heard.
DueOf(x) ==
  FoldLeft(LAMBDA due, i : IF AskDue(x, i) /\ ~Contains(due, i) THEN Append(due, i) ELSE due, <<>>, Heard(x))

\* The listing's or the round's first query fails: the loop goes on an hour later.
FailQuery ==
  /\ sync["uscg"] = NoSync /\ round["uscg"] = NoRound /\ Missed
  /\ turn' = IF turn = "sync" THEN "round" ELSE "sync"
  /\ UNCHANGED <<clock, offered, stored, stamp, sync, askedAt, round, listedWith, publications, reboots>>

StartRound(x) ==
  /\ round[x] = NoRound /\ (x = "uscg" => turn = "round")
  /\ IF DueOf(x) = <<>>
     THEN /\ x = "uscg" /\ turn' = "sync" /\ UNCHANGED round
     ELSE /\ round' = [round EXCEPT ![x] = [at |-> clock, queue |-> DueOf(x), failed |-> 0, reached |-> 0]]
          /\ UNCHANGED turn
  /\ UNCHANGED <<clock, offered, stored, stamp, sync, askedAt, listedWith, misses, publications, reboots>>

\* Mutant: the first failure ends the round.
AtTheFirst(failed) == failed >= 1

\* Failures in a row end a round: the service is down, not one vessel's record.
ServiceDown(failed) == failed >= InARow

\* One vessel's reading: kept with its time, or passed over until the next round.
\* A reading that cannot be kept counts among the failures of an ISED round, and
\* ends a PSIX one.
AskVessel(x) ==
  /\ round[x] # NoRound
  /\ \E ok, kept \in BOOLEAN :
       LET i == Head(round[x].queue)
           failed == IF ok THEN 0 ELSE round[x].failed + 1
           rest == [round[x] EXCEPT !.queue = Tail(@), !.failed = failed, !.reached = @ + 1]
           over == rest.queue = <<>> \/ ServiceDown(failed) \/ rest.reached = Budget \/ (ok /\ ~kept)
       IN  /\ i \in Bad => ~ok
           /\ ok /\ ~kept => x = "uscg"
           /\ IF (ok /\ kept) \/ i \in Bad THEN UNCHANGED misses ELSE Missed
           /\ askedAt' = IF ok /\ kept THEN [askedAt EXCEPT ![x][i] = IF x = "uscg" THEN clock ELSE round[x].at]
                         ELSE askedAt
           /\ round' = [round EXCEPT ![x] = IF over THEN NoRound ELSE rest]
           /\ turn' = IF over /\ x = "uscg" THEN "sync" ELSE turn
  /\ UNCHANGED <<clock, offered, stored, stamp, sync, listedWith, publications, reboots>>

---------------------------------------------------------------------------
(* The registers' publishers, time and the process. *)

PublishRows(r) ==
  /\ publications < Publications /\ publications' = publications + 1
  /\ \E rows \in SUBSET RowsOf(r) : rows # offered[r] /\ offered' = [offered EXCEPT ![r] = rows]
  /\ UNCHANGED <<clock, stored, stamp, sync, askedAt, turn, round, listedWith, misses, reboots>>

Elapse ==
  /\ clock < Horizon /\ clock' = clock + 1
  /\ UNCHANGED <<offered, stored, stamp, sync, askedAt, turn, round, listedWith, misses, publications, reboots>>

\* The record's tables survive; a sync or a round in flight does not.
Reboot ==
  /\ reboots < Reboots /\ reboots' = reboots + 1
  /\ sync' = [r \in Registers |-> NoSync] /\ round' = [x \in Loops |-> NoRound] /\ turn' = "sync"
  /\ UNCHANGED <<clock, offered, stored, stamp, askedAt, listedWith, misses, publications>>

RegistersNext ==
  \/ \E r \in Whole : StartSync(r) \/ Fetch(r) \/ Replace(r)
  \/ \E r \in Registers : FailSync(r) \/ PublishRows(r)
  \/ CheckListing \/ ReadLicences \/ AskService \/ ReplaceListing
  \/ \E x \in Loops : StartRound(x) \/ AskVessel(x)
  \/ FailQuery \/ Elapse \/ Reboot

\* Each register has a loop of its own that checks every hour, and a request
\* ends within its timeout.
RegistersFairness ==
  /\ \A r \in Whole : WF_registerVars(StartSync(r) \/ Fetch(r) \/ Replace(r))
  /\ WF_registerVars(CheckListing \/ ReadLicences \/ AskService \/ ReplaceListing
                                \/ StartRound("uscg") \/ AskVessel("uscg"))
  /\ WF_registerVars(StartRound("ised") \/ AskVessel("ised"))

RegistersSpec == RegistersInit /\ [][RegistersNext]_registerVars /\ RegistersFairness

---------------------------------------------------------------------------
(* Properties. *)

SyncDue(r) == IF r = "uscg" THEN ListingDue ELSE WeekOld(r)

\* What a publisher now offers would be refused as a collapse.
Collapsed(r) ==
  ~Plausible(r, IF r = "uscg" THEN {v \in offered[r] : Findable(v, Licensed)} ELSE KeptRows(r, offered[r]))

\* Once time and the publishers rest, whatever failed, was cut short or was
\* interrupted before, every due register is stored unless its publisher lost
\* half of it, and every vessel heard whose record can be read was asked about
\* although others' never can be: a failed sync is retried within the hour, and
\* one bad record cannot hold up the rest of a round (runUSCG, backfillUSCG,
\* backfillISED and the sync loops).
DueIsServed ==
  <>[](/\ \A r \in Registers : SyncDue(r) => Collapsed(r)
       /\ \A x \in Loops : \A i \in ToSet(Heard(x)) \ Bad : ~AskDue(x, i))

\* A stored listing read with other licences than those stored is due again,
\* two stamps of one moment aside: it "stays correct when the license sync lands while a listing is already in
\* flight ... and the comparison still fires at the next check" (syncUSCGIfDue).
LicencesReachTheListing ==
  sync["uscg"] = NoSync /\ stamp["uscg"] # Never /\ stamp["uscg"] # stamp["fcc"]
    /\ listedWith # Licensed => ListingDue
=============================================================================
