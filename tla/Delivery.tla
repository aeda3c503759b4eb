------------------------------ MODULE Delivery ------------------------------
(***************************************************************************)
(* From the fold to the subscriber: receptions folded one at a time and    *)
(* broadcast (src/server/pipeline.go), AISHub snapshots folded at once and *)
(* delivered paced (aishub.go), and each client's bounded queue, live      *)
(* subscription and snapshot replay, over a socket or SSE (stream.go).     *)
(*                                                                         *)
(* An event is a position report of a ship, known by its time; reports are *)
(* receptions or rows that pass positionIsNew.  A client wants every ship, *)
(* and its rate limit may thin any live event.                             *)
(***************************************************************************)
EXTENDS Naturals, Sequences, SequencesExt

CONSTANTS
    Ships,      \* MMSIs
    MaxTime,    \* bound on the times of reports
    Reports,    \* the reports sources may bring
    Clients,    \* connections, each opened once
    Buffer      \* subBuffer

ASSUME DeliveryAssumption ==
    /\ IsFiniteSet(Ships)
    /\ MaxTime \in Nat \ {0} /\ Buffer \in Nat \ {0}
    /\ Reports \subseteq [ship : Ships, time : 1..MaxTime]

Nobody == "nobody"
Sources == {"live", "aishub"}

VARIABLES
    newest,     \* each ship's cached position, by its time; 0 is none
    order,      \* who holds Pipeline.order
    folded,     \* a live event folded and not yet broadcast
    hub,        \* Pipeline.aishubBatch
    paced,      \* aishubPace and deliverPaced's backlog
    conn,       \* a client's connection: "new", "socket", "sse", "closed"
    live,       \* the live subscription is stored
    queue,      \* subscriber.ch
    overflow,   \* subscriber.overflow
    reader,     \* what the client's reader does: "idle", "snapshot" to read the cache, "replay"
    replay,     \* snapshot events still to be written
    best,       \* the newest position of each ship the client was sent
    fresh       \* history: the client read a snapshot, and was subscribed and not thinned since

foldVars == <<newest, order, folded, hub, paced>>
vars == <<newest, order, folded, hub, paced, conn, live, queue, overflow, reader, replay, best, fresh>>

Init ==
    /\ newest = [m \in Ships |-> 0]
    /\ order = Nobody
    /\ folded = <<>> /\ hub = <<>> /\ paced = <<>>
    /\ conn = [c \in Clients |-> "new"]
    /\ live = [c \in Clients |-> FALSE]
    /\ queue = [c \in Clients |-> <<>>]
    /\ overflow = [c \in Clients |-> FALSE]
    /\ reader = [c \in Clients |-> "idle"]
    /\ replay = [c \in Clients |-> <<>>]
    /\ best = [c \in Clients |-> [m \in Ships |-> 0]]
    /\ fresh = [c \in Clients |-> FALSE]

-----------------------------------------------------------------------------
(* Folding and broadcasting *)

\* admit and release.
Admit(src) ==
    /\ order = Nobody
    /\ order' = src
    /\ UNCHANGED <<newest, folded, hub, paced, conn, live, queue, overflow, reader, replay, best, fresh>>

\* Mutant: stale reports move the cache too.
StaleNever(e, rebuilt) == FALSE

\* staleFor: the cache holds a newer report; a rebuilt one must itself be newer.
Stale(e, rebuilt) == e.time < newest[e.ship] \/ (rebuilt /\ e.time = newest[e.ship])

\* emit of a live reception: the fold, and for a stale report no more.
FoldLive(e, rebuilt) ==
    /\ order = "live" /\ folded = <<>>
    /\ IF Stale(e, rebuilt)
       THEN /\ order' = Nobody
            /\ UNCHANGED <<newest, folded>>
       ELSE /\ newest' = [newest EXCEPT ![e.ship] = e.time]
            /\ folded' = <<e>>
            /\ UNCHANGED order
    /\ UNCHANGED <<hub, paced, conn, live, queue, overflow, reader, replay, best, fresh>>

\* emit of a row of an AISHub snapshot: one row for a ship, and only news
\* (positionIsNew).
FoldHub(e) ==
    /\ order = "aishub"
    /\ \A i \in DOMAIN hub : hub[i].ship # e.ship
    /\ ~Stale(e, TRUE)
    /\ newest' = [newest EXCEPT ![e.ship] = e.time]
    /\ hub' = Append(hub, e)
    /\ UNCHANGED <<order, folded, paced, conn, live, queue, overflow, reader, replay, best, fresh>>

\* aishubSnapshot hands its events to paced delivery.
HubDone ==
    /\ order = "aishub"
    /\ order' = Nobody
    /\ paced' = paced \o hub
    /\ hub' = <<>>
    /\ UNCHANGED <<newest, folded, conn, live, queue, overflow, reader, replay, best, fresh>>

Open(c) == conn[c] \in {"socket", "sse"}
Registered == {c \in Clients : Open(c)}

\* The queue has no room for an event.
Full(c) == Len(queue[c]) >= Buffer

\* subscriber.overflow after an event more.
OverflowAfter(c) == overflow[c] \/ Full(c)

\* broadcast: never waits for a client; a full queue is marked.
Broadcast(e) ==
    /\ queue' = [c \in Clients |-> IF c \in Registered /\ ~Full(c) THEN Append(queue[c], e) ELSE queue[c]]
    /\ overflow' = [c \in Clients |-> IF c \in Registered THEN OverflowAfter(c) ELSE overflow[c]]

\* emit's broadcast of a live event, and its release.
BroadcastLive ==
    /\ order = "live" /\ folded # <<>>
    /\ Broadcast(Head(folded))
    /\ folded' = <<>>
    /\ order' = Nobody
    /\ UNCHANGED <<newest, hub, paced, conn, live, reader, replay, best, fresh>>

\* Mutant: a snapshot arriving before the last is delivered replaces the rest.
PacedNone == <<>>

\* What deliverPaced has left after an event.
PacedRest == Tail(paced)

\* deliverPaced broadcasts the next event of its backlog.
BroadcastPaced ==
    /\ paced # <<>>
    /\ Broadcast(Head(paced))
    /\ paced' = PacedRest
    /\ UNCHANGED <<newest, order, folded, hub, conn, live, reader, replay, best, fresh>>

-----------------------------------------------------------------------------
(* A client *)

\* serveV1 registers the socket with the fan-out before it reads frames.
OpenSocket(c) ==
    /\ conn[c] = "new"
    /\ conn' = [conn EXCEPT ![c] = "socket"]
    /\ UNCHANGED <<foldVars, live, queue, overflow, reader, replay, best, fresh>>

\* serveV1SSE: the subscription is fixed, then the fan-out, then the snapshot if
\* one was asked for.
OpenSse(c, snapshot) ==
    /\ conn[c] = "new"
    /\ conn' = [conn EXCEPT ![c] = "sse"]
    /\ live' = [live EXCEPT ![c] = TRUE]
    /\ reader' = [reader EXCEPT ![c] = IF snapshot THEN "snapshot" ELSE "idle"]
    /\ UNCHANGED <<foldVars, queue, overflow, replay, best, fresh>>

\* Mutant: the live subscription is stored once the replay is written.
StoredLast(c) == live[c]

\* The live subscription while the replay is under way.
Stored(c) == TRUE

\* A subscribe frame; the reader then reads the cache if it asks for a snapshot.
Subscribe(c, snapshot) ==
    /\ conn[c] = "socket" /\ reader[c] = "idle"
    /\ IF snapshot
       THEN /\ live' = [live EXCEPT ![c] = Stored(c)]
            /\ reader' = [reader EXCEPT ![c] = "snapshot"]
       ELSE /\ live' = [live EXCEPT ![c] = TRUE]
            /\ UNCHANGED reader
    /\ fresh' = [fresh EXCEPT ![c] = fresh[c] /\ live[c]]
    /\ UNCHANGED <<foldVars, conn, queue, overflow, replay, best>>

\* An unsubscribe frame.
Unsubscribe(c) ==
    /\ conn[c] = "socket" /\ reader[c] = "idle" /\ live[c]
    /\ live' = [live EXCEPT ![c] = FALSE]
    /\ fresh' = [fresh EXCEPT ![c] = FALSE]
    /\ UNCHANGED <<foldVars, conn, queue, overflow, reader, replay, best>>

\* snapshotEvents: every ship's cached position, in any order.
ReadSnapshot(c) ==
    /\ Open(c) /\ reader[c] = "snapshot"
    /\ \E s \in SetToSeqs({[ship |-> m, time |-> newest[m]] : m \in {n \in Ships : newest[n] # 0}}) :
           replay' = [replay EXCEPT ![c] = s]
    /\ reader' = [reader EXCEPT ![c] = "replay"]
    /\ fresh' = [fresh EXCEPT ![c] = TRUE]
    /\ UNCHANGED <<foldVars, conn, live, queue, overflow, best>>

Sent(c, e) == [best EXCEPT ![c][e.ship] = IF e.time > @ THEN e.time ELSE @]

\* A snapshot event is written; over SSE only when no live event waits.
SendSnapshot(c) ==
    /\ Open(c) /\ reader[c] = "replay" /\ replay[c] # <<>>
    /\ conn[c] = "sse" => queue[c] = <<>>
    /\ best' = Sent(c, Head(replay[c]))
    /\ replay' = [replay EXCEPT ![c] = Tail(@)]
    /\ UNCHANGED <<foldVars, conn, live, queue, overflow, reader, fresh>>

\* The replay is written.
ReplayDone(c) ==
    /\ Open(c) /\ reader[c] = "replay" /\ replay[c] = <<>>
    /\ reader' = [reader EXCEPT ![c] = "idle"]
    /\ live' = [live EXCEPT ![c] = TRUE]
    /\ UNCHANGED <<foldVars, conn, queue, overflow, replay, best, fresh>>

\* SSE reads its queue from the goroutine that took the snapshot.
Reading(c) == Open(c) /\ queue[c] # <<>> /\ (conn[c] = "sse" => reader[c] # "snapshot")

\* Mutant: the mark is looked at only when an event matches the subscription.
TooSlowMatching(c) == overflow[c] /\ live[c]

\* The writer, with an event off the queue, finds the client too slow.
TooSlow(c) == overflow[c]

\* An event off the queue: written when subscribed, unless the rate thins it.
Deliver(c, thinned) ==
    /\ Reading(c) /\ ~TooSlow(c)
    /\ thinned => live[c]
    /\ best' = IF live[c] /\ ~thinned THEN Sent(c, Head(queue[c])) ELSE best
    /\ fresh' = [fresh EXCEPT ![c] = fresh[c] /\ ~thinned]
    /\ queue' = [queue EXCEPT ![c] = Tail(@)]
    /\ UNCHANGED <<foldVars, conn, live, overflow, reader, replay>>

Gone(c) ==
    /\ conn' = [conn EXCEPT ![c] = "closed"]
    /\ live' = [live EXCEPT ![c] = FALSE]
    /\ queue' = [queue EXCEPT ![c] = <<>>]
    /\ reader' = [reader EXCEPT ![c] = "idle"]
    /\ replay' = [replay EXCEPT ![c] = <<>>]
    /\ fresh' = [fresh EXCEPT ![c] = FALSE]
    /\ UNCHANGED <<foldVars, overflow, best>>

\* A client whose queue overflowed is disconnected, "client too slow".
CloseSlow(c) == Reading(c) /\ TooSlow(c) /\ Gone(c)

\* The client leaves, or a write to it fails.
Leave(c) == Open(c) /\ Gone(c)

Next ==
    \/ \E src \in Sources : Admit(src)
    \/ \E e \in Reports : FoldHub(e) \/ \E b \in BOOLEAN : FoldLive(e, b)
    \/ HubDone \/ BroadcastLive \/ BroadcastPaced
    \/ \E c \in Clients :
          \/ OpenSocket(c) \/ Unsubscribe(c) \/ ReadSnapshot(c) \/ SendSnapshot(c) \/ ReplayDone(c)
          \/ \E b \in BOOLEAN : OpenSse(c, b) \/ Subscribe(c, b) \/ Deliver(c, b)
          \/ CloseSlow(c) \/ Leave(c)

Spec == Init /\ [][Next]_vars

(* Fairness: a reception under way ends, deliverPaced's timer fires, and a   *)
(* connection's goroutines run (every write has a deadline).  A replay over   *)
(* SSE goes on whenever the queue is found empty: strong fairness.           *)
Fairness ==
    /\ WF_vars(BroadcastLive) /\ WF_vars(HubDone) /\ WF_vars(BroadcastPaced)
    /\ \A c \in Clients :
          /\ WF_vars(ReadSnapshot(c)) /\ WF_vars(ReplayDone(c)) /\ SF_vars(SendSnapshot(c))
          /\ WF_vars(Deliver(c, FALSE) \/ CloseSlow(c))

FairSpec == Spec /\ Fairness

-----------------------------------------------------------------------------
(* Properties *)

\* Every variable has its type, and every queue its bound.
TypeOK ==
    /\ newest \in [Ships -> 0..MaxTime]
    /\ order \in Sources \union {Nobody}
    /\ \A s \in {folded, hub, paced} : s \in Seq(Reports)
    /\ conn \in [Clients -> {"new", "socket", "sse", "closed"}]
    /\ live \in [Clients -> BOOLEAN] /\ overflow \in [Clients -> BOOLEAN] /\ fresh \in [Clients -> BOOLEAN]
    /\ \A c \in Clients : queue[c] \in Seq(Reports) /\ Len(queue[c]) <= Buffer /\ replay[c] \in Seq(Reports)
    /\ reader \in [Clients -> {"idle", "snapshot", "replay"}]
    /\ best \in [Clients -> [Ships -> 0..MaxTime]]

Waiting(c) == ToSet(queue[c]) \union ToSet(folded) \union ToSet(hub) \union ToSet(paced)

\* "A duplicate is possible, a gap is not" (stream.go:538): once its snapshot is
\* replayed, a subscribed client was sent every ship's newest position, or it
\* is on its way, or the queue overflowed and the client is told so.
NoGap ==
    \A c \in Clients, m \in Ships :
        fresh[c] /\ reader[c] = "idle" /\ ~overflow[c] =>
            best[c][m] >= newest[m] \/ \E e \in Waiting(c) : e.ship = m /\ e.time = newest[m]

\* A client that missed an event is not left to believe it missed none: it is
\* disconnected (broadcast, and the writers of stream.go).
SlowIsClosed == \A c \in Clients : overflow[c] ~> conn[c] = "closed"

\* A client subscribed with a snapshot is at some point sent every position the
\* cache holds now, or a newer one, AISHub's paced ones too, unless it is
\* thinned, too slow, or leaves (deliverPaced); over SSE, where live events go
\* before the replay, if its queue is empty again and again.
CatchesUp ==
    \A c \in Clients : []<>(conn[c] = "sse" => queue[c] = <<>>) =>
        \A e \in Reports :
            fresh[c] /\ newest[e.ship] = e.time ~> best[c][e.ship] >= e.time \/ ~fresh[c] \/ overflow[c]

\* What the comment in emit states: a report already superseded never reaches
\* subscribers (pipeline.go:512-513).
NoSupersededReport ==
    [][/\ folded # <<>> /\ folded' = <<>> => Head(folded).time >= newest[Head(folded).ship]
       /\ Len(paced') < Len(paced) => Head(paced).time >= newest[Head(paced).ship]]_vars
=============================================================================
