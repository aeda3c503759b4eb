--------------------------- MODULE DeliveryProofs ---------------------------
(* No subscriber is left with a gap, for every set of ships, reports and    *)
(* clients and every size of the queue: proofs about Delivery.              *)
EXTENDS Delivery, FiniteSetTheorems, TLAPS

DeliveryTyped ==
    /\ TypeOK
    /\ queue \in [Clients -> Seq(Reports)] /\ replay \in [Clients -> Seq(Reports)]
    /\ Len(folded) <= 1
    /\ \A m \in Ships : newest[m] # 0 => [ship |-> m, time |-> newest[m]] \in Reports

\* Only a connected client is subscribed, and only a subscribed one replays.
Subscribed ==
    \A c \in Clients :
        /\ live[c] => Open(c)
        /\ fresh[c] \/ reader[c] # "idle" => live[c]
        /\ reader[c] # "replay" => replay[c] = <<>>

OnItsWay(c) == Waiting(c) \union ToSet(replay[c])
HasNewest(c, m) == best[c][m] >= newest[m] \/ \E e \in OnItsWay(c) : e.ship = m /\ e.time = newest[m]

\* NoGap while a replay is under way too: what is still to be replayed counts.
NothingMissed == \A c \in Clients, m \in Ships : fresh[c] /\ ~overflow[c] => HasNewest(c, m)

DeliveryInv == DeliveryTyped /\ Subscribed /\ NothingMissed

-----------------------------------------------------------------------------
(* Queues and snapshots. *)

LEMMA EmptyQueue == ToSet(<<>>) = {}
  BY DEF ToSet

LEMMA QueueAppend ==
    ASSUME NEW q \in Seq(Reports), NEW e \in Reports
    PROVE  ToSet(Append(q, e)) = ToSet(q) \union {e} /\ Append(q, e) \in Seq(Reports)
           /\ Len(Append(q, e)) = Len(q) + 1
<1>1. /\ Len(q) \in Nat /\ DOMAIN q = 1..Len(q) /\ DOMAIN Append(q, e) = 1..(Len(q) + 1)
      /\ \A i \in DOMAIN q : Append(q, e)[i] = q[i]
      /\ Append(q, e)[Len(q) + 1] = e
      /\ Append(q, e) \in Seq(Reports) /\ Len(Append(q, e)) = Len(q) + 1
  OBVIOUS
<1>2. ToSet(Append(q, e)) \subseteq ToSet(q) \union {e}
  <2>1. \A i \in DOMAIN Append(q, e) : i \in DOMAIN q \/ i = Len(q) + 1  BY <1>1
  <2> QED  BY <1>1, <2>1 DEF ToSet
<1>3. ToSet(q) \union {e} \subseteq ToSet(Append(q, e))
  <2>1. DOMAIN q \subseteq DOMAIN Append(q, e) /\ Len(q) + 1 \in DOMAIN Append(q, e)  BY <1>1
  <2> QED  BY <1>1, <2>1 DEF ToSet
<1> QED  BY <1>1, <1>2, <1>3

LEMMA QueueConcat ==
    ASSUME NEW q \in Seq(Reports), NEW s \in Seq(Reports)
    PROVE  ToSet(q) \union ToSet(s) \subseteq ToSet(q \o s) /\ q \o s \in Seq(Reports)
<1>1. /\ Len(q) \in Nat /\ Len(s) \in Nat /\ DOMAIN q = 1..Len(q) /\ DOMAIN s = 1..Len(s)
      /\ DOMAIN (q \o s) = 1..(Len(q) + Len(s)) /\ q \o s \in Seq(Reports)
      /\ \A i \in DOMAIN q : (q \o s)[i] = q[i]
      /\ \A i \in DOMAIN s : (q \o s)[Len(q) + i] = s[i]
  OBVIOUS
<1>2. \A i \in DOMAIN q : i \in DOMAIN (q \o s)  BY <1>1
<1>3. \A i \in DOMAIN s : Len(q) + i \in DOMAIN (q \o s)  BY <1>1
<1>4. ToSet(q) \subseteq ToSet(q \o s)  BY <1>1, <1>2 DEF ToSet
<1>5. ToSet(s) \subseteq ToSet(q \o s)  BY <1>1, <1>3 DEF ToSet
<1> QED  BY <1>1, <1>4, <1>5

LEMMA QueueTail ==
    ASSUME NEW q \in Seq(Reports), q # <<>>
    PROVE  /\ ToSet(q) = ToSet(Tail(q)) \union {Head(q)} /\ Head(q) \in Reports
           /\ Tail(q) \in Seq(Reports) /\ Len(Tail(q)) = Len(q) - 1 /\ Len(q) \in Nat
<1>1. /\ 1 \in DOMAIN q /\ Head(q) = q[1] /\ Head(q) \in Reports /\ Tail(q) \in Seq(Reports)
      /\ Len(Tail(q)) = Len(q) - 1 /\ Len(q) \in Nat
      /\ \A i \in DOMAIN Tail(q) : i + 1 \in DOMAIN q /\ Tail(q)[i] = q[i + 1]
      /\ \A i \in DOMAIN q : i = 1 \/ (i - 1 \in DOMAIN Tail(q) /\ q[i] = Tail(q)[i - 1])
  OBVIOUS
<1>2. ToSet(q) \subseteq ToSet(Tail(q)) \union {Head(q)}  BY <1>1 DEF ToSet
<1>3. ToSet(Tail(q)) \union {Head(q)} \subseteq ToSet(q)  BY <1>1 DEF ToSet
<1> QED  BY <1>1, <1>2, <1>3

\* A snapshot has every ship the cache has a position of.
LEMMA SnapshotIsWhole ==
    ASSUME NEW f \in [Ships -> Nat],
           \A m \in Ships : f[m] # 0 => [ship |-> m, time |-> f[m]] \in Reports,
           NEW s \in SetToSeqs({[ship |-> m, time |-> f[m]] : m \in {n \in Ships : f[n] # 0}})
    PROVE  /\ s \in Seq(Reports)
           /\ \A m \in Ships : f[m] # 0 => [ship |-> m, time |-> f[m]] \in ToSet(s)
<1> DEFINE Known == {n \in Ships : f[n] # 0}
           Rows == {[ship |-> m, time |-> f[m]] : m \in Known}
<1>1. IsFiniteSet(Known)  BY DeliveryAssumption, FS_Subset
<1>2. IsFiniteSet(Rows)
  <2>1. PICK g \in [Known -> Rows] : g = [m \in Known |-> [ship |-> m, time |-> f[m]]]  OBVIOUS
  <2>2. \A r \in Rows : \E m \in Known : g[m] = r  BY <2>1
  <2>3. g \in Surjection(Known, Rows)  BY <2>2 DEF Surjection
  <2> QED  BY <1>1, <2>3, FS_Surjection
<1> DEFINE N == Cardinality(Rows)
<1>3. N \in Nat  BY <1>2, FS_CardinalityType
<1>4. s \in [1..N -> Rows] /\ \A i, j \in 1..N : i # j => s[i] # s[j]  BY DEF SetToSeqs
<1>5. Rows \subseteq Reports  OBVIOUS
<1> HIDE DEF Rows, N
<1>6. s \in Injection(1..N, Rows)  BY <1>4 DEF Injection, IsInjective
<1>7. Cardinality(1..N) = N  BY <1>3, FS_Interval
<1>8. s \in Surjection(1..N, Rows)
  <2>1. Cardinality(1..N) = Cardinality(Rows)  BY <1>7 DEF N
  <2> QED  BY <1>2, <1>6, <2>1, FS_Injection
<1>9. \A r \in Rows : \E i \in 1..N : s[i] = r  BY <1>8 DEF Surjection
<1>10. s \in Seq(Reports)  BY <1>3, <1>4, <1>5
<1>11. \A r \in Rows : r \in ToSet(s)  BY <1>4, <1>9 DEF ToSet
<1>12. \A m \in Ships : f[m] # 0 => [ship |-> m, time |-> f[m]] \in Rows  BY DEF Rows
<1> QED  BY <1>10, <1>11, <1>12
-----------------------------------------------------------------------------
(* Types. *)

LEMMA Typing ==
    ASSUME DeliveryTyped
    PROVE  /\ newest \in [Ships -> 0..MaxTime] /\ order \in Sources \union {Nobody}
           /\ folded \in Seq(Reports) /\ hub \in Seq(Reports) /\ paced \in Seq(Reports) /\ Len(folded) <= 1
           /\ conn \in [Clients -> {"new", "socket", "sse", "closed"}]
           /\ live \in [Clients -> BOOLEAN] /\ overflow \in [Clients -> BOOLEAN] /\ fresh \in [Clients -> BOOLEAN]
           /\ queue \in [Clients -> Seq(Reports)] /\ replay \in [Clients -> Seq(Reports)]
           /\ \A c \in Clients : Len(queue[c]) \in Nat /\ Len(queue[c]) <= Buffer
           /\ reader \in [Clients -> {"idle", "snapshot", "replay"}]
           /\ best \in [Clients -> [Ships -> 0..MaxTime]]
           /\ MaxTime \in Nat \ {0} /\ Buffer \in Nat \ {0}
           /\ \A e \in Reports : e.ship \in Ships /\ e.time \in 1..MaxTime /\ e.time \in Nat
                                 /\ e = [ship |-> e.ship, time |-> e.time]
<1>1. \A c \in Clients : Len(queue[c]) \in Nat  BY DEF DeliveryTyped
<1>2. \A e \in [ship : Ships, time : 1..MaxTime] : e.ship \in Ships /\ e.time \in 1..MaxTime /\ e.time \in Nat
                                                  /\ e = [ship |-> e.ship, time |-> e.time]
  BY DeliveryAssumption
<1>3. \A e \in Reports : e.ship \in Ships /\ e.time \in 1..MaxTime /\ e.time \in Nat
                         /\ e = [ship |-> e.ship, time |-> e.time]
  BY <1>2, DeliveryAssumption
<1> QED  BY <1>1, <1>3, DeliveryAssumption DEF DeliveryTyped, TypeOK

\* A report that is folded is the ship's newest.
LEMMA FoldTyped ==
    ASSUME DeliveryTyped, NEW e \in Reports, newest' = [newest EXCEPT ![e.ship] = e.time]
    PROVE  /\ newest' \in [Ships -> 0..MaxTime]
           /\ \A m \in Ships : newest'[m] # 0 => [ship |-> m, time |-> newest'[m]] \in Reports
<1>1. e.ship \in Ships /\ e.time \in 0..MaxTime /\ e = [ship |-> e.ship, time |-> e.time]
      /\ newest \in [Ships -> 0..MaxTime]
  BY Typing
<1>2. newest' \in [Ships -> 0..MaxTime]  BY <1>1
<1>3. ASSUME NEW m \in Ships, newest'[m] # 0 PROVE [ship |-> m, time |-> newest'[m]] \in Reports
  <2>1. CASE m = e.ship
    <3>1. newest'[m] = e.time  BY <1>1, <2>1
    <3> QED  BY <1>1, <2>1, <3>1
  <2>2. CASE m # e.ship
    <3>1. newest'[m] = newest[m]  BY <1>1, <2>2
    <3> QED  BY <1>3, <3>1 DEF DeliveryTyped
  <2> QED  BY <2>1, <2>2
<1> QED  BY <1>2, <1>3

\* An event broadcast is queued or the client is marked.
LEMMA BroadcastDoes ==
    ASSUME DeliveryTyped, NEW e \in Reports, Broadcast(e)
    PROVE  /\ queue' \in [Clients -> Seq(Reports)] /\ overflow' \in [Clients -> BOOLEAN]
           /\ \A c \in Clients : Len(queue'[c]) <= Buffer
           /\ \A c \in Clients : /\ ToSet(queue[c]) \subseteq ToSet(queue'[c])
                                 /\ overflow[c] => overflow'[c]
                                 /\ Open(c) /\ ~overflow'[c] => e \in ToSet(queue'[c])
<1>1. ASSUME NEW c \in Clients
      PROVE  /\ queue'[c] \in Seq(Reports) /\ Len(queue'[c]) <= Buffer /\ overflow'[c] \in BOOLEAN
             /\ ToSet(queue[c]) \subseteq ToSet(queue'[c]) /\ (overflow[c] => overflow'[c])
             /\ Open(c) /\ ~overflow'[c] => e \in ToSet(queue'[c])
  <2>1. /\ queue'[c] = IF c \in Registered /\ ~Full(c) THEN Append(queue[c], e) ELSE queue[c]
        /\ overflow'[c] = IF c \in Registered THEN OverflowAfter(c) ELSE overflow[c]
    BY DEF Broadcast
  <2>2. PICK q \in Seq(Reports) : q = queue[c]  BY Typing
  <2>3. Len(q) \in Nat /\ Len(q) <= Buffer /\ Buffer \in Nat /\ overflow[c] \in BOOLEAN
    BY <2>2, Typing
  <2>4. CASE c \in Registered /\ ~Full(c)
    <3>1. queue'[c] = Append(q, e) /\ overflow'[c] = overflow[c]
      BY <2>1, <2>2, <2>3, <2>4 DEF OverflowAfter
    <3>2. Len(q) + 1 <= Buffer  BY <2>2, <2>3, <2>4 DEF Full
    <3> QED  BY <2>2, <2>3, <3>1, <3>2, QueueAppend
  <2>5. CASE ~(c \in Registered /\ ~Full(c))
    <3>1. queue'[c] = q /\ (overflow'[c] = TRUE \/ (overflow'[c] = overflow[c] /\ ~Open(c)))
      BY <2>1, <2>2, <2>5 DEF OverflowAfter, Registered
    <3> QED  BY <2>2, <2>3, <3>1
  <2> QED  BY <2>4, <2>5
<1>2. /\ queue' = [c \in Clients |-> queue'[c]] /\ overflow' = [c \in Clients |-> overflow'[c]]
  BY DEF Broadcast
<1>3. queue' \in [Clients -> Seq(Reports)] /\ overflow' \in [Clients -> BOOLEAN]
  BY <1>1, <1>2
<1> QED  BY <1>1, <1>3

LEMMA SentDoes ==
    ASSUME DeliveryTyped, NEW c \in Clients, NEW e \in Reports
    PROVE  /\ Sent(c, e) \in [Clients -> [Ships -> 0..MaxTime]]
           /\ Sent(c, e)[c][e.ship] >= e.time
           /\ \A d \in Clients, m \in Ships : Sent(c, e)[d][m] >= best[d][m]
<1>1. /\ best \in [Clients -> [Ships -> 0..MaxTime]] /\ MaxTime \in Nat
      /\ e.ship \in Ships /\ e.time \in 0..MaxTime
  BY Typing
<1>2. PICK f \in [Clients -> [Ships -> 0..MaxTime]] : f = Sent(c, e)
  <2>1. PICK r \in [Ships -> 0..MaxTime] : r = [best[c] EXCEPT ![e.ship] = IF e.time > best[c][e.ship] THEN e.time ELSE best[c][e.ship]]
    BY <1>1
  <2>2. Sent(c, e) = [best EXCEPT ![c] = r]  BY <1>1, <2>1 DEF Sent
  <2> QED  BY <1>1, <2>1, <2>2
<1>3. /\ f[c][e.ship] = (IF e.time > best[c][e.ship] THEN e.time ELSE best[c][e.ship])
      /\ \A m \in Ships : m # e.ship => f[c][m] = best[c][m]
      /\ \A d \in Clients : d # c => f[d] = best[d]
  BY <1>1, <1>2 DEF Sent
<1>4. \A d \in Clients, m \in Ships : best[d][m] \in 0..MaxTime  BY <1>1
<1>5. f[c][e.ship] >= e.time /\ f[c][e.ship] >= best[c][e.ship]  BY <1>1, <1>3, <1>4
<1>6. \A d \in Clients, m \in Ships : f[d][m] >= best[d][m]
  <2>1. ASSUME NEW d \in Clients, NEW m \in Ships PROVE f[d][m] >= best[d][m]
    <3>1. CASE d = c /\ m = e.ship  BY <1>5, <3>1
    <3>2. CASE d # c \/ m # e.ship
      <4>1. f[d][m] = best[d][m]  BY <1>3, <3>2
      <4> QED  BY <1>1, <1>4, <4>1
    <3> QED  BY <3>1, <3>2
  <2> QED  BY <2>1
<1> QED  BY <1>2, <1>5, <1>6

LEMMA TypedStep ==
    ASSUME DeliveryTyped, Subscribed, [Next]_vars
    PROVE  DeliveryTyped'
<1> USE DEF DeliveryTyped, TypeOK
<1>1. UNCHANGED vars => DeliveryTyped'  BY DEF vars
<1>2. ASSUME NEW src \in Sources, Admit(src) PROVE DeliveryTyped'
  BY <1>2 DEF Admit, Sources
<1>3. ASSUME NEW e \in Reports, FoldHub(e) PROVE DeliveryTyped'
  <2>1. PICK q \in Seq(Reports) : q = hub  OBVIOUS
  <2>2. hub' \in Seq(Reports)  BY <1>3, <2>1, QueueAppend DEF FoldHub
  <2>3. newest' = [newest EXCEPT ![e.ship] = e.time]  BY <1>3 DEF FoldHub
  <2>4. newest' \in [Ships -> 0..MaxTime] /\ \A m \in Ships : newest'[m] # 0 => [ship |-> m, time |-> newest'[m]] \in Reports
    BY <2>3, FoldTyped
  <2>5. UNCHANGED <<order, folded, paced, conn, live, queue, overflow, reader, replay, best, fresh>>
    BY <1>3 DEF FoldHub
  <2> QED  BY <2>2, <2>4, <2>5
<1>4. ASSUME NEW e \in Reports, NEW b \in BOOLEAN, FoldLive(e, b) PROVE DeliveryTyped'
  <2>1. UNCHANGED <<hub, paced, conn, live, queue, overflow, reader, replay, best, fresh>>
    BY <1>4 DEF FoldLive
  <2>2. CASE Stale(e, b)
    <3>1. UNCHANGED <<newest, folded>> /\ order' = Nobody  BY <1>4, <2>2 DEF FoldLive
    <3> QED  BY <2>1, <3>1
  <2>3. CASE ~Stale(e, b)
    <3>1. newest' = [newest EXCEPT ![e.ship] = e.time] /\ folded' = <<e>> /\ order' = order
      BY <1>4, <2>3 DEF FoldLive
    <3>2. newest' \in [Ships -> 0..MaxTime] /\ \A m \in Ships : newest'[m] # 0 => [ship |-> m, time |-> newest'[m]] \in Reports
      BY <3>1, FoldTyped
    <3>3. folded' \in Seq(Reports) /\ Len(folded') <= 1  BY <3>1
    <3> QED  BY <2>1, <3>1, <3>2, <3>3
  <2> QED  BY <2>2, <2>3
<1>5. CASE HubDone
  <2>1. paced' \in Seq(Reports)
    <3>1. PICK q \in Seq(Reports), s \in Seq(Reports) : q = paced /\ s = hub  OBVIOUS
    <3> QED  BY <1>5, <3>1, QueueConcat DEF HubDone
  <2> QED  BY <1>5, <2>1 DEF HubDone
<1>6. CASE BroadcastLive
  <2>1. PICK e \in Reports : e = Head(folded)
    <3>1. PICK q \in Seq(Reports) : q = folded  OBVIOUS
    <3> QED  BY <1>6, <3>1, QueueTail DEF BroadcastLive
  <2>2. Broadcast(e) /\ folded' = <<>> /\ order' = Nobody
        /\ UNCHANGED <<newest, hub, paced, conn, live, reader, replay, best, fresh>>
    BY <1>6, <2>1 DEF BroadcastLive
  <2>3. queue' \in [Clients -> Seq(Reports)] /\ overflow' \in [Clients -> BOOLEAN] /\ \A c \in Clients : Len(queue'[c]) <= Buffer
    BY <2>2, BroadcastDoes
  <2> QED  BY <2>2, <2>3
<1>7. CASE BroadcastPaced
  <2>1. PICK q \in Seq(Reports) : q = paced /\ q # <<>>  BY <1>7 DEF BroadcastPaced
  <2>2. Head(q) \in Reports /\ Tail(q) \in Seq(Reports)  BY <2>1, QueueTail
  <2>3. Broadcast(Head(q)) /\ paced' = Tail(q)
        /\ UNCHANGED <<newest, order, folded, hub, conn, live, reader, replay, best, fresh>>
    BY <1>7, <2>1 DEF BroadcastPaced, PacedRest
  <2>4. queue' \in [Clients -> Seq(Reports)] /\ overflow' \in [Clients -> BOOLEAN] /\ \A c \in Clients : Len(queue'[c]) <= Buffer
    BY <2>2, <2>3, BroadcastDoes
  <2> QED  BY <2>2, <2>3, <2>4
<1>8. ASSUME NEW c \in Clients,
             OpenSocket(c) \/ Unsubscribe(c) \/ ReplayDone(c) \/ \E b \in BOOLEAN : OpenSse(c, b) \/ Subscribe(c, b)
      PROVE  DeliveryTyped'
  <2>1. UNCHANGED <<newest, order, folded, hub, paced, queue, overflow, replay, best>>
    BY <1>8 DEF OpenSocket, Unsubscribe, ReplayDone, OpenSse, Subscribe, foldVars
  <2>2. conn' \in [Clients -> {"new", "socket", "sse", "closed"}]
    BY <1>8 DEF OpenSocket, Unsubscribe, ReplayDone, OpenSse, Subscribe
  <2>3. live' \in [Clients -> BOOLEAN] /\ fresh' \in [Clients -> BOOLEAN]
    BY <1>8 DEF OpenSocket, Unsubscribe, ReplayDone, OpenSse, Subscribe, Stored
  <2>4. reader' \in [Clients -> {"idle", "snapshot", "replay"}]
    BY <1>8 DEF OpenSocket, Unsubscribe, ReplayDone, OpenSse, Subscribe
  <2> QED  BY <2>1, <2>2, <2>3, <2>4
<1>9. ASSUME NEW c \in Clients, ReadSnapshot(c) PROVE DeliveryTyped'
  <2>1. newest \in [Ships -> Nat]  BY Typing
  <2>2. PICK s \in SetToSeqs({[ship |-> m, time |-> newest[m]] : m \in {n \in Ships : newest[n] # 0}}) :
          replay' = [replay EXCEPT ![c] = s]
    BY <1>9 DEF ReadSnapshot
  <2>3. s \in Seq(Reports)  BY <2>1, <2>2, SnapshotIsWhole
  <2>4. replay' \in [Clients -> Seq(Reports)]  BY <2>2, <2>3
  <2>5. reader' \in [Clients -> {"idle", "snapshot", "replay"}] /\ fresh' \in [Clients -> BOOLEAN]
        /\ UNCHANGED <<newest, order, folded, hub, paced, conn, live, queue, overflow, best>>
    BY <1>9 DEF ReadSnapshot, foldVars
  <2> QED  BY <2>4, <2>5
<1>10. ASSUME NEW c \in Clients, SendSnapshot(c) PROVE DeliveryTyped'
  <2>1. PICK s \in Seq(Reports) : s = replay[c] /\ s # <<>>  BY <1>10 DEF SendSnapshot
  <2>2. Head(s) \in Reports /\ Tail(s) \in Seq(Reports)  BY <2>1, QueueTail
  <2>3. /\ best' = Sent(c, Head(s)) /\ replay' = [replay EXCEPT ![c] = Tail(s)]
        /\ UNCHANGED <<newest, order, folded, hub, paced, conn, live, queue, overflow, reader, fresh>>
    BY <1>10, <2>1 DEF SendSnapshot, foldVars
  <2>4. best' \in [Clients -> [Ships -> 0..MaxTime]] /\ replay' \in [Clients -> Seq(Reports)]
    BY <2>2, <2>3, SentDoes
  <2> QED  BY <2>3, <2>4
<1>11. ASSUME NEW c \in Clients, NEW b \in BOOLEAN, Deliver(c, b) PROVE DeliveryTyped'
  <2>1. PICK q \in Seq(Reports) : q = queue[c] /\ q # <<>>  BY <1>11 DEF Deliver, Reading
  <2>2. Head(q) \in Reports /\ Tail(q) \in Seq(Reports) /\ Len(Tail(q)) <= Len(q) /\ Len(Tail(q)) \in Nat
    BY <2>1, QueueTail
  <2>3. /\ best' \in {best, Sent(c, Head(q))} /\ queue' = [queue EXCEPT ![c] = Tail(q)]
        /\ fresh' = [fresh EXCEPT ![c] = fresh[c] /\ ~b]
        /\ UNCHANGED <<newest, order, folded, hub, paced, conn, live, overflow, reader, replay>>
    BY <1>11, <2>1 DEF Deliver, foldVars
  <2>4. best' \in [Clients -> [Ships -> 0..MaxTime]] /\ queue' \in [Clients -> Seq(Reports)] /\ fresh' \in [Clients -> BOOLEAN]
    BY <2>2, <2>3, SentDoes
  <2>5. \A d \in Clients : Len(queue'[d]) <= Buffer
    <3>1. Len(q) <= Buffer /\ Len(q) \in Nat /\ Buffer \in Nat  BY <2>1, Typing
    <3>2. \A d \in Clients : queue'[d] = queue[d] \/ queue'[d] = Tail(q)  BY <2>3
    <3>3. Len(Tail(q)) <= Buffer  BY <2>2, <3>1
    <3> QED  BY <3>2, <3>3
  <2> QED  BY <2>3, <2>4, <2>5
<1>12. ASSUME NEW c \in Clients, CloseSlow(c) \/ Leave(c) PROVE DeliveryTyped'
  <2>1. Gone(c)  BY <1>12 DEF CloseSlow, Leave
  <2>2. <<>> \in Seq(Reports) /\ Len(<<>>) <= Buffer  BY DeliveryAssumption
  <2>3. queue' = [queue EXCEPT ![c] = <<>>] /\ replay' = [replay EXCEPT ![c] = <<>>]  BY <2>1 DEF Gone
  <2>4. queue' \in [Clients -> Seq(Reports)] /\ replay' \in [Clients -> Seq(Reports)]  BY <2>2, <2>3
  <2>5. \A d \in Clients : Len(queue'[d]) <= Buffer
    <3>1. \A d \in Clients : queue'[d] = queue[d] \/ queue'[d] = <<>>  BY <2>3
    <3> QED  BY <2>2, <3>1
  <2>6. /\ UNCHANGED <<newest, order, folded, hub, paced, overflow, best>>
        /\ conn' \in [Clients -> {"new", "socket", "sse", "closed"}]
        /\ live' \in [Clients -> BOOLEAN] /\ fresh' \in [Clients -> BOOLEAN]
        /\ reader' \in [Clients -> {"idle", "snapshot", "replay"}]
    BY <2>1 DEF Gone, foldVars
  <2> QED  BY <2>4, <2>5, <2>6
<1> QED  BY <1>1, <1>2, <1>3, <1>4, <1>5, <1>6, <1>7, <1>8, <1>9, <1>10, <1>11, <1>12 DEF Next
-----------------------------------------------------------------------------
(* Subscriptions and gaps. *)

LEMMA SubscribedStep ==
    ASSUME DeliveryTyped, Subscribed, [Next]_vars
    PROVE  Subscribed'
<1>1. /\ conn \in [Clients -> {"new", "socket", "sse", "closed"}] /\ live \in [Clients -> BOOLEAN]
      /\ fresh \in [Clients -> BOOLEAN] /\ replay \in [Clients -> Seq(Reports)]
      /\ reader \in [Clients -> {"idle", "snapshot", "replay"}]
  BY Typing
<1>2. ASSUME UNCHANGED <<conn, live, fresh, reader, replay>> PROVE Subscribed'
  BY <1>2 DEF Subscribed, Open
<1>3. CASE \/ \E src \in Sources : Admit(src)
           \/ \E e \in Reports : FoldHub(e) \/ \E b \in BOOLEAN : FoldLive(e, b)
           \/ HubDone \/ BroadcastLive \/ BroadcastPaced \/ UNCHANGED vars
  <2>1. UNCHANGED <<conn, live, fresh, reader, replay>>
    BY <1>3 DEF Admit, FoldHub, FoldLive, HubDone, BroadcastLive, BroadcastPaced, vars
  <2> QED  BY <1>2, <2>1
<1>4. ASSUME NEW c \in Clients,
             \/ OpenSocket(c) \/ Unsubscribe(c) \/ ReadSnapshot(c) \/ SendSnapshot(c) \/ ReplayDone(c)
             \/ \E b \in BOOLEAN : OpenSse(c, b) \/ Subscribe(c, b) \/ Deliver(c, b)
             \/ CloseSlow(c) \/ Leave(c)
      PROVE  Subscribed'
  <2>1. \A d \in Clients \ {c} : /\ conn'[d] = conn[d] /\ live'[d] = live[d] /\ fresh'[d] = fresh[d]
                                 /\ reader'[d] = reader[d] /\ replay'[d] = replay[d]
    BY <1>1, <1>4 DEF OpenSocket, Unsubscribe, ReadSnapshot, SendSnapshot, ReplayDone, OpenSse, Subscribe, Deliver,
       CloseSlow, Leave, Gone
  <2>2. /\ live'[c] => conn'[c] \in {"socket", "sse"}
        /\ fresh'[c] \/ reader'[c] # "idle" => live'[c]
        /\ reader'[c] # "replay" => replay'[c] = <<>>
    <3>1. CASE OpenSocket(c) \/ ReplayDone(c)
      BY <1>1, <3>1 DEF OpenSocket, ReplayDone, Subscribed, Open
    <3>2. CASE Unsubscribe(c) \/ \E b \in BOOLEAN : Subscribe(c, b)
      BY <1>1, <3>2 DEF Unsubscribe, Subscribe, Stored, Subscribed, Open
    <3>3. CASE ReadSnapshot(c) \/ SendSnapshot(c)
      BY <1>1, <3>3 DEF ReadSnapshot, SendSnapshot, Subscribed, Open
    <3>4. CASE \E b \in BOOLEAN : OpenSse(c, b)
      BY <1>1, <3>4 DEF OpenSse, Subscribed, Open
    <3>5. CASE \E b \in BOOLEAN : Deliver(c, b)
      BY <1>1, <3>5 DEF Deliver, Subscribed, Open
    <3>6. CASE CloseSlow(c) \/ Leave(c)
      BY <1>1, <3>6 DEF CloseSlow, Leave, Gone
    <3> QED  BY <1>4, <3>1, <3>2, <3>3, <3>4, <3>5, <3>6
  <2> QED  BY <2>1, <2>2 DEF Subscribed, Open
<1> QED  BY <1>3, <1>4 DEF Next

\* What was on its way to a client still is, or the client has it.
LEMMA StillOnItsWay ==
    ASSUME DeliveryTyped, NEW c \in Clients, NEW m \in Ships,
           newest' = newest, best'[c][m] >= best[c][m], best'[c][m] \in Nat,
           \A e \in OnItsWay(c) : e \in OnItsWay(c)' \/ best'[c][e.ship] >= e.time,
           HasNewest(c, m)
    PROVE  HasNewest(c, m)'
<1>1. best[c][m] \in Nat /\ newest[m] \in Nat  BY Typing
<1>2. CASE best[c][m] >= newest[m]  BY <1>1, <1>2 DEF HasNewest
<1>3. CASE \E e \in OnItsWay(c) : e.ship = m /\ e.time = newest[m]
  BY <1>1, <1>3 DEF HasNewest
<1> QED  BY <1>2, <1>3 DEF HasNewest

\* A report folded is on its way to every client, and the newest of its ship.
LEMMA FoldedIsOnItsWay ==
    ASSUME DeliveryTyped, NEW e \in Reports, newest' = [newest EXCEPT ![e.ship] = e.time], best' = best,
           NEW c \in Clients, NEW m \in Ships,
           OnItsWay(c) \union {e} \subseteq OnItsWay(c)', HasNewest(c, m)
    PROVE  HasNewest(c, m)'
<1>1. newest \in [Ships -> 0..MaxTime] /\ e.ship \in Ships  BY Typing
<1>2. CASE m = e.ship
  <2>1. newest'[m] = e.time  BY <1>1, <1>2
  <2>2. e \in OnItsWay(c)'  OBVIOUS
  <2> QED  BY <1>2, <2>1, <2>2 DEF HasNewest
<1>3. CASE m # e.ship
  <2>1. newest'[m] = newest[m]  BY <1>1, <1>3
  <2> QED  BY <2>1 DEF HasNewest
<1> QED  BY <1>2, <1>3

LEMMA MissedStep ==
    ASSUME DeliveryInv, [Next]_vars
    PROVE  NothingMissed'
<1>1. DeliveryTyped /\ Subscribed /\ NothingMissed  BY DEF DeliveryInv
<1>2. /\ newest \in [Ships -> 0..MaxTime] /\ MaxTime \in Nat
      /\ fresh \in [Clients -> BOOLEAN] /\ overflow \in [Clients -> BOOLEAN]
      /\ best \in [Clients -> [Ships -> 0..MaxTime]] /\ live \in [Clients -> BOOLEAN]
      /\ queue \in [Clients -> Seq(Reports)] /\ replay \in [Clients -> Seq(Reports)]
  BY <1>1, Typing
<1>3. \A c \in Clients, m \in Ships : best[c][m] \in Nat /\ best[c][m] >= best[c][m]  BY <1>2
<1>4. SUFFICES ASSUME NEW c \in Clients, NEW m \in Ships, fresh'[c], ~overflow'[c]
               PROVE  HasNewest(c, m)'
  BY DEF NothingMissed
<1>5. ASSUME UNCHANGED <<newest, best, fresh, overflow>>, OnItsWay(c) \subseteq OnItsWay(c)' PROVE HasNewest(c, m)'
  <2>1. HasNewest(c, m)  BY <1>1, <1>4, <1>5 DEF NothingMissed
  <2> QED  BY <1>1, <1>3, <1>5, <2>1, StillOnItsWay
<1>6. UNCHANGED vars => HasNewest(c, m)'  BY <1>5 DEF vars, OnItsWay, Waiting
<1>7. ASSUME NEW src \in Sources, Admit(src) PROVE HasNewest(c, m)'
  BY <1>5, <1>7 DEF Admit, OnItsWay, Waiting
<1>8. ASSUME NEW e \in Reports, FoldHub(e) PROVE HasNewest(c, m)'
  <2>1. PICK q \in Seq(Reports) : q = hub  BY <1>1, Typing
  <2>2. ToSet(hub') = ToSet(hub) \union {e}  BY <1>8, <2>1, QueueAppend DEF FoldHub
  <2>3. newest' = [newest EXCEPT ![e.ship] = e.time]
        /\ UNCHANGED <<folded, paced, queue, overflow, replay, best, fresh>>
    BY <1>8 DEF FoldHub
  <2>4. OnItsWay(c) \union {e} \subseteq OnItsWay(c)'  BY <2>2, <2>3 DEF OnItsWay, Waiting
  <2>5. HasNewest(c, m)  BY <1>1, <1>4, <2>3 DEF NothingMissed
  <2> QED  BY <1>1, <2>3, <2>4, <2>5, FoldedIsOnItsWay
<1>9. ASSUME NEW e \in Reports, NEW b \in BOOLEAN, FoldLive(e, b) PROVE HasNewest(c, m)'
  <2>1. UNCHANGED <<hub, paced, queue, overflow, replay, best, fresh>> /\ folded = <<>>
    BY <1>9 DEF FoldLive
  <2>2. CASE Stale(e, b)
    <3>1. UNCHANGED <<newest, folded>>  BY <1>9, <2>2 DEF FoldLive
    <3> QED  BY <1>5, <2>1, <3>1 DEF OnItsWay, Waiting
  <2>3. CASE ~Stale(e, b)
    <3>1. newest' = [newest EXCEPT ![e.ship] = e.time] /\ folded' = <<e>>
      BY <1>9, <2>3 DEF FoldLive
    <3>2. ToSet(folded) = {} /\ e \in ToSet(folded')
      <4>1. e \in ToSet(<<e>>)  BY DEF ToSet
      <4> QED  BY <2>1, <3>1, <4>1, EmptyQueue
    <3>3. OnItsWay(c) \union {e} \subseteq OnItsWay(c)'  BY <2>1, <3>2 DEF OnItsWay, Waiting
    <3>4. HasNewest(c, m)  BY <1>1, <1>4, <2>1 DEF NothingMissed
    <3> QED  BY <1>1, <2>1, <3>1, <3>3, <3>4, FoldedIsOnItsWay
  <2> QED  BY <2>2, <2>3
<1>10. CASE HubDone
  <2>1. PICK q \in Seq(Reports), s \in Seq(Reports) : q = paced /\ s = hub  BY <1>1, Typing
  <2>2. paced' = q \o s /\ UNCHANGED <<newest, folded, queue, overflow, replay, best, fresh>>
    BY <1>10, <2>1 DEF HubDone
  <2>3. ToSet(paced) \union ToSet(hub) \subseteq ToSet(paced')  BY <2>1, <2>2, QueueConcat
  <2>4. OnItsWay(c) \subseteq OnItsWay(c)'  BY <2>2, <2>3 DEF OnItsWay, Waiting
  <2> QED  BY <1>5, <2>2, <2>4
<1>11. ASSUME NEW e \in Reports, Broadcast(e), UNCHANGED <<newest, hub, replay, best, fresh>>,
              ToSet(folded) \union ToSet(paced) \subseteq ToSet(folded') \union ToSet(paced') \union {e}
       PROVE  HasNewest(c, m)'
  <2>1. /\ ToSet(queue[c]) \subseteq ToSet(queue'[c]) /\ (overflow[c] => overflow'[c])
        /\ Open(c) /\ ~overflow'[c] => e \in ToSet(queue'[c])
    BY <1>1, <1>11, BroadcastDoes
  <2>2. Open(c)  BY <1>1, <1>4, <1>11 DEF Subscribed
  <2>3. OnItsWay(c) \subseteq OnItsWay(c)'
    BY <1>4, <1>11, <2>1, <2>2 DEF OnItsWay, Waiting
  <2>4. HasNewest(c, m)  BY <1>1, <1>4, <1>11, <2>1 DEF NothingMissed
  <2> QED  BY <1>1, <1>3, <1>11, <2>3, <2>4, StillOnItsWay
<1>12. CASE BroadcastLive
  <2>1. PICK q \in Seq(Reports) : q = folded /\ q # <<>> /\ Len(q) <= 1
    BY <1>1, <1>12, Typing DEF BroadcastLive
  <2>2. /\ ToSet(q) = ToSet(Tail(q)) \union {Head(q)} /\ Head(q) \in Reports
        /\ Len(Tail(q)) = Len(q) - 1 /\ Len(q) \in Nat /\ Tail(q) \in Seq(Reports)
    BY <2>1, QueueTail
  <2>3. Tail(q) = <<>>  BY <2>1, <2>2
  <2>4. ToSet(folded) = {Head(q)}  BY <2>1, <2>2, <2>3, EmptyQueue
  <2>5. Broadcast(Head(q)) /\ UNCHANGED <<newest, hub, paced, replay, best, fresh>>
    BY <1>12, <2>1 DEF BroadcastLive
  <2> QED  BY <1>11, <2>2, <2>4, <2>5
<1>13. CASE BroadcastPaced
  <2>1. PICK q \in Seq(Reports) : q = paced /\ q # <<>>  BY <1>1, <1>13, Typing DEF BroadcastPaced
  <2>2. ToSet(q) = ToSet(Tail(q)) \union {Head(q)} /\ Head(q) \in Reports  BY <2>1, QueueTail
  <2>3. Broadcast(Head(q)) /\ paced' = Tail(q) /\ UNCHANGED <<newest, folded, hub, replay, best, fresh>>
    BY <1>13, <2>1 DEF BroadcastPaced, PacedRest
  <2> QED  BY <1>11, <2>1, <2>2, <2>3
<1>14. ASSUME NEW d \in Clients,
              OpenSocket(d) \/ Unsubscribe(d) \/ ReplayDone(d) \/ \E b \in BOOLEAN : OpenSse(d, b) \/ Subscribe(d, b)
       PROVE  HasNewest(c, m)'
  <2>1. UNCHANGED <<newest, folded, hub, paced, queue, overflow, replay, best>>
    BY <1>14 DEF OpenSocket, Unsubscribe, ReplayDone, OpenSse, Subscribe, foldVars
  <2>2. fresh[c]
    BY <1>2, <1>4, <1>14 DEF OpenSocket, Unsubscribe, ReplayDone, OpenSse, Subscribe
  <2>3. OnItsWay(c) \subseteq OnItsWay(c)'  BY <2>1 DEF OnItsWay, Waiting
  <2>4. HasNewest(c, m)  BY <1>1, <1>4, <2>1, <2>2 DEF NothingMissed
  <2> QED  BY <1>1, <1>3, <2>1, <2>3, <2>4, StillOnItsWay
<1>15. ASSUME NEW d \in Clients, ReadSnapshot(d) PROVE HasNewest(c, m)'
  <2>1. newest \in [Ships -> Nat]  BY <1>2
  <2>2. PICK s \in SetToSeqs({[ship |-> n, time |-> newest[n]] : n \in {k \in Ships : newest[k] # 0}}) :
          replay' = [replay EXCEPT ![d] = s]
    BY <1>15 DEF ReadSnapshot
  <2>3. \A n \in Ships : newest[n] # 0 => [ship |-> n, time |-> newest[n]] \in ToSet(s)
    BY <1>1, <2>1, <2>2, SnapshotIsWhole DEF DeliveryTyped
  <2>4. /\ UNCHANGED <<newest, folded, hub, paced, queue, overflow, best>> /\ fresh' = [fresh EXCEPT ![d] = TRUE]
        /\ reader[d] = "snapshot"
    BY <1>15 DEF ReadSnapshot, foldVars
  <2>5. CASE c = d
    <3>1. replay'[c] = s  BY <1>2, <2>2, <2>5
    <3>2. CASE newest[m] = 0  BY <1>3, <2>4, <3>2 DEF HasNewest
    <3>3. CASE newest[m] # 0
      <4>1. PICK e \in ToSet(s) : e = [ship |-> m, time |-> newest[m]]  BY <2>3, <3>3
      <4>2. e \in OnItsWay(c)'  BY <3>1 DEF OnItsWay
      <4> QED  BY <2>4, <4>1, <4>2 DEF HasNewest
    <3> QED  BY <3>2, <3>3
  <2>6. CASE c # d
    <3>1. replay'[c] = replay[c] /\ fresh[c]  BY <1>2, <1>4, <2>2, <2>4, <2>6
    <3>2. OnItsWay(c) \subseteq OnItsWay(c)'  BY <2>4, <3>1 DEF OnItsWay, Waiting
    <3>3. HasNewest(c, m)  BY <1>1, <1>4, <2>4, <3>1 DEF NothingMissed
    <3> QED  BY <1>1, <1>3, <2>4, <3>2, <3>3, StillOnItsWay
  <2> QED  BY <2>5, <2>6
<1>16. ASSUME NEW d \in Clients, NEW e \in Reports, best' = Sent(d, e) \/ (best' = best /\ d # c),
              UNCHANGED <<newest, overflow>>, fresh[c],
              OnItsWay(c) \subseteq OnItsWay(c)' \union (IF c = d THEN {e} ELSE {})
       PROVE  HasNewest(c, m)'
  <2>1. /\ Sent(d, e) \in [Clients -> [Ships -> 0..MaxTime]]
        /\ Sent(d, e)[d][e.ship] >= e.time
        /\ \A k \in Clients, n \in Ships : Sent(d, e)[k][n] >= best[k][n]
    BY <1>1, <1>16, SentDoes
  <2>2. best' \in [Clients -> [Ships -> 0..MaxTime]] /\ best'[c][m] >= best[c][m]
    BY <1>2, <1>3, <1>16, <2>1
  <2>3. \A r \in OnItsWay(c) : r \in OnItsWay(c)' \/ best'[c][r.ship] >= r.time
    BY <1>16, <2>1
  <2>4. HasNewest(c, m)  BY <1>1, <1>4, <1>16 DEF NothingMissed
  <2>5. best'[c][m] \in Nat  BY <1>2, <2>2
  <2> QED  BY <1>1, <1>16, <2>2, <2>3, <2>4, <2>5, StillOnItsWay
<1>17. ASSUME NEW d \in Clients, SendSnapshot(d) PROVE HasNewest(c, m)'
  <2>1. PICK s \in Seq(Reports) : s = replay[d] /\ s # <<>>  BY <1>2, <1>17 DEF SendSnapshot
  <2>2. ToSet(s) = ToSet(Tail(s)) \union {Head(s)} /\ Head(s) \in Reports  BY <2>1, QueueTail
  <2>3. /\ best' = Sent(d, Head(s)) /\ replay' = [replay EXCEPT ![d] = Tail(s)]
        /\ UNCHANGED <<newest, folded, hub, paced, queue, overflow, fresh>>
    BY <1>17, <2>1 DEF SendSnapshot, foldVars
  <2>4. ToSet(replay[c]) \subseteq ToSet(replay'[c]) \union (IF c = d THEN {Head(s)} ELSE {})
    BY <1>2, <2>1, <2>2, <2>3
  <2>5. OnItsWay(c) \subseteq OnItsWay(c)' \union (IF c = d THEN {Head(s)} ELSE {})
    BY <2>3, <2>4 DEF OnItsWay, Waiting
  <2>6. fresh[c]  BY <1>4, <2>3
  <2> QED  BY <1>16, <2>2, <2>3, <2>5, <2>6
<1>18. ASSUME NEW d \in Clients, NEW b \in BOOLEAN, Deliver(d, b) PROVE HasNewest(c, m)'
  <2>1. PICK q \in Seq(Reports) : q = queue[d] /\ q # <<>>  BY <1>2, <1>18 DEF Deliver, Reading
  <2>2. ToSet(q) = ToSet(Tail(q)) \union {Head(q)} /\ Head(q) \in Reports  BY <2>1, QueueTail
  <2>3. /\ best' = (IF live[d] /\ ~b THEN Sent(d, Head(q)) ELSE best)
        /\ queue' = [queue EXCEPT ![d] = Tail(q)] /\ fresh' = [fresh EXCEPT ![d] = fresh[d] /\ ~b]
        /\ UNCHANGED <<newest, folded, hub, paced, overflow, replay>>
    BY <1>18, <2>1 DEF Deliver, foldVars
  <2>4. fresh[c] /\ (c = d => ~b /\ live[d])
    <3>1. fresh[c] /\ (c = d => ~b)  BY <1>2, <1>4, <2>3
    <3> QED  BY <1>1, <3>1 DEF Subscribed
  <2>5. ToSet(queue[c]) \subseteq ToSet(queue'[c]) \union (IF c = d THEN {Head(q)} ELSE {})
    BY <1>2, <2>1, <2>2, <2>3
  <2>6. OnItsWay(c) \subseteq OnItsWay(c)' \union (IF c = d THEN {Head(q)} ELSE {})
    BY <2>3, <2>5 DEF OnItsWay, Waiting
  <2>7. best' = Sent(d, Head(q)) \/ (best' = best /\ d # c)  BY <2>3, <2>4
  <2> QED  BY <1>16, <2>2, <2>3, <2>4, <2>6, <2>7
<1>19. ASSUME NEW d \in Clients, CloseSlow(d) \/ Leave(d) PROVE HasNewest(c, m)'
  <2>1. Gone(d)  BY <1>19 DEF CloseSlow, Leave
  <2>2. UNCHANGED <<newest, folded, hub, paced, overflow, best>> /\ fresh[c] /\ c # d
        /\ queue'[c] = queue[c] /\ replay'[c] = replay[c]
    BY <1>2, <1>4, <2>1 DEF Gone, foldVars
  <2>3. OnItsWay(c) \subseteq OnItsWay(c)'  BY <2>2 DEF OnItsWay, Waiting
  <2>4. HasNewest(c, m)  BY <1>1, <1>4, <2>2 DEF NothingMissed
  <2> QED  BY <1>1, <1>3, <2>2, <2>3, <2>4, StillOnItsWay
<1> QED
  BY <1>6, <1>7, <1>8, <1>9, <1>10, <1>12, <1>13, <1>14, <1>15, <1>17, <1>18, <1>19 DEF Next

-----------------------------------------------------------------------------
(* The theorems. *)

LEMMA DeliveryInitHolds ==
    ASSUME Init
    PROVE  DeliveryInv
<1>1. <<>> \in Seq(Reports) /\ Len(<<>>) = 0 /\ MaxTime \in Nat /\ Buffer \in Nat
  BY DeliveryAssumption
<1>2. DeliveryTyped  BY <1>1 DEF Init, DeliveryTyped, TypeOK
<1>3. Subscribed /\ NothingMissed  BY DEF Init, Subscribed, NothingMissed
<1> QED  BY <1>2, <1>3 DEF DeliveryInv

\* The invariant of delivery: types and the queues' bound, who is subscribed,
\* and that nothing is missed, a replay under way counted (stream.go:538).
THEOREM DeliveryHolds == Spec => []DeliveryInv
<1>1. Init => DeliveryInv  BY DeliveryInitHolds
<1>2. DeliveryInv /\ [Next]_vars => DeliveryInv'
  BY TypedStep, SubscribedStep, MissedStep DEF DeliveryInv
<1> QED  BY <1>1, <1>2, PTL DEF Spec

\* Whatever folds, AISHub rows, paced events, snapshots and unsubscriptions are
\* interleaved, a client whose snapshot is replayed was sent every ship's newest
\* position, or it is on its way, or the client's queue overflowed
\* (stream.go:538, pipeline.go's broadcast).
THEOREM SubscribersMissNothing == Spec => []NoGap
<1>1. DeliveryInv => NoGap
  <2> SUFFICES ASSUME DeliveryInv, NEW c \in Clients, NEW m \in Ships, fresh[c], reader[c] = "idle", ~overflow[c]
               PROVE  best[c][m] >= newest[m] \/ \E e \in Waiting(c) : e.ship = m /\ e.time = newest[m]
    BY DEF NoGap
  <2>1. replay[c] = <<>>  BY DEF DeliveryInv, Subscribed
  <2>2. OnItsWay(c) = Waiting(c)  BY <2>1, EmptyQueue DEF OnItsWay
  <2> QED  BY <2>2 DEF DeliveryInv, NothingMissed, HasNewest
<1> QED  BY <1>1, DeliveryHolds, PTL
=============================================================================
