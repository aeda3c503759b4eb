-------------------------- MODULE MqttSessionProofs --------------------------
(* A message acknowledged over MQTT was ingested or turned away, once,      *)
(* whatever was sent again and whichever ids were used again: proofs about   *)
(* MqttSession.                                                              *)
EXTENDS MqttSession, TLAPS

\* How often this session dealt with a message: its line ingested or turned away.
Taken == [m \in Publishes |-> ingested[m] + turnedAway[m]]

Packets == [type : {"publish", "pubrel"}, id : PacketIds, message : Publishes]
Acks == [type : {"puback", "pubrec", "pubcomp"}, id : PacketIds]

MqttTypeOK ==
  /\ session \in BOOLEAN /\ inflight \subseteq PacketIds
  /\ toServer \in Seq(Packets) /\ toClient \in Seq(Acks)
  /\ stage \in [Publishes -> {"held", "sent", "released", "done"}]
  /\ idOf \in [Publishes -> PacketIds \union {NoId}]
  /\ resent \in Nat /\ broken \in Nat
  /\ ingested \in [Publishes -> Nat] /\ turnedAway \in [Publishes -> Nat]

LEMMA TakenTyped ==
  ASSUME ingested \in [Publishes -> Nat], turnedAway \in [Publishes -> Nat]
  PROVE  /\ Taken \in [Publishes -> Nat]
         /\ \A m \in Publishes : Taken[m] = ingested[m] + turnedAway[m]
  BY DEF Taken

\* What is on a queue, and what is on it in order.
On(s) == {s[k] : k \in DOMAIN s}
Before(s, a, b) == \E j, k \in DOMAIN s : j < k /\ s[j] = a /\ s[k] = b

\* The message an id is in use for.
Owns(m, i) == stage[m] \in {"sent", "released"} /\ idOf[m] = i

\* An id is one message's at a time; what is in flight is its owner's.
Ids ==
  /\ \A m, n \in Publishes : stage[m] \in {"sent", "released"} /\ Owns(n, idOf[m]) => m = n
  /\ \A m \in Publishes : stage[m] \in {"sent", "released"} => idOf[m] \in PacketIds
  /\ \A i \in inflight : \E m \in Exactly : Owns(m, i) /\ Taken[m] = 1
  /\ ~session => /\ \A m \in Publishes : stage[m] \in {"held", "done"}
                 /\ inflight = {} /\ toServer = <<>> /\ toClient = <<>>

\* How often each message was Taken.
Counts ==
  \A m \in Publishes :
    /\ stage[m] = "held" => Taken[m] = 0
    /\ stage[m] = "sent" => Taken[m] \in {0, 1}
    /\ stage[m] \in {"released", "done"} => Taken[m] = 1
    /\ m \in Exactly /\ stage[m] = "sent" /\ Taken[m] = 1 => idOf[m] \in inflight
    /\ stage[m] = "released" => m \in Exactly

\* A packet on its way is its message's, at the stage it was sent in or a later one.
OnWay(p) ==
  /\ p.id = idOf[p.message]
  /\ p.type = "publish" => stage[p.message] \in {"sent", "released"}
  /\ p.type = "pubrel" => p.message \in Exactly /\ stage[p.message] \in {"released", "done"}
  /\ p.type = "publish" /\ stage[p.message] = "released" => p.id \in inflight
  /\ p.type = "publish" /\ p.message \notin Exactly => Taken[p.message] = 0

\* Packet q may follow packet p: after a message's PUBLISH come its own packets,
\* after its PUBREL no PUBLISH of it, and a QoS 1 message's PUBLISH comes once.
Follows(p, q) ==
  p.id = q.id =>
    /\ p.type = "publish" => q.message = p.message /\ (q.type = "publish" => p.message \in Exactly)
    /\ p.type = "pubrel" /\ q.type = "publish" => q.message # p.message

\* Once a message was Taken, the packets under its id are its own.
OwnOnly(p) ==
  \A m \in Publishes :
    Owns(m, p.id) /\ Taken[m] = 1 =>
      p.message = m /\ (stage[m] = "sent" => p.type = "publish")

ToServer ==
  /\ \A p \in On(toServer) : OnWay(p) /\ OwnOnly(p)
  /\ \A p, q \in On(toServer) : Before(toServer, p, q) => Follows(p, q)

\* What an acknowledgement on its way says of its id's owner.
Says(a) ==
  /\ a.type = "puback" => \E m \in Publishes \ Exactly : Owns(m, a.id) /\ Taken[m] = 1
  /\ a.type = "pubrec" => \E m \in Exactly : Owns(m, a.id) /\ Taken[m] = 1
  /\ a.type = "pubcomp" =>
       \A m \in Publishes : Owns(m, a.id) /\ stage[m] = "released" =>
          a.id \notin inflight /\ \A p \in On(toServer) : p.id = a.id => p.type = "pubrel"

\* Acknowledgement b may follow a: a message's last is never before its first,
\* and those of the id's last owner come before either.
AckFollows(a, b) ==
  \A m \in Publishes : Owns(m, a.id) /\ a.id = b.id =>
    /\ stage[m] = "sent" => ~(a.type = "pubrec" /\ b.type = "pubcomp")
    /\ stage[m] = "released" => ~(a.type = "pubcomp" /\ b.type = "pubrec")
    /\ ~(a.type = "puback" /\ b.type = "puback")

ToClient ==
  /\ \A a \in On(toClient) : Says(a)
  /\ \A a, b \in On(toClient) : Before(toClient, a, b) => AckFollows(a, b)

MqttInv == MqttTypeOK /\ Ids /\ Counts /\ ToServer /\ ToClient

---------------------------------------------------------------------------
(* Queues. *)

LEMMA Appended ==
  ASSUME NEW S, NEW s \in Seq(S), NEW e \in S
  PROVE  /\ Append(s, e) \in Seq(S)
         /\ On(Append(s, e)) = On(s) \union {e}
         /\ \A a, b : Before(Append(s, e), a, b) => Before(s, a, b) \/ (a \in On(s) /\ b = e)
<1>1. /\ Append(s, e) \in Seq(S)
      /\ Len(s) \in Nat /\ DOMAIN s = 1..Len(s) /\ DOMAIN Append(s, e) = 1..(Len(s) + 1)
      /\ \A k \in DOMAIN s : Append(s, e)[k] = s[k]
      /\ Append(s, e)[Len(s) + 1] = e
  OBVIOUS
<1>2. \A k \in DOMAIN Append(s, e) : k \in DOMAIN s \/ k = Len(s) + 1  BY <1>1
<1>3. On(Append(s, e)) = On(s) \union {e}
  <2>1. On(Append(s, e)) \subseteq On(s) \union {e}  BY <1>1, <1>2 DEF On
  <2>2. Len(s) + 1 \in DOMAIN Append(s, e) /\ DOMAIN s \subseteq DOMAIN Append(s, e)  BY <1>1
  <2>3. On(s) \union {e} \subseteq On(Append(s, e))  BY <1>1, <2>2 DEF On
  <2> QED  BY <2>1, <2>3
<1>4. ASSUME NEW a, NEW b, Before(Append(s, e), a, b)
      PROVE  Before(s, a, b) \/ (a \in On(s) /\ b = e)
  <2>1. PICK j \in DOMAIN Append(s, e), k \in DOMAIN Append(s, e) :
          j < k /\ Append(s, e)[j] = a /\ Append(s, e)[k] = b
    BY <1>4 DEF Before
  <2>2. j \in DOMAIN s  BY <1>1, <2>1
  <2>3. s[j] = a  BY <1>1, <2>1, <2>2
  <2>4. CASE k \in DOMAIN s  BY <1>1, <2>1, <2>2, <2>3, <2>4 DEF Before
  <2>5. CASE k = Len(s) + 1  BY <1>1, <2>1, <2>2, <2>3, <2>5 DEF On
  <2> QED  BY <1>2, <2>4, <2>5
<1> QED  BY <1>1, <1>3, <1>4

LEMMA Dropped ==
  ASSUME NEW S, NEW s \in Seq(S), s # <<>>
  PROVE  /\ Tail(s) \in Seq(S) /\ Head(s) \in S /\ Head(s) \in On(s)
         /\ On(Tail(s)) \subseteq On(s)
         /\ \A a, b : Before(Tail(s), a, b) => Before(s, a, b)
         /\ \A b \in On(Tail(s)) : Before(s, Head(s), b)
<1>1. /\ Tail(s) \in Seq(S) /\ Head(s) \in S /\ Head(s) = s[1] /\ 1 \in DOMAIN s
      /\ \A k \in DOMAIN Tail(s) : k + 1 \in DOMAIN s /\ k + 1 > 1 /\ Tail(s)[k] = s[k + 1]
      /\ DOMAIN Tail(s) \subseteq Nat
  OBVIOUS
<1>2. On(Tail(s)) \subseteq On(s) /\ Head(s) \in On(s)  BY <1>1 DEF On
<1>3. ASSUME NEW a, NEW b, Before(Tail(s), a, b) PROVE Before(s, a, b)
  <2>1. PICK j \in DOMAIN Tail(s), k \in DOMAIN Tail(s) : j < k /\ Tail(s)[j] = a /\ Tail(s)[k] = b
    BY <1>3 DEF Before
  <2>2. j + 1 \in DOMAIN s /\ k + 1 \in DOMAIN s /\ j + 1 < k + 1 /\ s[j + 1] = a /\ s[k + 1] = b
    BY <1>1, <2>1
  <2> QED  BY <2>2 DEF Before
<1>4. ASSUME NEW b \in On(Tail(s)) PROVE Before(s, Head(s), b)
  <2>1. PICK k \in DOMAIN Tail(s) : Tail(s)[k] = b  BY DEF On
  <2>2. 1 \in DOMAIN s /\ k + 1 \in DOMAIN s /\ 1 < k + 1 /\ s[1] = Head(s) /\ s[k + 1] = b
    BY <1>1, <2>1
  <2> QED  BY <2>2 DEF Before
<1> QED  BY <1>1, <1>2, <1>3, <1>4

LEMMA QueueElements ==
  ASSUME NEW S, NEW s \in Seq(S)
  PROVE  On(s) \subseteq S /\ \A a, b : Before(s, a, b) => a \in On(s) /\ b \in On(s)
  BY DEF On, Before

LEMMA NothingOn == On(<<>>) = {} /\ \A a, b : ~Before(<<>>, a, b)
  BY DEF On, Before

---------------------------------------------------------------------------
(* The publisher. *)

\* What a step that only appends a packet has to show of it.
LEMMA PacketJoins ==
  ASSUME MqttTypeOK, ToServer, NEW e \in Packets, toServer' = Append(toServer, e),
         \A p \in On(toServer) \union {e} : OnWay(p)' /\ OwnOnly(p)',
         \A p \in On(toServer) : Follows(p, e)
  PROVE  ToServer' /\ toServer' \in Seq(Packets) /\ On(toServer)' = On(toServer) \union {e}
<1>1. /\ toServer' \in Seq(Packets) /\ On(toServer)' = On(toServer) \union {e}
      /\ \A a, b : Before(toServer', a, b) => Before(toServer, a, b) \/ (a \in On(toServer) /\ b = e)
  <2>1. toServer \in Seq(Packets)  BY DEF MqttTypeOK
  <2>2. On(toServer)' = On(Append(toServer, e))  BY DEF On
  <2> QED  BY <2>1, <2>2, Appended
<1>2. \A a, b : Before(toServer, a, b) => a \in On(toServer) /\ b \in On(toServer)
  BY QueueElements DEF MqttTypeOK
<1>3. \A a, b : Before(toServer', a, b) => Follows(a, b)
  BY <1>1, <1>2 DEF ToServer
<1> QED  BY <1>1, <1>3 DEF ToServer, Before

LEMMA SendPublishKeeps ==
  ASSUME MqttInv, NEW m \in Publishes, NEW id \in PacketIds, SendPublish(m, id)
  PROVE  MqttInv'
<1> DEFINE e == Packet("publish", id, m)
<1>1. /\ session /\ stage[m] = "held" /\ id \notin InUse
      /\ toServer' = Append(toServer, e)
      /\ stage' = [stage EXCEPT ![m] = "sent"] /\ idOf' = [idOf EXCEPT ![m] = id]
      /\ UNCHANGED <<session, inflight, toClient, resent, broken, ingested, turnedAway, Taken>>
  BY DEF SendPublish, Taken
<1>2. e \in Packets /\ e.type = "publish" /\ e.id = id /\ e.message = m
  BY DEF Packets, Packet
<1> HIDE DEF e
<1>3. \A n \in Publishes : ~Owns(n, id)  BY <1>1 DEF Owns, InUse
<1>4. /\ stage'[m] = "sent" /\ idOf'[m] = id
      /\ \A n \in Publishes \ {m} : stage'[n] = stage[n] /\ idOf'[n] = idOf[n]
  BY <1>1 DEF MqttInv, MqttTypeOK
<1>5. \A p \in On(toServer) : /\ p \in Packets /\ p.message \in Publishes /\ p.message # m
                              /\ OnWay(p) /\ OwnOnly(p)
  <2>1. On(toServer) \subseteq Packets  BY QueueElements DEF MqttInv, MqttTypeOK
  <2> QED  BY <1>1, <2>1 DEF MqttInv, ToServer, OnWay, Packets
<1>6. Taken[m] = 0  BY <1>1 DEF MqttInv, Counts
<1>7. Ids'
  <2>1. \A n, o \in Publishes : (stage[n] \in {"sent", "released"} /\ Owns(o, idOf[n]) => n = o)'
    BY <1>3, <1>4 DEF MqttInv, Ids, Owns
  <2>2. \A n \in Publishes : (stage[n] \in {"sent", "released"} => idOf[n] \in PacketIds)'
    BY <1>4 DEF MqttInv, Ids
  <2>3. \A i \in inflight' : \E n \in Exactly : Owns(n, i)' /\ Taken'[n] = 1
    <3>1. \A n \in Exactly : n \in Publishes  BY MqttAssumption
    <3> QED  BY <1>1, <1>4, <1>6, <3>1 DEF MqttInv, Ids, Owns
  <2> QED  BY <1>1, <2>1, <2>2, <2>3 DEF Ids
<1>8. Counts'  BY <1>1, <1>4, <1>6 DEF MqttInv, Counts
<1>9. \A p \in On(toServer) : OnWay(p)' /\ OwnOnly(p)'
  <2>1. ASSUME NEW p \in On(toServer) PROVE OnWay(p)'
    BY <1>1, <1>4, <1>5 DEF OnWay
  <2>2. ASSUME NEW p \in On(toServer) PROVE OwnOnly(p)'
    BY <1>1, <1>4, <1>5, <1>6 DEF OwnOnly, Owns
  <2> QED  BY <2>1, <2>2
<1>10. OnWay(e)' /\ OwnOnly(e)'
  <2>1. OnWay(e)'  BY <1>1, <1>2, <1>4, <1>6 DEF OnWay
  <2>2. OwnOnly(e)'  BY <1>1, <1>2, <1>3, <1>4, <1>6 DEF OwnOnly, Owns
  <2> QED  BY <2>1, <2>2
<1>11. \A p \in On(toServer) : Follows(p, e)
  BY <1>2, <1>3, <1>5 DEF Follows, OnWay, Owns
<1>12. /\ ToServer' /\ toServer' \in Seq(Packets) /\ On(toServer)' = On(toServer) \union {e}
  <2>1. \A p \in On(toServer) \union {e} : OnWay(p)' /\ OwnOnly(p)'  BY <1>9, <1>10
  <2> QED  BY <1>1, <1>2, <1>11, <2>1, PacketJoins DEF MqttInv
<1>13. ToClient'
  <2>1. \A a \in On(toClient) : Says(a)'
    <3>1. ASSUME NEW a \in On(toClient), a.type = "puback"
          PROVE  \E n \in Publishes \ Exactly : Owns(n, a.id)' /\ Taken'[n] = 1
      BY <1>1, <1>4, <1>6, <3>1 DEF MqttInv, ToClient, Says, Owns
    <3>2. ASSUME NEW a \in On(toClient), a.type = "pubrec"
          PROVE  \E n \in Exactly : Owns(n, a.id)' /\ Taken'[n] = 1
      BY <1>1, <1>4, <1>6, <3>2, MqttAssumption DEF MqttInv, ToClient, Says, Owns
    <3>3. ASSUME NEW a \in On(toClient), a.type = "pubcomp", NEW n \in Publishes, Owns(n, a.id)', stage'[n] = "released"
          PROVE  a.id \notin inflight' /\ \A p \in On(toServer)' : p.id = a.id => p.type = "pubrel"
      <4>1. n # m /\ Owns(n, a.id) /\ stage[n] = "released"  BY <1>4, <3>3 DEF Owns
      <4>2. a.id # id  BY <1>3, <4>1
      <4> QED  BY <1>1, <1>2, <1>12, <3>3, <4>1, <4>2 DEF MqttInv, ToClient, Says
    <3> QED  BY <3>1, <3>2, <3>3 DEF Says
  <2>2. ASSUME NEW a \in On(toClient), NEW b \in On(toClient), Before(toClient, a, b) PROVE AckFollows(a, b)'
    <3>1. AckFollows(a, b)  BY <2>2 DEF MqttInv, ToClient
    <3>2. a \in Acks  BY QueueElements DEF MqttInv, MqttTypeOK
    <3>3. a.id = id => a.type = "pubcomp"
      <4>1. (a.type # "puback" /\ a.type # "pubrec") \/ \E n \in Publishes : Owns(n, a.id)
        BY MqttAssumption DEF MqttInv, ToClient, Says
      <4> QED  BY <1>3, <3>2, <4>1 DEF Acks
    <3> QED  BY <1>4, <3>1, <3>3 DEF AckFollows, Owns
  <2> QED  BY <1>1, <2>1, <2>2 DEF ToClient, On, Before
<1>14. MqttTypeOK'  BY <1>1, <1>12 DEF MqttInv, MqttTypeOK
<1> QED  BY <1>7, <1>8, <1>12, <1>13, <1>14 DEF MqttInv

LEMMA Elements ==
  ASSUME MqttInv
  PROVE  /\ \A p \in On(toServer) : p \in Packets /\ OnWay(p) /\ OwnOnly(p)
         /\ \A a \in On(toClient) : a \in Acks /\ Says(a)
  BY QueueElements DEF MqttInv, MqttTypeOK, ToServer, ToClient

LEMMA SendAgainKeeps ==
  ASSUME MqttInv, NEW m \in Publishes, SendAgain(m)
  PROVE  MqttInv'
<1> DEFINE e == Packet(IF stage[m] = "sent" THEN "publish" ELSE "pubrel", idOf[m], m)
<1>1. /\ m \in Exactly /\ stage[m] \in {"sent", "released"} /\ resent' = resent + 1 /\ session
      /\ toServer' = Append(toServer, e)
      /\ UNCHANGED <<session, inflight, toClient, stage, idOf, broken, ingested, turnedAway, Taken>>
  BY DEF SendAgain, Taken
<1>2. /\ e \in Packets /\ e.id = idOf[m] /\ e.message = m
      /\ e.type = IF stage[m] = "sent" THEN "publish" ELSE "pubrel"
  BY <1>1 DEF Packets, Packet, MqttInv, Ids
<1> HIDE DEF e
<1>3. Owns(m, idOf[m]) /\ \A n \in Publishes : Owns(n, idOf[m]) => n = m
  BY <1>1 DEF Owns, MqttInv, Ids
<1>4. PICK f \in Packets : f = e  BY <1>2
<1>5. \A p \in On(toServer) \union {f} : OnWay(p)' /\ OwnOnly(p)'
  <2>1. \A p \in On(toServer) : OnWay(p)' /\ OwnOnly(p)'
    BY <1>1, Elements DEF OnWay, OwnOnly, Owns
  <2>2. OnWay(f)'  BY <1>1, <1>2, <1>4 DEF OnWay
  <2>3. OwnOnly(f)'  BY <1>1, <1>2, <1>3, <1>4 DEF OwnOnly, Owns
  <2> QED  BY <2>1, <2>2, <2>3
<1>6. \A p \in On(toServer) : Follows(p, f)
  BY <1>1, <1>2, <1>3, <1>4, Elements DEF Follows, OnWay, Owns, Packets
<1>7. ToServer' /\ toServer' \in Seq(Packets) /\ On(toServer)' = On(toServer) \union {f}
  BY <1>1, <1>4, <1>5, <1>6, PacketJoins DEF MqttInv
<1>8. ToClient'
  <2>1. ASSUME NEW a \in On(toClient) PROVE Says(a)'
    BY <1>1, <1>2, <1>3, <1>4, <1>7, Elements DEF Says, Owns
  <2> QED  BY <1>1, <2>1 DEF MqttInv, ToClient, On, Before, AckFollows, Owns
<1>9. Ids' /\ Counts'  BY <1>1 DEF MqttInv, Ids, Counts, Owns
<1>10. MqttTypeOK'  BY <1>1, <1>7 DEF MqttInv, MqttTypeOK
<1> QED  BY <1>7, <1>8, <1>9, <1>10 DEF MqttInv

\* What a step that only takes an acknowledgement has to show of the others.
LEMMA AckLeaves ==
  ASSUME MqttInv, toClient # <<>>, toClient' = Tail(toClient),
         \A a \in On(toClient)' : Says(a)',
         \A a, b \in On(toClient)' : Before(toClient, a, b) /\ AckFollows(a, b) => AckFollows(a, b)'
  PROVE  ToClient' /\ toClient' \in Seq(Acks)
<1>1. toClient \in Seq(Acks)  BY DEF MqttInv, MqttTypeOK
<1>2. On(toClient)' = On(Tail(toClient))  BY DEF On
<1>3. /\ toClient' \in Seq(Acks) /\ On(toClient)' \subseteq On(toClient)
      /\ \A a, b : Before(toClient', a, b) => Before(toClient, a, b)
  BY <1>1, <1>2, Dropped
<1>4. ASSUME NEW a \in On(toClient)', NEW b \in On(toClient)', Before(toClient', a, b)
      PROVE  AckFollows(a, b)'
  BY <1>3, <1>4 DEF MqttInv, ToClient
<1> QED  BY <1>3, <1>4 DEF ToClient, Before

LEMMA AckHead ==
  ASSUME MqttInv, toClient # <<>>
  PROVE  /\ Head(toClient) \in Acks /\ Says(Head(toClient))
         /\ On(Tail(toClient)) \subseteq On(toClient)
         /\ \A b \in On(Tail(toClient)) : AckFollows(Head(toClient), b)
<1>1. toClient \in Seq(Acks)  BY DEF MqttInv, MqttTypeOK
<1>2. PICK h : h = Head(toClient)  OBVIOUS
<1>3. /\ h \in Acks /\ h \in On(toClient) /\ On(Tail(toClient)) \subseteq On(toClient)
      /\ \A b \in On(Tail(toClient)) : Before(toClient, h, b)
  BY <1>1, <1>2, Dropped
<1>4. Says(h) /\ \A b \in On(Tail(toClient)) : AckFollows(h, b)
  BY <1>3 DEF MqttInv, ToClient
<1> QED  BY <1>2, <1>3, <1>4

\* An acknowledgement nobody waits for.
LEMMA PassedOverKeeps ==
  ASSUME MqttInv, ClientReads, Awaiting(Head(toClient)) = {}
  PROVE  MqttInv'
<1>1. /\ toClient # <<>> /\ toClient' = Tail(toClient) /\ session
      /\ toServer' = toServer
      /\ stage' = [m \in Publishes |-> stage[m]]
      /\ UNCHANGED <<session, inflight, idOf, resent, broken, ingested, turnedAway, Taken>>
  BY DEF ClientReads, Taken
<1>2. stage' = stage  BY <1>1 DEF MqttInv, MqttTypeOK
<1>3. On(toClient)' \subseteq On(toClient)
  <2>1. On(toClient)' = On(Tail(toClient))  BY <1>1 DEF On
  <2> QED  BY <1>1, <2>1, AckHead
<1>4. \A a \in On(toClient) : Says(a)'
  BY <1>1, <1>2, Elements DEF Says, Owns, On
<1>5. \A a, b \in On(toClient) : AckFollows(a, b) => AckFollows(a, b)'
  BY <1>1, <1>2 DEF AckFollows, Owns
<1>6. ToClient' /\ toClient' \in Seq(Acks)  BY <1>1, <1>3, <1>4, <1>5, AckLeaves
<1>7. Ids' /\ Counts'
  BY <1>1, <1>2 DEF MqttInv, Ids, Counts, Owns
<1>8. ToServer'
  BY <1>1, <1>2 DEF MqttInv, ToServer, On, Before, OnWay, OwnOnly, Owns
<1> QED  BY <1>1, <1>2, <1>6, <1>7, <1>8 DEF MqttInv, MqttTypeOK

\* One message at most waits for an acknowledgement: the owner of its id.
LEMMA Awaited ==
  ASSUME MqttInv, NEW a, NEW m \in Awaiting(a)
  PROVE  /\ m \in Publishes /\ Owns(m, a.id) /\ idOf[m] = a.id /\ Awaiting(a) = {m}
         /\ \A n \in Publishes : Owns(n, a.id) => n = m
<1>1. \A n \in Awaiting(a) : n \in Publishes /\ Owns(n, a.id) /\ idOf[n] = a.id
  BY DEF Awaiting, Owns
<1>2. \A n \in Publishes : Owns(n, a.id) => n = m
  BY <1>1 DEF MqttInv, Ids, Owns
<1> QED  BY <1>1, <1>2

\* The last acknowledgement a message waits for.
LEMMA LastAckKeeps ==
  ASSUME MqttInv, ClientReads, NEW m \in Awaiting(Head(toClient)), Head(toClient).type # "pubrec"
  PROVE  MqttInv'
<1>1. PICK h : h = Head(toClient)  OBVIOUS
<1>2. /\ toClient # <<>> /\ toClient' = Tail(toClient) /\ session
      /\ toServer' = toServer
      /\ UNCHANGED <<session, inflight, idOf, resent, broken, ingested, turnedAway, Taken>>
  BY DEF ClientReads, Taken
<1>3. /\ m \in Publishes /\ Owns(m, h.id) /\ idOf[m] = h.id /\ Awaiting(h) = {m}
      /\ \A n \in Publishes : Owns(n, h.id) => n = m
  BY <1>1, Awaited
<1>4. stage' = [stage EXCEPT ![m] = "done"]
  <2>1. stage' = [n \in Publishes |-> IF n \notin {m} THEN stage[n] ELSE "done"]
    BY <1>1, <1>3 DEF ClientReads
  <2> QED  BY <2>1 DEF MqttInv, MqttTypeOK
<1>5. stage'[m] = "done" /\ \A n \in Publishes \ {m} : stage'[n] = stage[n]
  BY <1>3, <1>4 DEF MqttInv, MqttTypeOK
<1>6. h \in Acks /\ Says(h) /\ \A b \in On(Tail(toClient)) : AckFollows(h, b)
  BY <1>1, <1>2, AckHead
<1>7. \/ h.type = "puback" /\ m \notin Exactly /\ stage[m] = "sent"
      \/ h.type = "pubcomp" /\ stage[m] = "released" /\ m \in Exactly
  BY <1>1, <1>3 DEF Awaiting, MqttInv, Counts
<1>8. Taken[m] = 1
  <2>1. CASE h.type = "puback"  BY <1>3, <1>6, <2>1 DEF Says
  <2>2. CASE stage[m] = "released"  BY <1>3, <2>2 DEF MqttInv, Counts
  <2> QED  BY <1>7, <2>1, <2>2
<1>9. \A p \in On(toServer) : p.message = m => p.type = "pubrel"
  <2> SUFFICES ASSUME NEW p \in On(toServer), p.message = m, p.type = "publish" PROVE FALSE
    BY Elements DEF Packets
  <2>1. OnWay(p) /\ p.id = h.id  BY <1>3, Elements DEF OnWay
  <2>2. CASE m \notin Exactly  BY <1>8, <2>1, <2>2 DEF OnWay
  <2>3. CASE h.type = "pubcomp" /\ stage[m] = "released"  BY <1>3, <1>6, <2>1, <2>3 DEF Says
  <2> QED  BY <1>7, <2>2, <2>3
<1>10. h.id \notin inflight
  <2>1. CASE m \notin Exactly
    <3>1. \A n \in Exactly : n \in Publishes  BY MqttAssumption
    <3> QED  BY <1>3, <2>1, <3>1 DEF MqttInv, Ids
  <2>2. CASE h.type = "pubcomp" /\ stage[m] = "released"  BY <1>3, <1>6, <2>2 DEF Says
  <2> QED  BY <1>7, <2>1, <2>2
<1>11. On(toClient)' = On(Tail(toClient)) /\ On(Tail(toClient)) \subseteq On(toClient)
  BY <1>2, AckHead DEF On
<1>12. \A b \in On(Tail(toClient)) : b.id = h.id => b.type = "pubcomp"
  <2> SUFFICES ASSUME NEW b \in On(Tail(toClient)), b.id = h.id PROVE b.type = "pubcomp"
    OBVIOUS
  <2>1. b \in Acks /\ Says(b) /\ AckFollows(h, b)  BY <1>6, <1>11, Elements
  <2>2. \A n \in Exactly : n \in Publishes  BY MqttAssumption
  <2>3. b.type # "pubrec"
    <3>1. CASE m \notin Exactly  BY <1>3, <2>1, <2>2, <3>1 DEF Says
    <3>2. CASE h.type = "pubcomp" /\ stage[m] = "released"  BY <1>3, <2>1, <3>2 DEF AckFollows
    <3> QED  BY <1>7, <3>1, <3>2
  <2>4. b.type # "puback"
    <3>1. CASE h.type = "puback"  BY <1>3, <2>1, <3>1 DEF AckFollows
    <3>2. CASE m \in Exactly  BY <1>3, <2>1, <3>2 DEF Says
    <3> QED  BY <1>7, <3>1, <3>2
  <2> QED  BY <2>1, <2>3, <2>4 DEF Acks
<1>13. \A n \in Publishes : \A i : Owns(n, i)' => n # m /\ Owns(n, i)
  BY <1>2, <1>5 DEF Owns
<1>14. \A n \in Publishes : \A i : Owns(n, i) /\ i # h.id => Owns(n, i)' /\ n # m
  BY <1>2, <1>3, <1>5 DEF Owns
<1>15. Ids'
  <2>1. \A i \in inflight' : \E n \in Exactly : Owns(n, i)' /\ Taken'[n] = 1
    <3>1. \A n \in Exactly : n \in Publishes  BY MqttAssumption
    <3> QED  BY <1>2, <1>10, <1>14, <3>1 DEF MqttInv, Ids
  <2>2. \A n, o \in Publishes : (stage[n] \in {"sent", "released"} /\ Owns(o, idOf[n]) => n = o)'
    BY <1>2, <1>5 DEF MqttInv, Ids, Owns
  <2>3. \A n \in Publishes : (stage[n] \in {"sent", "released"} => idOf[n] \in PacketIds)'
    BY <1>2, <1>5 DEF MqttInv, Ids
  <2> QED  BY <1>2, <2>1, <2>2, <2>3 DEF Ids
<1>16. Counts'
  BY <1>2, <1>3, <1>5, <1>8 DEF MqttInv, Counts
<1>17. ToServer'
  <2>1. \A p \in On(toServer) : OnWay(p)'
    BY <1>2, <1>5, <1>9, Elements DEF OnWay, Packets
  <2>2. \A p \in On(toServer) : OwnOnly(p)'
    BY <1>2, <1>5, <1>13, Elements DEF OwnOnly
  <2> QED  BY <1>2, <2>1, <2>2 DEF MqttInv, ToServer, On, Before
<1>18. ToClient' /\ toClient' \in Seq(Acks)
  <2>1. ASSUME NEW a \in On(Tail(toClient)) PROVE Says(a)'
    <3>1. Says(a) /\ a \in Acks  BY <1>11, Elements
    <3>2. a.type = "puback" => \E n \in Publishes \ Exactly : Owns(n, a.id)' /\ Taken'[n] = 1
      BY <1>2, <1>12, <1>14, <3>1 DEF Says
    <3>3. a.type = "pubrec" => \E n \in Exactly : Owns(n, a.id)' /\ Taken'[n] = 1
      <4>1. \A n \in Exactly : n \in Publishes  BY MqttAssumption
      <4> QED  BY <1>2, <1>12, <1>14, <3>1, <4>1 DEF Says
    <3>4. ASSUME a.type = "pubcomp", NEW n \in Publishes, Owns(n, a.id)', stage'[n] = "released"
          PROVE  a.id \notin inflight' /\ \A p \in On(toServer)' : p.id = a.id => p.type = "pubrel"
      <4>1. Owns(n, a.id) /\ stage[n] = "released"  BY <1>5, <1>13, <3>4
      <4> QED  BY <1>2, <3>1, <3>4, <4>1 DEF Says, On
    <3> QED  BY <3>2, <3>3, <3>4 DEF Says
  <2>2. \A a, b : AckFollows(a, b) => AckFollows(a, b)'
    BY <1>2, <1>5, <1>13 DEF AckFollows
  <2> QED  BY <1>2, <1>11, <2>1, <2>2, AckLeaves
<1>19. MqttTypeOK'
  BY <1>2, <1>4, <1>18 DEF MqttInv, MqttTypeOK
<1> QED  BY <1>15, <1>16, <1>17, <1>18, <1>19 DEF MqttInv

\* The PUBREC a message waits for: its PUBREL is sent.
LEMMA ReleasedKeeps ==
  ASSUME MqttInv, ClientReads, NEW m \in Awaiting(Head(toClient)), Head(toClient).type = "pubrec"
  PROVE  MqttInv'
<1>1. PICK h : h = Head(toClient)  OBVIOUS
<1>2. /\ m \in Publishes /\ Owns(m, h.id) /\ idOf[m] = h.id /\ Awaiting(h) = {m}
      /\ \A n \in Publishes : Owns(n, h.id) => n = m
  BY <1>1, Awaited
<1>3. h \in Acks /\ Says(h) /\ \A b \in On(Tail(toClient)) : AckFollows(h, b)
  BY <1>1, AckHead DEF ClientReads
<1>4. PICK e \in Packets : e = Packet("pubrel", h.id, m)
  BY <1>2, <1>3 DEF Packets, Acks, Packet
<1>5. e.type = "pubrel" /\ e.id = h.id /\ e.message = m
  BY <1>4 DEF Packet
<1>6. /\ toClient # <<>> /\ toClient' = Tail(toClient) /\ session
      /\ toServer' = Append(toServer, e)
      /\ UNCHANGED <<session, inflight, idOf, resent, broken, ingested, turnedAway, Taken>>
  <2>1. (CHOOSE n \in {m} : TRUE) = m  OBVIOUS
  <2> QED  BY <1>1, <1>2, <1>4, <2>1 DEF ClientReads, Taken
<1>7. stage' = [stage EXCEPT ![m] = "released"]
  <2>1. stage' = [n \in Publishes |-> IF n \notin {m} THEN stage[n] ELSE "released"]
    BY <1>1, <1>2 DEF ClientReads
  <2> QED  BY <2>1 DEF MqttInv, MqttTypeOK
<1>8. stage'[m] = "released" /\ \A n \in Publishes \ {m} : stage'[n] = stage[n]
  BY <1>2, <1>7 DEF MqttInv, MqttTypeOK
<1>9. m \in Exactly /\ stage[m] = "sent"
  BY <1>1, <1>2 DEF Awaiting
<1>10. Taken[m] = 1 /\ h.id \in inflight
  <2>1. Taken[m] = 1  BY <1>1, <1>2, <1>3, MqttAssumption DEF Says
  <2> QED  BY <1>2, <1>9, <2>1 DEF MqttInv, Counts
<1>11. \A n, i : n \in Publishes => (Owns(n, i)' <=> Owns(n, i))
  BY <1>6, <1>8, <1>9 DEF Owns
<1>12. Ids'
  <2>1. \A n, o \in Publishes : (stage[n] \in {"sent", "released"} /\ Owns(o, idOf[n]) => n = o)'
    BY <1>6, <1>8, <1>9, <1>11 DEF MqttInv, Ids
  <2>2. \A n \in Publishes : (stage[n] \in {"sent", "released"} => idOf[n] \in PacketIds)'
    BY <1>6, <1>8, <1>9 DEF MqttInv, Ids
  <2>3. \A i \in inflight' : \E n \in Exactly : Owns(n, i)' /\ Taken'[n] = 1
    <3>1. \A n \in Exactly : n \in Publishes  BY MqttAssumption
    <3> QED  BY <1>6, <1>11, <3>1 DEF MqttInv, Ids
  <2> QED  BY <1>6, <2>1, <2>2, <2>3 DEF Ids
<1>13. Counts'
  BY <1>6, <1>8, <1>9, <1>10 DEF MqttInv, Counts
<1>14. \A p \in On(toServer) \union {e} : OnWay(p)' /\ OwnOnly(p)'
  <2>1. \A p \in On(toServer) : OnWay(p)'
    <3> SUFFICES ASSUME NEW p \in On(toServer) PROVE OnWay(p)'
      OBVIOUS
    <3>1. p \in Packets /\ p.message \in Publishes /\ OnWay(p)  BY Elements DEF Packets
    <3>2. CASE p.message = m  BY <1>2, <1>6, <1>8, <1>9, <1>10, <3>1, <3>2 DEF OnWay
    <3>3. CASE p.message # m  BY <1>6, <1>8, <3>1, <3>3 DEF OnWay
    <3> QED  BY <3>2, <3>3
  <2>2. \A p \in On(toServer) : OwnOnly(p)'
    BY <1>6, <1>8, <1>11, Elements DEF OwnOnly
  <2>3. OnWay(e)'  BY <1>2, <1>5, <1>6, <1>8, <1>9 DEF OnWay
  <2>4. OwnOnly(e)'  BY <1>2, <1>5, <1>8, <1>11 DEF OwnOnly
  <2> QED  BY <2>1, <2>2, <2>3, <2>4
<1>15. \A p \in On(toServer) : Follows(p, e)
  BY <1>2, <1>5, <1>10, Elements DEF Follows, OwnOnly
<1>16. ToServer' /\ toServer' \in Seq(Packets) /\ On(toServer)' = On(toServer) \union {e}
  BY <1>6, <1>14, <1>15, PacketJoins DEF MqttInv
<1>17. On(toClient)' = On(Tail(toClient)) /\ On(Tail(toClient)) \subseteq On(toClient)
  BY <1>6, AckHead DEF On
<1>18. \A b \in On(Tail(toClient)) : b.id = h.id => b.type # "pubcomp"
  BY <1>1, <1>2, <1>3, <1>9 DEF AckFollows
<1>19. ToClient' /\ toClient' \in Seq(Acks)
  <2>1. ASSUME NEW a \in On(Tail(toClient)) PROVE Says(a)'
    <3>1. Says(a) /\ a \in Acks  BY <1>17, Elements
    <3>2. a.type = "puback" => \E n \in Publishes \ Exactly : Owns(n, a.id)' /\ Taken'[n] = 1
      BY <1>6, <1>11, <3>1 DEF Says
    <3>3. a.type = "pubrec" => \E n \in Exactly : Owns(n, a.id)' /\ Taken'[n] = 1
      <4>1. \A n \in Exactly : n \in Publishes  BY MqttAssumption
      <4> QED  BY <1>6, <1>11, <3>1, <4>1 DEF Says
    <3>4. ASSUME a.type = "pubcomp", NEW n \in Publishes, Owns(n, a.id)', stage'[n] = "released"
          PROVE  a.id \notin inflight' /\ \A p \in On(toServer)' : p.id = a.id => p.type = "pubrel"
      <4>1. a.id # h.id  BY <1>18, <3>4
      <4>2. n # m  BY <1>2, <1>11, <3>4, <4>1 DEF Owns
      <4>3. Owns(n, a.id) /\ stage[n] = "released"  BY <1>8, <1>11, <3>4, <4>2
      <4> QED  BY <1>5, <1>6, <1>16, <3>1, <3>4, <4>1, <4>3 DEF Says
    <3> QED  BY <3>2, <3>3, <3>4 DEF Says
  <2>2. ASSUME NEW a \in On(Tail(toClient)), NEW b \in On(Tail(toClient)), AckFollows(a, b)
        PROVE  AckFollows(a, b)'
    <3> SUFFICES ASSUME NEW n \in Publishes, Owns(n, a.id)', a.id = b.id
                 PROVE  /\ stage'[n] = "sent" => ~(a.type = "pubrec" /\ b.type = "pubcomp")
                        /\ stage'[n] = "released" => ~(a.type = "pubcomp" /\ b.type = "pubrec")
                        /\ ~(a.type = "puback" /\ b.type = "puback")
      BY DEF AckFollows
    <3>1. Owns(n, a.id)  BY <1>11
    <3>2. CASE n = m  BY <1>2, <1>8, <1>18, <2>2, <3>1, <3>2 DEF AckFollows, Owns
    <3>3. CASE n # m  BY <1>8, <2>2, <3>1, <3>3 DEF AckFollows
    <3> QED  BY <3>2, <3>3
  <2> QED  BY <1>6, <1>17, <2>1, <2>2, AckLeaves
<1>20. MqttTypeOK'
  BY <1>6, <1>7, <1>16, <1>19 DEF MqttInv, MqttTypeOK
<1> QED  BY <1>12, <1>13, <1>16, <1>19, <1>20 DEF MqttInv

---------------------------------------------------------------------------
(* The session. *)

LEMMA ConnectKeeps ==
  ASSUME MqttInv, Connect
  PROVE  MqttInv'
<1>1. /\ ~session /\ session' = TRUE /\ inflight' = {}
      /\ UNCHANGED <<toServer, toClient, stage, idOf, resent, broken, ingested, turnedAway, Taken>>
  BY DEF Connect, Taken
<1>2. /\ \A m \in Publishes : stage[m] \in {"held", "done"}
      /\ inflight = {} /\ toServer = <<>> /\ toClient = <<>>
  BY <1>1 DEF MqttInv, Ids
<1>3. On(toServer)' = {} /\ On(toClient)' = {}
  BY <1>1, <1>2, NothingOn DEF On
<1>4. \A a, b : ~Before(toServer', a, b) /\ ~Before(toClient', a, b)
  BY <1>1, <1>2, NothingOn
<1>5. Ids'  BY <1>1, <1>2 DEF MqttInv, Ids, Owns
<1>6. Counts'  BY <1>1, <1>2 DEF MqttInv, Counts
<1>7. ToServer' /\ ToClient'  BY <1>3, <1>4 DEF ToServer, ToClient, Before
<1>8. MqttTypeOK'  BY <1>1 DEF MqttInv, MqttTypeOK
<1> QED  BY <1>5, <1>6, <1>7, <1>8 DEF MqttInv

LEMMA BreakKeeps ==
  ASSUME MqttInv, Break
  PROVE  MqttInv'
<1>1. /\ broken' = broken + 1 /\ session' = FALSE /\ toServer' = <<>> /\ toClient' = <<>>
      /\ stage' = [m \in Publishes |-> IF stage[m] = "done" THEN "done" ELSE "held"]
      /\ inflight' = {} /\ Taken' = [m \in Publishes |-> IF stage[m] = "done" THEN Taken[m] ELSE 0]
      /\ ingested' \in [Publishes -> Nat] /\ turnedAway' \in [Publishes -> Nat]
      /\ UNCHANGED <<idOf, resent>>
  <2>1. /\ broken' = broken + 1 /\ session' = FALSE /\ toServer' = <<>> /\ toClient' = <<>>
        /\ stage' = [m \in Publishes |-> IF stage[m] = "done" THEN "done" ELSE "held"]
        /\ inflight' = {} /\ UNCHANGED <<idOf, resent>>
        /\ ingested' = [m \in Publishes |-> IF stage[m] = "done" THEN ingested[m] ELSE 0]
        /\ turnedAway' = [m \in Publishes |-> IF stage[m] = "done" THEN turnedAway[m] ELSE 0]
    BY DEF Break, Ended, Unfinished
  <2>2. ingested \in [Publishes -> Nat] /\ turnedAway \in [Publishes -> Nat]  BY DEF MqttInv, MqttTypeOK
  <2>3. ingested' \in [Publishes -> Nat] /\ turnedAway' \in [Publishes -> Nat]  BY <2>1, <2>2
  <2>4. ASSUME NEW m \in Publishes
        PROVE  ingested'[m] + turnedAway'[m] = IF stage[m] = "done" THEN ingested[m] + turnedAway[m] ELSE 0
    BY <2>1, <2>2
  <2>5. Taken' = [m \in Publishes |-> IF stage[m] = "done" THEN Taken[m] ELSE 0]  BY <2>4 DEF Taken
  <2> QED  BY <2>1, <2>3, <2>5
<1>2. \A m \in Publishes : /\ stage'[m] \in {"held", "done"}
                           /\ stage'[m] = "held" => Taken'[m] = 0
                           /\ stage'[m] = "done" => stage[m] = "done" /\ Taken'[m] = Taken[m]
  BY <1>1
<1>3. On(toServer)' = {} /\ On(toClient)' = {}
  BY <1>1, NothingOn DEF On
<1>4. \A a, b : ~Before(toServer', a, b) /\ ~Before(toClient', a, b)
  BY <1>1, NothingOn
<1>5. Ids'  BY <1>1, <1>2 DEF Ids, Owns
<1>6. Counts'  BY <1>2 DEF MqttInv, Counts
<1>7. ToServer' /\ ToClient'  BY <1>3, <1>4 DEF ToServer, ToClient, Before
<1>8. MqttTypeOK'
  <2>1. stage' \in [Publishes -> {"held", "sent", "released", "done"}]
        /\ ingested' \in [Publishes -> Nat] /\ turnedAway' \in [Publishes -> Nat]
    BY <1>1 DEF MqttInv, MqttTypeOK
  <2>2. toServer' \in Seq(Packets) /\ toClient' \in Seq(Acks)
    BY <1>1
  <2>3. session' \in BOOLEAN /\ inflight' \subseteq PacketIds
    BY <1>1
  <2>4. idOf' \in [Publishes -> PacketIds \union {NoId}] /\ resent' \in Nat
    BY <1>1 DEF MqttInv, MqttTypeOK
  <2>5. broken' \in Nat  BY <1>1 DEF MqttInv, MqttTypeOK
  <2> QED  BY <2>1, <2>2, <2>3, <2>4, <2>5 DEF MqttTypeOK
<1> QED  BY <1>5, <1>6, <1>7, <1>8 DEF MqttInv

---------------------------------------------------------------------------
(* The server. *)

LEMMA PacketHead ==
  ASSUME MqttInv, toServer # <<>>
  PROVE  /\ Tail(toServer) \in Seq(Packets)
         /\ Head(toServer) \in Packets /\ OnWay(Head(toServer)) /\ OwnOnly(Head(toServer))
         /\ On(Tail(toServer)) \subseteq On(toServer)
         /\ \A p \in On(Tail(toServer)) : Follows(Head(toServer), p)
         /\ \A p, q : Before(Tail(toServer), p, q) => Before(toServer, p, q)
<1>1. toServer \in Seq(Packets)  BY DEF MqttInv, MqttTypeOK
<1>2. PICK h : h = Head(toServer)  OBVIOUS
<1>3. /\ Tail(toServer) \in Seq(Packets)
      /\ h \in Packets /\ h \in On(toServer) /\ On(Tail(toServer)) \subseteq On(toServer)
      /\ \A p \in On(Tail(toServer)) : Before(toServer, h, p)
      /\ \A p, q : Before(Tail(toServer), p, q) => Before(toServer, p, q)
  BY <1>1, <1>2, Dropped
<1>4. OnWay(h) /\ OwnOnly(h) /\ \A p \in On(Tail(toServer)) : Follows(h, p)
  BY <1>3 DEF MqttInv, ToServer
<1> QED  BY <1>2, <1>3, <1>4

\* Ingested or turned away, a message offered is dealt with once more.
LEMMA OfferTakes ==
  ASSUME MqttTypeOK, NEW m \in Publishes, Offer(m)
  PROVE  /\ ingested' \in [Publishes -> Nat] /\ turnedAway' \in [Publishes -> Nat]
         /\ Taken' = [Taken EXCEPT ![m] = @ + 1]
<1>1. ingested \in [Publishes -> Nat] /\ turnedAway \in [Publishes -> Nat]  BY DEF MqttTypeOK
<1>2. ingested' \in [Publishes -> Nat] /\ turnedAway' \in [Publishes -> Nat]  BY <1>1 DEF Offer
<1>3. ASSUME NEW n \in Publishes
      PROVE  ingested'[n] + turnedAway'[n] = IF n = m THEN Taken[n] + 1 ELSE Taken[n]
  <2>1. Taken[n] = ingested[n] + turnedAway[n]  BY <1>1, TakenTyped
  <2>2. CASE ingested' = [ingested EXCEPT ![m] = @ + 1] /\ turnedAway' = turnedAway  BY <1>1, <2>1, <2>2
  <2>3. CASE turnedAway' = [turnedAway EXCEPT ![m] = @ + 1] /\ ingested' = ingested  BY <1>1, <2>1, <2>3
  <2> QED  BY <2>2, <2>3 DEF Offer
<1>4. Taken' = [n \in Publishes |-> IF n = m THEN Taken[n] + 1 ELSE Taken[n]]  BY <1>3 DEF Taken
<1>5. Taken \in [Publishes -> Nat]  BY <1>1, TakenTyped
<1> QED  BY <1>2, <1>4, <1>5

\* What taking a packet and answering it with acknowledgement e has to show.
LEMMA AnswerJoins ==
  ASSUME MqttInv, toServer # <<>>, toServer' = Tail(toServer),
         NEW e \in Acks, toClient' = Append(toClient, e),
         UNCHANGED <<stage, idOf>>,
         \A p \in On(Tail(toServer)) : OnWay(p)' /\ OwnOnly(p)',
         \A a \in On(toClient) \union {e} : Says(a)',
         \A a \in On(toClient) : AckFollows(a, e)
  PROVE  /\ ToServer' /\ toServer' \in Seq(Packets)
         /\ ToClient' /\ toClient' \in Seq(Acks)
<1>1. /\ toServer' \in Seq(Packets)
      /\ On(toServer)' = On(Tail(toServer)) /\ On(Tail(toServer)) \subseteq On(toServer)
      /\ \A p, q : Before(toServer', p, q) => Before(toServer, p, q)
  <2>1. On(toServer)' = On(Tail(toServer))  BY DEF On
  <2> QED  BY <2>1, PacketHead
<1>2. ToServer'
  BY <1>1 DEF MqttInv, ToServer, Before
<1>3. /\ toClient' \in Seq(Acks) /\ On(toClient)' = On(toClient) \union {e}
      /\ \A a, b : Before(toClient', a, b) => Before(toClient, a, b) \/ (a \in On(toClient) /\ b = e)
  <2>1. toClient \in Seq(Acks)  BY DEF MqttInv, MqttTypeOK
  <2>2. On(toClient)' = On(Append(toClient, e))  BY DEF On
  <2> QED  BY <2>1, <2>2, Appended
<1>4. \A a, b : Before(toClient, a, b) => a \in On(toClient) /\ b \in On(toClient)
  BY QueueElements DEF MqttInv, MqttTypeOK
<1>5. \A a, b : AckFollows(a, b) => AckFollows(a, b)'
  BY DEF AckFollows, Owns
<1>6. ASSUME NEW a, NEW b, Before(toClient', a, b) PROVE AckFollows(a, b)'
  BY <1>3, <1>4, <1>5, <1>6 DEF MqttInv, ToClient
<1>7. ToClient'
  BY <1>3, <1>6 DEF ToClient, Before
<1> QED  BY <1>1, <1>2, <1>3, <1>7

\* A PUBREL: the id is free again.
LEMMA TakeReleaseKeeps ==
  ASSUME MqttInv, ServerReads, TakeRelease(Head(toServer))
  PROVE  MqttInv'
<1>1. PICK pk : pk = Head(toServer)  OBVIOUS
<1>2. /\ pk \in Packets /\ OnWay(pk) /\ OwnOnly(pk) /\ On(Tail(toServer)) \subseteq On(toServer)
      /\ \A p \in On(Tail(toServer)) : Follows(pk, p)
  BY <1>1, PacketHead DEF ServerReads
<1>3. PICK e \in Acks : e = Ack("pubcomp", pk.id)
  BY <1>2 DEF Packets, Acks, Ack
<1>4. e.type = "pubcomp" /\ e.id = pk.id  BY <1>3 DEF Ack
<1>5. /\ toServer # <<>> /\ toServer' = Tail(toServer) /\ toClient' = Append(toClient, e)
      /\ pk.type = "pubrel" /\ inflight' = inflight \ {pk.id}
      /\ session /\ UNCHANGED <<session, stage, idOf, resent, broken, ingested, turnedAway, Taken>>
  BY <1>1, <1>3 DEF ServerReads, TakeRelease, AfterRelease, AckType, Taken
<1>6. \A n \in Publishes : \A i : Owns(n, i)' <=> Owns(n, i)
  BY <1>5 DEF Owns
<1>7. \A n \in Publishes : Owns(n, pk.id) /\ Taken[n] = 1 => n = pk.message /\ stage[n] # "sent"
  BY <1>2, <1>5 DEF OwnOnly
<1>8. Ids'
  <2>1. \A n \in Exactly : n \in Publishes  BY MqttAssumption
  <2> QED  BY <1>5, <1>6, <2>1 DEF MqttInv, Ids
<1>9. Counts'
  BY <1>5, <1>7 DEF MqttInv, Counts, Owns
<1>10. \A p \in On(Tail(toServer)) : p.id = pk.id /\ p.type = "publish" =>
         p.message \in Publishes /\ p.message # pk.message
  BY <1>2, <1>5, Elements DEF Follows, Packets
<1>11. ASSUME NEW p \in On(Tail(toServer)) PROVE OnWay(p)' /\ OwnOnly(p)'
  <2>1. p \in Packets /\ p.message \in Publishes /\ OnWay(p) /\ OwnOnly(p)
    BY <1>2, Elements DEF Packets
  <2>2. ASSUME p.type = "publish", stage[p.message] = "released" PROVE p.id # pk.id
    <3>1. Owns(p.message, p.id) /\ Taken[p.message] = 1
      BY <2>1, <2>2 DEF OnWay, Owns, MqttInv, Counts
    <3> QED  BY <1>7, <1>10, <2>1, <2>2, <3>1
  <2>3. OnWay(p)'  BY <1>5, <2>1, <2>2 DEF OnWay
  <2>4. OwnOnly(p)'  BY <1>5, <1>6, <2>1 DEF OwnOnly
  <2> QED  BY <2>3, <2>4
<1>12. ASSUME NEW a \in On(toClient) PROVE Says(a)'
  <2>1. Says(a)  BY Elements
  <2>2. a.type = "puback" => \E n \in Publishes \ Exactly : Owns(n, a.id)' /\ Taken'[n] = 1
    BY <1>5, <1>6, <2>1 DEF Says
  <2>3. a.type = "pubrec" => \E n \in Exactly : Owns(n, a.id)' /\ Taken'[n] = 1
    <3>1. \A n \in Exactly : n \in Publishes  BY MqttAssumption
    <3> QED  BY <1>5, <1>6, <2>1, <3>1 DEF Says
  <2>4. ASSUME a.type = "pubcomp", NEW n \in Publishes, Owns(n, a.id)', stage'[n] = "released"
        PROVE  a.id \notin inflight' /\ \A p \in On(toServer)' : p.id = a.id => p.type = "pubrel"
    BY <1>2, <1>5, <1>6, <2>1, <2>4 DEF Says, On
  <2> QED  BY <2>2, <2>3, <2>4 DEF Says
<1>13. Says(e)'
  <2> SUFFICES ASSUME NEW n \in Publishes, Owns(n, e.id)', stage'[n] = "released"
               PROVE  e.id \notin inflight' /\ \A p \in On(toServer)' : p.id = e.id => p.type = "pubrel"
    BY <1>4 DEF Says
  <2>1. Owns(n, pk.id) /\ stage[n] = "released" /\ Taken[n] = 1
    BY <1>4, <1>5, <1>6 DEF MqttInv, Counts
  <2>2. n = pk.message  BY <1>7, <2>1
  <2>3. ASSUME NEW p \in On(Tail(toServer)), p.id = pk.id PROVE p.type = "pubrel"
    <3>1. p \in Packets /\ OwnOnly(p)  BY <1>2, Elements
    <3>2. p.message = n  BY <2>1, <2>3, <3>1 DEF OwnOnly
    <3> QED  BY <1>10, <2>2, <2>3, <3>1, <3>2 DEF Packets
  <2>4. On(toServer)' = On(Tail(toServer))  BY <1>5 DEF On
  <2> QED  BY <1>4, <1>5, <2>3, <2>4
<1>14. ASSUME NEW a \in On(toClient) PROVE AckFollows(a, e)
  <2> SUFFICES ASSUME NEW n \in Publishes, Owns(n, a.id), a.id = pk.id, stage[n] = "sent", a.type = "pubrec"
               PROVE  FALSE
    BY <1>4 DEF AckFollows
  <2>1. PICK o \in Exactly : Owns(o, a.id) /\ Taken[o] = 1  BY Elements DEF Says
  <2>2. o \in Publishes  BY MqttAssumption
  <2>3. o = n  BY <2>1, <2>2 DEF MqttInv, Ids, Owns
  <2> QED  BY <1>7, <2>1, <2>2, <2>3
<1>15. ToServer' /\ toServer' \in Seq(Packets) /\ ToClient' /\ toClient' \in Seq(Acks)
  BY <1>5, <1>11, <1>12, <1>13, <1>14, AnswerJoins
<1>16. MqttTypeOK'
  BY <1>5, <1>15 DEF MqttInv, MqttTypeOK
<1> QED  BY <1>8, <1>9, <1>15, <1>16 DEF MqttInv

\* A QoS 2 PUBLISH whose id is held: it is only answered.
LEMMA RedeliveryKeeps ==
  ASSUME MqttInv, ServerReads, TakePublish(Head(toServer)), Redelivered(Head(toServer))
  PROVE  MqttInv'
<1>1. PICK pk : pk = Head(toServer)  OBVIOUS
<1>2. /\ pk \in Packets /\ OnWay(pk) /\ OwnOnly(pk) /\ On(Tail(toServer)) \subseteq On(toServer)
  BY <1>1, PacketHead DEF ServerReads
<1>3. PICK e \in Acks : e = Ack("pubrec", pk.id)
  BY <1>2 DEF Packets, Acks, Ack
<1>4. e.type = "pubrec" /\ e.id = pk.id  BY <1>3 DEF Ack
<1>5. /\ toServer # <<>> /\ toServer' = Tail(toServer) /\ toClient' = Append(toClient, e)
      /\ pk.type = "publish" /\ pk.message \in Exactly /\ pk.id \in inflight /\ inflight' = inflight
      /\ session /\ UNCHANGED <<session, stage, idOf, resent, broken, ingested, turnedAway, Taken>>
  <2>1. pk.type = "publish" /\ pk.message \in Exactly /\ pk.id \in inflight
        /\ UNCHANGED <<ingested, turnedAway, Taken>>
    BY <1>1 DEF TakePublish, Redelivered, Taken
  <2>2. inflight' = inflight  BY <1>1, <2>1 DEF TakePublish
  <2>3. AckType(pk) = "pubrec"  BY <2>1 DEF AckType
  <2> QED  BY <1>1, <1>3, <2>1, <2>2, <2>3 DEF ServerReads
<1>6. \A n \in Publishes : \A i : Owns(n, i)' <=> Owns(n, i)
  BY <1>5 DEF Owns
<1>7. Owns(pk.message, pk.id) /\ Taken[pk.message] = 1
  <2>1. PICK n \in Exactly : Owns(n, pk.id) /\ Taken[n] = 1  BY <1>5 DEF MqttInv, Ids
  <2>2. n = pk.message  BY <1>2, <2>1, MqttAssumption DEF OwnOnly
  <2> QED  BY <2>1, <2>2
<1>8. Ids' /\ Counts'
  <2>1. \A n \in Exactly : n \in Publishes  BY MqttAssumption
  <2> QED  BY <1>5, <1>6, <2>1 DEF MqttInv, Ids, Counts
<1>9. \A p \in On(Tail(toServer)) : OnWay(p)' /\ OwnOnly(p)'
  BY <1>2, <1>5, <1>6, Elements DEF OnWay, OwnOnly
<1>10. ASSUME NEW a \in On(toClient) PROVE Says(a)'
  <2>1. Says(a)  BY Elements
  <2>2. \A n \in Exactly : n \in Publishes  BY MqttAssumption
  <2>3. On(toServer)' \subseteq On(toServer)  BY <1>2, <1>5 DEF On
  <2> QED  BY <1>5, <1>6, <2>1, <2>2, <2>3 DEF Says
<1>11. Says(e)'
  BY <1>4, <1>5, <1>6, <1>7, MqttAssumption DEF Says
<1>12. ASSUME NEW a \in On(toClient) PROVE AckFollows(a, e)
  <2> SUFFICES ASSUME NEW n \in Publishes, Owns(n, a.id), a.id = pk.id, stage[n] = "released", a.type = "pubcomp"
               PROVE  FALSE
    BY <1>4 DEF AckFollows
  <2> QED  BY <1>5, Elements DEF Says
<1>13. ToServer' /\ toServer' \in Seq(Packets) /\ ToClient' /\ toClient' \in Seq(Acks)
  BY <1>5, <1>9, <1>10, <1>11, <1>12, AnswerJoins
<1>14. MqttTypeOK'
  BY <1>5, <1>13 DEF MqttInv, MqttTypeOK
<1> QED  BY <1>8, <1>13, <1>14 DEF MqttInv

\* A PUBLISH whose message goes to the pipeline.
LEMMA FirstTakenKeeps ==
  ASSUME MqttInv, ServerReads, TakePublish(Head(toServer)), ~Redelivered(Head(toServer))
  PROVE  MqttInv'
<1>1. PICK pk : pk = Head(toServer)  OBVIOUS
<1>2. /\ pk \in Packets /\ OnWay(pk) /\ OwnOnly(pk) /\ On(Tail(toServer)) \subseteq On(toServer)
      /\ \A p \in On(Tail(toServer)) : Follows(pk, p)
  BY <1>1, PacketHead DEF ServerReads
<1>3. PICK m \in Publishes : m = pk.message  BY <1>2 DEF Packets
<1>4. PICK e \in Acks : e = Ack(IF m \in Exactly THEN "pubrec" ELSE "puback", pk.id)
  <2>1. pk.id \in PacketIds  BY <1>2 DEF Packets
  <2>2. CASE m \in Exactly  BY <2>1, <2>2 DEF Acks, Ack
  <2>3. CASE m \notin Exactly  BY <2>1, <2>3 DEF Acks, Ack
  <2> QED  BY <2>2, <2>3
<1>5. e.type = (IF m \in Exactly THEN "pubrec" ELSE "puback") /\ e.id = pk.id  BY <1>4 DEF Ack
<1>6. /\ toServer # <<>> /\ toServer' = Tail(toServer) /\ toClient' = Append(toClient, e)
      /\ pk.type = "publish" /\ (m \in Exactly => pk.id \notin inflight)
      /\ inflight' = (IF m \in Exactly THEN inflight \union {pk.id} ELSE inflight)
      /\ Taken' = [Taken EXCEPT ![m] = @ + 1]
      /\ ingested' \in [Publishes -> Nat] /\ turnedAway' \in [Publishes -> Nat]
      /\ session /\ UNCHANGED <<session, stage, idOf, resent, broken>>
  <2>1. pk.type = "publish" /\ (m \in Exactly => pk.id \notin inflight) /\ Offer(m)
    BY <1>1, <1>3 DEF TakePublish, Redelivered
  <2>2. inflight' = (IF m \in Exactly THEN inflight \union {pk.id} ELSE inflight)
    BY <1>1, <1>3 DEF TakePublish
  <2>3. /\ ingested' \in [Publishes -> Nat] /\ turnedAway' \in [Publishes -> Nat]
        /\ Taken' = [Taken EXCEPT ![m] = @ + 1]
    BY <2>1, OfferTakes DEF MqttInv
  <2>4. AckType(pk) = IF m \in Exactly THEN "pubrec" ELSE "puback"  BY <1>3, <2>1 DEF AckType
  <2> QED  BY <1>1, <1>4, <2>1, <2>2, <2>3, <2>4 DEF ServerReads
<1>7. \A n \in Publishes : \A i : Owns(n, i)' <=> Owns(n, i)
  BY <1>6 DEF Owns
<1>8. stage[m] = "sent" /\ pk.id = idOf[m] /\ Taken[m] = 0
  <2>1. stage[m] \in {"sent", "released"} /\ pk.id = idOf[m]
    BY <1>2, <1>3, <1>6 DEF OnWay
  <2>2. stage[m] = "sent"
    BY <1>2, <1>3, <1>6, <2>1 DEF OnWay, MqttInv, Counts
  <2>3. Taken[m] = 0
    BY <1>2, <1>3, <1>6, <2>1, <2>2 DEF OnWay, MqttInv, Counts
  <2> QED  BY <2>1, <2>2, <2>3
<1>9. Owns(m, pk.id) /\ \A n \in Publishes : Owns(n, pk.id) => n = m
  <2>1. Owns(m, pk.id)  BY <1>8 DEF Owns
  <2> QED  BY <1>8, <2>1 DEF MqttInv, Ids, Owns
<1>10. Taken'[m] = 1 /\ \A n \in Publishes \ {m} : Taken'[n] = Taken[n]
  BY <1>6, <1>8, TakenTyped DEF MqttInv, MqttTypeOK
<1>11. \A n \in Exactly : n \in Publishes  BY MqttAssumption
<1>12. Ids'
  <2>1. ASSUME NEW i \in inflight' PROVE \E n \in Exactly : Owns(n, i)' /\ Taken'[n] = 1
    <3>1. CASE i \in inflight  BY <1>7, <1>8, <1>10, <1>11, <3>1 DEF MqttInv, Ids
    <3>2. CASE i \notin inflight  BY <1>6, <1>7, <1>9, <1>10, <2>1, <3>2
    <3> QED  BY <3>1, <3>2
  <2>2. \A n, o \in Publishes : (stage[n] \in {"sent", "released"} /\ Owns(o, idOf[n]) => n = o)'
    BY <1>6, <1>7 DEF MqttInv, Ids
  <2>3. \A n \in Publishes : (stage[n] \in {"sent", "released"} => idOf[n] \in PacketIds)'
    BY <1>6 DEF MqttInv, Ids
  <2> QED  BY <1>6, <2>1, <2>2, <2>3 DEF Ids
<1>13. Counts'
  <2>1. inflight \subseteq inflight' /\ (m \in Exactly => pk.id \in inflight')  BY <1>6
  <2> QED  BY <1>6, <1>8, <1>10, <2>1 DEF MqttInv, Counts
<1>14. \A p \in On(Tail(toServer)) : p.id = pk.id =>
         p.message = m /\ p.type = "publish" /\ m \in Exactly
  <2> SUFFICES ASSUME NEW p \in On(Tail(toServer)), p.id = pk.id
               PROVE  p.message = m /\ p.type = "publish" /\ m \in Exactly
    OBVIOUS
  <2>1. p \in Packets /\ OnWay(p) /\ Follows(pk, p)  BY <1>2, Elements
  <2>2. p.message = m  BY <1>3, <1>6, <2>1 DEF Follows
  <2>3. p.type = "publish"  BY <1>8, <2>1, <2>2 DEF OnWay, Packets
  <2>4. m \in Exactly  BY <1>3, <1>6, <2>1, <2>3 DEF Follows
  <2> QED  BY <2>2, <2>3, <2>4
<1>15. ASSUME NEW p \in On(Tail(toServer)) PROVE OnWay(p)' /\ OwnOnly(p)'
  <2>1. p \in Packets /\ p.message \in Publishes /\ OnWay(p) /\ OwnOnly(p)
    BY <1>2, Elements DEF Packets
  <2>2. p.message = m => p.id = pk.id  BY <1>8, <2>1 DEF OnWay
  <2>3. OnWay(p)'
    <3>1. inflight \subseteq inflight'  BY <1>6
    <3>2. p.type = "publish" /\ p.message \notin Exactly => Taken'[p.message] = 0
      BY <1>10, <1>14, <2>1, <2>2 DEF OnWay
    <3> QED  BY <1>6, <2>1, <3>1, <3>2 DEF OnWay
  <2>4. OwnOnly(p)'
    <3> SUFFICES ASSUME NEW n \in Publishes, Owns(n, p.id)', Taken'[n] = 1
                 PROVE  p.message = n /\ (stage'[n] = "sent" => p.type = "publish")
      BY DEF OwnOnly
    <3>1. CASE n = m  BY <1>7, <1>8, <1>14, <3>1 DEF Owns
    <3>2. CASE n # m  BY <1>6, <1>7, <1>10, <2>1, <3>2 DEF OwnOnly
    <3> QED  BY <3>1, <3>2
  <2> QED  BY <2>3, <2>4
<1>16. ASSUME NEW a \in On(toClient) PROVE Says(a)'
  <2>1. Says(a)  BY Elements
  <2>2. a.type = "puback" => \E n \in Publishes \ Exactly : Owns(n, a.id)' /\ Taken'[n] = 1
    BY <1>7, <1>8, <1>10, <2>1 DEF Says
  <2>3. a.type = "pubrec" => \E n \in Exactly : Owns(n, a.id)' /\ Taken'[n] = 1
    BY <1>7, <1>8, <1>10, <1>11, <2>1 DEF Says
  <2>4. ASSUME a.type = "pubcomp", NEW n \in Publishes, Owns(n, a.id)', stage'[n] = "released"
        PROVE  a.id \notin inflight' /\ \A p \in On(toServer)' : p.id = a.id => p.type = "pubrel"
    <3>1. Owns(n, a.id) /\ stage[n] = "released" /\ n # m  BY <1>6, <1>7, <1>8, <2>4
    <3>2. a.id # pk.id  BY <1>9, <3>1
    <3>3. On(toServer)' \subseteq On(toServer)  BY <1>2, <1>6 DEF On
    <3> QED  BY <1>6, <2>1, <2>4, <3>1, <3>2, <3>3 DEF Says
  <2> QED  BY <2>2, <2>3, <2>4 DEF Says
<1>17. Says(e)'
  <2>1. Owns(m, e.id)' /\ Taken'[m] = 1  BY <1>5, <1>7, <1>9, <1>10
  <2> QED  BY <1>5, <2>1 DEF Says
<1>18. ASSUME NEW a \in On(toClient) PROVE AckFollows(a, e)
  <2> SUFFICES ASSUME NEW n \in Publishes, Owns(n, a.id), a.id = pk.id
               PROVE  /\ e.type # "pubcomp" /\ stage[n] # "released"
                      /\ ~(a.type = "puback" /\ e.type = "puback")
    BY <1>5 DEF AckFollows
  <2>1. n = m  BY <1>9
  <2>2. a.type # "puback"
    <3>1. \A o \in Publishes : Owns(o, a.id) => Taken[o] = 0  BY <1>8, <1>9
    <3> QED  BY <3>1, Elements DEF Says
  <2> QED  BY <1>5, <1>8, <2>1, <2>2
<1>19. ToServer' /\ toServer' \in Seq(Packets) /\ ToClient' /\ toClient' \in Seq(Acks)
  BY <1>6, <1>15, <1>16, <1>17, <1>18, AnswerJoins
<1>20. MqttTypeOK'
  <2>1. inflight' \subseteq PacketIds  BY <1>2, <1>6 DEF MqttInv, MqttTypeOK, Packets
  <2> QED  BY <1>6, <1>19, <2>1 DEF MqttInv, MqttTypeOK
<1> QED  BY <1>12, <1>13, <1>19, <1>20 DEF MqttInv

---------------------------------------------------------------------------

LEMMA MqttInitHolds == MqttInit => MqttInv
<1> SUFFICES ASSUME MqttInit PROVE MqttInv
  OBVIOUS
<1>1. /\ session = FALSE /\ inflight = {} /\ toServer = <<>> /\ toClient = <<>>
      /\ stage = [m \in Publishes |-> "held"] /\ idOf = [m \in Publishes |-> NoId]
      /\ resent = 0 /\ broken = 0 /\ Taken = [m \in Publishes |-> 0]
      /\ ingested = [m \in Publishes |-> 0] /\ turnedAway = [m \in Publishes |-> 0]
  BY DEF MqttInit, Taken
<1>2. On(toServer) = {} /\ On(toClient) = {} /\ \A a, b : ~Before(toServer, a, b) /\ ~Before(toClient, a, b)
  BY <1>1, NothingOn
<1>3. MqttTypeOK
  <2>1. toServer \in Seq(Packets) /\ toClient \in Seq(Acks)  BY <1>1
  <2>2. stage \in [Publishes -> {"held", "sent", "released", "done"}] /\ ingested \in [Publishes -> Nat] /\ turnedAway \in [Publishes -> Nat]
        /\ idOf \in [Publishes -> PacketIds \union {NoId}]
    BY <1>1
  <2>3. session \in BOOLEAN /\ inflight \subseteq PacketIds /\ resent \in Nat /\ broken \in Nat  BY <1>1
  <2> QED  BY <2>1, <2>2, <2>3 DEF MqttTypeOK
<1>4. Ids /\ Counts  BY <1>1 DEF Ids, Counts, Owns
<1>5. ToServer /\ ToClient  BY <1>2 DEF ToServer, ToClient
<1> QED  BY <1>3, <1>4, <1>5 DEF MqttInv

LEMMA MqttStep == MqttInv /\ [MqttNext]_mqttVars => MqttInv'
<1> SUFFICES ASSUME MqttInv, [MqttNext]_mqttVars PROVE MqttInv'
  OBVIOUS
<1>1. ASSUME NEW m \in Publishes, SendAgain(m) PROVE MqttInv'
  BY <1>1, SendAgainKeeps
<1>2. ASSUME NEW m \in Publishes, NEW id \in PacketIds, SendPublish(m, id) PROVE MqttInv'
  BY <1>2, SendPublishKeeps
<1>3. CASE ClientReads
  <2>1. CASE Awaiting(Head(toClient)) = {}  BY <1>3, <2>1, PassedOverKeeps
  <2>2. ASSUME NEW m \in Awaiting(Head(toClient)) PROVE MqttInv'
    BY <1>3, <2>2, LastAckKeeps, ReleasedKeeps
  <2> QED  BY <2>1, <2>2
<1>4. CASE Connect  BY <1>4, ConnectKeeps
<1>5. CASE ServerReads
  <2>1. TakePublish(Head(toServer)) \/ TakeRelease(Head(toServer))  BY <1>5 DEF ServerReads
  <2> QED  BY <1>5, <2>1, TakeReleaseKeeps, RedeliveryKeeps, FirstTakenKeeps
<1>6. CASE Break  BY <1>6, BreakKeeps
<1>7. CASE UNCHANGED mqttVars
  <2>1. UNCHANGED <<session, inflight, toServer, toClient, stage, idOf, resent, broken, ingested, turnedAway, Taken>>
    BY <1>7 DEF mqttVars, Taken
  <2> QED
    BY <2>1 DEF MqttInv, MqttTypeOK, Ids, Counts, ToServer, ToClient, On, Before, Owns,
                OnWay, OwnOnly, Says, AckFollows
<1> QED  BY <1>1, <1>2, <1>3, <1>4, <1>5, <1>6, <1>7 DEF MqttNext

\* What serveMQTT acknowledged it ingested once or turned away once, never both,
\* and a QoS 2 message it has not acknowledged at most once, for every number of
\* messages, of ids, of packets on their way, sent again or lost.
THEOREM AcknowledgedOnce == MqttSpec => []AckedIsTakenOnce
<1>1. MqttInv => AckedIsTakenOnce
  <2> SUFFICES ASSUME MqttInv, NEW m \in Publishes
               PROVE  /\ m \in Exactly => ingested[m] + turnedAway[m] <= 1
                      /\ stage[m] \in {"released", "done"} => ingested[m] + turnedAway[m] = 1
    BY DEF AckedIsTakenOnce
  <2>1. stage[m] \in {"held", "sent", "released", "done"}  BY DEF MqttInv, MqttTypeOK
  <2>2. Taken[m] \in {0, 1} /\ (stage[m] \in {"released", "done"} => Taken[m] = 1)
    BY <2>1 DEF MqttInv, Counts
  <2>3. Taken[m] = ingested[m] + turnedAway[m]  BY TakenTyped DEF MqttInv, MqttTypeOK
  <2> QED  BY <2>2, <2>3
<1> QED  BY <1>1, MqttInitHolds, MqttStep, PTL DEF MqttSpec
=============================================================================
