---------------------------- MODULE MqttSession ----------------------------
(* A publisher on /v1/stream over MQTT: its packets, the acknowledgements,  *)
(* and the packet ids the server holds so that a QoS 2 message sent again   *)
(* is not ingested again (src/server/mqtt.go). A message the publisher's    *)
(* allowance turns away, or that comes once the intake is closing, is       *)
(* acknowledged as one that was ingested. A message stands for one of its   *)
(* lines. Left out: pings and refused subscriptions, which change nothing.  *)
EXTENDS Integers, Sequences, FiniteSets

CONSTANTS
  Publishes,  \* the messages a publisher has
  Exactly,    \* those it sends at QoS 2; the others at QoS 1 (QoS 0 has no id and no answer)
  PacketIds,  \* the ids it has for them
  Wire,       \* bound: packets on their way, either direction
  Resends,    \* bound: packets sent again
  Breaks      \* bound: sessions that end

ASSUME MqttAssumption ==
  /\ Exactly \subseteq Publishes
  /\ {Wire, Resends, Breaks} \subseteq Nat

VARIABLES
  session,   \* the connection is accepted
  inflight,  \* ids of QoS 2 messages taken and not released
  toServer,  \* packets the server has not read
  toClient,  \* acknowledgements the publisher has not read
  stage,     \* message -> "held", "sent", "released" (QoS 2, received), "done"
  idOf,      \* message -> its packet id, once sent
  resent,    \* packets sent again so far
  broken,    \* sessions ended so far
  ingested,   \* history: message -> how often this session's packets were ingested
  turnedAway  \* history: message -> how often they were turned away

mqttVars == <<session, inflight, toServer, toClient, stage, idOf, resent, broken, ingested, turnedAway>>

NoId == 0

MqttInit ==
  /\ session = FALSE /\ inflight = {} /\ toServer = <<>> /\ toClient = <<>>
  /\ stage = [m \in Publishes |-> "held"] /\ idOf = [m \in Publishes |-> NoId]
  /\ resent = 0 /\ broken = 0
  /\ ingested = [m \in Publishes |-> 0] /\ turnedAway = [m \in Publishes |-> 0]

Packet(type, id, m) == [type |-> type, id |-> id, message |-> m]
Ack(type, id) == [type |-> type, id |-> id]

---------------------------------------------------------------------------
(* The publisher, as MQTT 3.1.1 has it: an id is its message's until the    *)
(* last acknowledgement. Within a session only QoS 2 packets are sent again. *)

InUse == {idOf[m] : m \in {x \in Publishes : stage[x] \in {"sent", "released"}}}

SendPublish(m, id) ==
  /\ session /\ stage[m] = "held" /\ id \notin InUse /\ Len(toServer) < Wire
  /\ toServer' = Append(toServer, Packet("publish", id, m))
  /\ stage' = [stage EXCEPT ![m] = "sent"]
  /\ idOf' = [idOf EXCEPT ![m] = id]
  /\ UNCHANGED <<session, inflight, toClient, resent, broken, ingested, turnedAway>>

SendAgain(m) ==
  /\ session /\ m \in Exactly /\ stage[m] \in {"sent", "released"}
  /\ resent < Resends /\ Len(toServer) < Wire
  /\ toServer' = Append(toServer, Packet(IF stage[m] = "sent" THEN "publish" ELSE "pubrel", idOf[m], m))
  /\ resent' = resent + 1
  /\ UNCHANGED <<session, inflight, toClient, stage, idOf, broken, ingested, turnedAway>>

\* An acknowledgement that no message waits for is passed over.
Awaiting(ack) ==
  {m \in Publishes :
     /\ idOf[m] = ack.id
     /\ \/ ack.type = "puback" /\ m \notin Exactly /\ stage[m] = "sent"
        \/ ack.type = "pubrec" /\ m \in Exactly /\ stage[m] = "sent"
        \/ ack.type = "pubcomp" /\ stage[m] = "released"}

ClientReads ==
  /\ session /\ toClient # <<>> /\ Len(toServer) < Wire
  /\ LET ack == Head(toClient) IN
       /\ stage' = [m \in Publishes |->
                      IF m \notin Awaiting(ack) THEN stage[m]
                      ELSE IF ack.type = "pubrec" THEN "released" ELSE "done"]
       /\ toServer' = IF ack.type = "pubrec" /\ Awaiting(ack) # {}
                      THEN Append(toServer, Packet("pubrel", ack.id, CHOOSE m \in Awaiting(ack) : TRUE))
                      ELSE toServer
  /\ toClient' = Tail(toClient)
  /\ UNCHANGED <<session, inflight, idOf, resent, broken, ingested, turnedAway>>

---------------------------------------------------------------------------
(* The server. *)

Connect ==
  /\ ~session
  /\ session' = TRUE /\ inflight' = {}
  /\ UNCHANGED <<toServer, toClient, stage, idOf, resent, broken, ingested, turnedAway>>

Redelivered(pk) == pk.message \in Exactly /\ pk.id \in inflight

\* publishLimit, then Ingest's admission: the line is ingested, or turned away.
Offer(m) ==
  \/ ingested' = [ingested EXCEPT ![m] = @ + 1] /\ UNCHANGED turnedAway
  \/ turnedAway' = [turnedAway EXCEPT ![m] = @ + 1] /\ UNCHANGED ingested

\* A message not held under its id is offered; each is acknowledged.
TakePublish(pk) ==
  /\ pk.type = "publish"
  /\ inflight' = IF pk.message \in Exactly THEN inflight \union {pk.id} ELSE inflight
  /\ IF Redelivered(pk) THEN UNCHANGED <<ingested, turnedAway>> ELSE Offer(pk.message)

\* Mutant: an id stays held once its message was taken.
StillHeld(id) == inflight

AfterRelease(id) == inflight \ {id}

TakeRelease(pk) ==
  /\ pk.type = "pubrel"
  /\ inflight' = AfterRelease(pk.id)
  /\ UNCHANGED <<ingested, turnedAway>>

AckType(pk) ==
  IF pk.type = "pubrel" THEN "pubcomp" ELSE IF pk.message \in Exactly THEN "pubrec" ELSE "puback"

\* The session is clean: what either side held of it is gone, and what the
\* publisher had no last acknowledgement of it sends anew in another.
Ended ==
  /\ broken < Breaks /\ broken' = broken + 1
  /\ session' = FALSE /\ toServer' = <<>> /\ toClient' = <<>>
  /\ stage' = [m \in Publishes |-> IF stage[m] = "done" THEN "done" ELSE "held"]

Unfinished(count) == [m \in Publishes |-> IF stage[m] = "done" THEN count[m] ELSE 0]

\* A packet is taken, and its acknowledgement written or the session lost with it.
ServerReads ==
  /\ session /\ toServer # <<>>
  /\ LET pk == Head(toServer) IN
       /\ TakePublish(pk) \/ TakeRelease(pk)
       /\ Len(toClient) < Wire
       /\ toClient' = Append(toClient, Ack(AckType(pk), pk.id))
  /\ toServer' = Tail(toServer)
  /\ UNCHANGED <<session, stage, idOf, resent, broken>>

\* The connection is lost, silent past its deadline, or closed: at a packet's
\* acknowledgement as between two packets.
Break ==
  /\ session /\ Ended
  /\ inflight' = {} /\ ingested' = Unfinished(ingested) /\ turnedAway' = Unfinished(turnedAway)
  /\ UNCHANGED <<idOf, resent>>

MqttNext ==
  \/ \E m \in Publishes : SendAgain(m) \/ \E id \in PacketIds : SendPublish(m, id)
  \/ ClientReads \/ Connect \/ ServerReads \/ Break

MqttSpec == MqttInit /\ [][MqttNext]_mqttVars

---------------------------------------------------------------------------
(* Properties. *)

\* What the server acknowledged it ingested in that session once or turned away
\* once, never neither and never both, and a QoS 2 message not acknowledged it
\* did so at most once, whichever packets were sent again and whatever ids were
\* used again: serveMQTT holds an id from the first PUBLISH to the PUBREL, so a
\* retransmit does not try its luck again and another message is not taken for one.
AckedIsTakenOnce ==
  \A m \in Publishes :
    /\ m \in Exactly => ingested[m] + turnedAway[m] <= 1
    /\ stage[m] \in {"released", "done"} => ingested[m] + turnedAway[m] = 1
=============================================================================
