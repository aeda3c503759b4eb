---------------------------- MODULE StreamSlots ----------------------------
(* The streams each token and each address may hold at once, from the       *)
(* handshake of every protocol to its exit, and the upgrade of an open      *)
(* /v1 socket to a token of its own, which its reader makes while its       *)
(* handler may be leaving (src/server/tiers.go, stream.go, auth.go).        *)
EXTENDS Integers, FiniteSets

CONSTANTS
  Streams,        \* connections; one ends before its name is used again
  Addresses,      \* the addresses they come from
  Stations,       \* the public keys stations register
  AnonConns,      \* anonConns
  PersonalConns,  \* personalConns
  FeederConns,    \* feederConns
  AddrMax         \* addrMaxStreams

ASSUME SlotsAssumption ==
  /\ {AnonConns, PersonalConns, FeederConns, AddrMax} \subseteq Nat \ {0}
  /\ IsFiniteSet(Streams) /\ Addresses \cap Stations = {}

VARIABLES
  handler,  \* per stream: the serving goroutine, "closed", "addr" with the address's slot, or "open"
  reader,   \* per /v1 socket: "none", "reading", or "minted" with a slot of the new token
  of,       \* per stream: protocol, address and claims
  minted,   \* per stream: the claims its reader minted
  conns,    \* streams counted per token sub
  addrs,    \* streams counted per address
  gauge,    \* streams counted per protocol and tier
  feeding   \* addresses whose network feeds enough to earn the feeder tier

slotVars == <<handler, reader, of, minted, conns, addrs, gauge, feeding>>

Protocols == {"v0", "v1", "sse", "nmea", "mqtt"}
Tiers == {"anonymous", "anonymous_feeder", "personal", "feeder"}
Subs == Addresses \union Stations   \* anonymous claims are keyed by address

---------------------------------------------------------------------------
(* Claims. *)

AnonymousClaims(addr) == [sub |-> addr, role |-> "anonymous", conns |-> AnonConns, feeder |-> FALSE]
PersonalClaims(key) == [sub |-> key, role |-> "personal", conns |-> PersonalConns, feeder |-> FALSE]

\* effective: a network that feeds earns its readers the feeder tier.
Effective(cl, addr) ==
  IF addr \in feeding THEN [cl EXCEPT !.conns = FeederConns, !.feeder = TRUE] ELSE cl

TierOf(cl) ==
  IF cl.feeder THEN (IF cl.role = "anonymous" THEN "anonymous_feeder" ELSE "feeder") ELSE cl.role

\* What a request may claim; the raw NMEA feed is for feeders, and publishing
\* over MQTT and subscribing over /v0 are for tokens.
ClaimsFor(proto, addr) ==
  LET tokens == {Effective(PersonalClaims(k), addr) : k \in Stations}
      all == tokens \union {Effective(AnonymousClaims(addr), addr)}
  IN  IF proto = "nmea" THEN {cl \in all : cl.feeder}
      ELSE IF proto \in {"mqtt", "v0"} THEN tokens ELSE all

---------------------------------------------------------------------------
(* Slots. *)

NoClaims == [sub |-> "none", role |-> "none", conns |-> 0, feeder |-> FALSE]
NoStream == [proto |-> "none", addr |-> "none", claims |-> NoClaims]

SlotsInit ==
  /\ handler = [c \in Streams |-> "closed"]
  /\ reader = [c \in Streams |-> "none"]
  /\ of = [c \in Streams |-> NoStream]
  /\ minted = [c \in Streams |-> NoClaims]
  /\ conns = [s \in Subs |-> 0]
  /\ addrs = [a \in Addresses |-> 0]
  /\ gauge = [k \in Protocols \X Tiers |-> 0]
  /\ feeding = {}

\* connCounter.acquire refuses a key that holds as many as its claims allow.
Room(count, key, max) == count[key] < max
Taken(count, key) == [count EXCEPT ![key] = @ + 1]
Given(count, key) == [count EXCEPT ![key] = @ - 1]
Gauge(proto, cl) == <<proto, TierOf(cl)>>

\* acquireStreamSlots: the address's slot first,
AcquireAddr(c) ==
  /\ handler[c] = "closed" /\ reader[c] = "none"
  /\ \E proto \in Protocols, a \in Addresses :
       /\ Room(addrs, a, AddrMax)
       /\ \E cl \in ClaimsFor(proto, a) : of' = [of EXCEPT ![c] = [proto |-> proto, addr |-> a, claims |-> cl]]
       /\ addrs' = Taken(addrs, a)
  /\ handler' = [handler EXCEPT ![c] = "addr"]
  /\ UNCHANGED <<reader, minted, conns, gauge, feeding>>

\* then the token's, or the address's goes back. Only a /v1 socket has a reader
\* that may take another slot; /v0's keeps the first subscription's.
AcquireSub(c) ==
  LET s == of[c] cl == s.claims IN
  /\ handler[c] = "addr"
  /\ IF Room(conns, cl.sub, cl.conns)
     THEN /\ conns' = Taken(conns, cl.sub) /\ gauge' = Taken(gauge, Gauge(s.proto, cl))
          /\ handler' = [handler EXCEPT ![c] = "open"]
          /\ reader' = [reader EXCEPT ![c] = IF s.proto = "v1" THEN "reading" ELSE "none"]
          /\ UNCHANGED <<of, addrs>>
     ELSE /\ addrs' = Given(addrs, s.addr)
          /\ handler' = [handler EXCEPT ![c] = "closed"]
          /\ of' = [of EXCEPT ![c] = NoStream]
          /\ UNCHANGED <<reader, conns, gauge>>
  /\ UNCHANGED <<minted, feeding>>

\* The handler leaves: what the stream holds goes back. A /v1 reader reads on
\* until the cancel, and so may be in the middle of a registration.
Exit(c) ==
  LET s == of[c] IN
  /\ handler[c] = "open"
  /\ handler' = [handler EXCEPT ![c] = "closed"]
  /\ conns' = Given(conns, s.claims.sub)
  /\ addrs' = Given(addrs, s.addr)
  /\ gauge' = Given(gauge, Gauge(s.proto, s.claims))
  /\ of' = IF reader[c] = "none" THEN [of EXCEPT ![c] = NoStream] ELSE of
  /\ UNCHANGED <<reader, minted, feeding>>

\* The exit's cancel reaches the reader between two frames.
Cancelled(c) ==
  /\ handler[c] = "closed" /\ reader[c] = "reading"
  /\ reader' = [reader EXCEPT ![c] = "none"]
  /\ of' = [of EXCEPT ![c] = NoStream]
  /\ UNCHANGED <<handler, minted, conns, addrs, gauge, feeding>>

\* A register frame of an anonymous socket mints a token and takes a slot of
\* it; refused, the socket keeps its claims and its slot.
Register(c) ==
  /\ reader[c] = "reading" /\ of[c].claims.role = "anonymous"
  /\ \E key \in Stations :
       LET cl == Effective(PersonalClaims(key), of[c].addr) IN
         /\ Room(conns, cl.sub, cl.conns)
         /\ conns' = Taken(conns, cl.sub)
         /\ minted' = [minted EXCEPT ![c] = cl]
  /\ reader' = [reader EXCEPT ![c] = "minted"]
  /\ UNCHANGED <<handler, of, addrs, gauge, feeding>>

\* Mutant: the reader does not ask whether the handler has left.
StaysOpen(c) == TRUE

\* What the reader finds under slotMu: the handler has not released yet.
StillOpen(c) == handler[c] = "open"

\* Under slotMu the slot of the token replaces the address's, or is given back
\* when the handler released while the token was minted.
Swap(c) ==
  LET s == of[c] cl == minted[c] IN
  /\ reader[c] = "minted"
  /\ minted' = [minted EXCEPT ![c] = NoClaims]
  /\ IF StillOpen(c)
     THEN /\ conns' = Given(conns, s.claims.sub)
          /\ gauge' = Taken(Given(gauge, Gauge("v1", s.claims)), Gauge("v1", cl))
          /\ of' = [of EXCEPT ![c].claims = cl]
          /\ reader' = [reader EXCEPT ![c] = "reading"]
     ELSE /\ conns' = Given(conns, cl.sub)
          /\ reader' = [reader EXCEPT ![c] = "none"]
          /\ of' = [of EXCEPT ![c] = NoStream]
          /\ UNCHANGED gauge
  /\ UNCHANGED <<handler, addrs, feeding>>

\* A network starts to feed, or its last day's events fall under the bound.
Feed(a) ==
  /\ feeding' = IF a \in feeding THEN feeding \ {a} ELSE feeding \union {a}
  /\ UNCHANGED <<handler, reader, of, minted, conns, addrs, gauge>>

SlotsNext ==
  \/ \E c \in Streams : AcquireAddr(c) \/ AcquireSub(c) \/ Exit(c) \/ Cancelled(c) \/ Register(c) \/ Swap(c)
  \/ \E a \in Addresses : Feed(a)

SlotsSpec == SlotsInit /\ [][SlotsNext]_slotVars

---------------------------------------------------------------------------
(* Properties. *)

SlotsTypeOK ==
  /\ handler \in [Streams -> {"closed", "addr", "open"}]
  /\ reader \in [Streams -> {"none", "reading", "minted"}]
  /\ conns \in [Subs -> Nat] /\ addrs \in [Addresses -> Nat] /\ gauge \in [Protocols \X Tiers -> Nat]
  /\ feeding \subseteq Addresses

Open == {c \in Streams : handler[c] = "open"}
Upgrading == {c \in Streams : reader[c] = "minted"}

\* What is counted is what is open: every key's count is its open streams and
\* the upgrades to it under way, so no exit, refusal or upgrade leaves a slot
\* taken, gives one back twice, or leaves the gauge at a tier nobody holds.
SlotsMatchStreams ==
  /\ \A s \in Subs : conns[s] = Cardinality({c \in Open : of[c].claims.sub = s})
                                + Cardinality({c \in Upgrading : minted[c].sub = s})
  /\ \A a \in Addresses : addrs[a] = Cardinality({c \in Streams : handler[c] # "closed" /\ of[c].addr = a})
  /\ \A p \in Protocols, t \in Tiers :
       gauge[<<p, t>>] = Cardinality({c \in Open : of[c].proto = p /\ TierOf(of[c].claims) = t})
=============================================================================
