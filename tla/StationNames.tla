---------------------------- MODULE StationNames ----------------------------
(* What the server knows of a station beyond its traffic: the names and the *)
(* signature lock a mint sets, the own vessel and the label the passes      *)
(* find, and how they reach the stations table from two writers             *)
(* (src/server/names.go, mintPersonal in auth.go).                          *)
EXTENDS Integers, FiniteSets

CONSTANTS
  Keys,         \* public keys, each with a station of its own
  Udp,          \* UDP stations a mint may bind
  Chosen,       \* names an operator may choose; "" is none
  Locked,       \* LOCKED_STATIONS
  Vessels,      \* vessels a station may send !AIVDO of
  Changes,      \* nameChangesDay
  MaxTS,        \* bound: the timestamps requests are signed with, all within mintSkew
  Mints,        \* bound: requests under way at once
  Refreshes,    \* bound: own vessels and labels that change
  Crashes       \* bound: processes that end

ASSUME NamesAssumption ==
  /\ {Changes, MaxTS, Refreshes, Crashes} \subseteq Nat
  /\ "" \notin Chosen /\ Locked \subseteq Keys \union Udp
  /\ Mints \cap {"free", "pass"} = {}

VARIABLES
  meta,     \* stationNames.m: per station what memory holds
  table,    \* the stations table
  unsaved,  \* stations changed since they were last written
  wmu,      \* the write lock: its holder, or "free"
  mint,     \* per request: where it stands
  pass,     \* runStationNames' flush
  changes,  \* name changes of a key within the day
  refreshed, crashes,
  tokens    \* history: per key, the timestamps of signed requests that got a token

namesVars == <<meta, table, unsaved, wmu, mint, pass, changes, refreshed, crashes, tokens>>

StationIds == Keys \union Udp
NoMeta == [ts |-> 0, signs |-> FALSE, name |-> "", own |-> "none", near |-> 0]
NoRows == [s \in {} |-> NoMeta]
NoMint == [pc |-> "idle", key |-> "none", ts |-> 0, ids |-> {}, rows |-> NoRows, failed |-> FALSE]

NamesInit ==
  /\ meta = [s \in StationIds |-> NoMeta] /\ table = meta
  /\ unsaved = {} /\ wmu = "free"
  /\ mint = [m \in Mints |-> NoMint]
  /\ pass = [pc |-> "idle", ids |-> {}, rows |-> NoRows]
  /\ changes = [k \in Keys |-> 0]
  /\ refreshed = 0 /\ crashes = 0
  /\ tokens = [k \in Keys |-> {}]

---------------------------------------------------------------------------
(* mintPersonal. *)

\* checkMint passes an unsigned request of a key that never signed; the token
\* follows with no name and no write.
MintUnsigned(m, k) ==
  /\ mint[m].pc = "idle" /\ ~meta[k].signs
  /\ mint' = [mint EXCEPT ![m] = [NoMint EXCEPT !.pc = "unsigned", !.key = k]]
  /\ UNCHANGED <<meta, table, unsaved, wmu, pass, changes, refreshed, crashes, tokens>>

\* A signed one must be newer than the last; it locks the key.
MintSigned(m, k) ==
  /\ mint[m].pc = "idle"
  /\ \E ts \in meta[k].ts + 1 .. MaxTS, bound \in {{}} \union {{u} : u \in Udp} :
       /\ mint' = [mint EXCEPT ![m] = [NoMint EXCEPT !.pc = "checked", !.key = k, !.ts = ts, !.ids = {k} \union bound]]
       /\ meta' = [meta EXCEPT ![k].ts = ts, ![k].signs = TRUE]
  /\ unsaved' = unsaved \union {k}
  /\ UNCHANGED <<table, wmu, pass, changes, refreshed, crashes, tokens>>

Wanted(ids, name) ==
  /\ ids \cap Locked = {}
  /\ name # "" => \A s \in StationIds \ ids : meta[s].name # name

\* applyNames: a name that breaks a rule is left out, and the mint goes ahead.
ApplyNames(m) ==
  LET r == mint[m] IN
  /\ r.pc = "checked"
  /\ mint' = [mint EXCEPT ![m].pc = "named"]
  /\ \/ UNCHANGED <<meta, unsaved, changes>>
     \/ \E name \in Chosen \union {""} :
          /\ Wanted(r.ids, name) /\ changes[r.key] < Changes
          /\ meta' = [s \in StationIds |-> IF s \in r.ids THEN [meta[s] EXCEPT !.name = name] ELSE meta[s]]
          /\ unsaved' = unsaved \union r.ids
          /\ changes' = [changes EXCEPT ![r.key] = @ + 1]
  /\ UNCHANGED <<table, wmu, pass, refreshed, crashes, tokens>>

---------------------------------------------------------------------------
(* stationNames.write, for a mint and for the minute's pass. *)

\* Mutant: the snapshot is taken before the write lock.
Unserialized == TRUE

\* The write lock spans the snapshot and the writes.
Serialized == wmu = "free"

Snapshot(ids) == [s \in ids |-> meta[s]]

MintSnapshot(m) ==
  /\ mint[m].pc = "named" /\ Serialized
  /\ wmu' = m
  /\ mint' = [mint EXCEPT ![m].pc = "writing", ![m].rows = Snapshot(mint[m].ids)]
  /\ unsaved' = unsaved \ mint[m].ids
  /\ UNCHANGED <<meta, table, pass, changes, refreshed, crashes, tokens>>

\* One row, in the order of a map; a failed one stays unsaved.
Rest(rows, s) == [x \in DOMAIN rows \ {s} |-> rows[x]]
LandRow(rows, s) == table' = [table EXCEPT ![s] = rows[s]] /\ UNCHANGED unsaved
LoseRow(s) == unsaved' = unsaved \union {s} /\ UNCHANGED table

MintRow(m) ==
  /\ mint[m].pc = "writing"
  /\ \E s \in DOMAIN mint[m].rows :
       \/ LandRow(mint[m].rows, s) /\ mint' = [mint EXCEPT ![m].rows = Rest(@, s)]
       \/ LoseRow(s) /\ mint' = [mint EXCEPT ![m].rows = Rest(@, s), ![m].failed = TRUE]
  /\ UNCHANGED <<meta, wmu, pass, changes, refreshed, crashes, tokens>>

MintWritten(m) ==
  /\ mint[m].pc = "writing" /\ mint[m].rows = NoRows
  /\ wmu' = "free"
  /\ mint' = [mint EXCEPT ![m].pc = "saved", ![m].rows = NoRows]
  /\ UNCHANGED <<meta, table, unsaved, pass, changes, refreshed, crashes, tokens>>

\* The token, unless the station could not be saved.
Sign(m) ==
  /\ mint[m].pc \in {"saved", "unsigned"}
  /\ tokens' = IF mint[m].pc = "saved" /\ ~mint[m].failed
               THEN [tokens EXCEPT ![mint[m].key] = @ \union {mint[m].ts}] ELSE tokens
  /\ mint' = [mint EXCEPT ![m] = NoMint]
  /\ UNCHANGED <<meta, table, unsaved, wmu, pass, changes, refreshed, crashes>>

\* flush: the ids first, the rows once the write lock is held.
FlushIds ==
  /\ pass.pc = "idle" /\ unsaved # {}
  /\ pass' = [pass EXCEPT !.pc = "listed", !.ids = unsaved]
  /\ UNCHANGED <<meta, table, unsaved, wmu, mint, changes, refreshed, crashes, tokens>>

FlushSnapshot ==
  /\ pass.pc = "listed" /\ Serialized
  /\ wmu' = "pass"
  /\ pass' = [pc |-> "writing", ids |-> {}, rows |-> Snapshot(pass.ids)]
  /\ unsaved' = unsaved \ pass.ids
  /\ UNCHANGED <<meta, table, mint, changes, refreshed, crashes, tokens>>

FlushRow ==
  /\ pass.pc = "writing"
  /\ \E s \in DOMAIN pass.rows :
       /\ LandRow(pass.rows, s) \/ LoseRow(s)
       /\ pass' = [pass EXCEPT !.rows = Rest(@, s)]
  /\ UNCHANGED <<meta, wmu, mint, changes, refreshed, crashes, tokens>>

FlushWritten ==
  /\ pass.pc = "writing" /\ pass.rows = NoRows
  /\ wmu' = "free" /\ pass' = [pass EXCEPT !.pc = "idle"]
  /\ UNCHANGED <<meta, table, unsaved, mint, changes, refreshed, crashes, tokens>>

---------------------------------------------------------------------------
(* The passes, and the process. *)

\* decideOwn: the vessel heard last, none while another was within the hour,
\* the earlier decision while nothing was heard.
DecideOwn(heard, last, before) ==
  IF heard = {} THEN before ELSE IF heard = {last} THEN last ELSE "none"

RefreshOwn(s) ==
  /\ refreshed < Refreshes /\ refreshed' = refreshed + 1
  /\ \E heard \in SUBSET Vessels : \E last \in heard :
       LET own == DecideOwn(heard, last, meta[s].own) IN
         /\ own # meta[s].own
         /\ meta' = [meta EXCEPT ![s].own = own]
  /\ unsaved' = unsaved \union {s}
  /\ UNCHANGED <<table, wmu, mint, pass, changes, crashes, tokens>>

RefreshLabel(s) ==
  /\ refreshed < Refreshes /\ refreshed' = refreshed + 1
  /\ meta' = [meta EXCEPT ![s].near = 1 - @]
  /\ unsaved' = unsaved \union {s}
  /\ UNCHANGED <<table, wmu, mint, pass, changes, crashes, tokens>>

\* The process ends wherever it is and the next attaches the table. A clean
\* stop flushes first, which the pass above may do before it.
Reattach ==
  /\ crashes < Crashes /\ crashes' = crashes + 1
  /\ meta' = table /\ unsaved' = {} /\ wmu' = "free"
  /\ mint' = [m \in Mints |-> NoMint]
  /\ pass' = [pc |-> "idle", ids |-> {}, rows |-> NoRows]
  /\ changes' = [k \in Keys |-> 0]
  /\ UNCHANGED <<table, refreshed, tokens>>

NamesNext ==
  \/ \E m \in Mints :
       \/ \E k \in Keys : MintUnsigned(m, k) \/ MintSigned(m, k)
       \/ ApplyNames(m) \/ MintSnapshot(m) \/ MintRow(m) \/ MintWritten(m) \/ Sign(m)
  \/ FlushIds \/ FlushSnapshot \/ FlushRow \/ FlushWritten
  \/ \E s \in StationIds : RefreshOwn(s) \/ RefreshLabel(s)
  \/ Reattach

NamesSpec == NamesInit /\ [][NamesNext]_namesVars

---------------------------------------------------------------------------
(* Properties. *)

Rows == [ts : 0..MaxTS, signs : BOOLEAN, name : Chosen \union {""}, own : Vessels \union {"none"}, near : {0, 1}]
Snapshots == UNION {[ids -> Rows] : ids \in SUBSET StationIds}
MintRecords ==
  [pc : {"idle", "unsigned", "checked", "named", "writing", "saved"}, key : Keys \union {"none"},
   ts : 0..MaxTS, ids : SUBSET StationIds, rows : Snapshots, failed : BOOLEAN]

\* Types; a request past its check is of a key, signed, and writes its station
\* under the write lock, as the pass does.
NamesTypeOK ==
  /\ meta \in [StationIds -> Rows] /\ table \in [StationIds -> Rows]
  /\ mint \in [Mints -> MintRecords]
  /\ pass \in [pc : {"idle", "listed", "writing"}, ids : SUBSET StationIds, rows : Snapshots]
  /\ unsaved \subseteq StationIds
  /\ \A m \in Mints : mint[m].pc \notin {"idle", "unsigned"} => mint[m].key \in Keys \cap mint[m].ids
  /\ \A m \in Mints : mint[m].pc = "unsigned" => mint[m].key \in Keys
  /\ \A m \in Mints : mint[m].pc = "writing" => wmu = m
  /\ pass.pc = "writing" => wmu = "pass"
  /\ tokens \in [Keys -> SUBSET (0..MaxTS)]

\* Once a signed request for a key got a token, no later request passes
\* unsigned or with that timestamp or an earlier one, across any crash: the lock
\* and the replay guard are saved before the token exists, and no other write of
\* the station can put an older row over them.
SignedStaysSigned ==
  [][\A m \in Mints : mint[m].pc = "idle" =>
       /\ mint'[m].pc = "unsigned" => tokens[mint'[m].key] = {}
       /\ mint'[m].pc = "checked" => \A ts \in tokens[mint'[m].key] : mint'[m].ts > ts]_namesVars
=============================================================================
