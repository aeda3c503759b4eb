--------------------------- MODULE StationsProofs ---------------------------
(* Stations and their streams: once a signed request for a key got a token, *)
(* none passes unsigned or replayed (StationNames), a station's ring counts *)
(* its hours across restarts (UsageRings), and the stream counters count    *)
(* what is open, however handlers, readers and upgrades interleave          *)
(* (StreamSlots).                                                           *)
EXTENDS StationNames, UsageRings, StreamSlots, FiniteSetTheorems, TLAPS

-----------------------------------------------------------------------------
(* Names and tokens (names.go, stations.go). *)

\* A row at least as new as another, and with its lock.
Covers(a, b) == a.ts >= b.ts /\ (b.signs => a.signs)

\* A row that lets only signed requests pass, and only newer than ts.
Locks(r, ts) == r.ts >= ts /\ r.signs

\* Rows a writer has in hand: memory is as new, and they as the table.
Between(rows) == \A s \in DOMAIN rows : Covers(rows[s], table[s]) /\ Covers(meta[s], rows[s])

\* What a request signed is in memory, then in the rows it writes, then in the
\* table unless its write failed.
OnItsWay(r) ==
  /\ r.pc \in {"checked", "named"} => Locks(meta[r.key], r.ts)
  /\ r.pc = "writing" => /\ Between(r.rows)
                         /\ r.key \in DOMAIN r.rows => Locks(r.rows[r.key], r.ts)
                         /\ r.key \notin DOMAIN r.rows => r.failed \/ Locks(table[r.key], r.ts)
  /\ r.pc = "saved" => r.failed \/ Locks(table[r.key], r.ts)

\* What tokens were given for is in the table.
TokensAreLocked == \A k \in Keys : \A ts \in tokens[k] : Locks(table[k], ts)

LockInv ==
  /\ \A s \in StationIds : Covers(meta[s], table[s])
  /\ \A m \in Mints : OnItsWay(mint[m])
  /\ pass.pc = "writing" => Between(pass.rows)
  /\ TokensAreLocked

---------------------------------------------------------------------------
(* Snapshots. *)

LEMMA SnapshotElim ==
  ASSUME NEW f \in Snapshots
  PROVE  DOMAIN f \in SUBSET StationIds /\ f \in [DOMAIN f -> Rows]
  BY DEF Snapshots

LEMMA SnapshotIntro ==
  ASSUME NEW ids \in SUBSET StationIds, NEW f \in [ids -> Rows]
  PROVE  f \in Snapshots
  BY DEF Snapshots

LEMMA NoRowsTyped == NoRows \in Snapshots
<1>1. NoRows \in [{} -> Rows]  BY DEF NoRows
<1> QED  BY <1>1, SnapshotIntro

LEMMA RestTyped ==
  ASSUME NEW f \in Snapshots, NEW s
  PROVE  Rest(f, s) \in Snapshots
<1>1. Rest(f, s) \in [DOMAIN f \ {s} -> Rows]  BY SnapshotElim DEF Rest
<1>2. DOMAIN f \ {s} \in SUBSET StationIds  BY SnapshotElim
<1> QED  BY <1>1, <1>2, SnapshotIntro

LEMMA SnapshotTyped ==
  ASSUME meta \in [StationIds -> Rows], NEW ids \in SUBSET StationIds
  PROVE  Snapshot(ids) \in Snapshots
<1>1. Snapshot(ids) \in [ids -> Rows]  BY DEF Snapshot
<1> QED  BY <1>1, SnapshotIntro

---------------------------------------------------------------------------
(* Types. *)

LEMMA ZeroTyped == MaxTS \in Nat /\ 0 \in 0..MaxTS
<1>1. MaxTS \in Nat  BY NamesAssumption
<1> QED  BY <1>1

LEMMA NoMetaTyped == NoMeta \in Rows
  BY ZeroTyped DEF NoMeta, Rows

\* What names, own vessels and labels change of a row keeps its lock.
LEMMA RowUpdates ==
  ASSUME NEW r \in Rows
  PROVE  /\ \A name \in Chosen \union {""} : [r EXCEPT !.name = name] \in Rows
         /\ \A own \in Vessels \union {"none"} : [r EXCEPT !.own = own] \in Rows
         /\ [r EXCEPT !.near = 1 - @] \in Rows
         /\ \A x : /\ [r EXCEPT !.name = x].ts = r.ts /\ [r EXCEPT !.name = x].signs = r.signs
                  /\ [r EXCEPT !.own = x].ts = r.ts /\ [r EXCEPT !.own = x].signs = r.signs
                  /\ [r EXCEPT !.near = x].ts = r.ts /\ [r EXCEPT !.near = x].signs = r.signs
<1>1. r.near \in {0, 1}  BY DEF Rows
<1>2. 1 - r.near \in {0, 1}  BY <1>1
<1>3. \A x : /\ [r EXCEPT !.name = x].ts = r.ts /\ [r EXCEPT !.name = x].signs = r.signs
            /\ [r EXCEPT !.own = x].ts = r.ts /\ [r EXCEPT !.own = x].signs = r.signs
            /\ [r EXCEPT !.near = x].ts = r.ts /\ [r EXCEPT !.near = x].signs = r.signs
  BY DEF Rows
<1>4. \A name \in Chosen \union {""} : [r EXCEPT !.name = name] \in Rows  BY DEF Rows
<1>5. \A own \in Vessels \union {"none"} : [r EXCEPT !.own = own] \in Rows  BY DEF Rows
<1>6. [r EXCEPT !.near = 1 - @] \in Rows  BY <1>2 DEF Rows
<1> QED  BY <1>3, <1>4, <1>5, <1>6

LEMMA NoMintTyped == NoMint \in MintRecords /\ NoMint.pc = "idle"
  BY ZeroTyped, NoRowsTyped DEF NoMint, MintRecords

LEMMA TypeInit == NamesInit => NamesTypeOK
<1> SUFFICES ASSUME NamesInit PROVE NamesTypeOK  OBVIOUS
<1>1. mint \in [Mints -> MintRecords] /\ \A m \in Mints : mint[m].pc = "idle"
  BY NoMintTyped DEF NamesInit
<1>2. pass \in [pc : {"idle", "listed", "writing"}, ids : SUBSET StationIds, rows : Snapshots] /\ pass.pc = "idle"
  BY NoRowsTyped DEF NamesInit
<1>3. meta \in [StationIds -> Rows] /\ table \in [StationIds -> Rows]  BY NoMetaTyped DEF NamesInit
<1> QED  BY <1>1, <1>2, <1>3 DEF NamesInit, NamesTypeOK

\* Each action keeps the types.
LEMMA TypeNext == NamesTypeOK /\ [NamesNext]_namesVars => NamesTypeOK'
<1> SUFFICES ASSUME NamesTypeOK, [NamesNext]_namesVars PROVE NamesTypeOK'  OBVIOUS
<1> USE DEF NamesTypeOK
<1>1. ASSUME NEW m \in Mints, NEW k \in Keys, MintUnsigned(m, k) PROVE NamesTypeOK'
  <2> DEFINE r == [NoMint EXCEPT !.pc = "unsigned", !.key = k]
  <2>1. r \in MintRecords /\ r.pc = "unsigned" /\ r.key = k  BY ZeroTyped, NoRowsTyped DEF NoMint, MintRecords
  <2>2. mint' = [mint EXCEPT ![m] = r]  BY <1>1 DEF MintUnsigned
  <2> HIDE DEF r
  <2> QED  BY <1>1, <2>1, <2>2 DEF MintUnsigned
<1>2. ASSUME NEW m \in Mints, NEW k \in Keys, MintSigned(m, k) PROVE NamesTypeOK'
  <2>1. PICK ts \in meta[k].ts + 1 .. MaxTS, bound \in {{}} \union {{u} : u \in Udp} :
          /\ mint' = [mint EXCEPT ![m] = [NoMint EXCEPT !.pc = "checked", !.key = k, !.ts = ts, !.ids = {k} \union bound]]
          /\ meta' = [meta EXCEPT ![k].ts = ts, ![k].signs = TRUE]
    BY <1>2 DEF MintSigned
  <2> DEFINE r == [NoMint EXCEPT !.pc = "checked", !.key = k, !.ts = ts, !.ids = {k} \union bound]
             q == [meta[k] EXCEPT !.ts = ts, !.signs = TRUE]
  <2>2. k \in StationIds /\ meta[k] \in Rows  BY DEF StationIds
  <2>3. ts \in 0..MaxTS
    <3>1. meta[k].ts \in 0..MaxTS  BY <2>2 DEF Rows
    <3>2. meta[k].ts \in Nat  BY <3>1, ZeroTyped
    <3> QED  BY <3>2, ZeroTyped
  <2>4. {k} \union bound \in SUBSET StationIds  BY DEF StationIds
  <2>5. r \in MintRecords /\ r.pc = "checked" /\ r.key = k /\ r.ids = {k} \union bound
    BY <2>3, <2>4, NoRowsTyped DEF NoMint, MintRecords
  <2>6. q \in Rows  BY <2>2, <2>3 DEF Rows
  <2>7. mint' = [mint EXCEPT ![m] = r] /\ meta' = [meta EXCEPT ![k] = q]  BY <2>1, <2>2 DEF Rows
  <2> HIDE DEF r, q
  <2> QED  BY <1>2, <2>2, <2>5, <2>6, <2>7 DEF MintSigned
<1>3. ASSUME NEW m \in Mints, ApplyNames(m) PROVE NamesTypeOK'
  <2>1. mint' = [mint EXCEPT ![m].pc = "named"] /\ mint[m].pc = "checked"  BY <1>3 DEF ApplyNames
  <2>2. mint' \in [Mints -> MintRecords]  BY <2>1 DEF MintRecords
  <2>3. meta' \in [StationIds -> Rows] /\ unsaved' \subseteq StationIds
    <3>1. CASE UNCHANGED <<meta, unsaved, changes>>  BY <3>1
    <3>2. ASSUME NEW name \in Chosen \union {""},
                 meta' = [s \in StationIds |-> IF s \in mint[m].ids THEN [meta[s] EXCEPT !.name = name] ELSE meta[s]],
                 unsaved' = unsaved \union mint[m].ids
          PROVE  meta' \in [StationIds -> Rows] /\ unsaved' \subseteq StationIds
      <4>1. \A s \in StationIds : [meta[s] EXCEPT !.name = name] \in Rows  BY RowUpdates
      <4> QED  BY <3>2, <4>1 DEF MintRecords
    <3> QED  BY <1>3, <3>1, <3>2 DEF ApplyNames
  <2>4. mint'[m].key = mint[m].key /\ mint'[m].ids = mint[m].ids /\ mint'[m].pc = "named"  BY <2>1 DEF MintRecords
  <2> QED  BY <1>3, <2>1, <2>2, <2>3, <2>4 DEF ApplyNames
<1>4. ASSUME NEW m \in Mints, MintSnapshot(m) PROVE NamesTypeOK'
  <2> DEFINE r == [mint[m] EXCEPT !.pc = "writing", !.rows = Snapshot(mint[m].ids)]
  <2>1. Snapshot(mint[m].ids) \in Snapshots  BY SnapshotTyped DEF MintRecords
  <2>2. r \in MintRecords /\ r.pc = "writing" /\ r.key = mint[m].key /\ r.ids = mint[m].ids  BY <2>1 DEF MintRecords
  <2>3. mint' = [mint EXCEPT ![m] = r]  BY <1>4 DEF MintSnapshot, MintRecords
  <2> HIDE DEF r
  <2> QED  BY <1>4, <2>2, <2>3, NamesAssumption DEF MintSnapshot, Serialized
<1>5. ASSUME NEW m \in Mints, MintRow(m) PROVE NamesTypeOK'
  <2>1. PICK s \in DOMAIN mint[m].rows :
          \/ LandRow(mint[m].rows, s) /\ mint' = [mint EXCEPT ![m].rows = Rest(@, s)]
          \/ LoseRow(s) /\ mint' = [mint EXCEPT ![m].rows = Rest(@, s), ![m].failed = TRUE]
    BY <1>5 DEF MintRow
  <2>2. Rest(mint[m].rows, s) \in Snapshots  BY RestTyped DEF MintRecords
  <2>3. mint[m].rows \in Snapshots  BY DEF MintRecords
  <2>4. s \in StationIds /\ mint[m].rows[s] \in Rows  BY <2>3, SnapshotElim
  <2>5. PICK r \in MintRecords : /\ mint' = [mint EXCEPT ![m] = r]
                                 /\ r.pc = mint[m].pc /\ r.key = mint[m].key /\ r.ids = mint[m].ids
    BY <2>1, <2>2 DEF MintRecords
  <2> QED  BY <1>5, <2>1, <2>4, <2>5 DEF MintRow, LandRow, LoseRow
<1>6. ASSUME NEW m \in Mints, MintWritten(m) PROVE NamesTypeOK'
  <2> DEFINE r == [mint[m] EXCEPT !.pc = "saved", !.rows = NoRows]
  <2>1. r \in MintRecords /\ r.pc = "saved" /\ r.key = mint[m].key /\ r.ids = mint[m].ids  BY NoRowsTyped DEF MintRecords
  <2>2. mint' = [mint EXCEPT ![m] = r]  BY <1>6 DEF MintWritten, MintRecords
  <2> HIDE DEF r
  <2> QED  BY <1>6, <2>1, <2>2, NamesAssumption DEF MintWritten
<1>7. ASSUME NEW m \in Mints, Sign(m) PROVE NamesTypeOK'
  <2>1. tokens' \in [Keys -> SUBSET (0..MaxTS)]  BY <1>7 DEF Sign, MintRecords
  <2> QED  BY <1>7, <2>1, NoMintTyped DEF Sign
<1>8. CASE FlushIds
  BY <1>8 DEF FlushIds
<1>9. CASE FlushSnapshot
  <2>1. Snapshot(pass.ids) \in Snapshots  BY SnapshotTyped
  <2> QED  BY <1>9, <2>1, NamesAssumption DEF FlushSnapshot, Serialized
<1>10. CASE FlushRow
  <2>1. PICK s \in DOMAIN pass.rows :
          /\ LandRow(pass.rows, s) \/ LoseRow(s)
          /\ pass' = [pass EXCEPT !.rows = Rest(@, s)]
    BY <1>10 DEF FlushRow
  <2>2. Rest(pass.rows, s) \in Snapshots  BY RestTyped
  <2>3. s \in StationIds /\ pass.rows[s] \in Rows  BY SnapshotElim
  <2> QED  BY <1>10, <2>1, <2>2, <2>3 DEF FlushRow, LandRow, LoseRow
<1>11. CASE FlushWritten
  BY <1>11, NamesAssumption DEF FlushWritten
<1>12. ASSUME NEW s \in StationIds, RefreshOwn(s) PROVE NamesTypeOK'
  <2>1. PICK own \in Vessels \union {"none"} : meta' = [meta EXCEPT ![s].own = own]
    BY <1>12 DEF RefreshOwn, DecideOwn, Rows
  <2>2. [meta[s] EXCEPT !.own = own] \in Rows  BY RowUpdates
  <2> QED  BY <1>12, <2>1, <2>2 DEF RefreshOwn
<1>13. ASSUME NEW s \in StationIds, RefreshLabel(s) PROVE NamesTypeOK'
  <2>1. [meta[s] EXCEPT !.near = 1 - @] \in Rows  BY RowUpdates
  <2> QED  BY <1>13, <2>1 DEF RefreshLabel
<1>14. CASE Reattach
  <2>1. mint' \in [Mints -> MintRecords] /\ \A m \in Mints : mint'[m].pc = "idle"  BY <1>14, NoMintTyped DEF Reattach
  <2> QED  BY <1>14, <2>1, NoRowsTyped DEF Reattach
<1>15. CASE UNCHANGED namesVars
  BY <1>15 DEF namesVars
<1> QED
  BY <1>1, <1>2, <1>3, <1>4, <1>5, <1>6, <1>7, <1>8, <1>9, <1>10, <1>11, <1>12, <1>13, <1>14, <1>15 DEF NamesNext

\* Every variable of the stations' names keeps its type; a request past its
\* check writes under the write lock alone (stationNames.write).
THEOREM NamesTypeCorrect == NamesSpec => []NamesTypeOK
<1>1. NamesSpec => NamesInit /\ [][NamesNext]_namesVars  BY DEF NamesSpec
<1> QED  BY <1>1, TypeInit, TypeNext, PTL

---------------------------------------------------------------------------
(* The lock. *)

\* Covering composes, and whatever covers a row locks what it locks.
LEMMA CoversLocks ==
  ASSUME NEW a \in Rows, NEW b \in Rows, NEW c \in Rows
  PROVE  /\ Covers(a, a)
         /\ Covers(a, b) /\ Covers(b, c) => Covers(a, c)
         /\ \A ts \in 0..MaxTS : Covers(a, b) /\ Locks(b, ts) => Locks(a, ts)
<1>1. a.ts \in 0..MaxTS /\ b.ts \in 0..MaxTS /\ c.ts \in 0..MaxTS  BY DEF Rows
<1>2. a.ts \in Nat /\ b.ts \in Nat /\ c.ts \in Nat /\ \A ts \in 0..MaxTS : ts \in Nat  BY <1>1, ZeroTyped
<1> QED  BY <1>2 DEF Covers, Locks

LEMMA LockInit == NamesInit => LockInv
<1> SUFFICES ASSUME NamesInit PROVE LockInv  OBVIOUS
<1>1. \A m \in Mints : mint[m].pc = "idle"  BY NoMintTyped DEF NamesInit
<1>2. \A s \in StationIds : Covers(meta[s], table[s])
  BY NoMetaTyped, CoversLocks DEF NamesInit
<1> QED  BY <1>1, <1>2 DEF LockInv, OnItsWay, TokensAreLocked, NamesInit

\* A step under which memory and the table only grow, and which leaves a request
\* as it was or where it is on its way again.
LEMMA Grows ==
  ASSUME NamesTypeOK, LockInv, NamesTypeOK',
         \A s \in StationIds : Covers(meta'[s], meta[s]) /\ Covers(table'[s], table[s]) /\ Covers(meta'[s], table'[s]),
         \A k \in Keys : \A ts \in tokens'[k] : ts \in tokens[k] \/ Locks(table'[k], ts),
         \A m \in Mints : \/ mint'[m] = mint[m] /\ (mint[m].pc = "writing" => table' = table)
                          \/ OnItsWay(mint[m])',
         \/ pass' = pass /\ (pass.pc = "writing" => table' = table)
         \/ pass'.pc = "writing" => Between(pass.rows)'
  PROVE  LockInv'
<1> USE DEF NamesTypeOK
<1>1. ASSUME NEW rows \in Snapshots, Between(rows), table' = table
      PROVE  \A s \in DOMAIN rows : Covers(rows[s], table'[s]) /\ Covers(meta'[s], rows[s])
  BY <1>1, SnapshotElim, CoversLocks DEF Between
<1>2. ASSUME NEW m \in Mints, mint'[m] = mint[m], mint[m].pc = "writing" => table' = table
      PROVE  OnItsWay(mint[m])'
  <2>1. mint[m].rows \in Snapshots /\ mint[m].ts \in 0..MaxTS  BY DEF MintRecords
  <2>2. mint[m].pc \notin {"idle", "unsigned"} => mint[m].key \in StationIds  BY DEF StationIds
  <2>3. OnItsWay(mint[m])  BY DEF LockInv
  <2>4. mint[m].pc = "writing" => Between(mint[m].rows)'
    BY <1>1, <1>2, <2>1, <2>3 DEF Between, OnItsWay
  <2>5. mint[m].pc \in {"checked", "named"} => Locks(meta'[mint[m].key], mint[m].ts)
    BY <2>1, <2>2, <2>3, CoversLocks DEF OnItsWay
  <2>6. mint[m].pc = "saved" => mint[m].failed \/ Locks(table'[mint[m].key], mint[m].ts)
    BY <2>1, <2>2, <2>3, CoversLocks DEF OnItsWay
  <2> QED  BY <1>2, <2>3, <2>4, <2>5, <2>6 DEF OnItsWay
<1>3. pass'.pc = "writing" => Between(pass.rows)'
  BY <1>1 DEF Between, LockInv
<1>4. TokensAreLocked'
  <2> SUFFICES ASSUME NEW k \in Keys, NEW ts \in tokens'[k] PROVE Locks(table'[k], ts)
    BY DEF TokensAreLocked
  <2>1. ts \in 0..MaxTS /\ k \in StationIds  BY DEF StationIds
  <2> QED  BY <2>1, CoversLocks DEF LockInv, TokensAreLocked
<1> QED  BY <1>2, <1>3, <1>4 DEF LockInv

\* Where only memory may change, and nothing begins to be written, the rest is Grows'.
LEMMA MemoryGrows ==
  ASSUME NamesTypeOK, LockInv, NamesTypeOK',
         UNCHANGED <<table, tokens>>,
         \A s \in StationIds : Covers(meta'[s], meta[s]),
         pass'.pc = "writing" => pass' = pass,
         \A m \in Mints : mint'[m] = mint[m] \/ OnItsWay(mint[m])'
  PROVE  LockInv'
<1>1. \A s \in StationIds : Covers(table'[s], table[s]) /\ Covers(meta'[s], table'[s])
  BY CoversLocks DEF NamesTypeOK, LockInv
<1>2. pass' = pass \/ pass'.pc # "writing"  OBVIOUS
<1> QED  BY <1>1, <1>2, Grows

\* A row of a snapshot lands in the table: it covers what it replaces, and
\* memory covers it.
LEMMA RowLands ==
  ASSUME NamesTypeOK, LockInv, UNCHANGED meta,
         NEW rows \in Snapshots, Between(rows), NEW s \in DOMAIN rows,
         LandRow(rows, s) \/ LoseRow(s)
  PROVE  /\ \A x \in StationIds : Covers(meta'[x], meta[x]) /\ Covers(table'[x], table[x]) /\ Covers(meta'[x], table'[x])
         /\ \A x \in DOMAIN Rest(rows, s) : Covers(Rest(rows, s)[x], table'[x]) /\ Covers(meta'[x], Rest(rows, s)[x])
<1> USE DEF NamesTypeOK
<1>1. s \in StationIds /\ rows[s] \in Rows  BY SnapshotElim
<1>2. CASE LandRow(rows, s)
  <2>1. table' = [table EXCEPT ![s] = rows[s]]  BY <1>2 DEF LandRow
  <2>2. \A x \in StationIds : Covers(meta'[x], meta[x]) /\ Covers(table'[x], table[x]) /\ Covers(meta'[x], table'[x])
    BY <1>1, <2>1, CoversLocks DEF Between, LockInv
  <2>3. \A x \in DOMAIN Rest(rows, s) : Covers(Rest(rows, s)[x], table'[x]) /\ Covers(meta'[x], Rest(rows, s)[x])
    BY <1>1, <2>1, SnapshotElim DEF Between, Rest
  <2> QED  BY <2>2, <2>3
<1>3. CASE LoseRow(s)
  <2>1. table' = table  BY <1>3 DEF LoseRow
  <2>2. \A x \in StationIds : Covers(meta'[x], meta[x]) /\ Covers(table'[x], table[x]) /\ Covers(meta'[x], table'[x])
    BY <2>1, CoversLocks DEF LockInv
  <2>3. \A x \in DOMAIN Rest(rows, s) : Covers(Rest(rows, s)[x], table'[x]) /\ Covers(meta'[x], Rest(rows, s)[x])
    BY <2>1 DEF Between, Rest
  <2> QED  BY <2>2, <2>3
<1> QED  BY <1>2, <1>3

\* Each action keeps the lock.
LEMMA LockNext == NamesTypeOK /\ NamesTypeOK' /\ LockInv /\ [NamesNext]_namesVars => LockInv'
<1> SUFFICES ASSUME NamesTypeOK, NamesTypeOK', LockInv, [NamesNext]_namesVars PROVE LockInv'  OBVIOUS
<1> USE DEF NamesTypeOK
<1>0. \A s \in StationIds : Covers(meta[s], meta[s]) /\ Covers(table[s], table[s])  BY CoversLocks
<1>1. ASSUME NEW m \in Mints, NEW k \in Keys, MintUnsigned(m, k) PROVE LockInv'
  <2>1. mint'[m].pc = "unsigned" /\ \A x \in Mints \ {m} : mint'[x] = mint[x]  BY <1>1 DEF MintUnsigned, NoMint
  <2> QED  BY <1>0, <1>1, <2>1, MemoryGrows DEF MintUnsigned, OnItsWay
<1>2. ASSUME NEW m \in Mints, NEW k \in Keys, MintSigned(m, k) PROVE LockInv'
  <2>1. PICK ts \in meta[k].ts + 1 .. MaxTS, bound \in {{}} \union {{u} : u \in Udp} :
          /\ mint' = [mint EXCEPT ![m] = [NoMint EXCEPT !.pc = "checked", !.key = k, !.ts = ts, !.ids = {k} \union bound]]
          /\ meta' = [meta EXCEPT ![k].ts = ts, ![k].signs = TRUE]
    BY <1>2 DEF MintSigned
  <2>2. k \in StationIds /\ meta[k] \in Rows  BY DEF StationIds
  <2>3. meta[k].ts \in 0..MaxTS  BY <2>2 DEF Rows
  <2>4. meta[k].ts \in Nat /\ ts \in Nat /\ ts > meta[k].ts  BY <2>3, ZeroTyped
  <2>5. meta'[k].ts = ts /\ meta'[k].signs /\ \A s \in StationIds \ {k} : meta'[s] = meta[s]  BY <2>1, <2>2 DEF Rows
  <2>6. \A s \in StationIds : Covers(meta'[s], meta[s])  BY <1>0, <2>4, <2>5 DEF Covers
  <2>7. mint'[m].pc = "checked" /\ mint'[m].key = k /\ mint'[m].ts = ts /\ \A x \in Mints \ {m} : mint'[x] = mint[x]
    BY <2>1 DEF NoMint
  <2>8. OnItsWay(mint[m])'  BY <2>4, <2>5, <2>7 DEF OnItsWay, Locks
  <2> QED  BY <1>2, <2>6, <2>7, <2>8, MemoryGrows DEF MintSigned
<1>3. ASSUME NEW m \in Mints, ApplyNames(m) PROVE LockInv'
  <2>1. \A s \in StationIds : meta'[s].ts = meta[s].ts /\ meta'[s].signs = meta[s].signs
    <3>1. CASE UNCHANGED <<meta, unsaved, changes>>  BY <3>1
    <3>2. ASSUME NEW name \in Chosen \union {""},
                 meta' = [s \in StationIds |-> IF s \in mint[m].ids THEN [meta[s] EXCEPT !.name = name] ELSE meta[s]]
          PROVE  \A s \in StationIds : meta'[s].ts = meta[s].ts /\ meta'[s].signs = meta[s].signs
      <4>1. \A s \in StationIds : meta'[s] = meta[s] \/ meta'[s] = [meta[s] EXCEPT !.name = name]  BY <3>2
      <4>2. ASSUME NEW s \in StationIds PROVE meta'[s].ts = meta[s].ts /\ meta'[s].signs = meta[s].signs
        <5>1. meta[s] \in Rows  OBVIOUS
        <5>2. [meta[s] EXCEPT !.name = name].ts = meta[s].ts /\ [meta[s] EXCEPT !.name = name].signs = meta[s].signs
          BY <5>1, RowUpdates
        <5> QED  BY <4>1, <5>2
      <4> QED  BY <4>2
    <3> QED  BY <1>3, <3>1, <3>2 DEF ApplyNames
  <2>2. \A s \in StationIds : Covers(meta'[s], meta[s])  BY <1>0, <2>1 DEF Covers
  <2>3. /\ mint'[m].pc = "named" /\ mint'[m].key = mint[m].key /\ mint'[m].ts = mint[m].ts
        /\ \A x \in Mints \ {m} : mint'[x] = mint[x]
    BY <1>3 DEF ApplyNames, MintRecords
  <2>4. mint[m].pc = "checked" /\ mint[m].key \in StationIds  BY <1>3 DEF ApplyNames, StationIds
  <2>5. OnItsWay(mint[m])'  BY <2>1, <2>3, <2>4 DEF OnItsWay, Locks, LockInv
  <2> QED  BY <1>3, <2>2, <2>3, <2>5, MemoryGrows DEF ApplyNames
<1>4. ASSUME NEW m \in Mints, MintSnapshot(m) PROVE LockInv'
  <2>1. /\ mint'[m].pc = "writing" /\ mint'[m].rows = Snapshot(mint[m].ids)
        /\ mint'[m].key = mint[m].key /\ mint'[m].ts = mint[m].ts
        /\ \A x \in Mints \ {m} : mint'[x] = mint[x]
    BY <1>4 DEF MintSnapshot, MintRecords
  <2>2. /\ mint[m].pc = "named" /\ mint[m].key \in mint[m].ids /\ mint[m].ids \subseteq StationIds
        /\ UNCHANGED <<meta, table, tokens, pass>>
    BY <1>4 DEF MintSnapshot, MintRecords
  <2>3. OnItsWay(mint[m])'
    BY <1>0, <2>1, <2>2 DEF OnItsWay, Between, Snapshot, LockInv
  <2> QED  BY <1>0, <2>1, <2>2, <2>3, MemoryGrows
<1>5. ASSUME NEW m \in Mints, MintRow(m) PROVE LockInv'
  <2>1. PICK s \in DOMAIN mint[m].rows :
          \/ LandRow(mint[m].rows, s) /\ mint' = [mint EXCEPT ![m].rows = Rest(@, s)]
          \/ LoseRow(s) /\ mint' = [mint EXCEPT ![m].rows = Rest(@, s), ![m].failed = TRUE]
    BY <1>5 DEF MintRow
  <2> DEFINE rows == mint[m].rows
  <2>2. /\ mint[m].pc = "writing" /\ UNCHANGED <<meta, pass, tokens>> /\ rows \in Snapshots
        /\ Between(rows) /\ mint[m].key \in StationIds /\ mint[m].ts \in 0..MaxTS
    BY <1>5 DEF MintRow, MintRecords, LockInv, OnItsWay, StationIds
  <2>3. /\ \A x \in StationIds : Covers(meta'[x], meta[x]) /\ Covers(table'[x], table[x]) /\ Covers(meta'[x], table'[x])
        /\ \A x \in DOMAIN Rest(rows, s) : Covers(Rest(rows, s)[x], table'[x]) /\ Covers(meta'[x], Rest(rows, s)[x])
    <3>1. LandRow(rows, s) \/ LoseRow(s)  BY <2>1
    <3>2. s \in DOMAIN rows  BY <2>1
    <3> HIDE DEF rows
    <3> QED  BY <2>2, <3>1, <3>2, RowLands
  <2>4. wmu = m /\ pass.pc # "writing" /\ \A x \in Mints \ {m} : mint[x].pc # "writing"
    BY <2>2, NamesAssumption
  <2>5. /\ mint'[m].pc = "writing" /\ mint'[m].rows = Rest(rows, s)
        /\ mint'[m].key = mint[m].key /\ mint'[m].ts = mint[m].ts
        /\ \/ LandRow(rows, s) /\ mint'[m].failed = mint[m].failed
           \/ LoseRow(s) /\ mint'[m].failed
        /\ \A x \in Mints \ {m} : mint'[x] = mint[x]
    BY <2>1, <2>2 DEF MintRecords
  <2>6. /\ mint[m].key \in DOMAIN rows => Locks(rows[mint[m].key], mint[m].ts)
        /\ mint[m].key \notin DOMAIN rows => mint[m].failed \/ Locks(table[mint[m].key], mint[m].ts)
    BY <2>2 DEF LockInv, OnItsWay
  <2>7. mint[m].key \in DOMAIN rows \ {s} => Locks(Rest(rows, s)[mint[m].key], mint[m].ts)
    BY <2>6 DEF Rest
  <2>8. mint[m].key \notin DOMAIN rows \ {s} => mint'[m].failed \/ Locks(table'[mint[m].key], mint[m].ts)
    <3>1. CASE LandRow(rows, s) /\ mint'[m].failed = mint[m].failed
      <4>1. table'[s] = rows[s] /\ \A x \in StationIds \ {s} : table'[x] = table[x]
        BY <2>2, <3>1, SnapshotElim DEF LandRow
      <4> QED  BY <2>2, <2>6, <3>1, <4>1
    <3> QED  BY <2>5, <3>1
  <2>9. OnItsWay(mint[m])'
    <3>1. DOMAIN Rest(rows, s) = DOMAIN rows \ {s}  BY DEF Rest
    <3> QED  BY <2>3, <2>5, <2>7, <2>8, <3>1 DEF OnItsWay, Between
  <2> QED  BY <2>2, <2>3, <2>4, <2>5, <2>9, Grows
<1>6. ASSUME NEW m \in Mints, MintWritten(m) PROVE LockInv'
  <2>1. /\ mint'[m].pc = "saved" /\ mint'[m].key = mint[m].key /\ mint'[m].ts = mint[m].ts
        /\ mint'[m].failed = mint[m].failed /\ \A x \in Mints \ {m} : mint'[x] = mint[x]
    BY <1>6 DEF MintWritten, MintRecords
  <2>2. /\ mint[m].pc = "writing" /\ mint[m].key \notin DOMAIN mint[m].rows /\ UNCHANGED <<meta, table, tokens, pass>>
    BY <1>6 DEF MintWritten, NoRows
  <2>3. OnItsWay(mint[m])'  BY <2>1, <2>2 DEF OnItsWay, LockInv
  <2> QED  BY <1>0, <2>1, <2>2, <2>3, MemoryGrows
<1>7. ASSUME NEW m \in Mints, Sign(m) PROVE LockInv'
  <2>1. mint'[m].pc = "idle" /\ \A x \in Mints \ {m} : mint'[x] = mint[x]  BY <1>7, NoMintTyped DEF Sign
  <2>2. UNCHANGED <<meta, table, pass>>  BY <1>7 DEF Sign
  <2>3. \A k \in Keys : \A ts \in tokens'[k] : ts \in tokens[k] \/ Locks(table'[k], ts)
    <3>1. CASE mint[m].pc = "saved" /\ ~mint[m].failed
      <4>1. mint[m].key \in Keys /\ Locks(table[mint[m].key], mint[m].ts)  BY <3>1 DEF LockInv, OnItsWay
      <4>2. tokens' = [tokens EXCEPT ![mint[m].key] = @ \union {mint[m].ts}]  BY <1>7, <3>1 DEF Sign
      <4> QED  BY <2>2, <4>1, <4>2
    <3>2. CASE ~(mint[m].pc = "saved" /\ ~mint[m].failed)
      <4>1. tokens' = tokens  BY <1>7, <3>2 DEF Sign
      <4> QED  BY <4>1
    <3> QED  BY <3>1, <3>2
  <2>4. OnItsWay(mint[m])'  BY <2>1 DEF OnItsWay
  <2>5. \A s \in StationIds : Covers(meta'[s], meta[s]) /\ Covers(table'[s], table[s]) /\ Covers(meta'[s], table'[s])
    BY <1>0, <2>2 DEF LockInv
  <2> QED  BY <2>1, <2>2, <2>3, <2>4, <2>5, Grows
<1>8. CASE FlushIds
  <2>1. pass'.pc # "writing" /\ UNCHANGED <<meta, table, tokens, mint>>  BY <1>8 DEF FlushIds
  <2> QED  BY <1>0, <2>1, MemoryGrows
<1>9. CASE FlushSnapshot
  <2>1. UNCHANGED <<meta, table, tokens, mint>> /\ pass'.rows = Snapshot(pass.ids) /\ pass.ids \subseteq StationIds
    BY <1>9 DEF FlushSnapshot
  <2>2. Between(pass.rows)'  BY <1>0, <2>1 DEF Between, Snapshot, LockInv
  <2>3. \A s \in StationIds : Covers(meta'[s], meta[s]) /\ Covers(table'[s], table[s]) /\ Covers(meta'[s], table'[s])
    BY <1>0, <2>1 DEF LockInv
  <2> QED  BY <2>1, <2>2, <2>3, Grows
<1>10. CASE FlushRow
  <2>1. PICK s \in DOMAIN pass.rows :
          /\ LandRow(pass.rows, s) \/ LoseRow(s)
          /\ pass' = [pass EXCEPT !.rows = Rest(@, s)]
    BY <1>10 DEF FlushRow
  <2>2. pass.pc = "writing" /\ UNCHANGED <<meta, mint, tokens>> /\ pass.rows \in Snapshots /\ Between(pass.rows)
    BY <1>10 DEF FlushRow, LockInv
  <2>3. /\ \A x \in StationIds : Covers(meta'[x], meta[x]) /\ Covers(table'[x], table[x]) /\ Covers(meta'[x], table'[x])
        /\ \A x \in DOMAIN Rest(pass.rows, s) : /\ Covers(Rest(pass.rows, s)[x], table'[x])
                                               /\ Covers(meta'[x], Rest(pass.rows, s)[x])
    BY <2>1, <2>2, RowLands
  <2>4. wmu = "pass" /\ \A m \in Mints : mint[m].pc # "writing"  BY <2>2, NamesAssumption
  <2>5. pass'.rows = Rest(pass.rows, s)  BY <2>1
  <2>6. Between(pass.rows)'  BY <2>3, <2>5 DEF Between
  <2> QED  BY <2>2, <2>3, <2>4, <2>6, Grows
<1>11. CASE FlushWritten
  <2>1. pass'.pc # "writing" /\ UNCHANGED <<meta, table, tokens, mint>>  BY <1>11 DEF FlushWritten
  <2> QED  BY <1>0, <2>1, MemoryGrows
<1>12. ASSUME NEW s \in StationIds, RefreshOwn(s) PROVE LockInv'
  <2>1. PICK own : meta' = [meta EXCEPT ![s].own = own]  BY <1>12 DEF RefreshOwn
  <2>2. \A x \in StationIds : meta'[x] = meta[x] \/ meta'[x] = [meta[x] EXCEPT !.own = own]  BY <2>1
  <2>3. ASSUME NEW x \in StationIds PROVE meta'[x].ts = meta[x].ts /\ meta'[x].signs = meta[x].signs
    <3>1. meta[x] \in Rows  OBVIOUS
    <3>2. [meta[x] EXCEPT !.own = own].ts = meta[x].ts /\ [meta[x] EXCEPT !.own = own].signs = meta[x].signs
      BY <3>1, RowUpdates
    <3> QED  BY <2>2, <3>2
  <2>4. \A x \in StationIds : Covers(meta'[x], meta[x])  BY <1>0, <2>3 DEF Covers
  <2> QED  BY <1>12, <2>4, MemoryGrows DEF RefreshOwn
<1>13. ASSUME NEW s \in StationIds, RefreshLabel(s) PROVE LockInv'
  <2>1. \A x \in StationIds : Covers(meta'[x], meta[x])  BY <1>0, <1>13 DEF RefreshLabel, Covers, Rows
  <2> QED  BY <1>13, <2>1, MemoryGrows DEF RefreshLabel
<1>14. CASE Reattach
  <2>1. /\ meta' = table /\ table' = table /\ tokens' = tokens /\ pass'.pc = "idle"
        /\ \A m \in Mints : mint'[m].pc = "idle"
    BY <1>14, NoMintTyped DEF Reattach
  <2> QED  BY <1>0, <2>1 DEF LockInv, OnItsWay, TokensAreLocked
<1>15. CASE UNCHANGED namesVars
  <2>1. UNCHANGED <<meta, table, tokens, mint, pass>>  BY <1>15 DEF namesVars
  <2> QED  BY <1>0, <2>1, MemoryGrows
<1> QED
  BY <1>1, <1>2, <1>3, <1>4, <1>5, <1>6, <1>7, <1>8, <1>9, <1>10, <1>11, <1>12, <1>13, <1>14, <1>15 DEF NamesNext

\* Whatever a token was given for is in the table with its lock, across crashes
\* and failed writes (stationNames.write before the token in mintPersonal).
THEOREM TokensLocked == NamesSpec => []LockInv
<1>1. NamesSpec => NamesInit /\ [][NamesNext]_namesVars  BY DEF NamesSpec
<1> QED  BY <1>1, NamesTypeCorrect, LockInit, LockNext, PTL

\* Once a signed request for a key got a token, no later one passes unsigned or
\* with an old timestamp: memory covers the table, which covers the token.
THEOREM LockHolds == NamesSpec => SignedStaysSigned
<1> DEFINE A == \A m \in Mints : mint[m].pc = "idle" =>
                  /\ mint'[m].pc = "unsigned" => tokens[mint'[m].key] = {}
                  /\ mint'[m].pc = "checked" => \A ts \in tokens[mint'[m].key] : mint'[m].ts > ts
<1>1. NamesTypeOK /\ LockInv /\ [NamesNext]_namesVars => [A]_namesVars
  <2> SUFFICES ASSUME NamesTypeOK, LockInv, NamesNext, NEW m \in Mints, mint[m].pc = "idle"
               PROVE  /\ mint'[m].pc = "unsigned" => tokens[mint'[m].key] = {}
                      /\ mint'[m].pc = "checked" => \A ts \in tokens[mint'[m].key] : mint'[m].ts > ts
    OBVIOUS
  <2> USE DEF NamesTypeOK
  <2>1. \A k \in Keys : /\ k \in StationIds /\ meta[k] \in Rows /\ table[k] \in Rows /\ Covers(meta[k], table[k])
                        /\ \A ts \in tokens[k] : ts \in 0..MaxTS /\ Locks(table[k], ts)
    BY DEF StationIds, LockInv, TokensAreLocked
  <2>2. \A k \in Keys : \A ts \in tokens[k] : Locks(meta[k], ts)
    BY <2>1, CoversLocks
  <2>3. ASSUME NEW k \in Keys, MintUnsigned(m, k)
        PROVE  mint'[m].pc = "unsigned" /\ tokens[mint'[m].key] = {}
    <3>1. mint'[m].pc = "unsigned" /\ mint'[m].key = k /\ ~meta[k].signs  BY <2>3 DEF MintUnsigned, NoMint
    <3> QED  BY <2>2, <3>1 DEF Locks
  <2>4. ASSUME NEW k \in Keys, MintSigned(m, k)
        PROVE  mint'[m].pc = "checked" /\ \A ts \in tokens[mint'[m].key] : mint'[m].ts > ts
    <3>1. PICK ts \in meta[k].ts + 1 .. MaxTS, bound \in {{}} \union {{u} : u \in Udp} :
            mint' = [mint EXCEPT ![m] = [NoMint EXCEPT !.pc = "checked", !.key = k, !.ts = ts, !.ids = {k} \union bound]]
      BY <2>4 DEF MintSigned
    <3>2. mint'[m].pc = "checked" /\ mint'[m].key = k /\ mint'[m].ts = ts  BY <3>1 DEF NoMint
    <3>3. meta[k].ts \in 0..MaxTS  BY <2>1 DEF Rows
    <3>4. meta[k].ts \in Nat /\ ts \in Int /\ ts > meta[k].ts /\ \A t \in 0..MaxTS : t \in Nat  BY <3>3, ZeroTyped
    <3> QED  BY <2>1, <2>2, <3>2, <3>4 DEF Locks
  <2>5. ASSUME mint'[m].pc \in {"unsigned", "checked"}
        PROVE  \E k \in Keys : MintUnsigned(m, k) \/ MintSigned(m, k)
    <3>1. ASSUME NEW x \in Mints, ApplyNames(x) \/ MintSnapshot(x) \/ MintRow(x) \/ MintWritten(x) \/ Sign(x)
          PROVE  FALSE
      <4>1. x # m => mint'[m] = mint[m]
        BY <3>1 DEF ApplyNames, MintSnapshot, MintRow, MintWritten, Sign
      <4>2. x = m => mint'[m].pc = "idle"
        BY <3>1 DEF ApplyNames, MintSnapshot, MintRow, MintWritten, Sign
      <4> QED  BY <2>5, <4>1, <4>2
    <3>2. ASSUME NEW x \in Mints, NEW k \in Keys, MintUnsigned(x, k) \/ MintSigned(x, k) PROVE x = m
      BY <2>5, <3>2 DEF MintUnsigned, MintSigned
    <3>3. ~(FlushIds \/ FlushSnapshot \/ FlushRow \/ FlushWritten \/ \E s \in StationIds : RefreshOwn(s) \/ RefreshLabel(s))
      BY <2>5 DEF FlushIds, FlushSnapshot, FlushRow, FlushWritten, RefreshOwn, RefreshLabel
    <3>4. ~Reattach  BY <2>5, NoMintTyped DEF Reattach
    <3> QED  BY <3>1, <3>2, <3>3, <3>4 DEF NamesNext
  <2> QED  BY <2>3, <2>4, <2>5
<1>2. NamesSpec => [][NamesNext]_namesVars  BY DEF NamesSpec
<1> QED  BY <1>1, <1>2, NamesTypeCorrect, TokensLocked, PTL DEF SignedStaysSigned

-----------------------------------------------------------------------------
(* The rings of usage (stats.go, stations.go).                              *)

LEMMA EarlierAndLater ==
    ASSUME NEW a \in Nat, NEW b \in Nat
    PROVE  Min({a, b}) = (IF a <= b THEN a ELSE b) /\ Max({a, b}) = (IF a >= b THEN a ELSE b)
<1>1. PICK s \in {a, b} : \A y \in {a, b} : s <= y  OBVIOUS
<1>2. Min({a, b}) \in {a, b} /\ \A y \in {a, b} : Min({a, b}) <= y  BY <1>1 DEF Min
<1>3. PICK l \in {a, b} : \A y \in {a, b} : l >= y  OBVIOUS
<1>4. Max({a, b}) \in {a, b} /\ \A y \in {a, b} : Max({a, b}) >= y  BY <1>3 DEF Max
<1> QED  BY <1>2, <1>4

LEMMA Divided ==
    ASSUME NEW a \in Nat, NEW n \in Nat \ {0}
    PROVE  a % n \in 0..n-1 /\ \E q \in Nat : a = n * q + (a % n)
<1>1. a % n \in 0..n-1  OBVIOUS
<1>2. a = n * (a \div n) + (a % n)  OBVIOUS
<1>3. a \div n \in Int  OBVIOUS
<1>4. a \div n \in Nat
  <2> SUFFICES ASSUME a \div n <= -1 PROVE FALSE  BY <1>3
  <2>1. n * (a \div n) <= -n  BY <1>3
  <2> QED  BY <1>1, <1>2, <2>1
<1> QED  BY <1>1, <1>2, <1>4

\* Two hours within one turn of a ring have slots of their own.
LEMMA SlotsApart ==
    ASSUME NEW a \in Nat, NEW b \in Nat, NEW n \in Nat \ {0}, a < b, b < a + n
    PROVE  a % n # b % n
<1> SUFFICES ASSUME a % n = b % n PROVE FALSE  OBVIOUS
<1>1. PICK m \in 0..n-1 : m = a % n  BY Divided
<1>2. PICK p \in Nat : a = n * p + m  BY <1>1, Divided
<1>3. PICK q \in Nat : b = n * q + m  BY <1>1, Divided
<1>4. n * (q - p) = b - a  BY <1>2, <1>3
<1>5. CASE q - p <= 0
  <2>1. n * (q - p) <= 0  BY <1>5
  <2> QED  BY <1>4, <2>1
<1>6. CASE q - p >= 1
  <2>1. n * (q - p) >= n  BY <1>6
  <2> QED  BY <1>4, <2>1
<1> QED  BY <1>5, <1>6

\* A whole turn passes every slot.
LEMMA SlotsPassed ==
    ASSUME NEW a \in Nat, NEW h \in Nat, NEW n \in Nat \ {0}, h > a
    PROVE  \E j \in a + 1 .. a + n : j % n = h % n
<1>1. PICK k \in Nat : k = h - (a + 1)  OBVIOUS
<1>2. PICK m \in 0..n-1 : m = k % n  BY <1>1, Divided
<1>3. PICK q \in Nat : k = n * q + m  BY <1>2, Divided
<1>4. PICK j \in Nat : j = a + 1 + m  OBVIOUS
<1>5. h = n * q + j  BY <1>1, <1>3, <1>4
<1>6. PICK l \in 0..n-1 : l = j % n  BY <1>4, Divided
<1>7. PICK p \in Nat : j = n * p + l  BY <1>4, <1>6, Divided
<1>8. h = n * (q + p) + l  BY <1>5, <1>7
<1>9. PICK w \in 0..n-1 : w = h % n  BY Divided
<1>10. PICK z \in Nat : h = n * z + w  BY <1>9, Divided
<1>11. n * (z - (q + p)) = l - w  BY <1>8, <1>10
<1>12. l = w
  <2>1. CASE z - (q + p) >= 1
    <3>1. n * (z - (q + p)) >= n  BY <2>1
    <3> QED  BY <1>11, <3>1
  <2>2. CASE z - (q + p) <= -1
    <3>1. n * (z - (q + p)) <= -n  BY <2>2
    <3> QED  BY <1>11, <3>1
  <2>3. CASE z - (q + p) = 0
    <3>1. n * (z - (q + p)) = 0  BY <2>3
    <3> QED  BY <1>11, <3>1
  <2> QED  BY <2>1, <2>2, <2>3
<1>13. j \in a + 1 .. a + n  BY <1>2, <1>4
<1>14. j % n = h % n  BY <1>6, <1>9, <1>12
<1> QED  BY <1>13, <1>14

RingTyped(r) == r.at \in 0 .. hour + 1 /\ r.b \in [Slots -> Nat]

\* Over the hours a ring holds, which end with its newest when that one is ahead
\* of the clock, its slots have the counts; its newest hour has an event, and
\* nothing is counted of a later one.
RingCounts(r, perHour) ==
  /\ perHour \in [ClockHours -> Nat]
  /\ \A h \in hour - RingHours + 1 .. LastHour + 1 :
       h > r.at - RingHours => perHour[h] = IF h <= r.at THEN r.b[h % RingHours] ELSE 0
  /\ r.at # 0 => perHour[r.at] > 0

RingHolds(r, perHour) == RingTyped(r) /\ RingCounts(r, perHour)

FileRing(saved, s) == IF s \in DOMAIN saved.rings THEN saved.rings[s] ELSE NoRing
FileHolds(saved) == \A s \in Sensors : RingHolds(FileRing(saved, s), saved.truth[s])

\* What is live or restored, what the file holds, and what is on its way there.
RingsInv ==
  /\ hour \in RingHours + 1 .. LastHour
  /\ DOMAIN truth = Sensors
  /\ \A s \in Sensors : RingHolds(RingOf(s), truth[s])
  /\ FileHolds(usage) /\ DOMAIN usage.truth = Sensors
  /\ saver.pc = "write" => FileHolds(saver.shot) /\ DOMAIN saver.shot.truth = Sensors

LEMMA HoursTyped ==
  /\ RingHours \in Nat \ {0} /\ LastHour \in Nat /\ LastHour > RingHours
  /\ Slots = 0 .. RingHours - 1 /\ ClockHours = 0 .. LastHour + 1
  BY RingsAssumption DEF Slots, ClockHours

LEMMA EmptyRing ==
    ASSUME hour \in RingHours + 1 .. LastHour, NEW perHour \in [ClockHours -> Nat],
           \A h \in hour - RingHours + 1 .. LastHour + 1 : perHour[h] = 0
    PROVE  RingHolds(NoRing, perHour)
<1>1. NoRing.at = 0 /\ NoRing.b \in [Slots -> Nat]  BY DEF NoRing
<1>2. RingTyped(NoRing)  BY <1>1, HoursTyped DEF RingTyped
<1>3. RingCounts(NoRing, perHour)
  <2> SUFFICES ASSUME NEW h \in hour - RingHours + 1 .. LastHour + 1
               PROVE  perHour[h] = IF h <= NoRing.at THEN NoRing.b[h % RingHours] ELSE 0
    BY <1>1 DEF RingCounts
  <2>1. h > 0  BY HoursTyped
  <2> QED  BY <1>1, <2>1
<1> QED  BY <1>2, <1>3 DEF RingHolds

\* What the event's hour adds: the slots since the newest hour start from
\* nothing, the others keep their hour's count.
LEMMA AddedHolds ==
    ASSUME hour \in RingHours + 1 .. LastHour, NEW r, NEW perHour, RingHolds(r, perHour),
           NEW e \in Stamped
    PROVE  RingHolds(Added(r, e), [perHour EXCEPT ![e] = @ + 1])
<1>1. PICK n \in Nat \ {0} : n = RingHours  BY HoursTyped
<1>2. PICK now0 \in Nat : now0 = hour /\ now0 > n /\ now0 <= LastHour  BY <1>1, HoursTyped
<1>3. e \in Nat /\ e <= now0 + 1 /\ e \in ClockHours  BY <1>1, <1>2, HoursTyped DEF Stamped
<1>4. PICK old \in Nat : old = r.at /\ old <= now0 + 1  BY <1>2 DEF RingHolds, RingTyped
<1>5. Slots = 0..n-1 /\ r.b \in [0..n-1 -> Nat]  BY <1>1, HoursTyped DEF RingHolds, RingTyped
<1>6. PICK end \in Nat : end = Min({e, old + n}) /\ end = IF e <= old + n THEN e ELSE old + n
  BY <1>3, EarlierAndLater
<1>7. PICK at \in Nat : at = Max({old, e}) /\ at = IF old >= e THEN old ELSE e
  BY <1>3, EarlierAndLater
<1>8. PICK since : since = {j % n : j \in old + 1 .. end}  OBVIOUS
<1>9. PICK rest : rest = [i \in 0..n-1 |-> IF i \in since THEN 0 ELSE r.b[i]]  OBVIOUS
<1>10. PICK a : a = Added(r, e)  OBVIOUS
<1>11. a = [at |-> at, b |-> IF at - e < n THEN [rest EXCEPT ![e % n] = @ + 1] ELSE rest]
  <2>1. since = {j % RingHours : j \in r.at + 1 .. Min({e, r.at + RingHours})}  BY <1>1, <1>4, <1>6, <1>8
  <2>2. rest = [i \in Slots |-> IF i \in since THEN 0 ELSE r.b[i]]  BY <1>5, <1>9
  <2>3. at = Max({r.at, e})  BY <1>4, <1>7
  <2> QED  BY <1>1, <1>10, <2>1, <2>2, <2>3 DEF Added
<1>12. a.at = at /\ at <= now0 + 1  BY <1>3, <1>4, <1>7, <1>11
<1>13. \A h \in Nat : h % n \in 0..n-1  BY Divided
<1>14. rest \in [0..n-1 -> Nat]  BY <1>5, <1>9
<1>15. a.b \in [0..n-1 -> Nat] /\ \A i \in 0..n-1 : a.b[i] = IF at - e < n /\ i = e % n THEN rest[i] + 1 ELSE rest[i]
  <2>1. CASE at - e < n
    <3>1. a.b = [rest EXCEPT ![e % n] = @ + 1]  BY <1>11, <2>1
    <3>2. e % n \in 0..n-1  BY <1>3, <1>13
    <3> QED  BY <1>14, <2>1, <3>1, <3>2
  <2>2. CASE ~(at - e < n)
    <3>1. a.b = rest  BY <1>11, <2>2
    <3> QED  BY <1>14, <2>2, <3>1
  <2> QED  BY <2>1, <2>2
<1>16. perHour \in [ClockHours -> Nat]  BY DEF RingHolds, RingCounts
<1>17. PICK more : more = [perHour EXCEPT ![e] = @ + 1]  OBVIOUS
<1>18. more \in [ClockHours -> Nat] /\ \A h \in ClockHours : more[h] = IF h = e THEN perHour[h] + 1 ELSE perHour[h]
  BY <1>3, <1>16, <1>17
<1>19. ASSUME NEW h \in Nat, h > now0 - n, h <= LastHour + 1, h > at - n
       PROVE  more[h] = IF h <= at THEN a.b[h % n] ELSE 0
  <2>1. perHour[h] = IF h <= old THEN r.b[h % n] ELSE 0
    <3>1. h \in hour - RingHours + 1 .. LastHour + 1  BY <1>1, <1>2, <1>19
    <3>2. h > r.at - RingHours
      <4>1. at \in Nat /\ old <= at  BY <1>3, <1>4, <1>7
      <4> QED  BY <1>1, <1>4, <1>19, <4>1
    <3> QED  BY <1>1, <1>4, <3>1, <3>2 DEF RingHolds, RingCounts
  <2>2. more[h] = IF h = e THEN perHour[h] + 1 ELSE perHour[h]  BY <1>18, <1>19, HoursTyped
  <2>3. CASE h > at
    <3>1. at >= old /\ at >= e /\ at \in Nat /\ old \in Nat /\ e \in Nat  BY <1>3, <1>4, <1>7
    <3>2. h > old /\ h # e  BY <2>3, <3>1, <1>19
    <3>3. ~(h <= at) /\ ~(h <= old)  BY <2>3, <3>1, <3>2, <1>19
    <3> QED  BY <2>1, <2>2, <3>2, <3>3
  <2>4. CASE h <= at
    <3>1. h % n \in 0..n-1  BY <1>13
    <3>2. rest[h % n] = perHour[h]
      <4>1. CASE h <= old
        <5>1. h % n \notin since
          <6> SUFFICES ASSUME NEW j \in old + 1 .. end, j % n = h % n PROVE FALSE  BY <1>8
          <6>1. j \in Nat /\ h < j /\ j <= e
            <7>1. end \in Nat /\ old \in Nat /\ e \in Nat  BY <1>3, <1>4, <1>6
            <7>2. end <= e
              <8>1. end = IF e <= old + n THEN e ELSE old + n  BY <1>6
              <8> QED  BY <7>1, <8>1
            <7>3. j \in Int /\ old + 1 <= j /\ j <= end  BY <7>1
            <7> QED  BY <4>1, <7>1, <7>2, <7>3
          <6>2. j < h + n
            <7>1. at = IF old >= e THEN old ELSE e  BY <1>7
            <7>2. e <= at /\ at \in Nat /\ e \in Nat  BY <1>3, <7>1
            <7> QED  BY <1>19, <6>1, <7>2
          <6> QED  BY <6>1, <6>2, SlotsApart
        <5>2. rest[h % n] = r.b[h % n]  BY <1>9, <3>1, <5>1
        <5> QED  BY <2>1, <4>1, <5>2
      <4>2. CASE h > old
        <5>1. h <= e  BY <1>7, <2>4, <4>2
        <5>2. h % n \in since
          <6>1. CASE e <= old + n
            <7>1. h \in old + 1 .. end  BY <1>6, <4>2, <5>1, <6>1
            <7> QED  BY <1>8, <7>1
          <6>2. CASE e > old + n
            <7>1. PICK j \in old + 1 .. old + n : j % n = h % n  BY <4>2, SlotsPassed
            <7>2. end = old + n  BY <1>3, <1>6, <6>2
            <7> QED  BY <1>8, <7>1, <7>2
          <6> QED  BY <1>3, <6>1, <6>2
        <5>3. rest[h % n] = 0  BY <1>9, <3>1, <5>2
        <5>4. ~(h <= old)  BY <4>2
        <5> QED  BY <2>1, <5>3, <5>4
      <4> QED  BY <4>1, <4>2
    <3>3. h # e /\ at - e < n => h % n # e % n
      <4> SUFFICES ASSUME h # e, at - e < n PROVE h % n # e % n  OBVIOUS
      <4>1. CASE h < e
        <5>1. at \in Nat /\ e \in Nat /\ old \in Nat /\ e <= at  BY <1>3, <1>4, <1>7
        <5>2. e < h + n  BY <1>19, <5>1
        <5> QED  BY <1>3, <4>1, <5>2, SlotsApart
      <4>2. CASE e < h
        <5>1. h < e + n  BY <1>3, <2>4
        <5>2. e % n # h % n  BY <1>3, <4>2, <5>1, SlotsApart
        <5> QED  BY <5>2
      <4> QED  BY <1>3, <4>1, <4>2
    <3>4. h = e => at - e < n
      <4>1. at \in Nat /\ e \in Nat /\ n \in Nat /\ h > at - n  BY <1>3, <1>7, <1>19
      <4> QED  BY <4>1
    <3>5. a.b[h % n] = IF at - e < n /\ h % n = e % n THEN rest[h % n] + 1 ELSE rest[h % n]  BY <1>15, <3>1
    <3>6. CASE h = e  BY <2>2, <2>4, <3>2, <3>4, <3>5, <3>6
    <3>7. CASE h # e  BY <2>2, <2>4, <3>2, <3>3, <3>5, <3>7
    <3> QED  BY <3>6, <3>7
  <2> QED  BY <2>3, <2>4
<1>20. RingTyped(a)  BY <1>2, <1>5, <1>12, <1>15 DEF RingTyped
<1>21. RingCounts(a, more)
  <2>1. ASSUME NEW h \in hour - RingHours + 1 .. LastHour + 1, h > a.at - RingHours
        PROVE  more[h] = IF h <= a.at THEN a.b[h % RingHours] ELSE 0
    <3>1. h \in Nat /\ h > now0 - n /\ h <= LastHour + 1  BY <1>1, <1>2, HoursTyped
    <3> QED  BY <1>1, <1>12, <1>19, <2>1, <3>1
  <2>2. a.at # 0 => more[a.at] > 0
    <3>1. CASE e >= old
      <4>1. at = e  BY <1>3, <1>4, <1>7, <3>1
      <4> QED  BY <1>3, <1>12, <1>16, <1>18, <4>1
    <3>2. CASE ~(e >= old)
      <4>1. at = old /\ at # e /\ old # 0  BY <1>3, <1>4, <1>7, <3>2
      <4>2. perHour[old] > 0  BY <1>4, <4>1 DEF RingHolds, RingCounts
      <4>3. old \in ClockHours  BY <1>2, <1>4, HoursTyped
      <4> QED  BY <1>12, <1>18, <4>1, <4>2, <4>3
    <3> QED  BY <3>1, <3>2
  <2> QED  BY <1>18, <2>1, <2>2 DEF RingCounts
<1> QED  BY <1>10, <1>17, <1>20, <1>21 DEF RingHolds

HoursCount(perHour, n) == MapThenSumSet(LAMBDA h : perHour[h], hour - n + 1 .. hour)

\* A ring's sum is that of the counts its slots have.
LEMMA SumOfRing ==
    ASSUME NEW r, NEW perHour, NEW n,
           \A h \in hour - n + 1 .. hour :
             perHour[h] = IF h <= r.at /\ r.at - h < RingHours THEN r.b[h % RingHours] ELSE 0
    PROVE  Summed(r, n) = HoursCount(perHour, n)
<1>1. PICK W : W = hour - n + 1 .. hour  OBVIOUS
<1> DEFINE Slot(h) == IF h <= r.at /\ r.at - h < RingHours THEN r.b[h % RingHours] ELSE 0
           F(T, it) == IF T = {} THEN 0 ELSE LET h == CHOOSE y \in T : TRUE IN Slot(h) + it[T \ {h}]
           G(T, it) == IF T = {} THEN 0 ELSE LET h == CHOOSE y \in T : TRUE IN perHour[h] + it[T \ {h}]
           IsF(it) == it = [T \in SUBSET W |-> F(T, it)]
           IsG(it) == it = [T \in SUBSET W |-> G(T, it)]
<1>2. ASSUME NEW T \in SUBSET W, NEW it PROVE F(T, it) = G(T, it)
  <2>1. CASE T = {}  BY <2>1
  <2>2. CASE T # {}
    <3>1. PICK h : h = CHOOSE y \in T : TRUE  OBVIOUS
    <3>2. h \in W  BY <2>2, <3>1
    <3>3. Slot(h) = perHour[h]  BY <1>1, <3>2
    <3> HIDE DEF Slot
    <3> QED  BY <2>2, <3>1, <3>3
  <2> QED  BY <2>1, <2>2
<1>3. \A it : IsF(it) <=> IsG(it)
  <2> HIDE DEF F, G
  <2> QED  BY <1>2
<1>4. Summed(r, n) = (CHOOSE it : IsF(it))[W]  BY <1>1 DEF Summed, MapThenSumSet, MapThenFoldSet
<1>5. HoursCount(perHour, n) = (CHOOSE it : IsG(it))[W]  BY <1>1 DEF HoursCount, MapThenSumSet, MapThenFoldSet
<1>6. (CHOOSE it : IsF(it)) = (CHOOSE it : IsG(it))
  <2> HIDE DEF IsF, IsG
  <2> QED  BY <1>3
<1> QED  BY <1>1, <1>4, <1>5, <1>6

LEMMA ShotHolds ==
    ASSUME RingsInv
    PROVE  FileHolds(Shot) /\ DOMAIN Shot.truth = Sensors
<1>1. DOMAIN Shot.truth = Sensors  BY DEF RingsInv, Shot
<1>2. ASSUME NEW s \in Sensors PROVE RingHolds(FileRing(Shot, s), Shot.truth[s])
  <2>1. RingHolds(RingOf(s), truth[s])  BY DEF RingsInv
  <2>2. Shot.truth[s] = truth[s]  BY DEF Shot
  <2>3. PICK r : r = RingOf(s)  OBVIOUS
  <2>4. PICK perHour : perHour = truth[s]  OBVIOUS
  <2>5. FileRing(Shot, s) = IF s \in Saved /\ ~Stale(r) THEN r ELSE NoRing  BY <2>3 DEF FileRing, Shot
  <2>6. CASE s \in Saved /\ ~Stale(r)  BY <2>1, <2>2, <2>3, <2>5, <2>6
  <2>7. CASE s \notin Saved
    <3>1. r = NoRing  BY <2>3, <2>7 DEF RingOf, Saved
    <3> QED  BY <2>1, <2>2, <2>3, <2>5, <3>1
  <2>8. CASE Stale(r)
    <3>1. r.at \in 0 .. hour + 1 /\ hour - r.at >= RingHours /\ hour \in RingHours + 1 .. LastHour
      BY <2>1, <2>3, <2>8 DEF RingsInv, RingHolds, RingTyped, Stale
    <3>2. perHour \in [ClockHours -> Nat]  BY <2>1, <2>3, <2>4 DEF RingHolds, RingCounts
    <3>3. ASSUME NEW h \in hour - RingHours + 1 .. LastHour + 1 PROVE perHour[h] = 0
      <4>1. ~(h <= r.at) /\ h > r.at - RingHours  BY <3>1, HoursTyped
      <4> QED  BY <2>1, <2>3, <2>4, <4>1 DEF RingHolds, RingCounts
    <3>4. RingHolds(NoRing, perHour)  BY <3>1, <3>2, <3>3, EmptyRing
    <3> QED  BY <2>2, <2>4, <2>5, <2>8, <3>4
  <2> QED  BY <2>6, <2>7, <2>8
<1> QED  BY <1>1, <1>2 DEF FileHolds

LEMMA NothingUsed ==
    ASSUME hour \in RingHours + 1 .. LastHour
    PROVE  FileHolds(NoUsage) /\ DOMAIN NoUsage.truth = Sensors
           /\ \A s \in Sensors : RingHolds(NoRing, NoUsage.truth[s])
<1>1. DOMAIN NoUsage.truth = Sensors /\ \A s : FileRing(NoUsage, s) = NoRing  BY DEF NoUsage, NoRings, FileRing
<1>2. ASSUME NEW s \in Sensors PROVE RingHolds(NoRing, NoUsage.truth[s])
  <2>1. PICK perHour : perHour = NoUsage.truth[s]  OBVIOUS
  <2>2. perHour = [h \in ClockHours |-> 0]  BY <2>1 DEF NoUsage
  <2>3. perHour \in [ClockHours -> Nat]  BY <2>2
  <2>4. \A h \in hour - RingHours + 1 .. LastHour + 1 : perHour[h] = 0  BY <2>2, HoursTyped
  <2> QED  BY <2>1, <2>3, <2>4, EmptyRing
<1> QED  BY <1>1, <1>2 DEF FileHolds

\* While the hour stands, what holds of a ring holds still; a later hour has
\* one hour less to hold it for.
LEMMA RingMoves ==
    ASSUME hour \in RingHours + 1 .. LastHour, hour' \in {hour, hour + 1}, NEW r, NEW perHour, RingHolds(r, perHour)
    PROVE  RingHolds(r, perHour)'
<1>1. r.at \in 0 .. hour' + 1 /\ r.b \in [Slots -> Nat]  BY HoursTyped DEF RingHolds, RingTyped
<1>2. ASSUME NEW h \in hour' - RingHours + 1 .. LastHour + 1, h > r.at - RingHours
      PROVE  perHour[h] = IF h <= r.at THEN r.b[h % RingHours] ELSE 0
  <2>1. PICK was \in Int, is \in Int, n \in Nat : was = hour /\ is = hour' /\ n = RingHours
    BY HoursTyped
  <2>2. is \in {was, was + 1} /\ h \in is - n + 1 .. LastHour + 1  BY <2>1
  <2>3. h \in was - n + 1 .. LastHour + 1  BY <2>2, HoursTyped
  <2> QED  BY <1>2, <2>1, <2>3 DEF RingHolds, RingCounts
<1> QED  BY <1>1, <1>2 DEF RingHolds, RingTyped, RingCounts

LEMMA FilesMove ==
    ASSUME hour \in RingHours + 1 .. LastHour, hour' \in {hour, hour + 1}, NEW saved, FileHolds(saved)
    PROVE  FileHolds(saved)'
<1>1. ASSUME NEW s \in Sensors PROVE RingHolds(FileRing(saved, s), saved.truth[s])'
  <2>1. PICK r, perHour : r = FileRing(saved, s) /\ perHour = saved.truth[s]  OBVIOUS
  <2>2. RingHolds(r, perHour)  BY <2>1 DEF FileHolds
  <2>3. RingHolds(r, perHour)'  BY <2>2, RingMoves
  <2>4. FileRing(saved, s)' = r  BY <2>1 DEF FileRing
  <2> QED  BY <2>1, <2>3, <2>4 DEF FileRing
<1> QED  BY <1>1 DEF FileHolds

LEMMA RingsStep ==
    ASSUME RingsInv, [RingsNext]_ringVars
    PROVE  RingsInv'
<1> USE DEF RingsInv
<1>1. CASE \E s \in Sensors : Dup(s) \/ \E at \in Stamped : Event(s, at)
  <2>1. PICK s, ring, perHour :
          /\ s \in Sensors /\ Hears(s, ring) /\ RingHolds(ring, perHour)
          /\ DOMAIN truth' = Sensors /\ truth'[s] = perHour /\ \A t \in Sensors \ {s} : truth'[t] = truth[t]
    <3>1. PICK s \in Sensors : Dup(s) \/ \E at \in Stamped : Event(s, at)  BY <1>1
    <3>2. CASE Dup(s)
      <4>1. Hears(s, RingOf(s)) /\ truth' = truth  BY <3>2 DEF Dup
      <4>2. PICK ring, perHour : ring = RingOf(s) /\ perHour = truth[s]  OBVIOUS
      <4> QED  BY <4>1, <4>2
    <3>3. CASE \E at \in Stamped : Event(s, at)
      <4>1. PICK at \in Stamped : Event(s, at)  BY <3>3
      <4>2. PICK r, old : r = RingOf(s) /\ old = truth[s]  OBVIOUS
      <4>3. PICK ring, perHour : ring = Added(r, at) /\ perHour = [old EXCEPT ![at] = @ + 1]  OBVIOUS
      <4>4. RingHolds(r, old)  BY <4>2
      <4>5. RingHolds(ring, perHour)  BY <4>3, <4>4, AddedHolds
      <4>6. Hears(s, ring) /\ truth' = [truth EXCEPT ![s] = perHour]  BY <4>1, <4>2, <4>3 DEF Event
      <4> QED  BY <4>5, <4>6
    <3> QED  BY <3>1, <3>2, <3>3
  <2>2. /\ stats' = [t \in DOMAIN stats \union {s} |-> IF t = s THEN ring ELSE stats[t]]
        /\ restored' = [t \in DOMAIN restored \ {s} |-> restored[t]]
        /\ UNCHANGED <<hour, usage, saver>>
    BY <2>1 DEF Hears
  <2>3. RingOf(s)' = ring /\ \A t \in Sensors \ {s} : RingOf(t)' = RingOf(t)  BY <2>2 DEF RingOf
  <2>4. ASSUME NEW t \in Sensors PROVE RingHolds(RingOf(t), truth[t])'
    <3>1. PICK r, c : r = RingOf(t)' /\ c = truth'[t]  OBVIOUS
    <3>2. RingHolds(r, c)
      <4>1. CASE t = s  BY <2>1, <2>3, <3>1, <4>1
      <4>2. CASE t # s
        <5>1. r = RingOf(t) /\ c = truth[t]  BY <2>1, <2>3, <3>1, <4>2
        <5> QED  BY <5>1
      <4> QED  BY <4>1, <4>2
    <3>3. RingHolds(r, c)'  BY <2>2, <3>2, RingMoves
    <3> QED  BY <3>1, <3>3
  <2>5. FileHolds(usage)' /\ (saver'.pc = "write" => FileHolds(saver.shot)')
    BY <2>2 DEF FileHolds, FileRing, RingHolds, RingTyped, RingCounts
  <2> QED  BY <2>1, <2>2, <2>4, <2>5
<1>2. CASE NextHour \/ UNCHANGED ringVars
  <2>1. hour' \in {hour, hour + 1} /\ hour' \in RingHours + 1 .. LastHour
        /\ UNCHANGED <<stats, restored, usage, saver, truth>>
    BY <1>2, HoursTyped DEF NextHour, ringVars
  <2>2. ASSUME NEW t \in Sensors PROVE RingHolds(RingOf(t), truth[t])'
    <3>1. PICK r, c : r = RingOf(t) /\ c = truth[t]  OBVIOUS
    <3>2. RingHolds(r, c)'  BY <2>1, <3>1, RingMoves
    <3>3. r = RingOf(t)' /\ c = truth'[t]  BY <2>1, <3>1 DEF RingOf
    <3> QED  BY <3>2, <3>3
  <2>3. FileHolds(usage)'
    <3>1. PICK f : f = usage  OBVIOUS
    <3>2. FileHolds(f)'  BY <2>1, <3>1, FilesMove
    <3> QED  BY <2>1, <3>1, <3>2
  <2>4. saver'.pc = "write" => FileHolds(saver.shot)'
    <3> SUFFICES ASSUME saver.pc = "write" PROVE FileHolds(saver.shot)'  BY <2>1
    <3>1. PICK f : f = saver.shot  OBVIOUS
    <3>2. FileHolds(f)'  BY <2>1, <3>1, FilesMove
    <3> QED  BY <2>1, <3>1, <3>2
  <2> QED  BY <2>1, <2>2, <2>3, <2>4
<1>3. CASE SnapUsage
  <2>1. UNCHANGED <<hour, stats, restored, usage, truth>> /\ saver' = [pc |-> "write", shot |-> Shot]
    BY <1>3 DEF SnapUsage
  <2>2. PICK f : f = Shot  OBVIOUS
  <2>3. FileHolds(f) /\ DOMAIN f.truth = Sensors  BY <2>2, ShotHolds
  <2>4. saver'.shot = f  BY <2>1, <2>2
  <2>5. FileHolds(f)'  BY <2>1, <2>3, FilesMove
  <2>6. FileHolds(saver.shot)' /\ DOMAIN saver'.shot.truth = Sensors  BY <2>3, <2>4, <2>5
  <2>7. FileHolds(usage)'  BY <2>1 DEF FileHolds, FileRing, RingHolds, RingTyped, RingCounts
  <2>8. \A s \in Sensors : RingHolds(RingOf(s), truth[s])'  BY <2>1 DEF RingOf, RingHolds, RingTyped, RingCounts
  <2> QED  BY <2>1, <2>6, <2>7, <2>8
<1>4. CASE PutUsage
  <2>1. UNCHANGED <<hour, stats, restored, truth>> /\ saver'.pc = "idle" /\ saver.pc = "write" /\ usage' \in {saver.shot, usage}
    BY <1>4 DEF PutUsage, NoSave
  <2>2. PICK f : f = usage'  OBVIOUS
  <2>3. FileHolds(f) /\ DOMAIN f.truth = Sensors  BY <2>1, <2>2
  <2>4. FileHolds(f)'  BY <2>1, <2>3, FilesMove
  <2>5. FileHolds(usage)'  BY <2>2, <2>4
  <2>6. \A s \in Sensors : RingHolds(RingOf(s), truth[s])'  BY <2>1 DEF RingOf, RingHolds, RingTyped, RingCounts
  <2> QED  BY <2>1, <2>2, <2>3, <2>5, <2>6
<1>5. CASE Stop \/ Killed
  <2>1. PICK f : Reload(f) /\ FileHolds(f) /\ DOMAIN f.truth = Sensors
    <3>1. CASE Killed
      <4>1. PICK f : f = usage  OBVIOUS
      <4>2. Reload(f)  BY <3>1, <4>1 DEF Killed
      <4> QED  BY <4>1, <4>2
    <3>2. CASE Stop
      <4>1. PICK f \in {Shot} \union (IF saver.pc = "write" THEN {saver.shot, NoUsage} ELSE {}) : Reload(f)
        BY <3>2 DEF Stop
      <4>2. CASE f = Shot  BY <4>1, <4>2, ShotHolds
      <4>3. CASE f = NoUsage  BY <4>1, <4>3, NothingUsed
      <4>4. CASE f = saver.shot /\ saver.pc = "write"  BY <4>1, <4>4
      <4> QED  BY <4>1, <4>2, <4>3, <4>4
    <3> QED  BY <1>5, <3>1, <3>2
  <2>2. usage' = f /\ restored' = f.rings /\ truth' = f.truth /\ stats' = NoRings /\ saver'.pc = "idle" /\ hour' = hour
    BY <2>1 DEF Reload, NoSave
  <2>3. FileHolds(f)'  BY <2>1, <2>2, FilesMove
  <2>4. FileHolds(usage)'  BY <2>2, <2>3
  <2>5. ASSUME NEW s \in Sensors PROVE RingHolds(RingOf(s), truth[s])'
    <3>1. PICK r, c : r = FileRing(f, s) /\ c = f.truth[s]  OBVIOUS
    <3>2. RingHolds(r, c)  BY <2>1, <3>1 DEF FileHolds
    <3>3. RingHolds(r, c)'  BY <2>2, <3>2, RingMoves
    <3>4. r = RingOf(s)' /\ c = truth'[s]  BY <2>2, <3>1 DEF RingOf, FileRing, NoRings
    <3> QED  BY <3>3, <3>4
  <2> QED  BY <2>1, <2>2, <2>4, <2>5
<1> QED  BY <1>1, <1>2, <1>3, <1>4, <1>5 DEF RingsNext

\* Wherever a ring is, in the process, restored, in the file or on its way
\* there, it has the counts of the hours it can still be asked for.
THEOREM RingsHold == RingsSpec => []RingsInv
<1>1. RingsInit => RingsInv
  <2> SUFFICES ASSUME RingsInit PROVE RingsInv  OBVIOUS
  <2>1. hour = RingHours + 1 /\ stats = NoRings /\ restored = NoRings /\ usage = NoUsage /\ saver.pc = "idle"
        /\ truth = NoUsage.truth
    BY DEF RingsInit, NoSave
  <2>2. hour \in RingHours + 1 .. LastHour  BY <2>1, HoursTyped
  <2>3. \A s : RingOf(s) = NoRing  BY <2>1 DEF RingOf, NoRings
  <2> QED  BY <2>1, <2>2, <2>3, NothingUsed DEF RingsInv
<1> QED  BY <1>1, RingsStep, PTL DEF RingsSpec

\* Restored or live, late, ahead of the clock or long silent, a station's events
\* over the hours ending now are those since the start and those of the file it
\* started from, but for the oldest hour of a whole turn while the next one has
\* an event (hourRing, stationStats, usageFile).
THEOREM RingsCount == RingsSpec => []RingsCountTheirHours
<1>1. RingsInv => RingsCountTheirHours
  <2> SUFFICES ASSUME RingsInv, NEW s \in Sensors, NEW n \in 1..RingHours
               PROVE  Counted(s, n) = MapThenSumSet(LAMBDA h : Remembered(s, h), hour - n + 1 .. hour)
    BY DEF RingsCountTheirHours
  <2>1. PICK r, perHour : r = RingOf(s) /\ perHour = truth[s]  OBVIOUS
  <2>2. Counted(s, n) = Summed(r, n)  BY <2>1 DEF Counted, RingOf
  <2>3. ASSUME NEW h \in hour - n + 1 .. hour
        PROVE  Remembered(s, h) = IF h <= r.at /\ r.at - h < RingHours THEN r.b[h % RingHours] ELSE 0
    <3>1. RingHolds(r, perHour) /\ hour \in RingHours + 1 .. LastHour  BY <2>1 DEF RingsInv
    <3>2. r.at \in 0 .. hour + 1 /\ perHour \in [ClockHours -> Nat] /\ (r.at # 0 => perHour[r.at] > 0)
      BY <3>1 DEF RingHolds, RingTyped, RingCounts
    <3>3. \A g \in hour - RingHours + 1 .. LastHour + 1 :
            g > r.at - RingHours => perHour[g] = IF g <= r.at THEN r.b[g % RingHours] ELSE 0
      BY <3>1 DEF RingHolds, RingCounts
    <3>4. h \in hour - RingHours + 1 .. LastHour + 1 /\ h <= hour  BY <3>1, HoursTyped
    <3>5. perHour[hour + 1] > 0 <=> r.at = hour + 1
      <4>1. hour + 1 \in hour - RingHours + 1 .. LastHour + 1  BY <3>1, HoursTyped
      <4>2. r.at # hour + 1 => hour + 1 > r.at - RingHours /\ ~(hour + 1 <= r.at)  BY <3>1, <3>2, HoursTyped
      <4>3. r.at # hour + 1 => perHour[hour + 1] = 0  BY <3>3, <4>1, <4>2
      <4>4. PICK g \in Nat : g = hour + 1  BY <3>1, HoursTyped
      <4>5. r.at = g => perHour[g] > 0
        <5>1. g # 0  BY <3>1, <4>4, HoursTyped
        <5>2. (r.at # 0 => perHour[r.at] > 0) /\ (r.at = g => r.at # 0 /\ perHour[r.at] = perHour[g])  BY <3>2, <5>1
        <5> QED  BY <5>2
      <4>6. r.at # g => ~(perHour[g] > 0)  BY <4>3, <4>4
      <4> QED  BY <4>4, <4>5, <4>6
    <3>6. Remembered(s, h) = IF h = hour + 1 - RingHours /\ r.at = hour + 1 THEN 0 ELSE perHour[h]
      BY <2>1, <3>5 DEF Remembered
    <3>7. CASE r.at = hour + 1 /\ h = hour + 1 - RingHours
      <4>1. ~(r.at - h < RingHours)  BY <3>1, <3>7, HoursTyped
      <4> QED  BY <3>6, <3>7, <4>1
    <3>8. CASE ~(r.at = hour + 1 /\ h = hour + 1 - RingHours)
      <4>1. PICK at \in Int, n0 \in Int, g \in Int : at = r.at /\ n0 = RingHours /\ g = hour
        BY <3>1, <3>2, HoursTyped
      <4>2. at <= g + 1 /\ h \in Int /\ h >= g - n0 + 1 /\ ~(at = g + 1 /\ h = g + 1 - n0)
        BY <3>1, <3>2, <3>4, <3>8, <4>1, HoursTyped
      <4>3. h > at - n0 /\ at - h < n0  BY <4>1, <4>2
      <4>4. h > r.at - RingHours /\ r.at - h < RingHours  BY <4>1, <4>3
      <4> QED  BY <3>3, <3>4, <3>6, <3>8, <4>4
    <3> QED  BY <3>7, <3>8
  <2>4. PICK kept : kept = [h \in hour - n + 1 .. hour |-> Remembered(s, h)]  OBVIOUS
  <2>5. Summed(r, n) = HoursCount(kept, n)  BY <2>3, <2>4, SumOfRing
  <2>6. PICK W : W = hour - n + 1 .. hour  OBVIOUS
  <2>7. HoursCount(kept, n) = MapThenSumSet(LAMBDA h : Remembered(s, h), W)
    <3> DEFINE F(T, it) == IF T = {} THEN 0 ELSE LET h == CHOOSE y \in T : TRUE IN kept[h] + it[T \ {h}]
               G(T, it) == IF T = {} THEN 0 ELSE LET h == CHOOSE y \in T : TRUE IN Remembered(s, h) + it[T \ {h}]
               IsF(it) == it = [T \in SUBSET W |-> F(T, it)]
               IsG(it) == it = [T \in SUBSET W |-> G(T, it)]
    <3>1. ASSUME NEW T \in SUBSET W, NEW it PROVE F(T, it) = G(T, it)
      <4>1. CASE T = {}  BY <4>1
      <4>2. CASE T # {}
        <5>1. PICK h : h = CHOOSE y \in T : TRUE  OBVIOUS
        <5>2. h \in W  BY <4>2, <5>1
        <5>3. kept[h] = Remembered(s, h)  BY <2>4, <2>6, <5>2
        <5> QED  BY <4>2, <5>1, <5>3
      <4> QED  BY <4>1, <4>2
    <3>2. \A it : IsF(it) <=> IsG(it)
      <4> HIDE DEF F, G
      <4> QED  BY <3>1
    <3>3. HoursCount(kept, n) = (CHOOSE it : IsF(it))[W]  BY <2>6 DEF HoursCount, MapThenSumSet, MapThenFoldSet
    <3>4. MapThenSumSet(LAMBDA h : Remembered(s, h), W) = (CHOOSE it : IsG(it))[W]
      BY DEF MapThenSumSet, MapThenFoldSet
    <3>5. (CHOOSE it : IsF(it)) = (CHOOSE it : IsG(it))
      <4> HIDE DEF IsF, IsG
      <4> QED  BY <3>2
    <3> QED  BY <3>3, <3>4, <3>5
  <2> QED  BY <2>2, <2>5, <2>6, <2>7
<1> QED  BY <1>1, RingsHold, PTL

-----------------------------------------------------------------------------
(* Stream slots (stream.go). *)

RealClaims == [sub: Subs, role: {"anonymous", "personal"}, conns: Nat, feeder: BOOLEAN]
RealStreams == [proto: Protocols, addr: Addresses, claims: RealClaims]

\* A slot is held under a protocol, an address and claims that exist; a reader
\* outlives the handler it was started by, and is a /v1 socket's.
StreamsTyped ==
  /\ of \in [Streams -> RealStreams \union {NoStream}]
  /\ minted \in [Streams -> RealClaims \union {NoClaims}]
  /\ \A c \in Streams :
       /\ handler[c] # "closed" => of[c] \in RealStreams
       /\ reader[c] # "none" => handler[c] # "addr" /\ of[c] \in RealStreams /\ of[c].proto = "v1"
       /\ reader[c] = "minted" => minted[c] \in RealClaims

SlotsInv == SlotsTypeOK /\ StreamsTyped /\ SlotsMatchStreams

\* The streams behind each count.
Holders(s) == {c \in Open : of[c].claims.sub = s}
Upgraders(s) == {c \in Upgrading : minted[c].sub = s}
From(a) == {c \in Streams : handler[c] # "closed" /\ of[c].addr = a}
Shown(p, t) == {c \in Open : of[c].proto = p /\ TierOf(of[c].claims) = t}

---------------------------------------------------------------------------
(* Counts of sets of streams. *)

\* The streams are finitely many, so every set of them has a count; one that
\* a stream joins counts one more, one that it leaves counts one less.
LEMMA CountTyped ==
  ASSUME NEW A \in SUBSET Streams
  PROVE  Cardinality(A) \in Nat /\ IsFiniteSet(A)
<1>1. IsFiniteSet(Streams)  BY SlotsAssumption
<1>2. IsFiniteSet(A)  BY <1>1, FS_Subset
<1> QED  BY <1>2, FS_CardinalityType

LEMMA CountJoins ==
  ASSUME NEW A \in SUBSET Streams, NEW c \in Streams, c \notin A
  PROVE  Cardinality(A \union {c}) = Cardinality(A) + 1
  BY CountTyped, FS_AddElement

LEMMA CountLeaves ==
  ASSUME NEW A \in SUBSET Streams, NEW c \in A
  PROVE  Cardinality(A \ {c}) = Cardinality(A) - 1 /\ Cardinality(A) > 0
<1>1. Cardinality(A \ {c}) = Cardinality(A) - 1  BY CountTyped, FS_RemoveElement
<1>2. Cardinality(A \ {c}) \in Nat /\ Cardinality(A) \in Nat  BY CountTyped
<1> QED  BY <1>1, <1>2

LEMMA HoldersAreStreams ==
  /\ \A s : Holders(s) \in SUBSET Streams /\ Upgraders(s) \in SUBSET Streams
  /\ \A a : From(a) \in SUBSET Streams
  /\ \A p, t : Shown(p, t) \in SUBSET Streams
  BY DEF Holders, Upgraders, From, Shown, Open, Upgrading

LEMMA NextHoldersAreStreams ==
  /\ \A s : Holders(s)' \in SUBSET Streams /\ Upgraders(s)' \in SUBSET Streams
  /\ \A a : From(a)' \in SUBSET Streams
  /\ \A p, t : Shown(p, t)' \in SUBSET Streams
  BY DEF Holders, Upgraders, From, Shown, Open, Upgrading

\* The invariant, by the sets it counts.
LEMMA MatchBySets ==
  SlotsMatchStreams <=>
    /\ \A s \in Subs : conns[s] = Cardinality(Holders(s)) + Cardinality(Upgraders(s))
    /\ \A a \in Addresses : addrs[a] = Cardinality(From(a))
    /\ \A p \in Protocols, t \in Tiers : gauge[<<p, t>>] = Cardinality(Shown(p, t))
  BY DEF SlotsMatchStreams, Holders, Upgraders, From, Shown

\* A counter's step stays an integer.
LEMMA StepTyped ==
  ASSUME NEW S, NEW f \in [S -> Int], NEW k \in S
  PROVE  Taken(f, k) \in [S -> Int] /\ Given(f, k) \in [S -> Int]
  BY DEF Taken, Given

LEMMA CountersTyped ==
  ASSUME SlotsInv
  PROVE  conns \in [Subs -> Int] /\ addrs \in [Addresses -> Int] /\ gauge \in [Protocols \X Tiers -> Int]
  BY DEF SlotsInv, SlotsTypeOK

---------------------------------------------------------------------------
(* Claims. *)

LEMMA NothingIsNotReal == NoStream \notin RealStreams /\ NoClaims \notin RealClaims
  BY DEF NoStream, NoClaims, RealStreams, RealClaims, Protocols

LEMMA TierTyped == ASSUME NEW cl \in RealClaims PROVE TierOf(cl) \in Tiers
  BY DEF TierOf, Tiers, RealClaims

LEMMA PersonalTyped ==
  ASSUME NEW k \in Stations, NEW a \in Addresses
  PROVE  Effective(PersonalClaims(k), a) \in RealClaims
<1>1. PersonalConns \in Nat /\ FeederConns \in Nat  BY SlotsAssumption
<1>2. PersonalClaims(k) \in RealClaims  BY <1>1 DEF PersonalClaims, RealClaims, Subs
<1> QED  BY <1>1, <1>2 DEF Effective, RealClaims

LEMMA AnonymousTyped ==
  ASSUME NEW a \in Addresses
  PROVE  Effective(AnonymousClaims(a), a) \in RealClaims
<1>1. AnonConns \in Nat /\ FeederConns \in Nat  BY SlotsAssumption
<1>2. AnonymousClaims(a) \in RealClaims  BY <1>1 DEF AnonymousClaims, RealClaims, Subs
<1> QED  BY <1>1, <1>2 DEF Effective, RealClaims

LEMMA ClaimsTyped ==
  ASSUME NEW p \in Protocols, NEW a \in Addresses
  PROVE  ClaimsFor(p, a) \in SUBSET RealClaims
  BY PersonalTyped, AnonymousTyped DEF ClaimsFor

---------------------------------------------------------------------------
(* One action at a time. A step's counts are Nats because they are counts.  *)

NextCounts ==
  /\ \A s \in Subs : conns'[s] = Cardinality(Holders(s)') + Cardinality(Upgraders(s)')
  /\ \A a \in Addresses : addrs'[a] = Cardinality(From(a)')
  /\ \A p \in Protocols, t \in Tiers : gauge'[<<p, t>>] = Cardinality(Shown(p, t)')

LEMMA InvByCounts ==
  ASSUME NextCounts, StreamsTyped',
         handler' \in [Streams -> {"closed", "addr", "open"}],
         reader' \in [Streams -> {"none", "reading", "minted"}],
         conns' \in [Subs -> Int], addrs' \in [Addresses -> Int], gauge' \in [Protocols \X Tiers -> Int],
         feeding' \subseteq Addresses
  PROVE  SlotsInv'
<1>1. SlotsMatchStreams'  BY DEF NextCounts, SlotsMatchStreams, Holders, Upgraders, From, Shown
<1>2. conns' \in [Subs -> Nat]
  <2>1. ASSUME NEW s \in Subs PROVE conns'[s] \in Nat
    <3>1. Cardinality(Holders(s)') \in Nat /\ Cardinality(Upgraders(s)') \in Nat
      BY NextHoldersAreStreams, CountTyped
    <3> QED  BY <3>1 DEF NextCounts
  <2> QED  BY <2>1
<1>3. addrs' \in [Addresses -> Nat]
  <2>1. ASSUME NEW a \in Addresses PROVE addrs'[a] \in Nat
    BY NextHoldersAreStreams, CountTyped DEF NextCounts
  <2> QED  BY <2>1
<1>4. gauge' \in [Protocols \X Tiers -> Nat]
  <2>1. ASSUME NEW p \in Protocols, NEW t \in Tiers PROVE gauge'[<<p, t>>] \in Nat
    BY NextHoldersAreStreams, CountTyped DEF NextCounts
  <2> QED  BY <2>1
<1> QED  BY <1>1, <1>2, <1>3, <1>4 DEF SlotsInv, SlotsTypeOK

LEMMA AcquireAddrKeeps ==
  ASSUME SlotsInv, NEW c \in Streams, AcquireAddr(c)
  PROVE  SlotsInv'
<1> USE DEF SlotsInv, SlotsTypeOK
<1>0. PICK p \in Protocols, a \in Addresses :
        /\ addrs' = Taken(addrs, a)
        /\ \E cl \in ClaimsFor(p, a) : of' = [of EXCEPT ![c] = [proto |-> p, addr |-> a, claims |-> cl]]
  BY DEF AcquireAddr
<1>1. PICK cl \in ClaimsFor(p, a) :
        /\ addrs' = Taken(addrs, a) /\ cl \in ClaimsFor(p, a)
        /\ of' = [of EXCEPT ![c] = [proto |-> p, addr |-> a, claims |-> cl]]
  BY <1>0
<1>2. cl \in RealClaims  BY <1>1, ClaimsTyped
<1>3. of'[c] \in RealStreams /\ of'[c].addr = a /\ \A d \in Streams \ {c} : of'[d] = of[d]
  BY <1>1, <1>2 DEF RealStreams, StreamsTyped
<1>4. /\ handler[c] = "closed" /\ reader[c] = "none"
      /\ handler' = [handler EXCEPT ![c] = "addr"]
      /\ UNCHANGED <<reader, minted, conns, gauge, feeding>>
  BY DEF AcquireAddr
<1>5. StreamsTyped'
  <2>1. of' \in [Streams -> RealStreams \union {NoStream}]  BY <1>1, <1>3 DEF StreamsTyped
  <2> QED  BY <2>1, <1>3, <1>4 DEF StreamsTyped
<1>6. \A s \in Subs : Holders(s)' = Holders(s) /\ Upgraders(s)' = Upgraders(s)
  BY <1>3, <1>4 DEF Holders, Upgraders, Open, Upgrading
<1>7. \A q \in Protocols, t \in Tiers : Shown(q, t)' = Shown(q, t)
  BY <1>3, <1>4 DEF Shown, Open
<1>8. ASSUME NEW b \in Addresses PROVE addrs'[b] = Cardinality(From(b)')
  <2>1. CASE b = a
    <3>1. From(b)' = From(b) \union {c} /\ c \notin From(b)
      BY <1>3, <1>4, <2>1 DEF From
    <3> QED  BY <1>1, <2>1, <3>1, HoldersAreStreams, CountJoins, MatchBySets DEF Taken
  <2>2. CASE b # a
    <3>1. From(b)' = From(b)  BY <1>3, <1>4, <2>2 DEF From
    <3> QED  BY <1>1, <2>2, <3>1, MatchBySets DEF Taken
  <2> QED  BY <2>1, <2>2
<1>9. NextCounts  BY <1>4, <1>6, <1>7, <1>8, MatchBySets DEF NextCounts
<1>10. addrs' \in [Addresses -> Int]  BY <1>1 DEF Taken
<1> QED  BY <1>4, <1>5, <1>9, <1>10, InvByCounts

\* A slot of a token or an address, and the gauge with it.
LEMMA OpenKeeps ==
  ASSUME SlotsInv, NEW c \in Streams, AcquireSub(c), Room(conns, of[c].claims.sub, of[c].claims.conns)
  PROVE  SlotsInv'
<1> USE DEF SlotsInv, SlotsTypeOK
<1> DEFINE cl == of[c].claims
<1> DEFINE p == of[c].proto
<1>1. /\ handler[c] = "addr" /\ handler' = [handler EXCEPT ![c] = "open"]
      /\ conns' = Taken(conns, cl.sub) /\ gauge' = Taken(gauge, Gauge(p, cl))
      /\ reader' = [reader EXCEPT ![c] = IF p = "v1" THEN "reading" ELSE "none"]
      /\ UNCHANGED <<of, addrs, minted, feeding>>
  BY DEF AcquireSub
<1>2. /\ of[c] \in RealStreams /\ cl \in RealClaims /\ p \in Protocols /\ TierOf(cl) \in Tiers
      /\ cl.sub \in Subs
  <2>1. of[c] \in RealStreams  BY <1>1 DEF StreamsTyped
  <2>2. cl \in RealClaims /\ p \in Protocols  BY <2>1 DEF RealStreams
  <2> QED  BY <2>1, <2>2, TierTyped DEF RealClaims
<1>3. reader[c] = "none"  BY <1>1 DEF StreamsTyped
<1>4. StreamsTyped'  BY <1>1, <1>2, <1>3 DEF StreamsTyped
<1>5. \A s \in Subs : Upgraders(s)' = Upgraders(s)
  BY <1>1, <1>3 DEF Upgraders, Upgrading
<1>6. ASSUME NEW s \in Subs
      PROVE  conns'[s] = Cardinality(Holders(s)') + Cardinality(Upgraders(s)')
  <2>1. CASE s = cl.sub
    <3>1. Holders(s)' = Holders(s) \union {c} /\ c \notin Holders(s)
      BY <1>1, <2>1 DEF Holders, Open
    <3>2. Cardinality(Holders(s)') = Cardinality(Holders(s)) + 1
      BY <3>1, HoldersAreStreams, CountJoins
    <3>3. conns'[s] = conns[s] + 1  BY <1>1, <2>1 DEF Taken
    <3>4. Cardinality(Holders(s)) \in Nat /\ Cardinality(Upgraders(s)) \in Nat
      BY HoldersAreStreams, CountTyped
    <3> QED  BY <1>5, <3>2, <3>3, <3>4, MatchBySets
  <2>2. CASE s # cl.sub
    <3>1. Holders(s)' = Holders(s)  BY <1>1, <2>2 DEF Holders, Open
    <3>2. conns'[s] = conns[s]  BY <1>1, <2>2 DEF Taken
    <3> QED  BY <1>5, <3>1, <3>2, MatchBySets
  <2> QED  BY <2>1, <2>2
<1>7. \A a \in Addresses : From(a)' = From(a)  BY <1>1 DEF From
<1>8. ASSUME NEW q \in Protocols, NEW t \in Tiers
      PROVE  gauge'[<<q, t>>] = Cardinality(Shown(q, t)')
  <2>1. CASE q = p /\ t = TierOf(cl)
    <3>1. Shown(q, t)' = Shown(q, t) \union {c} /\ c \notin Shown(q, t)
      BY <1>1, <2>1 DEF Shown, Open
    <3>2. gauge'[<<q, t>>] = gauge[<<q, t>>] + 1
      BY <1>1, <2>1 DEF Taken, Gauge
    <3> QED  BY <3>1, <3>2, HoldersAreStreams, CountJoins, MatchBySets
  <2>2. CASE ~(q = p /\ t = TierOf(cl))
    <3>1. Shown(q, t)' = Shown(q, t)  BY <1>1, <2>2 DEF Shown, Open
    <3>2. gauge'[<<q, t>>] = gauge[<<q, t>>]  BY <1>1, <2>2 DEF Taken, Gauge
    <3> QED  BY <3>1, <3>2, MatchBySets
  <2> QED  BY <2>1, <2>2
<1>9. NextCounts  BY <1>1, <1>6, <1>7, <1>8, MatchBySets DEF NextCounts
<1>10. conns' \in [Subs -> Int] /\ gauge' \in [Protocols \X Tiers -> Int]
  BY <1>1, <1>2, StepTyped, CountersTyped DEF Gauge
<1> QED  BY <1>1, <1>4, <1>9, <1>10, InvByCounts

\* Refused, the address's slot goes back.
LEMMA RefusedKeeps ==
  ASSUME SlotsInv, NEW c \in Streams, AcquireSub(c), ~Room(conns, of[c].claims.sub, of[c].claims.conns)
  PROVE  SlotsInv'
<1> USE DEF SlotsInv, SlotsTypeOK
<1>1. /\ handler[c] = "addr" /\ handler' = [handler EXCEPT ![c] = "closed"]
      /\ addrs' = Given(addrs, of[c].addr)
      /\ of' = [of EXCEPT ![c] = NoStream]
      /\ UNCHANGED <<reader, conns, gauge, minted, feeding>>
  BY DEF AcquireSub
<1>2. reader[c] = "none"  BY <1>1 DEF StreamsTyped
<1>3. StreamsTyped'  BY <1>1, <1>2 DEF StreamsTyped
<1>4. \A s \in Subs : Holders(s)' = Holders(s) /\ Upgraders(s)' = Upgraders(s)
  BY <1>1 DEF Holders, Upgraders, Open, Upgrading, StreamsTyped
<1>5. \A q \in Protocols, t \in Tiers : Shown(q, t)' = Shown(q, t)
  BY <1>1 DEF Shown, Open, StreamsTyped
<1>6. ASSUME NEW b \in Addresses PROVE addrs'[b] = Cardinality(From(b)')
  <2>1. CASE b = of[c].addr
    <3>1. From(b)' = From(b) \ {c} /\ c \in From(b)
      BY <1>1, <2>1 DEF From, StreamsTyped
    <3> QED  BY <1>1, <2>1, <3>1, HoldersAreStreams, CountLeaves, MatchBySets DEF Given
  <2>2. CASE b # of[c].addr
    <3>1. From(b)' = From(b)  BY <1>1, <2>2 DEF From, StreamsTyped
    <3> QED  BY <1>1, <2>2, <3>1, MatchBySets DEF Given
  <2> QED  BY <2>1, <2>2
<1>7. NextCounts  BY <1>1, <1>4, <1>5, <1>6, MatchBySets DEF NextCounts
<1>8. of[c].addr \in Addresses  BY <1>1 DEF StreamsTyped, RealStreams
<1>9. addrs' \in [Addresses -> Int]  BY <1>1, <1>8, StepTyped, CountersTyped
<1> QED  BY <1>1, <1>3, <1>7, <1>9, InvByCounts

\* An exit gives back what the stream holds then, upgraded or not.
LEMMA ExitKeeps ==
  ASSUME SlotsInv, NEW c \in Streams, Exit(c)
  PROVE  SlotsInv'
<1> USE DEF SlotsInv, SlotsTypeOK
<1> DEFINE cl == of[c].claims
<1> DEFINE p == of[c].proto
<1>1. /\ handler[c] = "open" /\ handler' = [handler EXCEPT ![c] = "closed"]
      /\ conns' = Given(conns, cl.sub) /\ addrs' = Given(addrs, of[c].addr)
      /\ gauge' = Given(gauge, Gauge(p, cl))
      /\ of' = IF reader[c] = "none" THEN [of EXCEPT ![c] = NoStream] ELSE of
      /\ UNCHANGED <<reader, minted, feeding>>
  BY DEF Exit
<1>2. \A d \in Streams \ {c} : of'[d] = of[d] /\ handler'[d] = handler[d]
  BY <1>1 DEF StreamsTyped
<1>3. handler'[c] = "closed"  BY <1>1
<1>4. StreamsTyped'
  <2>1. of' \in [Streams -> RealStreams \union {NoStream}]  BY <1>1 DEF StreamsTyped
  <2>2. ASSUME NEW d \in Streams
        PROVE  /\ handler'[d] # "closed" => of'[d] \in RealStreams
               /\ reader'[d] # "none" => handler'[d] # "addr" /\ of'[d] \in RealStreams /\ of'[d].proto = "v1"
               /\ reader'[d] = "minted" => minted'[d] \in RealClaims
    <3>1. CASE d = c  BY <1>1, <1>3, <3>1 DEF StreamsTyped
    <3>2. CASE d # c  BY <1>1, <1>2, <3>2 DEF StreamsTyped
    <3> QED  BY <3>1, <3>2
  <2> QED  BY <1>1, <2>1, <2>2 DEF StreamsTyped
<1>5. \A s \in Subs : Upgraders(s)' = Upgraders(s)
  BY <1>1 DEF Upgraders, Upgrading
<1>6. ASSUME NEW s \in Subs
      PROVE  conns'[s] = Cardinality(Holders(s)') + Cardinality(Upgraders(s)')
  <2>1. CASE s = cl.sub
    <3>1. Holders(s)' = Holders(s) \ {c} /\ c \in Holders(s)
      BY <1>1, <1>2, <1>3, <2>1 DEF Holders, Open
    <3>2. Cardinality(Holders(s)') = Cardinality(Holders(s)) - 1
      BY <3>1, HoldersAreStreams, CountLeaves
    <3>3. conns'[s] = conns[s] - 1  BY <1>1, <2>1 DEF Given
    <3>4. Cardinality(Holders(s)) \in Nat /\ Cardinality(Upgraders(s)) \in Nat
      BY HoldersAreStreams, CountTyped
    <3> QED  BY <1>5, <3>2, <3>3, <3>4, MatchBySets
  <2>2. CASE s # cl.sub
    <3>1. Holders(s)' = Holders(s)  BY <1>1, <1>2, <1>3, <2>2 DEF Holders, Open
    <3>2. conns'[s] = conns[s]  BY <1>1, <2>2 DEF Given
    <3> QED  BY <1>5, <3>1, <3>2, MatchBySets
  <2> QED  BY <2>1, <2>2
<1>7. ASSUME NEW b \in Addresses PROVE addrs'[b] = Cardinality(From(b)')
  <2>1. CASE b = of[c].addr
    <3>1. From(b)' = From(b) \ {c} /\ c \in From(b)
      BY <1>1, <1>2, <1>3, <2>1 DEF From
    <3> QED  BY <1>1, <2>1, <3>1, HoldersAreStreams, CountLeaves, MatchBySets DEF Given
  <2>2. CASE b # of[c].addr
    <3>1. From(b)' = From(b)  BY <1>1, <1>2, <1>3, <2>2 DEF From
    <3> QED  BY <1>1, <2>2, <3>1, MatchBySets DEF Given
  <2> QED  BY <2>1, <2>2
<1>8. ASSUME NEW q \in Protocols, NEW t \in Tiers
      PROVE  gauge'[<<q, t>>] = Cardinality(Shown(q, t)')
  <2>1. CASE q = p /\ t = TierOf(cl)
    <3>1. Shown(q, t)' = Shown(q, t) \ {c} /\ c \in Shown(q, t)
      BY <1>1, <1>2, <1>3, <2>1 DEF Shown, Open
    <3>2. gauge'[<<q, t>>] = gauge[<<q, t>>] - 1
      BY <1>1, <2>1 DEF Given, Gauge
    <3> QED  BY <3>1, <3>2, HoldersAreStreams, CountLeaves, MatchBySets
  <2>2. CASE ~(q = p /\ t = TierOf(cl))
    <3>1. Shown(q, t)' = Shown(q, t)  BY <1>1, <1>2, <1>3, <2>2 DEF Shown, Open
    <3>2. gauge'[<<q, t>>] = gauge[<<q, t>>]  BY <1>1, <2>2 DEF Given, Gauge
    <3> QED  BY <3>1, <3>2, MatchBySets
  <2> QED  BY <2>1, <2>2
<1>9. NextCounts  BY <1>6, <1>7, <1>8 DEF NextCounts
<1>10. of[c] \in RealStreams /\ cl \in RealClaims /\ TierOf(cl) \in Tiers
  <2>1. of[c] \in RealStreams  BY <1>1 DEF StreamsTyped
  <2>2. cl \in RealClaims  BY <2>1 DEF RealStreams
  <2> QED  BY <2>1, <2>2, TierTyped
<1>11. p \in Protocols /\ of[c].addr \in Addresses /\ cl.sub \in Subs
  BY <1>10 DEF RealStreams, RealClaims
<1>12. /\ conns' \in [Subs -> Int] /\ addrs' \in [Addresses -> Int]
       /\ gauge' \in [Protocols \X Tiers -> Int]
  BY <1>1, <1>10, <1>11, StepTyped, CountersTyped DEF Gauge
<1> QED  BY <1>1, <1>4, <1>9, <1>12, InvByCounts

\* The reader that outlived its handler stops.
LEMMA CancelledKeeps ==
  ASSUME SlotsInv, NEW c \in Streams, Cancelled(c)
  PROVE  SlotsInv'
<1> USE DEF SlotsInv, SlotsTypeOK
<1>1. /\ handler[c] = "closed" /\ reader[c] = "reading"
      /\ reader' = [reader EXCEPT ![c] = "none"] /\ of' = [of EXCEPT ![c] = NoStream]
      /\ UNCHANGED <<handler, minted, conns, addrs, gauge, feeding>>
  BY DEF Cancelled
<1>2. \A d \in Streams \ {c} : of'[d] = of[d] /\ reader'[d] = reader[d]
  BY <1>1 DEF StreamsTyped
<1>3. StreamsTyped'  BY <1>1, <1>2 DEF StreamsTyped
<1>4. \A s \in Subs : Holders(s)' = Holders(s) /\ Upgraders(s)' = Upgraders(s)
  BY <1>1, <1>2 DEF Holders, Upgraders, Open, Upgrading
<1>5. \A a \in Addresses : From(a)' = From(a)  BY <1>1, <1>2 DEF From
<1>6. \A q \in Protocols, t \in Tiers : Shown(q, t)' = Shown(q, t)
  BY <1>1, <1>2 DEF Shown, Open
<1>7. NextCounts  BY <1>1, <1>4, <1>5, <1>6, MatchBySets DEF NextCounts
<1> QED  BY <1>1, <1>3, <1>7, CountersTyped, InvByCounts

\* A registration's slot, while the address's is still held.
LEMMA RegisterKeeps ==
  ASSUME SlotsInv, NEW c \in Streams, Register(c)
  PROVE  SlotsInv'
<1> USE DEF SlotsInv, SlotsTypeOK
<1>1. PICK key \in Stations : /\ conns' = Taken(conns, Effective(PersonalClaims(key), of[c].addr).sub)
                              /\ minted' = [minted EXCEPT ![c] = Effective(PersonalClaims(key), of[c].addr)]
  BY DEF Register
<1> DEFINE cl == Effective(PersonalClaims(key), of[c].addr)
<1>2. /\ reader[c] = "reading" /\ reader' = [reader EXCEPT ![c] = "minted"]
      /\ UNCHANGED <<handler, of, addrs, gauge, feeding>>
  BY DEF Register
<1>3. cl \in RealClaims
  <2>1. of[c].addr \in Addresses  BY <1>2 DEF StreamsTyped, RealStreams
  <2> QED  BY <2>1, PersonalTyped
<1>4. minted'[c] = cl /\ \A d \in Streams \ {c} : minted'[d] = minted[d] /\ reader'[d] = reader[d]
  BY <1>1, <1>2 DEF StreamsTyped
<1> HIDE DEF cl
<1>5. StreamsTyped'
  <2>1. minted' \in [Streams -> RealClaims \union {NoClaims}]
    BY <1>1, <1>3 DEF StreamsTyped, cl
  <2> QED  BY <1>2, <1>3, <1>4, <2>1 DEF StreamsTyped
<1>6. \A s \in Subs : Holders(s)' = Holders(s)  BY <1>2 DEF Holders, Open
<1>7. ASSUME NEW s \in Subs
      PROVE  conns'[s] = Cardinality(Holders(s)') + Cardinality(Upgraders(s)')
  <2>1. CASE s = cl.sub
    <3>1. Upgraders(s)' = Upgraders(s) \union {c} /\ c \notin Upgraders(s)
      BY <1>2, <1>4, <2>1 DEF Upgraders, Upgrading
    <3>2. Cardinality(Upgraders(s)') = Cardinality(Upgraders(s)) + 1
      BY <3>1, HoldersAreStreams, CountJoins
    <3>3. conns'[s] = conns[s] + 1  BY <1>1, <2>1 DEF Taken, cl
    <3>4. Cardinality(Holders(s)) \in Nat /\ Cardinality(Upgraders(s)) \in Nat
      BY HoldersAreStreams, CountTyped
    <3> QED  BY <1>6, <3>2, <3>3, <3>4, MatchBySets
  <2>2. CASE s # cl.sub
    <3>1. Upgraders(s)' = Upgraders(s)  BY <1>2, <1>4, <2>2 DEF Upgraders, Upgrading
    <3>2. conns'[s] = conns[s]  BY <1>1, <2>2 DEF Taken, cl
    <3> QED  BY <1>6, <3>1, <3>2, MatchBySets
  <2> QED  BY <2>1, <2>2
<1>8. \A a \in Addresses : From(a)' = From(a)  BY <1>2 DEF From
<1>9. \A q \in Protocols, t \in Tiers : Shown(q, t)' = Shown(q, t)
  BY <1>2 DEF Shown, Open
<1>10. NextCounts  BY <1>2, <1>7, <1>8, <1>9, MatchBySets DEF NextCounts
<1>11. conns' \in [Subs -> Int]
  <2>1. cl.sub \in Subs  BY <1>3 DEF RealClaims
  <2> QED  BY <1>1, <2>1, StepTyped, CountersTyped DEF cl
<1> QED  BY <1>2, <1>5, <1>10, <1>11, CountersTyped, InvByCounts

\* The upgrade of a stream still open: the address's slot goes, the token's stays.
LEMMA SwapKeeps ==
  ASSUME SlotsInv, NEW c \in Streams, Swap(c), handler[c] = "open"
  PROVE  SlotsInv'
<1> USE DEF SlotsInv, SlotsTypeOK
<1> DEFINE old == of[c].claims
<1> DEFINE cl == minted[c]
<1>1. /\ reader[c] = "minted" /\ reader' = [reader EXCEPT ![c] = "reading"]
      /\ minted' = [minted EXCEPT ![c] = NoClaims] /\ of' = [of EXCEPT ![c].claims = cl]
      /\ conns' = Given(conns, old.sub)
      /\ gauge' = Taken(Given(gauge, Gauge("v1", old)), Gauge("v1", cl))
      /\ UNCHANGED <<handler, addrs, feeding>>
  BY DEF Swap, StillOpen
<1>2. /\ of[c] \in RealStreams /\ of[c].proto = "v1" /\ old \in RealClaims /\ cl \in RealClaims
      /\ TierOf(old) \in Tiers /\ TierOf(cl) \in Tiers
  <2>1. of[c] \in RealStreams /\ of[c].proto = "v1" /\ cl \in RealClaims  BY <1>1 DEF StreamsTyped
  <2>2. old \in RealClaims  BY <2>1 DEF RealStreams
  <2> QED  BY <2>1, <2>2, TierTyped
<1>3. /\ of'[c] = [of[c] EXCEPT !.claims = cl]
      /\ \A d \in Streams \ {c} : of'[d] = of[d] /\ reader'[d] = reader[d] /\ minted'[d] = minted[d]
  BY <1>1 DEF StreamsTyped
<1>4. of'[c] \in RealStreams /\ of'[c].claims = cl /\ of'[c].addr = of[c].addr /\ of'[c].proto = "v1"
  BY <1>2, <1>3 DEF RealStreams
<1> HIDE DEF cl, old
<1>5. StreamsTyped'
  <2>1. of' \in [Streams -> RealStreams \union {NoStream}]  BY <1>1, <1>4 DEF StreamsTyped
  <2>2. minted' \in [Streams -> RealClaims \union {NoClaims}]  BY <1>1 DEF StreamsTyped
  <2> QED  BY <1>1, <1>3, <1>4, <2>1, <2>2 DEF StreamsTyped
<1>6. \A s \in Subs : /\ Holders(s)' = IF s = cl.sub THEN Holders(s) \union {c} ELSE Holders(s) \ {c}
                      /\ Upgraders(s)' = IF s = cl.sub THEN Upgraders(s) \ {c} ELSE Upgraders(s)
                      /\ c \in Holders(s) <=> s = old.sub
                      /\ c \in Upgraders(s) <=> s = cl.sub
  <2>1. ASSUME NEW s \in Subs
        PROVE  (c \in Holders(s) <=> s = old.sub) /\ (c \in Upgraders(s) <=> s = cl.sub)
    BY <1>1 DEF Holders, Upgraders, Open, Upgrading, old, cl
  <2>2. ASSUME NEW s \in Subs
        PROVE  Holders(s)' = IF s = cl.sub THEN Holders(s) \union {c} ELSE Holders(s) \ {c}
    BY <1>1, <1>3, <1>4 DEF Holders, Open
  <2>3. ASSUME NEW s \in Subs
        PROVE  Upgraders(s)' = IF s = cl.sub THEN Upgraders(s) \ {c} ELSE Upgraders(s)
    BY <1>1, <1>3, <2>1 DEF Upgraders, Upgrading
  <2> QED  BY <2>1, <2>2, <2>3
<1>7. ASSUME NEW s \in Subs
      PROVE  conns'[s] = Cardinality(Holders(s)') + Cardinality(Upgraders(s)')
  <2>1. Cardinality(Holders(s)) \in Nat /\ Cardinality(Upgraders(s)) \in Nat
    BY HoldersAreStreams, CountTyped
  <2>2. conns'[s] = IF s = old.sub THEN conns[s] - 1 ELSE conns[s]  BY <1>1 DEF Given, old
  <2>3. conns[s] = Cardinality(Holders(s)) + Cardinality(Upgraders(s))  BY MatchBySets
  <2>4. Cardinality(Holders(s)') = IF s = cl.sub /\ s # old.sub THEN Cardinality(Holders(s)) + 1
                                   ELSE IF s = old.sub /\ s # cl.sub THEN Cardinality(Holders(s)) - 1
                                   ELSE Cardinality(Holders(s))
    <3>1. CASE s = cl.sub /\ s # old.sub
      BY <1>6, <3>1, HoldersAreStreams, CountJoins
    <3>2. CASE s = old.sub /\ s # cl.sub
      BY <1>6, <3>2, HoldersAreStreams, CountLeaves
    <3>3. CASE s = old.sub /\ s = cl.sub
      <4>1. Holders(s)' = Holders(s)  BY <1>6, <3>3
      <4> QED  BY <3>3, <4>1
    <3>4. CASE s # old.sub /\ s # cl.sub
      <4>1. Holders(s)' = Holders(s)  BY <1>6, <3>4
      <4> QED  BY <3>4, <4>1
    <3> QED  BY <3>1, <3>2, <3>3, <3>4
  <2>5. Cardinality(Upgraders(s)') = IF s = cl.sub THEN Cardinality(Upgraders(s)) - 1
                                     ELSE Cardinality(Upgraders(s))
    <3>1. CASE s = cl.sub  BY <1>6, <3>1, HoldersAreStreams, CountLeaves
    <3>2. CASE s # cl.sub  BY <1>6, <3>2
    <3> QED  BY <3>1, <3>2
  <2> QED  BY <2>1, <2>2, <2>3, <2>4, <2>5
<1>8. \A a \in Addresses : From(a)' = From(a)  BY <1>1, <1>3, <1>4 DEF From
<1>9. \A q \in Protocols, t \in Tiers :
        /\ c \in Shown(q, t) <=> q = "v1" /\ t = TierOf(old)
        /\ Shown(q, t)' = IF q = "v1" /\ t = TierOf(cl) THEN Shown(q, t) \union {c} ELSE Shown(q, t) \ {c}
  BY <1>1, <1>2, <1>3, <1>4 DEF Shown, Open, old
<1>10. ASSUME NEW q \in Protocols, NEW t \in Tiers
       PROVE  gauge'[<<q, t>>] = Cardinality(Shown(q, t)')
  <2> DEFINE k == <<q, t>>
  <2> DEFINE mid == Given(gauge, Gauge("v1", old))
  <2>1. k \in Protocols \X Tiers /\ gauge[k] \in Nat  OBVIOUS
  <2>2. /\ mid \in [Protocols \X Tiers -> Int]
        /\ mid[k] = IF q = "v1" /\ t = TierOf(old) THEN gauge[k] - 1 ELSE gauge[k]
    BY <1>2, <2>1, StepTyped, CountersTyped DEF Given, Gauge
  <2>3. gauge'[k] = IF q = "v1" /\ t = TierOf(cl) THEN mid[k] + 1 ELSE mid[k]
    <3> HIDE DEF mid
    <3>1. gauge' = Taken(mid, Gauge("v1", cl))  BY <1>1 DEF mid
    <3> QED  BY <1>2, <2>1, <2>2, <3>1 DEF Taken, Gauge
  <2>4. gauge[k] = Cardinality(Shown(q, t))  BY MatchBySets
  <2>5. CASE q = "v1" /\ t = TierOf(cl) /\ t # TierOf(old)
    <3>1. Cardinality(Shown(q, t)') = Cardinality(Shown(q, t)) + 1
      BY <1>9, <2>5, HoldersAreStreams, CountJoins
    <3> QED  BY <2>1, <2>2, <2>3, <2>4, <2>5, <3>1
  <2>6. CASE q = "v1" /\ t = TierOf(old) /\ t # TierOf(cl)
    <3>1. Cardinality(Shown(q, t)') = Cardinality(Shown(q, t)) - 1
      BY <1>9, <2>6, HoldersAreStreams, CountLeaves
    <3> QED  BY <2>1, <2>2, <2>3, <2>4, <2>6, <3>1
  <2>7. CASE ~(q = "v1" /\ (t = TierOf(old) <=> t # TierOf(cl)))
    <3>1. Shown(q, t)' = Shown(q, t)
      <4>1. CASE q = "v1" /\ t = TierOf(old) /\ t = TierOf(cl)
        <5>1. c \in Shown(q, t) /\ Shown(q, t)' = Shown(q, t) \union {c}  BY <1>9, <4>1
        <5> QED  BY <5>1
      <4>2. CASE q # "v1" \/ (t # TierOf(old) /\ t # TierOf(cl))
        <5>1. c \notin Shown(q, t) /\ Shown(q, t)' = Shown(q, t) \ {c}  BY <1>9, <4>2
        <5> QED  BY <5>1
      <4> QED  BY <2>7, <4>1, <4>2
    <3> QED  BY <2>1, <2>2, <2>3, <2>4, <2>7, <3>1
  <2> QED  BY <2>5, <2>6, <2>7
<1>11. NextCounts  BY <1>1, <1>7, <1>8, <1>10, MatchBySets DEF NextCounts
<1>12. conns' \in [Subs -> Int]
  <2>1. old.sub \in Subs  BY <1>2 DEF RealClaims
  <2> QED  BY <1>1, <2>1, StepTyped, CountersTyped
<1>13. gauge' \in [Protocols \X Tiers -> Int]
  <2>1. Gauge("v1", old) \in Protocols \X Tiers /\ Gauge("v1", cl) \in Protocols \X Tiers
    BY <1>2 DEF Gauge, Protocols
  <2> QED  BY <1>1, <2>1, StepTyped, CountersTyped
<1> QED  BY <1>1, <1>5, <1>11, <1>12, <1>13, CountersTyped, InvByCounts

\* The upgrade of a stream whose handler left: the token's slot goes back.
LEMMA LateSwapKeeps ==
  ASSUME SlotsInv, NEW c \in Streams, Swap(c), handler[c] # "open"
  PROVE  SlotsInv'
<1> USE DEF SlotsInv, SlotsTypeOK
<1> DEFINE cl == minted[c]
<1>1. /\ reader[c] = "minted" /\ reader' = [reader EXCEPT ![c] = "none"]
      /\ minted' = [minted EXCEPT ![c] = NoClaims] /\ of' = [of EXCEPT ![c] = NoStream]
      /\ conns' = Given(conns, cl.sub)
      /\ UNCHANGED <<handler, addrs, gauge, feeding>>
  BY DEF Swap, StillOpen
<1>2. handler[c] = "closed" /\ cl \in RealClaims  BY <1>1 DEF StreamsTyped
<1>3. \A d \in Streams \ {c} : of'[d] = of[d] /\ reader'[d] = reader[d] /\ minted'[d] = minted[d]
  BY <1>1 DEF StreamsTyped
<1>4. StreamsTyped'
  <2>1. of' \in [Streams -> RealStreams \union {NoStream}]  BY <1>1 DEF StreamsTyped
  <2>2. minted' \in [Streams -> RealClaims \union {NoClaims}]  BY <1>1 DEF StreamsTyped
  <2> QED  BY <1>1, <1>2, <1>3, <2>1, <2>2 DEF StreamsTyped
<1>5. \A s \in Subs : Holders(s)' = Holders(s)  BY <1>1, <1>3 DEF Holders, Open
<1>6. ASSUME NEW s \in Subs
      PROVE  conns'[s] = Cardinality(Holders(s)') + Cardinality(Upgraders(s)')
  <2>1. CASE s = cl.sub
    <3>1. Upgraders(s)' = Upgraders(s) \ {c} /\ c \in Upgraders(s)
      BY <1>1, <1>3, <2>1 DEF Upgraders, Upgrading
    <3>2. Cardinality(Upgraders(s)') = Cardinality(Upgraders(s)) - 1
      BY <3>1, HoldersAreStreams, CountLeaves
    <3>3. conns'[s] = conns[s] - 1  BY <1>1, <2>1 DEF Given
    <3>4. Cardinality(Holders(s)) \in Nat /\ Cardinality(Upgraders(s)) \in Nat
      BY HoldersAreStreams, CountTyped
    <3> QED  BY <1>5, <3>2, <3>3, <3>4, MatchBySets
  <2>2. CASE s # cl.sub
    <3>1. Upgraders(s)' = Upgraders(s)  BY <1>1, <1>3, <2>2 DEF Upgraders, Upgrading
    <3>2. conns'[s] = conns[s]  BY <1>1, <2>2 DEF Given
    <3> QED  BY <1>5, <3>1, <3>2, MatchBySets
  <2> QED  BY <2>1, <2>2
<1>7. \A a \in Addresses : From(a)' = From(a)  BY <1>1, <1>2, <1>3 DEF From
<1>8. \A q \in Protocols, t \in Tiers : Shown(q, t)' = Shown(q, t)
  BY <1>1, <1>3 DEF Shown, Open
<1>9. NextCounts  BY <1>1, <1>6, <1>7, <1>8, MatchBySets DEF NextCounts
<1>10. conns' \in [Subs -> Int]
  <2>1. cl.sub \in Subs  BY <1>2 DEF RealClaims
  <2> QED  BY <1>1, <2>1, StepTyped, CountersTyped
<1> QED  BY <1>1, <1>4, <1>9, <1>10, CountersTyped, InvByCounts

LEMMA FeedKeeps ==
  ASSUME SlotsInv, NEW a \in Addresses, Feed(a)
  PROVE  SlotsInv'
<1>1. UNCHANGED <<handler, reader, of, minted, conns, addrs, gauge>> /\ feeding' \subseteq Addresses
  BY DEF Feed, SlotsInv, SlotsTypeOK
<1> QED  BY <1>1 DEF SlotsInv, SlotsTypeOK, StreamsTyped, SlotsMatchStreams, Open, Upgrading

---------------------------------------------------------------------------
(* The theorem. *)

LEMMA SlotsInitially == SlotsInit => SlotsInv
<1> SUFFICES ASSUME SlotsInit PROVE SlotsInv
  OBVIOUS
<1>1. SlotsTypeOK /\ StreamsTyped  BY DEF SlotsInit, SlotsTypeOK, StreamsTyped
<1>2. /\ \A s \in Subs : Holders(s) = {} /\ Upgraders(s) = {}
      /\ \A a \in Addresses : From(a) = {}
      /\ \A p \in Protocols, t \in Tiers : Shown(p, t) = {}
  BY DEF SlotsInit, Holders, Upgraders, From, Shown, Open, Upgrading
<1>3. Cardinality({}) = 0  BY FS_EmptySet
<1>4. ASSUME NEW s \in Subs PROVE conns[s] = Cardinality(Holders(s)) + Cardinality(Upgraders(s))
  <2>1. Holders(s) = {} /\ Upgraders(s) = {} /\ conns[s] = 0  BY <1>2 DEF SlotsInit
  <2> QED  BY <1>3, <2>1
<1>5. \A a \in Addresses : addrs[a] = Cardinality(From(a))  BY <1>2, <1>3 DEF SlotsInit
<1>6. ASSUME NEW p \in Protocols, NEW t \in Tiers PROVE gauge[<<p, t>>] = Cardinality(Shown(p, t))
  <2>1. <<p, t>> \in Protocols \X Tiers  OBVIOUS
  <2>2. gauge[<<p, t>>] = 0  BY <2>1 DEF SlotsInit
  <2> QED  BY <1>2, <1>3, <2>2
<1>7. SlotsMatchStreams  BY <1>4, <1>5, <1>6, MatchBySets
<1> QED  BY <1>1, <1>7 DEF SlotsInv

LEMMA SlotsStep == SlotsInv /\ [SlotsNext]_slotVars => SlotsInv'
<1> SUFFICES ASSUME SlotsInv, [SlotsNext]_slotVars PROVE SlotsInv'
  OBVIOUS
<1>1. ASSUME NEW c \in Streams, AcquireSub(c) PROVE SlotsInv'
  BY <1>1, OpenKeeps, RefusedKeeps
<1>2. ASSUME NEW c \in Streams, Swap(c) PROVE SlotsInv'
  BY <1>2, SwapKeeps, LateSwapKeeps
<1>3. CASE UNCHANGED slotVars
  BY <1>3 DEF slotVars, SlotsInv, SlotsTypeOK, StreamsTyped, SlotsMatchStreams, Open, Upgrading
<1> QED
  BY <1>1, <1>2, <1>3, AcquireAddrKeeps, ExitKeeps, CancelledKeeps, RegisterKeeps, FeedKeeps DEF SlotsNext

\* acquireStreamSlots, the release of an exit and the swap under slotMu: every
\* counter is the number of streams that hold it, whichever order they run in,
\* so no slot leaks and none is given back twice.
THEOREM SlotsAreHeld == SlotsSpec => []SlotsMatchStreams
<1>1. SlotsInv => SlotsMatchStreams  BY DEF SlotsInv
<1> QED  BY <1>1, SlotsInitially, SlotsStep, PTL DEF SlotsSpec
=============================================================================
