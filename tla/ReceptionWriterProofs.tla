----------------------- MODULE ReceptionWriterProofs -----------------------
(***************************************************************************)
(* Theorems about ReceptionWriter for every number of copies, every queue  *)
(* capacity and every set of copies ClickHouse refuses.                    *)
(***************************************************************************)
EXTENDS ReceptionWriter, TLAPS

-----------------------------------------------------------------------------
(* The queue's operations *)

\* What a full queue keeps is a batch, shorter by a tenth, and its elements are
\* those that stood a tenth further on (noteReception, tracks.go:335-339).
LEMMA KeepLatestProperties ==
    ASSUME queue \in Batches, Len(queue) >= Cap
    PROVE  /\ KeepLatest \in Batches
           /\ Len(KeepLatest) = Len(queue) - Tenth
           /\ \A i \in 1..Len(KeepLatest) : KeepLatest[i] = queue[i + Tenth]
  BY WriterAssumption DEF KeepLatest, Batches

\* Adding a copy to a batch adds it at the end (noteReception, tracks.go:340).
LEMMA AppendCopy ==
    ASSUME NEW b \in Batches, NEW c \in Copies
    PROVE  /\ Append(b, c) \in Batches
           /\ Len(Append(b, c)) = Len(b) + 1
           /\ \A i \in 1..Len(b) : Append(b, c)[i] = b[i]
           /\ Append(b, c)[Len(b) + 1] = c
  BY DEF Batches

\* A batch holds copies, and one that is not empty has a length.
LEMMA BatchProperties ==
    ASSUME NEW b \in Batches
    PROVE  /\ Len(b) \in Nat
           /\ b # <<>> <=> Len(b) > 0
           /\ DOMAIN b = 1..Len(b)
           /\ Ids(b) \subseteq Copies
  BY DEF Batches, Ids

-----------------------------------------------------------------------------
(* Type correctness *)

\* Returned leaves drain and drainErr typed.
LEMMA ReturnedType ==
    ASSUME TypeOK, NEW f \in Flushers, NEW err \in BOOLEAN, Returned(f, err), f = "drain" => drain \in {1, 2}
    PROVE  drain' \in 0..3 /\ drainErr' \in BOOLEAN
  BY DEF TypeOK, Returned, AfterFlush, Flushers

\* The server's table stays a table of counts.
LEMMA ApplyType ==
    ASSUME TypeOK, NEW t \in Nat, NEW b \in Batches, Apply(t, b)
    PROVE  tokens' \in SUBSET Nat /\ rows' \in [Copies -> Nat]
  BY DEF TypeOK, Apply

\* What type correctness rests on: the drain flushes only while it has a flush
\* to make, and an insert runs only on a batch.
TypeInv ==
    /\ TypeOK
    /\ mu = "drain" => drain \in {1, 2}
    /\ mu # "free" => failed # <<>>

\* TypeInv is an invariant: one step per action.
LEMMA TypeInvariant == Spec => []TypeInv
<1>1. Init => TypeInv
  <2> SUFFICES ASSUME Init PROVE TypeInv
    OBVIOUS
  <2>1. <<>> \in Batches /\ Len(<<>>) <= Cap
    BY WriterAssumption DEF Batches
  <2>2. nextId \in 1..(MaxCopies + 1) /\ refused \in 0..Never
    BY WriterAssumption DEF Init, Never
  <2>3. rows \in [Copies -> Nat]
    BY DEF Init
  <2>4. failed \in Batches /\ queue \in Batches /\ Len(queue) <= Cap
    BY <2>1 DEF Init
  <2>5. token \in Nat /\ dropped \in Nat /\ written \in Nat /\ drain \in 0..3
    BY DEF Init
  <2>6. mu \in Flushers \union {"free"} /\ drainErr \in BOOLEAN /\ broken \in BOOLEAN
    BY DEF Init
  <2>7. tokens \in SUBSET Nat /\ late \in SUBSET Insert
    BY DEF Init
  <2>8. mu = "free"
    BY DEF Init
  <2> QED
    BY <2>2, <2>3, <2>4, <2>5, <2>6, <2>7, <2>8 DEF TypeInv, TypeOK
<1>2. TypeInv /\ [Next]_vars => TypeInv'
  <2> SUFFICES ASSUME TypeInv, [Next]_vars
               PROVE  TypeInv'
    OBVIOUS
  <2> USE DEF TypeInv, TypeOK
  <2>1. CASE Note
    <3>1. nextId \in Copies
      BY <2>1, WriterAssumption DEF Note, Copies
    <3>2. CASE Len(queue) >= Cap
      <4>1. Len(KeepLatest) <= Cap - 1 /\ KeepLatest \in Batches
        BY <3>2, KeepLatestProperties, WriterAssumption, BatchProperties
      <4>a. queue' = Append(KeepLatest, nextId)
        BY <3>2, <2>1 DEF Note
      <4>b. Append(KeepLatest, nextId) \in Batches /\ Len(Append(KeepLatest, nextId)) = Len(KeepLatest) + 1
        BY <4>1, <3>1, AppendCopy
      <4>2. queue' \in Batches /\ Len(queue') <= Cap
        BY <4>1, <4>a, <4>b, WriterAssumption, BatchProperties
      <4>3. dropped' \in Nat
        BY <3>2, <2>1, WriterAssumption DEF Note
      <4> QED
        BY <4>2, <4>3, <2>1, WriterAssumption DEF Note, Copies, serverVars
    <3>3. CASE ~(Len(queue) >= Cap)
      <4>a. queue' = Append(queue, nextId)
        BY <3>3, <2>1 DEF Note
      <4>b. Append(queue, nextId) \in Batches /\ Len(Append(queue, nextId)) = Len(queue) + 1
        BY <3>1, AppendCopy
      <4>1. queue' \in Batches /\ Len(queue') <= Cap
        BY <4>a, <4>b, <3>3, WriterAssumption, BatchProperties
      <4> QED
        BY <4>1, <3>3, <2>1, WriterAssumption DEF Note, Copies, serverVars
    <3> QED
      BY <3>2, <3>3
  <2>2. ASSUME NEW f \in Flushers, FlushNothing(f)
        PROVE  TypeInv'
    <3>1. drain' \in 0..3 /\ drainErr' \in BOOLEAN
      BY <2>2, ReturnedType DEF FlushNothing, Turn
    <3> QED
      BY <3>1, <2>2 DEF FlushNothing, serverVars
  <2>3. ASSUME NEW f \in Flushers, FlushBegin(f)
        PROVE  TypeInv'
    <3>1. mu' = f /\ (f = "drain" => drain \in {1, 2})
      BY <2>3 DEF FlushBegin, Turn
    <3>2. CASE failed # <<>>
      BY <3>1, <3>2, <2>3 DEF FlushBegin, ResendToken, serverVars, Flushers
    <3>3. CASE failed = <<>>
      <4>1. queue' = <<>> /\ <<>> \in Batches /\ Len(<<>>) <= Cap
        BY <3>3, <2>3, WriterAssumption DEF FlushBegin, Batches
      <4>2. refused' = Never /\ broken' = FALSE
        BY <3>3, <2>3 DEF FlushBegin
      <4>3. Never \in 0..Never
        BY WriterAssumption DEF Never
      <4>4. failed' = queue /\ queue # <<>> /\ token' = token + 1
        BY <3>3, <2>3 DEF FlushBegin, NewToken
      <4>5. UNCHANGED <<nextId, dropped, written, drain, drainErr, rows, tokens, late>>
        BY <2>3 DEF FlushBegin, serverVars
      <4> QED
        <5>1. nextId' \in 1..(MaxCopies + 1) /\ token' \in Nat /\ dropped' \in Nat /\ written' \in Nat
          BY <4>4, <4>5
        <5>2. queue' \in Batches /\ Len(queue') <= Cap /\ failed' \in Batches /\ failed' # <<>>
          BY <4>1, <4>4
        <5>3. refused' \in 0..Never /\ broken' \in BOOLEAN
          BY <4>2, <4>3
        <5>4. mu' \in Flushers \union {"free"} /\ (mu' = "drain" => drain' \in {1, 2})
          BY <3>1, <4>5
        <5>5. drain' \in 0..3 /\ drainErr' \in BOOLEAN
          BY <4>5
        <5>6. rows' \in [Copies -> Nat] /\ tokens' \in SUBSET Nat /\ late' \in SUBSET Insert
          BY <4>5
        <5> QED
          BY <5>1, <5>2, <5>3, <5>4, <5>5, <5>6
    <3> QED
      BY <3>2, <3>3
  <2>4. ASSUME NEW f \in Flushers, Written(f)
        PROVE  TypeInv'
    <3>1. drain' \in 0..3 /\ drainErr' \in BOOLEAN
      BY <2>4, ReturnedType DEF Written
    <3>2. tokens' \in SUBSET Nat /\ rows' \in [Copies -> Nat]
      BY <2>4, ApplyType DEF Written
    <3>3. written' \in Nat /\ failed' \in Batches
      BY <2>4, BatchProperties DEF Written, Batches
    <3> QED
      BY <3>1, <3>2, <3>3, <2>4 DEF Written
  <2>5. ASSUME NEW f \in Flushers, Lost(f)
        PROVE  TypeInv'
    <3>1. drain' \in 0..3 /\ drainErr' \in BOOLEAN
      BY <2>5, ReturnedType DEF Lost
    <3>2. late' \in SUBSET Insert
      BY <2>5 DEF Lost, Insert
    <3>3. broken' \in BOOLEAN
      BY <2>5, Zenon DEF Lost
    <3> QED
      BY <3>1, <3>2, <3>3, <2>5 DEF Lost
  <2>6. ASSUME NEW f \in Flushers, Refuse(f)
        PROVE  TypeInv'
    <3>1. drain' \in 0..3 /\ drainErr' \in BOOLEAN
      BY <2>6, ReturnedType DEF Refuse
    <3>2. CASE RefusedTooLong
      <4>1. dropped' \in Nat
        BY <3>2, <2>6, BatchProperties DEF Refuse
      <4>2. failed' = <<>> /\ <<>> \in Batches
        BY <3>2, <2>6 DEF Refuse, Batches
      <4> QED
        BY <4>1, <4>2, <3>1, <3>2, <2>6 DEF Refuse, serverVars
    <3>3. CASE ~RefusedTooLong
      <4>1. refused' \in 0..Never
        BY <3>3, <2>6, WriterAssumption DEF Refuse, Never
      <4> QED
        BY <4>1, <3>1, <3>3, <2>6 DEF Refuse, serverVars
    <3> QED
      BY <3>2, <3>3
  <2>7. CASE LateApply
    <3>1. PICK i \in late : /\ Apply(i.token, i.batch)
                            /\ late' = late \ {i}
                            /\ UNCHANGED <<clientVars, broken>>
      BY <2>7 DEF LateApply
    <3>2. i.token \in Nat /\ i.batch \in Batches
      BY DEF Insert
    <3>3. tokens' \in SUBSET Nat /\ rows' \in [Copies -> Nat]
      BY <3>1, <3>2, ApplyType
    <3> QED
      BY <3>1, <3>3 DEF clientVars
  <2>8. CASE Tick
    BY <2>8, WriterAssumption DEF Tick, Never, serverVars
  <2>9. CASE BeginDrain
    BY <2>9 DEF BeginDrain, serverVars
  <2>10. CASE UNCHANGED vars
    BY <2>10 DEF vars
  <2> QED
    BY <2>1, <2>2, <2>3, <2>4, <2>5, <2>6, <2>7, <2>8, <2>9, <2>10 DEF Next
<1> QED
  BY <1>1, <1>2, PTL DEF Spec

\* Every variable keeps its type and the queue its bound, whatever is refused,
\* lost or applied late (noteReception, flushClickHouse).
THEOREM TypeCorrect == Spec => []TypeOK
<1>1. TypeInv => TypeOK
  BY DEF TypeInv
<1> QED
  BY <1>1, TypeInvariant, PTL

-----------------------------------------------------------------------------
(* The queue and the counters *)

\* The queue holds the latest copies, none missing between them, and every copy
\* is queued, in the batch, counted written or counted dropped.
LedgerInv == QueueHoldsLatest /\ Accounted

\* A copy noted goes behind the copies the queue keeps (noteReception).
LEMMA NoteKeepsLedger ==
    ASSUME TypeInv, LedgerInv, Note
    PROVE  LedgerInv'
<1> USE DEF TypeInv, TypeOK, LedgerInv
<1>1. nextId \in Copies /\ nextId' = nextId + 1 /\ UNCHANGED <<failed, written>>
  BY WriterAssumption DEF Note, Copies
<1>2. CASE Len(queue) >= Cap
  <2>1. /\ KeepLatest \in Batches
        /\ Len(KeepLatest) = Len(queue) - Tenth
        /\ \A i \in 1..Len(KeepLatest) : KeepLatest[i] = queue[i + Tenth]
    BY <1>2, KeepLatestProperties
  <2>2. queue' = Append(KeepLatest, nextId) /\ dropped' = dropped + Tenth
    BY <1>2 DEF Note
  <2>3. /\ queue' \in Batches
        /\ Len(queue') = Len(queue) - Tenth + 1
        /\ \A i \in 1..Len(KeepLatest) : queue'[i] = queue[i + Tenth]
        /\ queue'[Len(queue')] = nextId
    BY <1>1, <2>1, <2>2, AppendCopy
  <2>4. QueueHoldsLatest'
    <3> SUFFICES ASSUME NEW i \in 1..Len(queue')
                 PROVE  queue'[i] = nextId' - 1 - Len(queue') + i
      BY <2>3, BatchProperties DEF QueueHoldsLatest
    <3>1. CASE i = Len(queue')
      BY <3>1, <1>1, <2>3, BatchProperties, WriterAssumption DEF Copies
    <3>2. CASE i # Len(queue')
      <4>1. i \in 1..Len(KeepLatest) /\ i + Tenth \in 1..Len(queue)
        <5>1. Len(queue) \in Nat /\ Tenth \in Nat /\ Len(queue') = Len(queue) - Tenth + 1
          BY <2>3, BatchProperties, WriterAssumption
        <5>2. Len(KeepLatest) = Len(queue) - Tenth
          BY <2>1
        <5> QED
          BY <5>1, <5>2, <3>2
      <4>2. queue[i + Tenth] = nextId - 1 - Len(queue) + (i + Tenth)
        BY <4>1, BatchProperties DEF QueueHoldsLatest
      <4> QED
        BY <4>1, <4>2, <1>1, <2>3, BatchProperties, WriterAssumption DEF Copies
    <3> QED
      BY <3>1, <3>2
  <2>5. Accounted'
    BY <1>1, <2>2, <2>3, BatchProperties, WriterAssumption DEF Accounted
  <2> QED
    BY <2>4, <2>5
<1>3. CASE ~(Len(queue) >= Cap)
  <2>1. queue' = Append(queue, nextId) /\ UNCHANGED dropped
    BY <1>3 DEF Note
  <2>2. /\ queue' \in Batches
        /\ Len(queue') = Len(queue) + 1
        /\ \A i \in 1..Len(queue) : queue'[i] = queue[i]
        /\ queue'[Len(queue')] = nextId
    BY <1>1, <2>1, AppendCopy
  <2>3. QueueHoldsLatest'
    <3> SUFFICES ASSUME NEW i \in 1..Len(queue')
                 PROVE  queue'[i] = nextId' - 1 - Len(queue') + i
      BY <2>2, BatchProperties DEF QueueHoldsLatest
    <3>1. CASE i = Len(queue')
      BY <3>1, <1>1, <2>2, BatchProperties DEF Copies
    <3>2. CASE i # Len(queue')
      <4>1. i \in 1..Len(queue) /\ queue[i] = nextId - 1 - Len(queue) + i
        BY <3>2, <2>2, BatchProperties DEF QueueHoldsLatest
      <4> QED
        BY <4>1, <1>1, <2>2, BatchProperties DEF Copies
    <3> QED
      BY <3>1, <3>2
  <2>4. Accounted'
    BY <1>1, <2>1, <2>2, BatchProperties DEF Accounted
  <2> QED
    BY <2>3, <2>4
<1> QED
  BY <1>2, <1>3

\* LedgerInv is an invariant.
LEMMA LedgerInvariant == Spec => []LedgerInv
<1>1. Init => LedgerInv
  BY DEF Init, LedgerInv, QueueHoldsLatest, Accounted
<1>2. TypeInv /\ LedgerInv /\ [Next]_vars => LedgerInv'
  <2> SUFFICES ASSUME TypeInv, LedgerInv, [Next]_vars
               PROVE  LedgerInv'
    OBVIOUS
  <2> USE DEF TypeInv, TypeOK, LedgerInv
  <2>1. CASE Note
    BY <2>1, NoteKeepsLedger
  <2>2. ASSUME NEW f \in Flushers, FlushBegin(f)
        PROVE  LedgerInv'
    <3>1. CASE failed # <<>>
      BY <3>1, <2>2 DEF FlushBegin, QueueHoldsLatest, Accounted
    <3>2. CASE failed = <<>>
      <4>1. failed' = queue /\ queue' = <<>> /\ UNCHANGED <<nextId, written, dropped>>
        BY <3>2, <2>2 DEF FlushBegin
      <4>2. QueueHoldsLatest'
        BY <4>1 DEF QueueHoldsLatest
      <4>3. Accounted'
        BY <4>1, <3>2, BatchProperties DEF Accounted
      <4> QED
        BY <4>2, <4>3
    <3> QED
      BY <3>1, <3>2
  <2>3. ASSUME NEW f \in Flushers, Written(f)
        PROVE  LedgerInv'
    <3>1. failed' = <<>> /\ written' = written + Len(failed) /\ UNCHANGED <<nextId, queue, dropped>>
      BY <2>3 DEF Written
    <3> QED
      BY <3>1, BatchProperties DEF QueueHoldsLatest, Accounted
  <2>4. ASSUME NEW f \in Flushers, Refuse(f)
        PROVE  LedgerInv'
    <3>1. UNCHANGED <<nextId, queue, written>>
      BY <2>4 DEF Refuse
    <3>2. \/ failed' = <<>> /\ dropped' = dropped + Len(failed)
          \/ UNCHANGED <<failed, dropped>>
      BY <2>4 DEF Refuse
    <3> QED
      BY <3>1, <3>2, BatchProperties DEF QueueHoldsLatest, Accounted
  <2>5. CASE \/ \E f \in Flushers : FlushNothing(f) \/ Lost(f)
             \/ LateApply \/ Tick \/ BeginDrain \/ UNCHANGED vars
    <3>1. UNCHANGED <<nextId, queue, failed, written, dropped>>
      BY <2>5 DEF FlushNothing, Lost, LateApply, Tick, BeginDrain, vars, clientVars
    <3> QED
      BY <3>1 DEF QueueHoldsLatest, Accounted
  <2> QED
    BY <2>1, <2>2, <2>3, <2>4, <2>5 DEF Next
<1> QED
  BY <1>1, <1>2, TypeInvariant, PTL DEF Spec

\* What an outage costs is the oldest copies, and the queue misses none between
\* those it keeps (noteReception, tracks.go:333-334).
THEOREM QueueIsLatest == Spec => []QueueHoldsLatest
<1>1. LedgerInv => QueueHoldsLatest
  BY DEF LedgerInv
<1> QED
  BY <1>1, LedgerInvariant, PTL

\* The counters miss no copy: what is not waiting was counted written or
\* counted dropped (noteReception, flushClickHouse).
THEOREM EveryCopyAccounted == Spec => []Accounted
<1>1. LedgerInv => Accounted
  BY DEF LedgerInv
<1> QED
  BY <1>1, LedgerInvariant, PTL

-----------------------------------------------------------------------------
(* At most one row *)

\* The newest copy that ever left the queue.
Boundary == nextId - 1 - Len(queue)

\* The rows of a copy sent under token t.
Expected(t) == IF t \in tokens THEN 1 ELSE 0

\* Only copies that left the queue were ever sent, under tokens given so far.
SentInv ==
    /\ \A c \in Copies : rows[c] > 0 => c <= Boundary
    /\ \A c \in Ids(failed) : c <= Boundary
    /\ \A i \in late : i.token <= token /\ \A c \in Ids(i.batch) : c <= Boundary
    /\ \A t \in tokens : t <= token

\* A token names one batch, and no copy is in the batches of two tokens.
TokenInv ==
    /\ \A i, j \in late : IF i.token = j.token THEN Ids(i.batch) = Ids(j.batch)
                          ELSE Ids(i.batch) \intersect Ids(j.batch) = {}
    /\ failed # <<>> => \A i \in late : IF i.token = token THEN Ids(i.batch) = Ids(failed)
                                        ELSE Ids(i.batch) \intersect Ids(failed) = {}

\* The rows of every batch the server may still be sent are those of a batch
\* applied once or not at all.
RowInv ==
    /\ \A i \in late : \A c \in Ids(i.batch) : rows[c] = Expected(i.token)
    /\ \A c \in Ids(failed) : rows[c] = Expected(token)
    /\ AtMostOneRow

SafeInv == SentInv /\ TokenInv /\ RowInv

\* Applying a batch whose rows are as expected leaves each of its copies one
\* row and every other copy as it was (insert_deduplication_token).
LEMMA ApplyOnce ==
    ASSUME TypeOK, NEW t \in Nat, NEW b \in Batches, Apply(t, b),
           \A c \in Ids(b) : rows[c] = Expected(t)
    PROVE  /\ \A c \in Ids(b) : rows'[c] = 1
           /\ \A c \in Copies \ Ids(b) : rows'[c] = rows[c]
           /\ tokens' = tokens \union {t}
<1>1. CASE t \in tokens
  BY <1>1, BatchProperties DEF Apply, Expected, TypeOK
<1>2. CASE t \notin tokens
  BY <1>2, BatchProperties DEF Apply, Expected, TypeOK
<1> QED
  BY <1>1, <1>2

\* A step that only moves the boundary up, and sends nothing, keeps SafeInv.
LEMMA BoundaryUp ==
    ASSUME TypeInv, SafeInv, Boundary \in Nat, Boundary' \in Nat, Boundary <= Boundary',
           UNCHANGED <<failed, token, rows, tokens, late>>
    PROVE  SafeInv'
<1>1. SentInv'
  <2>1. ASSUME NEW c \in Copies, c <= Boundary
        PROVE  c <= Boundary'
    BY <2>1 DEF Copies
  <2>2. \A c \in Ids(failed) : c \in Copies
    BY BatchProperties DEF TypeInv, TypeOK
  <2>3. \A i \in late : \A c \in Ids(i.batch) : c \in Copies
    BY BatchProperties DEF TypeInv, TypeOK, Insert
  <2> QED
    BY <2>1, <2>2, <2>3 DEF SafeInv, SentInv
<1>2. TokenInv'
  BY DEF SafeInv, TokenInv
<1>3. RowInv'
  BY DEF SafeInv, RowInv, Expected, AtMostOneRow
<1> QED
  BY <1>1, <1>2, <1>3 DEF SafeInv

\* The boundary is a number of copies (EveryCopyAccounted).
LEMMA BoundaryType ==
    ASSUME TypeInv, LedgerInv
    PROVE  Boundary \in Nat
  BY BatchProperties DEF TypeInv, TypeOK, LedgerInv, Accounted, Boundary

\* The whole queue becomes a batch of copies never sent, under a token never
\* used (flushClickHouse, clickhouse.go:721-732).
LEMMA NewBatchIsSafe ==
    ASSUME TypeInv, LedgerInv, SafeInv, NEW f \in Flushers, FlushBegin(f), failed = <<>>
    PROVE  SafeInv'
<1> USE DEF TypeInv, TypeOK
<1>1. /\ failed' = queue /\ queue' = <<>> /\ token' = token + 1
      /\ UNCHANGED <<nextId, rows, tokens, late>>
  BY DEF FlushBegin, NewToken, serverVars
<1>2. Boundary \in Nat /\ Boundary' = nextId - 1 /\ Boundary <= Boundary'
  BY <1>1, BoundaryType, BatchProperties DEF Boundary
<1>3. \A c \in Ids(queue) : c \in Copies /\ c > Boundary /\ c <= Boundary'
  <2> SUFFICES ASSUME NEW i \in 1..Len(queue)
               PROVE  queue[i] \in Copies /\ queue[i] > Boundary /\ queue[i] <= Boundary'
    BY BatchProperties DEF Ids
  <2>1. queue[i] = Boundary + i
    BY BatchProperties DEF LedgerInv, QueueHoldsLatest, Boundary
  <2>2. queue[i] \in Copies
    BY DEF Batches
  <2> QED
    BY <2>1, <2>2, <1>2, BatchProperties DEF Boundary
<1>4. \A c \in Ids(queue) : rows[c] = 0
  BY <1>2, <1>3 DEF SafeInv, SentInv, Copies
<1>5. \A i \in late : \A c \in Ids(i.batch) : c \in Copies /\ c <= Boundary
  BY BatchProperties DEF Insert, SafeInv, SentInv
<1>6. token' \notin tokens /\ \A i \in late : i.token # token'
  BY <1>1 DEF SafeInv, SentInv, Insert
<1>7. SentInv'
  <2>1. \A c \in Copies : c <= Boundary => c <= Boundary'
    BY <1>2 DEF Copies
  <2>2. \A i \in late : i.token <= token' /\ \A c \in Ids(i.batch) : c <= Boundary'
    BY <1>1, <1>5, <2>1 DEF SafeInv, SentInv, Insert
  <2>3. \A t \in tokens : t <= token'
    BY <1>1 DEF SafeInv, SentInv
  <2>4. \A c \in Copies : rows[c] > 0 => c <= Boundary'
    BY <2>1 DEF SafeInv, SentInv
  <2> QED
    BY <1>1, <1>3, <2>2, <2>3, <2>4 DEF SentInv
<1>8. TokenInv'
  <2>1. \A i \in late : Ids(i.batch) \intersect Ids(queue) = {}
    BY <1>2, <1>3, <1>5 DEF Copies
  <2> QED
    BY <1>1, <1>6, <2>1 DEF SafeInv, TokenInv
<1>9. RowInv'
  <2>1. \A t : Expected(t)' = Expected(t)
    BY <1>1 DEF Expected
  <2> QED
    BY <1>1, <1>4, <1>6, <2>1 DEF SafeInv, RowInv, Expected, AtMostOneRow
<1> QED
  BY <1>7, <1>8, <1>9 DEF SafeInv

\* An answered insert: each copy of the batch has one row and no other copy
\* changed (flushClickHouse, clickhouse.go:735, 761-762).
LEMMA WrittenIsSafe ==
    ASSUME TypeInv, SafeInv, NEW f \in Flushers, Written(f)
    PROVE  SafeInv' /\ \A c \in Ids(failed) : rows'[c] = 1
<1> USE DEF TypeInv, TypeOK
<1>1. /\ failed' = <<>> /\ UNCHANGED <<nextId, queue, token, late>>
      /\ failed # <<>>
  BY DEF Written, Flushers
<1>2. /\ \A c \in Ids(failed) : rows'[c] = 1
      /\ \A c \in Copies \ Ids(failed) : rows'[c] = rows[c]
      /\ tokens' = tokens \union {token}
  BY ApplyOnce DEF Written, SafeInv, RowInv
<1>3. Ids(failed) \subseteq Copies /\ Ids(failed') = {}
  BY <1>1, BatchProperties DEF Ids
<1>4. \A i \in late : i.token \in Nat /\ Ids(i.batch) \subseteq Copies
  BY BatchProperties DEF Insert
<1>5. Boundary' = Boundary
  BY <1>1 DEF Boundary
<1>6. SentInv'
  BY <1>1, <1>2, <1>3, <1>5 DEF SafeInv, SentInv
<1>7. TokenInv'
  BY <1>1 DEF SafeInv, TokenInv
<1>8. ASSUME NEW i \in late, NEW c \in Ids(i.batch)
      PROVE  rows'[c] = Expected(i.token)'
  <2>1. CASE i.token = token
    BY <2>1, <1>1, <1>2 DEF SafeInv, TokenInv, Expected
  <2>2. CASE i.token # token
    <3>1. c \in Copies \ Ids(failed)
      BY <2>2, <1>1, <1>4 DEF SafeInv, TokenInv
    <3> QED
      BY <3>1, <2>2, <1>2 DEF SafeInv, RowInv, Expected
  <2> QED
    BY <2>1, <2>2
<1>9. AtMostOneRow'
  BY <1>2 DEF SafeInv, RowInv, AtMostOneRow
<1>10. RowInv'
  BY <1>1, <1>3, <1>8, <1>9 DEF RowInv
<1> QED
  BY <1>2, <1>6, <1>7, <1>10 DEF SafeInv

\* A lost connection leaves the batch waiting under its token, and the server
\* with an insert of that token to apply or not (flushClickHouse, clickhouse.go:748-750).
LEMMA LostIsSafe ==
    ASSUME TypeInv, SafeInv, NEW f \in Flushers, Lost(f)
    PROVE  SafeInv'
<1> USE DEF TypeInv, TypeOK
<1>1. failed # <<>> /\ UNCHANGED <<nextId, queue, failed, token, rows, tokens>>
  BY DEF Lost, Flushers
<1>2. \A i \in late' : i \in late \/ i = [token |-> token, batch |-> failed]
  BY DEF Lost
<1>3. \A i \in late' : i \in late \/ (i.token = token /\ Ids(i.batch) = Ids(failed))
  BY <1>2
<1>4. Boundary' = Boundary
  BY <1>1 DEF Boundary
<1>5. SentInv'
  BY <1>1, <1>3, <1>4 DEF SafeInv, SentInv
<1>6. TokenInv'
  <2>1. ASSUME NEW i \in late', NEW j \in late'
        PROVE  IF i.token = j.token THEN Ids(i.batch) = Ids(j.batch)
               ELSE Ids(i.batch) \intersect Ids(j.batch) = {}
    BY <1>1, <1>3 DEF SafeInv, TokenInv
  <2>2. ASSUME NEW i \in late'
        PROVE  IF i.token = token THEN Ids(i.batch) = Ids(failed)
               ELSE Ids(i.batch) \intersect Ids(failed) = {}
    BY <1>1, <1>3 DEF SafeInv, TokenInv
  <2> QED
    BY <1>1, <2>1, <2>2 DEF TokenInv
<1>7. RowInv'
  BY <1>1, <1>3 DEF SafeInv, RowInv, Expected, AtMostOneRow
<1> QED
  BY <1>5, <1>6, <1>7 DEF SafeInv

\* A refusal writes nothing (flushClickHouse, clickhouse.go:751-758).
LEMMA RefuseIsSafe ==
    ASSUME TypeInv, SafeInv, NEW f \in Flushers, Refuse(f)
    PROVE  SafeInv'
<1>1. UNCHANGED <<nextId, queue, token, rows, tokens, late>>
  BY DEF Refuse, serverVars
<1>2. failed' = failed \/ (failed' = <<>> /\ Ids(failed') = {})
  BY DEF Refuse, Ids
<1>3. Boundary' = Boundary
  BY <1>1 DEF Boundary
<1>4. SentInv'
  BY <1>1, <1>2, <1>3 DEF SafeInv, SentInv
<1>5. TokenInv'
  BY <1>1, <1>2 DEF SafeInv, TokenInv
<1>6. RowInv'
  BY <1>1, <1>2 DEF SafeInv, RowInv, Expected, AtMostOneRow
<1> QED
  BY <1>4, <1>5, <1>6 DEF SafeInv

\* The server applies an insert the client gave up on: once, or not at all when
\* the batch was resent meanwhile (insert_deduplication_token).
LEMMA LateApplyIsSafe ==
    ASSUME TypeInv, SafeInv, LateApply
    PROVE  SafeInv'
<1> USE DEF TypeInv, TypeOK
<1>1. PICK l \in late : Apply(l.token, l.batch) /\ late' = late \ {l} /\ UNCHANGED clientVars
  BY DEF LateApply
<1>2. UNCHANGED <<nextId, queue, failed, token>>
  BY <1>1 DEF clientVars
<1>3. l.token \in Nat /\ l.batch \in Batches /\ Ids(l.batch) \subseteq Copies /\ Ids(failed) \subseteq Copies
  BY BatchProperties DEF Insert
<1>4. /\ \A c \in Ids(l.batch) : rows'[c] = 1
      /\ \A c \in Copies \ Ids(l.batch) : rows'[c] = rows[c]
      /\ tokens' = tokens \union {l.token}
  BY <1>1, <1>3, ApplyOnce DEF SafeInv, RowInv
<1>5. Boundary' = Boundary
  BY <1>2 DEF Boundary
<1>6. SentInv'
  BY <1>1, <1>2, <1>4, <1>5 DEF SafeInv, SentInv
<1>7. TokenInv'
  BY <1>1, <1>2 DEF SafeInv, TokenInv
<1>8. ASSUME NEW i \in late, NEW c \in Ids(i.batch)
      PROVE  rows'[c] = Expected(i.token)'
  <2>1. CASE i.token = l.token
    BY <2>1, <1>4 DEF SafeInv, TokenInv, Expected
  <2>2. CASE i.token # l.token
    <3>1. c \in Copies \ Ids(l.batch)
      BY <2>2, BatchProperties DEF SafeInv, TokenInv, Insert
    <3> QED
      BY <3>1, <2>2, <1>4 DEF SafeInv, RowInv, Expected
  <2> QED
    BY <2>1, <2>2
<1>9. ASSUME NEW c \in Ids(failed)
      PROVE  rows'[c] = Expected(token)'
  <2>1. failed # <<>>
    BY <1>9 DEF Ids
  <2>2. CASE l.token = token
    BY <2>1, <2>2, <1>2, <1>4 DEF SafeInv, TokenInv, Expected
  <2>3. CASE l.token # token
    <3>1. c \in Copies \ Ids(l.batch)
      BY <2>1, <2>3, <1>3 DEF SafeInv, TokenInv
    <3> QED
      BY <3>1, <2>3, <1>2, <1>4 DEF SafeInv, RowInv, Expected
  <2> QED
    BY <2>2, <2>3
<1>10. AtMostOneRow'
  BY <1>4 DEF SafeInv, RowInv, AtMostOneRow
<1>11. RowInv'
  BY <1>1, <1>2, <1>8, <1>9, <1>10 DEF RowInv
<1> QED
  BY <1>6, <1>7, <1>11 DEF SafeInv

\* SafeInv is an invariant.
LEMMA SafeInvariant == Spec => []SafeInv
<1>1. Init => SafeInv
  BY DEF Init, SafeInv, SentInv, TokenInv, RowInv, AtMostOneRow, Ids
<1>2. TypeInv /\ LedgerInv /\ TypeInv' /\ LedgerInv' /\ SafeInv /\ [Next]_vars => SafeInv'
  <2> SUFFICES ASSUME TypeInv, LedgerInv, TypeInv', LedgerInv', SafeInv, [Next]_vars
               PROVE  SafeInv'
    OBVIOUS
  <2>1. CASE Note
    <3>1. UNCHANGED <<failed, token, rows, tokens, late>>
      BY <2>1 DEF Note, serverVars
    <3>2. Boundary \in Nat /\ Boundary' \in Nat
      <4>1. Boundary \in Nat
        BY BoundaryType
      <4>2. queue' \in Batches /\ nextId' \in Nat /\ nextId' >= 1
        BY DEF TypeInv, TypeOK
      <4>3. Len(queue') \in Nat /\ Len(failed') \in Nat
        BY <4>2, BatchProperties DEF TypeInv, TypeOK
      <4>4. written' \in Nat /\ dropped' \in Nat
        BY DEF TypeInv, TypeOK
      <4>5. nextId' - 1 = Len(queue') + Len(failed') + written' + dropped'
        BY DEF LedgerInv, Accounted
      <4>6. Boundary' \in Nat
        BY <4>2, <4>3, <4>4, <4>5 DEF Boundary
      <4> QED
        BY <4>1, <4>6
    <3>3. Boundary <= Boundary'
      BY <2>1, BatchProperties, WriterAssumption
         DEF Note, TypeInv, TypeOK, LedgerInv, Accounted, Boundary
    <3> QED
      BY <3>1, <3>2, <3>3, BoundaryUp
  <2>2. ASSUME NEW f \in Flushers, FlushBegin(f)
        PROVE  SafeInv'
    <3>1. CASE failed = <<>>
      BY <3>1, <2>2, NewBatchIsSafe
    <3>2. CASE failed # <<>>
      <4>1. UNCHANGED <<nextId, queue, failed, token, rows, tokens, late>>
        BY <3>2, <2>2 DEF FlushBegin, ResendToken, serverVars
      <4> QED
        BY <4>1 DEF SafeInv, SentInv, TokenInv, RowInv, Expected, AtMostOneRow, Boundary
    <3> QED
      BY <3>1, <3>2
  <2>3. ASSUME NEW f \in Flushers, Written(f) \/ Lost(f) \/ Refuse(f)
        PROVE  SafeInv'
    BY <2>3, WrittenIsSafe, LostIsSafe, RefuseIsSafe
  <2>4. CASE LateApply
    BY <2>4, LateApplyIsSafe
  <2>5. CASE (\E f \in Flushers : FlushNothing(f)) \/ Tick \/ BeginDrain \/ UNCHANGED vars
    <3>1. UNCHANGED <<nextId, queue, failed, token, rows, tokens, late>>
      BY <2>5 DEF FlushNothing, Tick, BeginDrain, vars, serverVars
    <3> QED
      BY <3>1 DEF SafeInv, SentInv, TokenInv, RowInv, Expected, AtMostOneRow, Boundary
  <2> QED
    BY <2>1, <2>2, <2>3, <2>4, <2>5 DEF Next
<1> QED
  BY <1>1, <1>2, TypeInvariant, LedgerInvariant, PTL DEF Spec

\* No copy is ever written twice, however inserts are lost, resent, refused and
\* applied late (flushClickHouse resends a batch whole under its token).
THEOREM AtMostOnce == Spec => []AtMostOneRow
<1>1. SafeInv => AtMostOneRow
  BY DEF SafeInv, RowInv
<1> QED
  BY <1>1, SafeInvariant, PTL

\* A batch counted written is in the table, each of its copies once: its token
\* never named another batch (newDedupeToken, clickhouse.go:731).
THEOREM CountedMeansStored == Spec => AnswerMeansStored
<1>1. TypeInv /\ SafeInv /\ [Next]_vars =>
      [written' > written => \A c \in Ids(failed) : rows'[c] = 1]_vars
  <2> SUFFICES ASSUME TypeInv, SafeInv, [Next]_vars, written' > written
               PROVE  \A c \in Ids(failed) : rows'[c] = 1
    OBVIOUS
  <2>1. ASSUME ~ \E f \in Flushers : Written(f)
        PROVE  written' = written
    BY <2>1 DEF Next, Note, FlushNothing, FlushBegin, Lost, Refuse, LateApply, Tick, BeginDrain,
                vars, clientVars
  <2>2. PICK f \in Flushers : Written(f)
    BY <2>1 DEF TypeInv, TypeOK
  <2> QED
    BY <2>2, WrittenIsSafe
<1> QED
  BY <1>1, TypeInvariant, SafeInvariant, PTL DEF Spec, AnswerMeansStored

-----------------------------------------------------------------------------
(* Shutdown's two flushes *)

\* After a first flush without error the batch or the queue is empty, and the
\* insert under way is of all that was left; after the second nothing is.
DrainInv ==
    /\ drain = 2 /\ ~drainErr => /\ failed = <<>> \/ queue = <<>>
                                 /\ mu # "free" => queue = <<>>
    /\ DrainLeavesNothing

\* DrainInv is an invariant: the first flush may resend a batch and leave the
\* queue, which the second, or the ticker's between them, takes whole.
LEMMA DrainInvariant == Spec => []DrainInv
<1>1. Init => DrainInv
  BY DEF Init, DrainInv, DrainLeavesNothing
<1>2. TypeInv /\ DrainInv /\ [Next]_vars => DrainInv'
  <2> SUFFICES ASSUME TypeInv, DrainInv, [Next]_vars
               PROVE  DrainInv'
    OBVIOUS
  <2> USE DEF DrainInv, DrainLeavesNothing
  <2>1. CASE Note \/ BeginDrain
    BY <2>1 DEF Note, BeginDrain
  <2>2. ASSUME NEW f \in Flushers, FlushNothing(f)
        PROVE  DrainInv'
    BY <2>2 DEF FlushNothing
  <2>3. ASSUME NEW f \in Flushers, FlushBegin(f)
        PROVE  DrainInv'
    <3>1. UNCHANGED <<drain, drainErr>> /\ drain # 3
      BY <2>3 DEF FlushBegin, Turn, Flushers, TypeInv, TypeOK
    <3>2. CASE failed = <<>>
      BY <3>1, <3>2, <2>3 DEF FlushBegin
    <3>3. CASE failed # <<>>
      BY <3>1, <3>3, <2>3 DEF FlushBegin
    <3> QED
      BY <3>2, <3>3
  <2>4. ASSUME NEW f \in Flushers, Written(f)
        PROVE  DrainInv'
    <3>1. failed' = <<>> /\ mu' = "free" /\ mu = f /\ queue' = queue /\ Returned(f, FALSE)
      BY <2>4 DEF Written
    <3>2. failed # <<>>
      BY <3>1 DEF Flushers, TypeInv
    <3>3. ~drainErr' => ~drainErr
      BY <3>1 DEF Returned
    <3>4. CASE f = "ticker"
      BY <3>1, <3>2, <3>3, <3>4 DEF Returned, AfterFlush
    <3>5. CASE f = "drain"
      <4>1. drain \in {1, 2} /\ drain' = (IF drain = 2 THEN 3 ELSE drain + 1)
        BY <3>1, <3>5 DEF Returned, AfterFlush, TypeInv
      <4> QED
        BY <4>1, <3>1, <3>3, <3>5
    <3> QED
      BY <3>4, <3>5 DEF Flushers
  <2>5. ASSUME NEW f \in Flushers, Lost(f) \/ Refuse(f)
        PROVE  DrainInv'
    <3>1. mu' = "free" /\ mu = f /\ queue' = queue /\ Returned(f, TRUE) /\ failed' \in {failed, <<>>}
      BY <2>5 DEF Lost, Refuse
    <3>2. failed # <<>>
      BY <3>1 DEF Flushers, TypeInv
    <3>3. CASE f = "ticker"
      <4>1. drain' = drain
        BY <3>1, <3>3 DEF Returned, AfterFlush
      <4>2. drainErr' = (drainErr \/ FALSE)
        BY <3>1, <3>3 DEF Returned
      <4> QED
        BY <4>1, <4>2, <3>1, <3>2, <3>3
    <3>4. CASE f = "drain"
      <4>1. drainErr'
        BY <3>1, <3>4 DEF Returned
      <4> QED
        BY <4>1
    <3> QED
      BY <3>3, <3>4 DEF Flushers
  <2>6. CASE LateApply \/ Tick \/ UNCHANGED vars
    <3>1. UNCHANGED <<queue, failed, mu, drain, drainErr>>
      BY <2>6 DEF LateApply, Tick, vars, clientVars
    <3> QED
      BY <3>1
  <2> QED
    BY <2>1, <2>2, <2>3, <2>4, <2>5, <2>6 DEF Next
<1> QED
  BY <1>1, <1>2, TypeInvariant, PTL DEF Spec

\* drainClickHouse returning no error means nothing is left to send, whatever
\* the ticker flushed between its two flushes (clickhouse.go:688).
THEOREM DrainIsComplete == Spec => []DrainLeavesNothing
<1>1. DrainInv => DrainLeavesNothing
  BY DEF DrainInv
<1> QED
  BY <1>1, DrainInvariant, PTL
=============================================================================
