-------------------------- MODULE ReceptionWriter --------------------------
(***************************************************************************)
(* The ClickHouse writer of src/server/clickhouse.go and tracks.go: a      *)
(* bounded queue of reception copies, the batch under way with its         *)
(* deduplication token, the flush each second, the two flushes of          *)
(* shutdown, and the server's table, which skips a token it has seen.      *)
(*                                                                         *)
(* Copies are numbered in the order noteReception gets them.  The model    *)
(* starts at attachClickHouse.  The server keeps every token (it keeps the *)
(* last 1000, far more than can wait here).                                *)
(***************************************************************************)
EXTENDS Naturals, Sequences, FiniteSets

CONSTANTS
    MaxCopies,  \* bound on copies
    Cap,        \* maxPending
    Tenth,      \* maxPending / 10, what a full queue gives up
    RefuseFor,  \* chRefuseFor, in ticks
    Poison      \* copies in whose batch ClickHouse finds something to refuse

Copies == 1..MaxCopies

ASSUME WriterAssumption ==
    /\ MaxCopies \in Nat
    /\ Cap \in Nat /\ Tenth \in 1..Cap
    /\ RefuseFor \in Nat \ {0}
    /\ Poison \subseteq Copies

Flushers == {"ticker", "drain"}
Never == RefuseFor + 1      \* c.refused is the zero time
Batches == Seq(Copies)
Insert == [token : Nat, batch : Batches]

VARIABLES
    nextId,     \* the next copy
    queue,      \* Pipeline.chQueue
    failed,     \* chStore.failed, the batch under way or waiting to be resent
    token,      \* chStore.token
    refused,    \* ticks since chStore.refused, up to RefuseFor; Never when unset
    mu,         \* who holds chStore.mu through an insert, or "free"
    dropped,    \* chStore.dropped
    written,    \* chStore.written
    drain,      \* shutdown's flushes: 0 not begun, 1 or 2 the next, 3 returned
    drainErr,   \* what drainClickHouse returned is an error of the receptions
    rows,       \* the table: copy -> its rows
    tokens,     \* the tokens the server has seen
    late,       \* inserts the client gave up on that the server may yet apply
    broken      \* history: a connection failed or timed out since refused was set

clientVars == <<nextId, queue, failed, token, refused, mu, dropped, written, drain, drainErr>>
serverVars == <<rows, tokens, late>>
vars == <<nextId, queue, failed, token, refused, mu, dropped, written, drain, drainErr,
          rows, tokens, late, broken>>

Init ==
    /\ nextId = 1
    /\ queue = <<>>
    /\ failed = <<>>
    /\ token = 0
    /\ refused = Never
    /\ mu = "free"
    /\ dropped = 0
    /\ written = 0
    /\ drain = 0
    /\ drainErr = FALSE
    /\ rows = [c \in Copies |-> 0]
    /\ tokens = {}
    /\ late = {}
    /\ broken = FALSE

Ids(b) == {b[i] : i \in DOMAIN b}

-----------------------------------------------------------------------------
(* The queue *)

\* Mutant: a full queue gives up its newest.
KeepOldest == SubSeq(queue, 1, Len(queue) - Tenth)

\* Mutant: the full queue gives up nothing.
KeepAll == queue

\* What a full queue keeps.
KeepLatest == SubSeq(queue, Tenth + 1, Len(queue))

\* noteReception: a full queue gives up its oldest tenth and counts it dropped.
\* Intake is closed before shutdown drains.
Note ==
    /\ drain = 0
    /\ nextId <= MaxCopies
    /\ nextId' = nextId + 1
    /\ IF Len(queue) >= Cap
       THEN /\ queue' = Append(KeepLatest, nextId)
            /\ dropped' = dropped + Tenth
       ELSE /\ queue' = Append(queue, nextId)
            /\ UNCHANGED dropped
    /\ UNCHANGED <<failed, token, refused, mu, written, drain, drainErr, serverVars, broken>>

-----------------------------------------------------------------------------
(* The flush: one insert, with chMu free while it runs *)

\* Mutant: the token outlives its batch.
SameToken == token

\* Mutant: a resent batch goes under a token of its own.
TokenEachTime == token + 1

\* newDedupeToken.
NewToken == token + 1

\* The token a batch waiting to be resent goes under.
ResendToken == token

\* The two flushes drainClickHouse makes stop at the first error; the ticker's
\* go on until the process exits.
Turn(f) == IF f = "drain" THEN drain \in {1, 2} ELSE drain < 3

\* Mutant: shutdown flushes once.
AfterFlushOnce(f, err) == IF f = "drain" THEN 3 ELSE drain

\* drainClickHouse's loop after a flush.
AfterFlush(f, err) ==
    IF f = "ticker" THEN drain
    ELSE IF err \/ drain = 2 THEN 3 ELSE drain + 1

Returned(f, err) ==
    /\ drain' = AfterFlush(f, err)
    /\ drainErr' = (drainErr \/ (f = "drain" /\ err))

\* flushClickHouse with nothing failed and nothing queued.
FlushNothing(f) ==
    /\ Turn(f) /\ mu = "free"
    /\ failed = <<>> /\ queue = <<>>
    /\ Returned(f, FALSE)
    /\ UNCHANGED <<nextId, queue, failed, token, refused, mu, dropped, written, serverVars, broken>>

\* flushClickHouse up to the insert: the failed batch as it was, or else the
\* whole queue under a new token.
FlushBegin(f) ==
    /\ Turn(f) /\ mu = "free"
    /\ mu' = f
    /\ \/ /\ failed # <<>>
          /\ token' = ResendToken
          /\ UNCHANGED <<queue, failed, refused, broken>>
       \/ /\ failed = <<>> /\ queue # <<>>
          /\ failed' = queue
          /\ queue' = <<>>
          /\ token' = NewToken
          /\ refused' = Never
          /\ broken' = FALSE
    /\ UNCHANGED <<nextId, dropped, written, drain, drainErr, serverVars>>

\* The server's side of an insert: a token seen before is skipped.
Apply(t, b) ==
    /\ tokens' = tokens \union {t}
    /\ rows' = IF t \in tokens THEN rows
               ELSE [c \in Copies |-> rows[c] + (IF c \in Ids(b) THEN 1 ELSE 0)]

\* The insert is answered: the batch is written.
Written(f) ==
    /\ mu = f
    /\ Ids(failed) \intersect Poison = {}
    /\ Apply(token, failed)
    /\ written' = written + Len(failed)
    /\ failed' = <<>>
    /\ mu' = "free"
    /\ Returned(f, FALSE)
    /\ UNCHANGED <<nextId, queue, token, refused, dropped, late, broken>>

\* The connection fails or chInsertTimeout passes: the batch waits, and the
\* server may still apply what it was sent.
Lost(f) ==
    /\ mu = f
    /\ late' = IF Ids(failed) \intersect Poison = {} THEN late \union {[token |-> token, batch |-> failed]} ELSE late
    /\ broken' = (refused # Never)
    /\ mu' = "free"
    /\ Returned(f, TRUE)
    /\ UNCHANGED <<nextId, queue, failed, token, refused, dropped, written, rows, tokens>>

\* Mutant: a refused batch is resent for ever.
NeverOverdue == FALSE

\* The batch has been refused since chRefuseFor ago.
RefusedTooLong == refused # Never /\ refused >= RefuseFor

\* The server answers with an exception: the batch is dropped once it was first
\* refused chRefuseFor ago, or waits.
Refuse(f) ==
    /\ mu = f
    /\ IF RefusedTooLong
       THEN /\ dropped' = dropped + Len(failed)
            /\ failed' = <<>>
            /\ UNCHANGED refused
       ELSE /\ refused' = IF refused = Never THEN 0 ELSE refused
            /\ UNCHANGED <<dropped, failed>>
    /\ mu' = "free"
    /\ Returned(f, TRUE)
    /\ UNCHANGED <<nextId, queue, token, written, serverVars, broken>>

\* The server gets to an insert the client gave up on.
LateApply ==
    \E i \in late :
        /\ Apply(i.token, i.batch)
        /\ late' = late \ {i}
        /\ UNCHANGED <<clientVars, broken>>

\* Time passes for the refusal clock.
Tick ==
    /\ refused < RefuseFor
    /\ refused' = refused + 1
    /\ UNCHANGED <<nextId, queue, failed, token, mu, dropped, written, drain, drainErr, serverVars, broken>>

\* main's shutdown reaches drainClickHouse; intake was closed before.
BeginDrain ==
    /\ drain = 0
    /\ drain' = 1
    /\ UNCHANGED <<nextId, queue, failed, token, refused, mu, dropped, written, drainErr, serverVars, broken>>

Answer(f) == Written(f) \/ Lost(f) \/ Refuse(f)

Next ==
    \/ Note
    \/ \E f \in Flushers : FlushNothing(f) \/ FlushBegin(f) \/ Written(f) \/ Lost(f) \/ Refuse(f)
    \/ LateApply \/ Tick \/ BeginDrain

Spec == Init /\ [][Next]_vars

(* Fairness: the ticker flushes, every insert ends (it has a timeout), time *)
(* passes, and the server is not down for ever: an insert tried again and   *)
(* again is at some point answered, with its rows or with a refusal.        *)
Fairness ==
    /\ WF_vars(FlushBegin("ticker"))
    /\ \A f \in Flushers : WF_vars(Answer(f)) /\ SF_vars(Written(f) \/ Refuse(f))
    /\ WF_vars(Tick)

FairSpec == Spec /\ Fairness

-----------------------------------------------------------------------------
(* Properties *)

\* Every variable has its type, and the queue its bound.
TypeOK ==
    /\ nextId \in 1..(MaxCopies + 1)
    /\ queue \in Batches /\ Len(queue) <= Cap
    /\ failed \in Batches
    /\ token \in Nat
    /\ refused \in 0..Never
    /\ mu \in Flushers \union {"free"}
    /\ dropped \in Nat /\ written \in Nat
    /\ drain \in 0..3 /\ drainErr \in BOOLEAN
    /\ rows \in [Copies -> Nat]
    /\ tokens \in SUBSET Nat
    /\ late \in SUBSET Insert
    /\ broken \in BOOLEAN

\* A copy has at most one row, however often its batch was sent, answered late
\* or applied behind the client's back (clickhouse.go:5-9, 708-709).
AtMostOneRow == \A c \in Copies : rows[c] <= 1

\* Every copy noted is queued, in the batch, counted written or counted
\* dropped: the counters the metrics show miss none (tracks.go:333-339,
\* clickhouse.go:754-761).
Accounted == nextId - 1 = Len(queue) + Len(failed) + written + dropped

\* The queue holds the latest copies, none missing between them, so what an
\* outage costs is the oldest (tracks.go:333-334).
QueueHoldsLatest == \A i \in DOMAIN queue : queue[i] = nextId - 1 - Len(queue) + i

\* drainClickHouse returning no error means nothing is left to send, whatever
\* the ticker's flush was doing meanwhile (clickhouse.go:688).
DrainLeavesNothing == drain = 3 /\ ~drainErr => queue = <<>> /\ failed = <<>>

\* A batch counted written is in the table, each copy once: no token ever stood
\* for another batch the server had already skipped to (clickhouse.go:294-298).
AnswerMeansStored ==
    [][written' > written => \A c \in Ids(failed) : rows'[c] = 1]_vars

\* A batch ClickHouse refuses every time cannot stop the batches after it
\* (clickhouse.go:626-627): every copy queued is at some point written or
\* dropped, unless the process stops first.
QueuedCopiesLeave ==
    \A c \in Copies : c \in Ids(queue) ~> (c \notin Ids(queue) \union Ids(failed) \/ drain # 0)

\* What the comment on chRefuseFor states: lost connections and timeouts never
\* count (clickhouse.go:628-629).  A batch is dropped only when every answer of
\* the last chRefuseFor was a refusal.
OutagesNeverCount == [][dropped' > dropped /\ failed' # failed => ~broken]_vars
=============================================================================
