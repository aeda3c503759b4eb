------------------------------ MODULE Archive ------------------------------
(***************************************************************************)
(* The reception archive of src/server/archive.go: a bounded queue, one    *)
(* writer goroutine with an hourly gzip file per stream, rotation on the   *)
(* reception clock, one upload goroutine per closed hour, and the sweep    *)
(* that reconciles the local tree with the bucket and deletes from disk.   *)
(*                                                                         *)
(* One stream is modelled, so an hour names a file and its object key.  A  *)
(* file is the sequence of what was written to it: Header when a gzip      *)
(* member starts, the receptions of the member, Footer when it is closed.  *)
(* Its length stands for its size in bytes and <<>> for a file or an       *)
(* object that is not there (a file has its header from the call that      *)
(* creates it).                                                            *)
(***************************************************************************)
EXTENDS Naturals, Sequences, FiniteSets

CONSTANTS
    MaxHour,        \* bound: hours 0..MaxHour
    HourLen,        \* ticks in an hour
    HourGrace,      \* hourGrace, in ticks
    ArchiveGrace,   \* archiveGrace, in ticks
    QueueCap,       \* capacity of archive.ch
    MaxLag,         \* how long after its receive time a reception is written
    Blocking,       \* TRUE: the raw archive (write); FALSE: the access log (offer)
    MaxReceptions,  \* bound on receptions
    MaxTime,        \* bound on the clock
    MaxStops        \* bound on crashes and restarts

Hours == 0..MaxHour

ASSUME ArchiveAssumption ==
    /\ MaxHour \in Nat
    /\ HourLen \in Nat \ {0}
    /\ HourGrace \in Nat
    /\ ArchiveGrace \in Nat
    /\ QueueCap \in Nat \ {0}
    /\ MaxLag \in Nat
    /\ Blocking \in BOOLEAN
    /\ MaxReceptions \in Nat
    /\ MaxTime \in Nat
    /\ MaxStops \in Nat
    /\ MaxTime \div HourLen <= MaxHour

(* The comment on archiveGrace: receive time is our own clock, so nothing  *)
(* reopens an hour this old.                                               *)
ASSUME GraceCoversReopening == ArchiveGrace >= HourLen + MaxLag

Receptions == 1..MaxReceptions
Header == 0
Footer == MaxReceptions + 1
Contents == Seq(0..(MaxReceptions + 1))
QueuedReception == [id : Receptions, recv : 0..MaxTime]

VARIABLES
    now,            \* wall clock
    nextId,         \* the id of the next reception
    admitted,       \* the reception a producer holds inside admit/release, or <<>>
    closing,        \* Pipeline.closing
    offersClosed,   \* archive.offersClosed
    proc,           \* "up", "drain" (the writer answers done), "drained" (it has), "down"
    stops,          \* crashes and clean stops so far
    queue,          \* archive.ch
    open,           \* the hours in run's files map
    buf,            \* hour -> what the gzip writer has not written out
    disk,           \* hour -> the file's content
    mtime,          \* hour -> the file's modification time
    latest,         \* archive.latest
    nextClose,      \* archive.nextClose, 0 when unset
    holds,          \* archive.holds
    uploads,        \* hour -> upload goroutines of the hour, waiting or running
    lock,           \* hour -> who holds the key's putLock
    putting,        \* hour -> the bytes the put under way reads
    bucket,         \* hour -> the object's content
    sweep           \* the sweep: where it is and what it saw of the file

intakeVars == <<nextId, admitted, closing, offersClosed>>
writerVars == <<queue, open, buf, latest, nextClose>>
fileVars == <<disk, mtime>>
uploadVars == <<uploads, lock, putting, bucket>>
vars == <<now, nextId, admitted, closing, offersClosed, proc, stops, queue, open, buf,
          disk, mtime, latest, nextClose, holds, uploads, lock, putting, bucket, sweep>>

HourOf(recv) == recv \div HourLen
CloseTime(h) == (h + 1) * HourLen + HourGrace
Ids(c) == {c[i] : i \in DOMAIN c} \intersect Receptions
IdleSweep == [pc |-> "idle", hour |-> 0, began |-> 0, size |-> 0, mtime |-> 0, stored |-> 0]
Up == proc # "down"
Writing == proc \in {"up", "drain"}

Init ==
    /\ now = 0
    /\ nextId = 1
    /\ admitted = <<>>
    /\ closing = FALSE
    /\ offersClosed = FALSE
    /\ proc = "up"
    /\ stops = 0
    /\ queue = <<>>
    /\ open = {}
    /\ buf = [h \in Hours |-> <<>>]
    /\ disk = [h \in Hours |-> <<>>]
    /\ mtime = [h \in Hours |-> 0]
    /\ latest = 0
    /\ nextClose = 0
    /\ holds = [h \in Hours |-> 0]
    /\ uploads = [h \in Hours |-> 0]
    /\ lock = [h \in Hours |-> "free"]
    /\ putting = [h \in Hours |-> <<>>]
    /\ bucket = [h \in Hours |-> <<>>]
    /\ sweep = IdleSweep

-----------------------------------------------------------------------------
(* Producers *)

\* Pipeline.admit: refused once closing is set; order admits one reception at a
\* time and stamps it inside the lock.
Admit ==
    /\ Blocking /\ proc = "up" /\ ~closing
    /\ admitted = <<>>
    /\ nextId <= MaxReceptions
    /\ admitted' = <<[id |-> nextId, recv |-> now]>>
    /\ nextId' = nextId + 1
    /\ UNCHANGED <<now, closing, offersClosed, proc, stops, writerVars, fileVars, holds, uploadVars, sweep>>

\* archive.write: waits for room in the queue; then Pipeline.release.
Write ==
    /\ Up /\ admitted # <<>>
    /\ Len(queue) < QueueCap
    /\ queue' = queue \o admitted
    /\ admitted' = <<>>
    /\ UNCHANGED <<now, nextId, closing, offersClosed, proc, stops, open, buf, latest, nextClose,
                   fileVars, holds, uploadVars, sweep>>

\* archive.offer: the receive time is when the response ended, which concurrent
\* handlers offer out of order.  A full or closed queue drops the line, which
\* leaves the state as it is.
Offer ==
    /\ ~Blocking /\ Up /\ ~offersClosed
    /\ Len(queue) < QueueCap
    /\ nextId <= MaxReceptions
    /\ \E recv \in 0..now :
          /\ now - recv <= MaxLag
          /\ queue' = Append(queue, [id |-> nextId, recv |-> recv])
    /\ nextId' = nextId + 1
    /\ UNCHANGED <<now, admitted, closing, offersClosed, proc, stops, open, buf, latest, nextClose,
                   fileVars, holds, uploadVars, sweep>>

-----------------------------------------------------------------------------
(* The writer goroutine *)

\* Mutant: an owner flag instead of a count.
HeldOnce(h) == [holds EXCEPT ![h] = 1]

\* archive.hold.
Held(h) == [holds EXCEPT ![h] = @ + 1]

Least(S) == CHOOSE x \in S : \A y \in S : x <= y

\* Mutant: nextClose is cleared and not recomputed over the hours still open.
NoneLeft(S) == 0

\* The earliest close time of these hours, 0 when there are none.
Earliest(S) == IF S = {} THEN 0 ELSE Least({CloseTime(h) : h \in S})

\* archive.open when the hour has no writer: the file gets its gzip header.
Opened(h) == IF h \in open THEN disk[h] ELSE Append(disk[h], Header)

\* The hours rotate closes when the newest receive time becomes l.
Due(opens, close, l) ==
    IF close = 0 \/ l < close THEN {} ELSE {h \in opens : CloseTime(h) <= l}

\* archive.handle with its deferred rotate.  An hour is opened and held if it
\* has no writer; the line goes to the gzip buffer; every hour past its grace
\* is finished, and its upload goroutine starts with the hold still counted.
Handle ==
    /\ Writing /\ queue # <<>>
    /\ LET rx == Head(queue)
           hr == HourOf(rx.recv)
           opens == open \union {hr}
           close == IF hr \notin open /\ (nextClose = 0 \/ CloseTime(hr) < nextClose)
                    THEN CloseTime(hr) ELSE nextClose
           l == IF rx.recv > latest THEN rx.recv ELSE latest
           due == Due(opens, close, l)
           filled == [buf EXCEPT ![hr] = Append(@, rx.id)]
           touched == [disk EXCEPT ![hr] = Opened(hr)]
       IN  /\ open' = opens \ due
           /\ buf' = [h \in Hours |-> IF h \in due THEN <<>> ELSE filled[h]]
           /\ disk' = [h \in Hours |-> IF h \in due THEN touched[h] \o Append(filled[h], Footer)
                                       ELSE touched[h]]
           /\ mtime' = [h \in Hours |-> IF h \in due \/ (h = hr /\ hr \notin open) THEN now ELSE mtime[h]]
           /\ latest' = l
           /\ nextClose' = IF close = 0 \/ l < close THEN close ELSE Earliest(opens \ due)
           /\ holds' = IF hr \in open THEN holds ELSE Held(hr)
           /\ uploads' = [h \in Hours |-> IF h \in due THEN uploads[h] + 1 ELSE uploads[h]]
    /\ queue' = Tail(queue)
    /\ UNCHANGED <<now, intakeVars, proc, stops, lock, putting, bucket, sweep>>

\* The flush tick: every open file gets what its gzip writer holds, and a sync
\* marker that moves its modification time even when that is nothing.
Flush ==
    /\ proc = "up" /\ open # {}
    /\ \E h \in open : buf[h] # <<>> \/ mtime[h] # now
    /\ disk' = [h \in Hours |-> disk[h] \o buf[h]]
    /\ mtime' = [h \in Hours |-> IF h \in open THEN now ELSE mtime[h]]
    /\ buf' = [h \in Hours |-> <<>>]
    /\ UNCHANGED <<now, intakeVars, proc, stops, queue, open, latest, nextClose, holds, uploadVars, sweep>>

-----------------------------------------------------------------------------
(* Uploads and the bucket *)

\* withKey in the goroutine archive.close started: put opens the file when its
\* turn comes.
UploadStart(h) ==
    /\ Up /\ uploads[h] > 0 /\ lock[h] = "free"
    /\ lock' = [lock EXCEPT ![h] = "upload"]
    /\ putting' = [putting EXCEPT ![h] = disk[h]]
    /\ UNCHANGED <<now, intakeVars, proc, stops, writerVars, fileVars, holds, uploads, bucket, sweep>>

\* objectStore.put: applied or not; an error may hide a put the store applied.
Stored(h, applied) == bucket' = [bucket EXCEPT ![h] = IF applied THEN putting[h] ELSE @]

\* Mutant: a failed put returns before the release.
ReleasedOnSuccess(h, applied) == IF applied THEN [holds EXCEPT ![h] = @ - 1] ELSE holds

\* The deferred archive.release.
Released(h, applied) == [holds EXCEPT ![h] = @ - 1]

\* The put returns; the key is unlocked and the hold released, whatever it returned.
UploadEnd(h, applied) ==
    /\ Up /\ lock[h] = "upload"
    /\ Stored(h, applied)
    /\ lock' = [lock EXCEPT ![h] = "free"]
    /\ putting' = [putting EXCEPT ![h] = <<>>]
    /\ uploads' = [uploads EXCEPT ![h] = @ - 1]
    /\ holds' = Released(h, applied)
    /\ UNCHANGED <<now, intakeVars, proc, stops, writerVars, fileVars, sweep>>

-----------------------------------------------------------------------------
(* The sweep goroutine: one file of the walk at a time *)

SweepFrame == <<now, intakeVars, proc, stops, writerVars, mtime, holds, uploads>>

SweepStart ==
    /\ Up /\ sweep.pc = "idle"
    /\ sweep' = [IdleSweep EXCEPT !.pc = "visit", !.began = now]
    /\ UNCHANGED <<SweepFrame, disk, lock, putting, bucket>>

\* The walk goes on to the next file, or the sweep ends.
NextFile(s) == IF s.hour = MaxHour THEN IdleSweep
               ELSE [IdleSweep EXCEPT !.pc = "visit", !.hour = s.hour + 1, !.began = s.began]

\* Info, then isHeld: a file that is gone or held is passed over.
SweepVisit ==
    /\ Up /\ sweep.pc = "visit"
    /\ LET h == sweep.hour
       IN  sweep' = IF disk[h] = <<>> \/ holds[h] > 0 THEN NextFile(sweep)
                    ELSE [sweep EXCEPT !.pc = "head", !.size = Len(disk[h]), !.mtime = mtime[h]]
    /\ UNCHANGED <<SweepFrame, disk, lock, putting, bucket>>

\* Mutant: the grace is forgotten.
NeverRecent == FALSE

\* A file modified inside archiveGrace when the sweep began is not deleted.
Recent == sweep.mtime + ArchiveGrace > sweep.began

\* The bucket holds these bytes: delete them, or leave a recent file.
AfterStored == IF Recent THEN NextFile(sweep) ELSE [sweep EXCEPT !.pc = "stat"]

\* objectStore.size answers: a larger object is left for a human, a shorter or
\* missing one is uploaded first.
SweepHead ==
    /\ Up /\ sweep.pc = "head"
    /\ LET stored == Len(bucket[sweep.hour])
       IN  sweep' = IF stored > sweep.size THEN NextFile(sweep)
                    ELSE IF stored < sweep.size THEN [sweep EXCEPT !.pc = "put", !.stored = stored]
                    ELSE AfterStored
    /\ UNCHANGED <<SweepFrame, disk, lock, putting, bucket>>

\* objectStore.size fails: the file is left to the next sweep.
SweepHeadFails ==
    /\ Up /\ sweep.pc = "head"
    /\ sweep' = NextFile(sweep)
    /\ UNCHANGED <<SweepFrame, disk, lock, putting, bucket>>

\* withKey: the sweep's upload waits for a rotation upload of the same key.
SweepPut ==
    /\ Up /\ sweep.pc = "put" /\ lock[sweep.hour] = "free"
    /\ lock' = [lock EXCEPT ![sweep.hour] = "sweep"]
    /\ putting' = [putting EXCEPT ![sweep.hour] = disk[sweep.hour]]
    /\ sweep' = [sweep EXCEPT !.pc = "putting"]
    /\ UNCHANGED <<SweepFrame, disk, bucket>>

\* Mutant: the put's error is not looked at.
AfterAnyPut(ok) == AfterStored

\* Only a put that reported success goes on to the delete.
AfterPut(ok) == IF ok THEN AfterStored ELSE NextFile(sweep)

SweepPutEnd(applied, ok) ==
    /\ Up /\ sweep.pc = "putting"
    /\ ok => applied
    /\ Stored(sweep.hour, applied)
    /\ lock' = [lock EXCEPT ![sweep.hour] = "free"]
    /\ putting' = [putting EXCEPT ![sweep.hour] = <<>>]
    /\ sweep' = AfterPut(ok)
    /\ UNCHANGED <<SweepFrame, disk>>

\* Only the bytes that went up may be deleted: the file is looked at again.
SweepStat ==
    /\ Up /\ sweep.pc = "stat"
    /\ LET h == sweep.hour
       IN  sweep' = IF Len(disk[h]) # sweep.size \/ mtime[h] # sweep.mtime THEN NextFile(sweep)
                    ELSE [sweep EXCEPT !.pc = "remove"]
    /\ UNCHANGED <<SweepFrame, disk, lock, putting, bucket>>

\* os.Remove, a step after the look that allowed it; it may fail.
SweepRemove ==
    /\ Up /\ sweep.pc = "remove"
    /\ disk' \in {disk, [disk EXCEPT ![sweep.hour] = <<>>]}
    /\ sweep' = NextFile(sweep)
    /\ UNCHANGED <<SweepFrame, lock, putting, bucket>>

-----------------------------------------------------------------------------
(* The clock and the process *)

\* Receptions are written within MaxLag of their receive time.
Tick ==
    /\ now < MaxTime
    /\ \A i \in DOMAIN queue : now + 1 - queue[i].recv <= MaxLag
    /\ \A i \in DOMAIN admitted : now + 1 - admitted[i].recv <= MaxLag
    /\ now' = now + 1
    /\ UNCHANGED <<intakeVars, proc, stops, writerVars, fileVars, holds, uploadVars, sweep>>

\* Pipeline.closeArchives: intake is refused first.
BeginClose ==
    /\ proc = "up" /\ ~closing /\ stops < MaxStops
    /\ closing' = TRUE
    /\ UNCHANGED <<now, nextId, admitted, offersClosed, proc, stops, writerVars, fileVars, holds, uploadVars, sweep>>

\* Mutant: shutdown does not wait for receptions in flight.
NoWait == TRUE

\* intake.Lock returns: no producer is between admit and release.
IntakeDrained == admitted = <<>>

\* archive.shutdown first refuses offers; the raw archive's waits for IntakeDrained.
CloseOffers ==
    /\ proc = "up" /\ closing /\ ~offersClosed
    /\ IntakeDrained
    /\ offersClosed' = TRUE
    /\ UNCHANGED <<now, nextId, admitted, closing, proc, stops, writerVars, fileVars, holds, uploadVars, sweep>>

\* The writer takes the done request in its select.
Done ==
    /\ proc = "up" /\ offersClosed
    /\ proc' = "drain"
    /\ UNCHANGED <<now, intakeVars, stops, writerVars, fileVars, holds, uploadVars, sweep>>

\* The queue is drained: every open hour is finished and released, not
\* uploaded, and the writer is gone.
Drained ==
    /\ proc = "drain" /\ queue = <<>>
    /\ proc' = "drained"
    /\ disk' = [h \in Hours |-> IF h \in open THEN disk[h] \o Append(buf[h], Footer) ELSE disk[h]]
    /\ mtime' = [h \in Hours |-> IF h \in open THEN now ELSE mtime[h]]
    /\ holds' = [h \in Hours |-> IF h \in open THEN holds[h] - 1 ELSE holds[h]]
    /\ open' = {}
    /\ buf' = [h \in Hours |-> <<>>]
    /\ UNCHANGED <<now, intakeVars, stops, queue, latest, nextClose, uploadVars, sweep>>

\* What the memory of a process that is gone held.
Gone ==
    /\ admitted' = <<>>
    /\ closing' = FALSE
    /\ offersClosed' = FALSE
    /\ proc' = "down"
    /\ stops' = stops + 1
    /\ queue' = <<>>
    /\ open' = {}
    /\ buf' = [h \in Hours |-> <<>>]
    /\ latest' = 0
    /\ nextClose' = 0
    /\ holds' = [h \in Hours |-> 0]
    /\ uploads' = [h \in Hours |-> 0]
    /\ lock' = [h \in Hours |-> "free"]
    /\ putting' = [h \in Hours |-> <<>>]
    /\ sweep' = IdleSweep

\* The process exits; puts under way are cut off.
Exit ==
    /\ proc = "drained"
    /\ Gone
    /\ UNCHANGED <<now, nextId, disk, mtime, bucket>>

\* The process dies (ioFatal on a full disk, a kill): what is queued or in a
\* gzip buffer is gone and no footer is written.
Crash ==
    /\ Up /\ stops < MaxStops
    /\ Gone
    /\ UNCHANGED <<now, nextId, disk, mtime, bucket>>

\* systemd starts the next process, whose first sweep uploads what was left.
Restart ==
    /\ proc = "down"
    /\ proc' = "up"
    /\ UNCHANGED <<now, intakeVars, stops, writerVars, fileVars, holds, uploadVars, sweep>>

-----------------------------------------------------------------------------
SweepNext ==
    \/ SweepStart \/ SweepVisit \/ SweepHead \/ SweepHeadFails \/ SweepPut
    \/ \E applied, ok \in BOOLEAN : SweepPutEnd(applied, ok)
    \/ SweepStat \/ SweepRemove

Next ==
    \/ Admit \/ Write \/ Offer
    \/ Handle \/ Flush
    \/ \E h \in Hours : UploadStart(h) \/ \E applied \in BOOLEAN : UploadEnd(h, applied)
    \/ SweepNext
    \/ Tick \/ BeginClose \/ CloseOffers \/ Done \/ Drained \/ Exit \/ Crash \/ Restart

Spec == Init /\ [][Next]_vars

(* Fairness: the goroutines are scheduled, the sweep loop never ends, and  *)
(* the store, asked again and again for a key, serves it at some point.    *)
Fairness ==
    /\ WF_vars(Handle) /\ WF_vars(Write)
    /\ \A h \in Hours : WF_vars(UploadStart(h)) /\ WF_vars(\E a \in BOOLEAN : UploadEnd(h, a))
    /\ WF_vars(SweepStart) /\ WF_vars(SweepVisit) /\ WF_vars(SweepPut)
    /\ WF_vars(SweepStat) /\ WF_vars(SweepRemove)
    /\ WF_vars(SweepHead \/ SweepHeadFails) /\ WF_vars(\E a, k \in BOOLEAN : SweepPutEnd(a, k))
    /\ \A h \in Hours : /\ SF_vars(sweep.hour = h /\ SweepHead)
                       /\ SF_vars(sweep.hour = h /\ SweepPutEnd(TRUE, TRUE))
    /\ WF_vars(CloseOffers) /\ WF_vars(Done) /\ WF_vars(Drained) /\ WF_vars(Exit) /\ WF_vars(Restart)

FairSpec == Spec /\ Fairness

-----------------------------------------------------------------------------
(* Properties *)

\* Every variable has its type; the sweep's fields are those of the walk.
TypeOK ==
    /\ now \in 0..MaxTime
    /\ nextId \in 1..(MaxReceptions + 1)
    /\ admitted \in Seq(QueuedReception) /\ Len(admitted) <= 1
    /\ closing \in BOOLEAN /\ offersClosed \in BOOLEAN
    /\ proc \in {"up", "drain", "drained", "down"}
    /\ stops \in Nat
    /\ queue \in Seq(QueuedReception) /\ Len(queue) <= QueueCap
    /\ open \in SUBSET Hours
    /\ buf \in [Hours -> Contents] /\ disk \in [Hours -> Contents] /\ bucket \in [Hours -> Contents]
    /\ putting \in [Hours -> Contents]
    /\ mtime \in [Hours -> 0..MaxTime]
    /\ latest \in 0..MaxTime
    /\ nextClose \in Nat
    /\ holds \in [Hours -> Nat] /\ uploads \in [Hours -> Nat]
    /\ lock \in [Hours -> {"free", "upload", "sweep"}]
    /\ sweep.pc \in {"idle", "visit", "head", "put", "putting", "stat", "remove"}
    /\ sweep.hour \in Hours

\* archive.holds counts exactly the owners of a file, the writer and each
\* upload, so that a release reaching zero and a reopen cannot unprotect a file
\* another owner still reads (the comment on holds, archive.go:107-112).
HoldsCountOwners ==
    Up => \A h \in Hours : holds[h] = uploads[h] + (IF h \in open THEN 1 ELSE 0)

\* No sweep deletes a file under its writer or its upload, which would strand
\* what they have still to write or read (archive.go:107-112, 377-381).
OwnedFileStays ==
    \A h \in Hours : (h \in open \/ uploads[h] > 0) => disk[h] # <<>>

\* A file is protected while the writer or an upload has it, and no longer: the
\* count the sweep and the release go by, and what it is for (archive.go:107-112).
OwnersAreSafe == HoldsCountOwners /\ OwnedFileStays

\* An hour closes on the reception that passes its grace, not on a later one:
\* nextClose is never stale over the open hours (archive.go:254-257).
NoOverdueHour == \A h \in open : latest < CloseTime(h)

\* The bucket's object of an hour only ever grows: no earlier, shorter upload
\* and no stub replaces a fuller one (the comment on putLocks, archive.go:116-120).
ObjectsOnlyGrow ==
    [][\A h \in Hours : /\ Len(bucket[h]) <= Len(bucket'[h])
                        /\ bucket[h] = SubSeq(bucket'[h], 1, Len(bucket[h]))]_vars

Volatile == {queue[i].id : i \in DOMAIN queue} \union {admitted[i].id : i \in DOMAIN admitted}
            \union UNION {Ids(buf[h]) : h \in Hours}
Published == UNION {Ids(bucket[h]) : h \in Hours}
Durable == Published \union UNION {Ids(disk[h]) : h \in Hours}

\* Only a crash loses a reception the archive took: a clean stop drains every
\* one to disk, whatever producers, handlers and uploads are under way, and
\* once the writer has drained not even a kill loses one
\* (closeArchives, pipeline.go:244-247; run's drain, archive.go:179).
OnlyACrashLoses == [][(Crash /\ proc # "drained") \/ (Volatile \union Durable) \subseteq (Volatile \union Durable)']_vars

\* The archive implements its promise: what reached the disk is never lost, to
\* no crash, sweep or upload, and what is published was durable and stays.
Promise == INSTANCE ArchivePromise WITH
    Reception <- Receptions, volatile <- Volatile, durable <- Durable, published <- Published
KeepsPromise == Promise!Spec

\* What is on disk and that no writer has open reaches the bucket: the sweep
\* retries failed uploads and sends what a stopped process left
\* (archive.go:277-279, 513-519).
ClosedHoursAreUploaded ==
    \A h \in Hours : <>[](h \notin open) => <>[](Ids(disk[h]) \subseteq Ids(bucket[h]))

\* What the comment in open states: appending gzip members is valid gzip
\* (archive.go:313).  A reader decodes an object only if each member that
\* another follows ended with its footer.
AppendedMembersDecode ==
    \A h \in Hours : \A i \in 2..Len(bucket[h]) : bucket[h][i] = Header => bucket[h][i - 1] = Footer
=============================================================================
