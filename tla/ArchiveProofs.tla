---------------------------- MODULE ArchiveProofs ----------------------------
(* The archive's owners, its clock and its promise, for every size of the   *)
(* hour, the graces, the queue and the bounds: proofs about Archive.        *)
EXTENDS Archive, WellFoundedInduction, TLAPS

\* An hour begins, and from here on no reception of it is written any more.
Start(h) == h * HourLen
Shut(h) == (h + 1) * HourLen + MaxLag

\* What an object, a put under way and a file of an hour are to each other.
Prefix(a, b) == Len(a) <= Len(b) /\ \A i \in 1..Len(a) : a[i] = b[i]

Sweeps == [pc : {"idle", "visit", "head", "put", "putting", "stat", "remove"}, hour : Hours,
           began : 0..MaxTime, size : Nat, mtime : 0..MaxTime, stored : Nat]

ArchiveTyped ==
    /\ TypeOK
    /\ buf \in [Hours -> Seq(Receptions)]
    /\ sweep \in Sweeps

\* A stop goes in order: intake, offers, queue, open hours.
ProcessInv ==
    /\ offersClosed => closing /\ admitted = <<>>
    /\ proc \in {"drain", "drained"} => offersClosed
    /\ proc = "drained" => queue = <<>> /\ open = {}

\* A process that is gone left nothing in memory.
DownInv ==
    ~Up => /\ admitted = <<>> /\ queue = <<>> /\ open = {} /\ sweep = IdleSweep
           /\ \A h \in Hours : holds[h] = 0 /\ uploads[h] = 0 /\ lock[h] = "free"

OwnersInv ==
    /\ HoldsCountOwners
    /\ \A h \in Hours : lock[h] = "upload" => uploads[h] > 0
    /\ \A h \in Hours : lock[h] = "sweep" <=> sweep.pc = "putting" /\ sweep.hour = h

\* A file dates from its hour or later; an object without a file is of an hour
\* that nothing reopens.
ClockInv ==
    /\ \A i \in DOMAIN queue : queue[i].recv <= now /\ now <= queue[i].recv + MaxLag
    /\ \A i \in DOMAIN admitted : admitted[i].recv <= now /\ now <= admitted[i].recv + MaxLag
    /\ \A h \in Hours : mtime[h] <= now /\ (disk[h] # <<>> => Start(h) <= mtime[h])
    /\ \A h \in Hours : bucket[h] # <<>> /\ disk[h] = <<>> => Shut(h) <= now
    /\ sweep.began <= now

\* What a put reads begins with the object, and the file with what a put reads.
FilesInv ==
    /\ OwnedFileStays
    /\ \A h \in Hours : disk[h] # <<>> => Prefix(bucket[h], disk[h])
    /\ \A h \in Hours : lock[h] # "free" => Prefix(bucket[h], putting[h]) /\ Prefix(putting[h], disk[h])

InFile == sweep.pc \in {"head", "put", "putting", "stat", "remove"}

\* The sweep has a file that nobody owned and, unless it is recent, nobody can
\* own again; before it deletes the file the bucket holds as much.
SweepInv ==
    /\ InFile => /\ disk[sweep.hour] # <<>>
                 /\ Start(sweep.hour) <= sweep.mtime
                 /\ sweep.size <= Len(disk[sweep.hour])
                 /\ ~Recent => sweep.hour \notin open /\ uploads[sweep.hour] = 0
    /\ sweep.pc \in {"stat", "remove"} => ~Recent /\ sweep.size <= Len(bucket[sweep.hour])
    /\ sweep.pc = "putting" => sweep.size <= Len(putting[sweep.hour])
    /\ sweep.pc = "remove" => Len(disk[sweep.hour]) = sweep.size

WriterInv ==
    /\ \A h \in Hours : h \notin open => buf[h] = <<>>
    /\ \A h \in open : nextClose # 0 /\ nextClose <= CloseTime(h) /\ latest < CloseTime(h)

Names(q) == {q[i].id : i \in DOMAIN q}
OneEach(q) == \A i, j \in DOMAIN q : q[i].id = q[j].id => i = j
Buffered == UNION {Ids(buf[h]) : h \in Hours}

\* A reception is in one place of the memory at a time.
PlacesInv ==
    /\ OneEach(queue) /\ Names(queue) \intersect Names(admitted) = {}
    /\ Names(queue) \intersect Buffered = {} /\ Names(admitted) \intersect Buffered = {}
    /\ \A h, g \in Hours : h # g => Ids(buf[h]) \intersect Ids(buf[g]) = {}
    /\ \A r \in Volatile \union Durable : r < nextId

ArchiveInv ==
    /\ ArchiveTyped /\ ProcessInv /\ DownInv /\ OwnersInv /\ ClockInv
    /\ FilesInv /\ SweepInv /\ WriterInv /\ PlacesInv

-----------------------------------------------------------------------------
(* Files. *)

LEMMA IdsAreReceptions == \A c : Ids(c) \subseteq Receptions /\ Ids(<<>>) = {}
  BY DEF Ids

LEMMA FileAppend ==
    ASSUME NEW a \in Contents, NEW e \in 0..(MaxReceptions + 1)
    PROVE  /\ Append(a, e) \in Contents /\ Append(a, e) # <<>> /\ Prefix(a, Append(a, e))
           /\ Ids(Append(a, e)) = Ids(a) \union ({e} \intersect Receptions)
<1>1. a \in Seq(0..(MaxReceptions + 1))  BY DEF Contents
<1>2. /\ DOMAIN a = 1..Len(a) /\ Len(a) \in Nat /\ DOMAIN Append(a, e) = 1..(Len(a) + 1)
      /\ \A i \in DOMAIN a : Append(a, e)[i] = a[i]
      /\ Append(a, e)[Len(a) + 1] = e
  BY <1>1
<1>3. {Append(a, e)[i] : i \in DOMAIN Append(a, e)} = {a[i] : i \in DOMAIN a} \union {e}
  <2>1. \A i \in DOMAIN Append(a, e) : i \in DOMAIN a \/ i = Len(a) + 1  BY <1>2
  <2>2. DOMAIN a \subseteq DOMAIN Append(a, e) /\ Len(a) + 1 \in DOMAIN Append(a, e)  BY <1>2
  <2> QED  BY <1>2, <2>1, <2>2
<1>4. Append(a, e) \in Contents /\ Append(a, e) # <<>> /\ Prefix(a, Append(a, e))
  <2>1. Append(a, e) \in Seq(0..(MaxReceptions + 1)) /\ Append(a, e) # <<>>  BY <1>1
  <2>2. Prefix(a, Append(a, e))  BY <1>1 DEF Prefix
  <2> QED  BY <2>1, <2>2 DEF Contents
<1> QED  BY <1>3, <1>4 DEF Ids

LEMMA FileConcat ==
    ASSUME NEW a \in Contents, NEW b \in Contents
    PROVE  /\ a \o b \in Contents /\ Prefix(a, a \o b) /\ (a # <<>> => a \o b # <<>>)
           /\ b = <<>> => a \o b = a
           /\ Ids(a \o b) = Ids(a) \union Ids(b)
<1>1. a \in Seq(0..(MaxReceptions + 1)) /\ b \in Seq(0..(MaxReceptions + 1))  BY DEF Contents
<1>2. /\ DOMAIN a = 1..Len(a) /\ Len(a) \in Nat /\ DOMAIN b = 1..Len(b) /\ Len(b) \in Nat
      /\ DOMAIN (a \o b) = 1..(Len(a) + Len(b))
      /\ \A i \in DOMAIN a : (a \o b)[i] = a[i]
      /\ \A i \in DOMAIN b : (a \o b)[Len(a) + i] = b[i]
  BY <1>1
<1>3. \A i \in DOMAIN (a \o b) : i \in DOMAIN a \/ (i - Len(a) \in DOMAIN b /\ i = Len(a) + (i - Len(a)))
  BY <1>2
<1>4. DOMAIN a \subseteq DOMAIN (a \o b) /\ \A i \in DOMAIN b : Len(a) + i \in DOMAIN (a \o b)  BY <1>2
<1>5. {(a \o b)[i] : i \in DOMAIN (a \o b)} \subseteq {a[i] : i \in DOMAIN a} \union {b[i] : i \in DOMAIN b}
  BY <1>2, <1>3
<1>6. {a[i] : i \in DOMAIN a} \subseteq {(a \o b)[i] : i \in DOMAIN (a \o b)}
  BY <1>2, <1>4
<1>7. {b[i] : i \in DOMAIN b} \subseteq {(a \o b)[i] : i \in DOMAIN (a \o b)}
  BY <1>2, <1>4
<1>8. a \o b \in Contents /\ Prefix(a, a \o b) /\ (a # <<>> => a \o b # <<>>)
  <2>1. a \o b \in Seq(0..(MaxReceptions + 1)) /\ (a # <<>> => a \o b # <<>>)  BY <1>1
  <2>2. Prefix(a, a \o b)  BY <1>1 DEF Prefix
  <2> QED  BY <2>1, <2>2 DEF Contents
<1>9. b = <<>> => a \o b = a  BY <1>1
<1> QED  BY <1>5, <1>6, <1>7, <1>8, <1>9 DEF Ids

LEMMA PrefixFacts ==
    ASSUME NEW a \in Contents, NEW b \in Contents
    PROVE  /\ Prefix(a, a) /\ Prefix(<<>>, a) /\ <<>> \in Contents
           /\ Prefix(a, b) => /\ Ids(a) \subseteq Ids(b)
                              /\ Len(b) <= Len(a) => a = b
                              /\ a # <<>> => b # <<>>
                              /\ a = SubSeq(b, 1, Len(a)) /\ Len(a) <= Len(b)
<1>1. a \in Seq(0..(MaxReceptions + 1)) /\ b \in Seq(0..(MaxReceptions + 1))  BY DEF Contents
<1>2. Prefix(a, a) /\ Prefix(<<>>, a) /\ <<>> \in Contents  BY <1>1 DEF Prefix, Contents
<1>3. ASSUME Prefix(a, b)
      PROVE  /\ Ids(a) \subseteq Ids(b)
             /\ Len(b) <= Len(a) => a = b
             /\ a # <<>> => b # <<>>
             /\ a = SubSeq(b, 1, Len(a)) /\ Len(a) <= Len(b)
  <2>1. DOMAIN a = 1..Len(a) /\ DOMAIN b = 1..Len(b) /\ Len(a) \in Nat /\ Len(b) \in Nat  BY <1>1
  <2>2. {a[i] : i \in DOMAIN a} \subseteq {b[i] : i \in DOMAIN b}  BY <1>3, <2>1 DEF Prefix
  <2>3. Len(b) <= Len(a) => a = b  BY <1>1, <1>3 DEF Prefix
  <2>4. a # <<>> => b # <<>>  BY <1>1, <1>3 DEF Prefix
  <2>5. a = SubSeq(b, 1, Len(a)) /\ Len(a) <= Len(b)  BY <1>1, <1>3 DEF Prefix
  <2> QED  BY <2>2, <2>3, <2>4, <2>5 DEF Ids
<1> QED  BY <1>2, <1>3

LEMMA PrefixTransitive ==
    ASSUME NEW a \in Contents, NEW b \in Contents, NEW c \in Contents, Prefix(a, b), Prefix(b, c)
    PROVE  Prefix(a, c)
<1>1. Len(a) \in Nat /\ Len(b) \in Nat /\ Len(c) \in Nat  BY DEF Contents
<1> QED  BY <1>1 DEF Prefix

-----------------------------------------------------------------------------
(* Hours. *)

LEMMA HourFacts ==
    /\ \A t \in Nat : /\ HourOf(t) \in Nat /\ Start(HourOf(t)) <= t
                      /\ t + MaxLag < Shut(HourOf(t)) /\ t < CloseTime(HourOf(t))
                      /\ t <= MaxTime => HourOf(t) \in Hours
    /\ \A h \in Hours : /\ Start(h) \in Nat /\ Shut(h) \in Nat /\ CloseTime(h) \in Nat \ {0}
                        /\ \A m \in Nat : Start(h) <= m => Shut(h) <= m + ArchiveGrace
<1>1. ASSUME NEW t \in Nat
      PROVE  /\ HourOf(t) \in Nat /\ Start(HourOf(t)) <= t
             /\ t + MaxLag < Shut(HourOf(t)) /\ t < CloseTime(HourOf(t))
             /\ t <= MaxTime => HourOf(t) \in Hours
  <2> DEFINE d == HourLen  q == t \div d
  <2>1. d \in Nat \ {0} /\ MaxLag \in Nat /\ HourGrace \in Nat /\ MaxTime \in Nat /\ MaxHour \in Nat
        /\ MaxTime \div d <= MaxHour
    BY ArchiveAssumption
  <2>2. q \in Nat /\ q * d <= t /\ t < (q + 1) * d  BY <2>1
  <2>3. t <= MaxTime => q <= MaxTime \div d  BY <2>1
  <2>4. (q + 1) * d \in Nat /\ q * d \in Nat  BY <2>1, <2>2
  <2>5. t + MaxLag < (q + 1) * d + MaxLag /\ t < (q + 1) * d + HourGrace
    <3> HIDE DEF q, d
    <3> DEFINE e == (q + 1) * d
    <3>1. e \in Nat /\ t < e  BY <2>2, <2>4
    <3> HIDE DEF e
    <3>2. t + MaxLag < e + MaxLag /\ t < e + HourGrace  BY <2>1, <3>1
    <3> QED  BY <3>2 DEF e
  <2>6. t <= MaxTime => q \in Hours
    <3> MaxTime \div d \in Nat  BY <2>1
    <3> QED  BY <2>1, <2>2, <2>3 DEF Hours
  <2> QED  BY <2>2, <2>5, <2>6 DEF HourOf, Start, Shut, CloseTime
<1>2. ASSUME NEW h \in Hours
      PROVE  /\ Start(h) \in Nat /\ Shut(h) \in Nat /\ CloseTime(h) \in Nat \ {0}
             /\ \A m \in Nat : Start(h) <= m => Shut(h) <= m + ArchiveGrace
  <2>1. h \in Nat /\ HourLen \in Nat \ {0} /\ MaxLag \in Nat /\ HourGrace \in Nat /\ ArchiveGrace \in Nat
        /\ ArchiveGrace >= HourLen + MaxLag
    BY ArchiveAssumption, GraceCoversReopening DEF Hours
  <2> DEFINE s == h * HourLen
  <2>2. s \in Nat /\ (h + 1) * HourLen = s + HourLen  BY <2>1
  <2> HIDE DEF s
  <2>3. Start(h) = s /\ Shut(h) = s + HourLen + MaxLag /\ CloseTime(h) = s + HourLen + HourGrace
    BY <2>2 DEF Start, Shut, CloseTime, s
  <2> QED  BY <2>1, <2>2, <2>3
<1> QED  BY <1>1, <1>2

LEMMA EarliestFacts ==
    ASSUME NEW S \in SUBSET Hours
    PROVE  /\ Earliest(S) \in Nat
           /\ \A h \in S : Earliest(S) # 0 /\ Earliest(S) <= CloseTime(h)
<1>1. CASE S = {}  BY <1>1 DEF Earliest
<1>2. CASE S # {}
  <2> DEFINE T == {CloseTime(h) : h \in S}  R == {ss \in Nat \X Nat : ss[1] < ss[2]}
  <2>1. T \subseteq Nat \ {0} /\ T # {}  BY <1>2, HourFacts
  <2>2. IsWellFoundedOn(R, Nat)  BY NatLessThanWellFounded DEF OpToRel
  <2>3. \A x, y \in Nat : <<y, x>> \in R <=> y < x  OBVIOUS
  <2> HIDE DEF R, T
  <2>4. PICK x \in T : \A y \in T : ~(<<y, x>> \in R)
    <3>1. T \subseteq Nat  BY <2>1
    <3> QED  BY <2>1, <2>2, <3>1, WFMin
  <2>5. \A y \in T : x \in Nat /\ y \in Nat /\ ~(y < x)  BY <2>1, <2>3, <2>4
  <2>6. \A y \in T : x <= y  BY <2>5
  <2>7. Least(T) \in T /\ \A y \in T : Least(T) <= y  BY <2>6 DEF Least
  <2>8. Earliest(S) = Least(T)  BY <1>2 DEF Earliest, T
  <2> QED  BY <2>1, <2>7, <2>8 DEF T
<1> QED  BY <1>1, <1>2

-----------------------------------------------------------------------------
(* The writer's steps. *)

LEMMA Typing ==
    ASSUME ArchiveInv
    PROVE  /\ now \in Nat /\ now <= MaxTime /\ MaxTime \in Nat /\ nextId \in Nat
           /\ queue \in Seq(QueuedReception) /\ admitted \in Seq(QueuedReception)
           /\ \A h \in Hours : /\ disk[h] \in Contents /\ bucket[h] \in Contents /\ putting[h] \in Contents
                               /\ buf[h] \in Seq(Receptions) /\ buf[h] \in Contents
                               /\ holds[h] \in Nat /\ uploads[h] \in Nat /\ mtime[h] \in 0..MaxTime
           /\ \A rx \in QueuedReception : rx.id \in Receptions /\ rx.recv \in Nat /\ rx.recv <= MaxTime
           /\ Receptions \subseteq 0..(MaxReceptions + 1) /\ {Header, Footer} \subseteq 0..(MaxReceptions + 1)
           /\ Header \notin Receptions /\ Footer \notin Receptions
  BY ArchiveAssumption DEF ArchiveInv, ArchiveTyped, TypeOK, QueuedReception, Receptions, Contents, Header, Footer

\* The reception at the head of the queue and the hours it finishes.
HandleOf(rx, hr, due) ==
    /\ queue # <<>> /\ rx = Head(queue) /\ queue' = Tail(queue)
    /\ hr = HourOf(rx.recv) /\ Start(hr) <= now /\ now < Shut(hr)
    /\ due \subseteq open \union {hr} /\ open' = (open \union {hr}) \ due
    /\ Writing /\ latest' \in 0..MaxTime /\ nextClose' \in Nat
    /\ UNCHANGED <<now, intakeVars, proc, stops, lock, putting, bucket, sweep>>
    /\ buf' = [h \in Hours |-> IF h \in due THEN <<>> ELSE IF h = hr THEN Append(buf[h], rx.id) ELSE buf[h]]
    /\ mtime' = [h \in Hours |-> IF h \in due \/ (h = hr /\ hr \notin open) THEN now ELSE mtime[h]]
    /\ uploads' = [h \in Hours |-> IF h \in due THEN uploads[h] + 1 ELSE uploads[h]]
    /\ holds' = [h \in Hours |-> IF h = hr /\ hr \notin open THEN holds[h] + 1 ELSE holds[h]]

\* What a handled reception adds to a file.
HandledFile(rx, hr, due) ==
    \A h \in Hours :
       /\ disk'[h] \in Contents /\ Prefix(disk[h], disk'[h])
       /\ h \in open \union {hr} => disk'[h] # <<>>
       /\ h \notin open \union {hr} => disk'[h] = disk[h]
       /\ h \notin due => Ids(disk'[h]) = Ids(disk[h])
       /\ h \in due => Ids(disk'[h]) = Ids(disk[h]) \union Ids(buf[h]) \union (IF h = hr THEN {rx.id} ELSE {})

LEMMA HandleDoes ==
    ASSUME ArchiveInv, Handle
    PROVE  \E rx \in QueuedReception, hr \in Hours, due \in SUBSET Hours :
              HandleOf(rx, hr, due) /\ HandledFile(rx, hr, due) /\ WriterInv' /\ disk' \in [Hours -> Contents]
<1>1. queue # <<>> /\ Writing  BY DEF Handle
<1>2. PICK rx \in QueuedReception : rx = Head(queue)
  BY <1>1, Typing
<1>3. rx.recv \in Nat /\ rx.recv <= MaxTime /\ rx.id \in Receptions  BY Typing
<1>4. PICK hr \in Hours : hr = HourOf(rx.recv)
  BY <1>3, HourFacts
<1>5. rx.recv <= now /\ now <= rx.recv + MaxLag
  <2>1. 1 \in DOMAIN queue /\ queue[1] = rx  BY <1>1, <1>2, Typing
  <2> QED  BY <2>1 DEF ArchiveInv, ClockInv
<1>6. Start(hr) <= rx.recv /\ rx.recv + MaxLag < Shut(hr) /\ rx.recv < CloseTime(hr)
  BY <1>3, <1>4, HourFacts
<1>7. Start(hr) <= now /\ now < Shut(hr)
  <2>1. MaxLag \in Nat /\ Start(hr) \in Nat /\ Shut(hr) \in Nat  BY ArchiveAssumption, HourFacts
  <2> QED  BY <1>3, <1>5, <1>6, <2>1, Typing
<1> DEFINE opens == open \union {hr}
           close == IF hr \notin open /\ (nextClose = 0 \/ CloseTime(hr) < nextClose) THEN CloseTime(hr) ELSE nextClose
           l == IF rx.recv > latest THEN rx.recv ELSE latest
           filled == [buf EXCEPT ![hr] = Append(@, rx.id)]
           touched == [disk EXCEPT ![hr] = Opened(hr)]
<1>8. PICK due \in SUBSET Hours : due = Due(opens, close, l)
  BY DEF Due, ArchiveInv, ArchiveTyped, TypeOK
<1>9. /\ open' = opens \ due
      /\ buf' = [h \in Hours |-> IF h \in due THEN <<>> ELSE filled[h]]
      /\ disk' = [h \in Hours |-> IF h \in due THEN touched[h] \o Append(filled[h], Footer) ELSE touched[h]]
      /\ mtime' = [h \in Hours |-> IF h \in due \/ (h = hr /\ hr \notin open) THEN now ELSE mtime[h]]
      /\ latest' = l
      /\ nextClose' = IF close = 0 \/ l < close THEN close ELSE Earliest(opens \ due)
      /\ holds' = IF hr \in open THEN holds ELSE Held(hr)
      /\ uploads' = [h \in Hours |-> IF h \in due THEN uploads[h] + 1 ELSE uploads[h]]
      /\ queue' = Tail(queue)
      /\ UNCHANGED <<now, intakeVars, proc, stops, lock, putting, bucket, sweep>>
  BY <1>2, <1>4, <1>8 DEF Handle
<1>10. due \subseteq opens  BY <1>8 DEF Due
<1>11. \A h \in Hours : filled[h] = IF h = hr THEN Append(buf[h], rx.id) ELSE buf[h]
  BY DEF ArchiveInv, ArchiveTyped
<1>12. \A h \in Hours : touched[h] = IF h = hr THEN Opened(hr) ELSE disk[h]
  BY DEF ArchiveInv, ArchiveTyped, TypeOK
<1>13. HandledFile(rx, hr, due) /\ disk' \in [Hours -> Contents]
  <2>1. ASSUME NEW h \in Hours
        PROVE  /\ touched[h] \in Contents /\ Prefix(disk[h], touched[h])
               /\ Ids(touched[h]) = Ids(disk[h])
               /\ (h \in opens => touched[h] # <<>>) /\ (h \notin opens => touched[h] = disk[h])
    <3>1. disk[h] \in Contents /\ Header \in 0..(MaxReceptions + 1) /\ Header \notin Receptions
      BY Typing
    <3>2. h \in open => disk[h] # <<>>  BY DEF ArchiveInv, FilesInv, OwnedFileStays
    <3>3. CASE h # hr \/ h \in open
      <4>1. touched[h] = disk[h]  BY <1>12, <3>3 DEF Opened
      <4> QED  BY <3>1, <3>2, <3>3, <4>1, PrefixFacts
    <3>4. CASE h = hr /\ h \notin open
      <4>1. touched[h] = Append(disk[h], Header)  BY <1>12, <3>4 DEF Opened
      <4>2. h \in opens  BY <3>4
      <4> HIDE DEF touched, opens
      <4>3. {Header} \intersect Receptions = {}  BY <3>1
      <4> QED  BY <3>1, <4>1, <4>2, <4>3, FileAppend
    <3> QED  BY <3>3, <3>4
  <2>2. ASSUME NEW h \in Hours
        PROVE  /\ Append(filled[h], Footer) \in Contents
               /\ Ids(Append(filled[h], Footer)) = Ids(buf[h]) \union (IF h = hr THEN {rx.id} ELSE {})
    <3>1. /\ buf[h] \in Contents /\ Footer \in 0..(MaxReceptions + 1) /\ Footer \notin Receptions
          /\ rx.id \in 0..(MaxReceptions + 1) /\ rx.id \in Receptions
      BY <1>3, Typing
    <3>2. filled[h] \in Contents /\ Ids(filled[h]) = Ids(buf[h]) \union (IF h = hr THEN {rx.id} ELSE {})
      <4>1. CASE h = hr  BY <1>11, <3>1, <4>1, FileAppend
      <4>2. CASE h # hr  BY <1>11, <3>1, <4>2
      <4> QED  BY <4>1, <4>2
    <3> HIDE DEF filled
    <3> QED  BY <3>1, <3>2, FileAppend
  <2> HIDE DEF touched, filled
  <2>3. ASSUME NEW h \in Hours
        PROVE  /\ disk'[h] \in Contents /\ Prefix(disk[h], disk'[h])
               /\ h \in opens => disk'[h] # <<>>
               /\ h \notin opens => disk'[h] = disk[h]
               /\ h \notin due => Ids(disk'[h]) = Ids(disk[h])
               /\ h \in due => Ids(disk'[h]) = Ids(disk[h]) \union Ids(buf[h]) \union (IF h = hr THEN {rx.id} ELSE {})
    <3>1. CASE h \notin due
      <4>1. disk'[h] = touched[h]  BY <1>9, <3>1
      <4> QED  BY <2>1, <3>1, <4>1
    <3>2. CASE h \in due
      <4>1. PICK t \in Contents : t = touched[h]  BY <2>1
      <4>2. PICK f \in Contents : f = Append(filled[h], Footer)  BY <2>2
      <4>3. PICK d \in Contents : d = disk[h]  BY Typing
      <4>4. disk'[h] = t \o f  BY <1>9, <3>2, <4>1, <4>2
      <4>5. t # <<>> /\ Prefix(d, t)  BY <1>10, <2>1, <3>2, <4>1, <4>3
      <4>6. t \o f \in Contents /\ Prefix(t, t \o f) /\ t \o f # <<>> /\ Ids(t \o f) = Ids(t) \union Ids(f)
        BY <4>5, FileConcat
      <4>7. Prefix(d, t \o f)  BY <4>5, <4>6, PrefixTransitive
      <4>8. Ids(t) = Ids(d) /\ Ids(f) = Ids(buf[h]) \union (IF h = hr THEN {rx.id} ELSE {})
        BY <2>1, <2>2, <4>1, <4>2, <4>3
      <4> QED  BY <1>10, <3>2, <4>3, <4>4, <4>6, <4>7, <4>8
    <3> QED  BY <3>1, <3>2
  <2>4. disk' \in [Hours -> Contents]
    <3>1. disk' = [h \in Hours |-> disk'[h]]  BY <1>9
    <3> QED  BY <2>3, <3>1
  <2> QED  BY <2>3, <2>4 DEF HandledFile
<1>14. latest' \in 0..MaxTime /\ nextClose' \in Nat /\ WriterInv'
  <2>1. /\ latest \in 0..MaxTime /\ nextClose \in Nat /\ open \in SUBSET Hours
        /\ \A h \in open : nextClose # 0 /\ nextClose <= CloseTime(h) /\ latest < CloseTime(h)
        /\ \A h \in Hours : h \notin open => buf[h] = <<>>
    BY DEF ArchiveInv, ArchiveTyped, TypeOK, WriterInv
  <2>2. l \in Nat /\ l <= MaxTime /\ latest <= l
    BY <1>3, <2>1, Typing
  <2>3. close \in Nat /\ \A h \in opens : CloseTime(h) \in Nat \ {0} /\ close # 0 /\ close <= CloseTime(h)
    <3>1. \A h \in Hours : CloseTime(h) \in Nat \ {0}  BY HourFacts
    <3>2. close \in Nat  BY <2>1, <3>1
    <3>3. ASSUME NEW h \in opens PROVE CloseTime(h) \in Nat \ {0} /\ close # 0 /\ close <= CloseTime(h)
      <4>1. CASE h \in open  BY <2>1, <3>1, <4>1
      <4>2. CASE h = hr  BY <2>1, <3>1, <4>2
      <4> QED  BY <4>1, <4>2
    <3> QED  BY <3>2, <3>3
  <2>4. ASSUME NEW h \in opens \ due PROVE nextClose' # 0 /\ nextClose' <= CloseTime(h) /\ latest' < CloseTime(h)
    <3> HIDE DEF l, close, opens
    <3>1. CASE l < close
      BY <1>9, <2>2, <2>3, <3>1
    <3>2. CASE ~(l < close)
      <4>1. ~(CloseTime(h) <= l)  BY <1>8, <2>3, <3>2 DEF Due
      <4>2. nextClose' = Earliest(opens \ due)  BY <1>9, <2>3, <3>2
      <4>3. opens \ due \in SUBSET Hours  BY <2>1 DEF opens
      <4> QED  BY <1>9, <2>2, <2>3, <4>1, <4>2, <4>3, EarliestFacts
    <3> QED  BY <3>1, <3>2
  <2>5. nextClose' \in Nat
    <3>1. opens \ due \in SUBSET Hours  BY <2>1
    <3> QED  BY <1>9, <2>3, <3>1, EarliestFacts
  <2>6. \A h \in Hours : h \notin open' => buf'[h] = <<>>
    BY <1>9, <1>11, <2>1
  <2>7. \A h \in open' : nextClose' # 0 /\ nextClose' <= CloseTime(h) /\ latest' < CloseTime(h)
    BY <1>9, <2>4
  <2>8. latest' \in 0..MaxTime  BY <1>9, <2>2, Typing
  <2> QED  BY <2>5, <2>6, <2>7, <2>8 DEF WriterInv
<1>15. buf' = [h \in Hours |-> IF h \in due THEN <<>> ELSE IF h = hr THEN Append(buf[h], rx.id) ELSE buf[h]]
  BY <1>9, <1>11
<1>16. holds' = [h \in Hours |-> IF h = hr /\ hr \notin open THEN holds[h] + 1 ELSE holds[h]]
  BY <1>9 DEF Held, ArchiveInv, ArchiveTyped, TypeOK
<1>17. HandleOf(rx, hr, due)
  BY <1>1, <1>2, <1>4, <1>7, <1>9, <1>10, <1>14, <1>15, <1>16 DEF HandleOf
<1> QED  BY <1>13, <1>14, <1>17

\* A flush and the last close write out what the gzip writers hold.
LEMMA WrittenOut ==
    ASSUME ArchiveInv, Flush \/ Drained
    PROVE  /\ disk' \in [Hours -> Contents] /\ buf' = [h \in Hours |-> <<>>]
           /\ mtime' = [h \in Hours |-> IF h \in open THEN now ELSE mtime[h]]
           /\ Up
           /\ \A h \in Hours : /\ disk'[h] \in Contents /\ Prefix(disk[h], disk'[h])
                               /\ disk[h] # <<>> => disk'[h] # <<>>
                               /\ h \notin open => disk'[h] = disk[h]
                               /\ Ids(disk'[h]) = Ids(disk[h]) \union Ids(buf[h])
<1>1. /\ buf' = [h \in Hours |-> <<>>]
      /\ mtime' = [h \in Hours |-> IF h \in open THEN now ELSE mtime[h]]
      /\ Up
      /\ \A h \in Hours : disk'[h] \in {disk[h], disk[h] \o buf[h], disk[h] \o Append(buf[h], Footer)}
      /\ disk' = [h \in Hours |-> disk'[h]]
  <2>1. CASE Flush  BY <2>1 DEF Flush, Up
  <2>2. CASE Drained  BY <2>2 DEF Drained, Up
  <2> QED  BY <2>1, <2>2
<1>2. ASSUME NEW h \in Hours
      PROVE  /\ disk'[h] \in Contents /\ Prefix(disk[h], disk'[h])
             /\ disk[h] # <<>> => disk'[h] # <<>>
             /\ h \notin open => disk'[h] = disk[h]
             /\ Ids(disk'[h]) = Ids(disk[h]) \union Ids(buf[h])
  <2>1. PICK d \in Contents, b \in Contents : d = disk[h] /\ b = buf[h]  BY Typing
  <2>2. h \notin open => b = <<>>  BY <2>1 DEF ArchiveInv, WriterInv
  <2>3. CASE Flush
    <3>1. disk'[h] = d \o b  BY <2>1, <2>3 DEF Flush
    <3>2. /\ d \o b \in Contents /\ Prefix(d, d \o b) /\ (d # <<>> => d \o b # <<>>)
          /\ b = <<>> => d \o b = d
          /\ Ids(d \o b) = Ids(d) \union Ids(b)
      BY FileConcat
    <3> QED  BY <2>1, <2>2, <3>1, <3>2
  <2>4. CASE Drained /\ h \in open
    <3>1. disk'[h] = d \o Append(b, Footer)  BY <2>1, <2>4 DEF Drained
    <3>2. PICK c \in Contents : c = Append(b, Footer)  BY Typing, FileAppend
    <3>3. Ids(c) = Ids(b)
      <4>1. {Footer} \intersect Receptions = {} /\ Footer \in 0..(MaxReceptions + 1)  BY Typing
      <4>2. Ids(c) = Ids(b) \union ({Footer} \intersect Receptions)  BY <3>2, <4>1, FileAppend
      <4> QED  BY <4>1, <4>2
    <3>4. /\ d \o c \in Contents /\ Prefix(d, d \o c) /\ (d # <<>> => d \o c # <<>>)
          /\ Ids(d \o c) = Ids(d) \union Ids(c)
      BY FileConcat
    <3> QED  BY <2>1, <2>4, <3>1, <3>2, <3>3, <3>4
  <2>5. CASE Drained /\ h \notin open
    <3>1. disk'[h] = d  BY <2>1, <2>5 DEF Drained
    <3>2. Prefix(d, d)  BY PrefixFacts
    <3>3. Ids(b) = {}  BY <2>2, <2>5, IdsAreReceptions
    <3> QED  BY <2>1, <3>1, <3>2, <3>3
  <2> QED  BY <2>3, <2>4, <2>5
<1> QED  BY <1>1, <1>2

-----------------------------------------------------------------------------
(* Types. *)

LEMMA NextFileFacts ==
    ASSUME NEW s \in Sweeps
    PROVE  /\ NextFile(s) \in Sweeps /\ NextFile(s).pc \in {"idle", "visit"}
           /\ NextFile(s).began \in {0, s.began}
<1>1. IdleSweep \in Sweeps /\ IdleSweep.pc = "idle" /\ IdleSweep.began = 0
  BY ArchiveAssumption DEF Sweeps, IdleSweep, Hours
<1>2. s.hour # MaxHour => s.hour + 1 \in Hours  BY ArchiveAssumption DEF Sweeps, Hours
<1> QED  BY <1>1, <1>2 DEF NextFile, Sweeps

\* The sweep's steps leave the rest of the archive alone.
LEMMA SweepFrames ==
    ASSUME SweepNext
    PROVE  Up /\ UNCHANGED <<now, nextId, admitted, closing, offersClosed, proc, stops,
                             queue, open, buf, latest, nextClose, mtime, holds, uploads>>
  BY DEF SweepNext, SweepFrame, intakeVars, writerVars, SweepStart, SweepVisit, SweepHead, SweepHeadFails,
         SweepPut, SweepPutEnd, SweepStat, SweepRemove

LEMMA SweepTyped ==
    ASSUME ArchiveInv, SweepNext
    PROVE  /\ sweep' \in Sweeps /\ sweep'.began \in {0, now, sweep.began}
           /\ disk' \in [Hours -> Contents] /\ bucket' \in [Hours -> Contents] /\ putting' \in [Hours -> Contents]
           /\ lock' \in [Hours -> {"free", "upload", "sweep"}]
<1>1. /\ sweep \in Sweeps /\ sweep.hour \in Hours /\ now \in 0..MaxTime
      /\ disk \in [Hours -> Contents] /\ bucket \in [Hours -> Contents] /\ putting \in [Hours -> Contents]
      /\ lock \in [Hours -> {"free", "upload", "sweep"}] /\ mtime \in [Hours -> 0..MaxTime]
  BY DEF ArchiveInv, ArchiveTyped, TypeOK, Sweeps
<1>2. NextFile(sweep) \in Sweeps /\ NextFile(sweep).began \in {0, sweep.began}
  BY <1>1, NextFileFacts
<1>3. \A h \in Hours : Len(disk[h]) \in Nat /\ Len(bucket[h]) \in Nat  BY <1>1 DEF Contents
<1>4. AfterStored \in Sweeps /\ AfterStored.began \in {0, sweep.began}
  BY <1>1, <1>2 DEF AfterStored, Sweeps
<1>5. <<>> \in Contents  BY DEF Contents
<1>6. CASE SweepStart
  <2>1. sweep' = [IdleSweep EXCEPT !.pc = "visit", !.began = now]  BY <1>6 DEF SweepStart
  <2>2. IdleSweep \in Sweeps  BY ArchiveAssumption DEF Sweeps, IdleSweep, Hours
  <2> QED  BY <1>1, <1>6, <2>1, <2>2 DEF SweepStart, Sweeps
<1>7. CASE SweepVisit
  <2>1. sweep' \in {NextFile(sweep), [sweep EXCEPT !.pc = "head", !.size = Len(disk[sweep.hour]), !.mtime = mtime[sweep.hour]]}
    BY <1>7 DEF SweepVisit
  <2>2. Len(disk[sweep.hour]) \in Nat /\ mtime[sweep.hour] \in 0..MaxTime  BY <1>1, <1>3
  <2>3. sweep' \in Sweeps /\ sweep'.began \in {0, sweep.began}  BY <1>1, <1>2, <2>1, <2>2 DEF Sweeps
  <2> QED  BY <1>1, <1>7, <2>3 DEF SweepVisit
<1>8. CASE SweepHead
  <2>1. sweep' \in {NextFile(sweep), AfterStored, [sweep EXCEPT !.pc = "put", !.stored = Len(bucket[sweep.hour])]}
    BY <1>8 DEF SweepHead
  <2>2. Len(bucket[sweep.hour]) \in Nat  BY <1>1, <1>3
  <2>3. sweep' \in Sweeps /\ sweep'.began \in {0, sweep.began}  BY <1>1, <1>2, <1>4, <2>1, <2>2 DEF Sweeps
  <2> QED  BY <1>1, <1>8, <2>3 DEF SweepHead
<1>9. CASE SweepHeadFails  BY <1>1, <1>2, <1>9 DEF SweepHeadFails
<1>10. CASE SweepPut
  <2>1. sweep' \in Sweeps /\ sweep'.began = sweep.began  BY <1>1, <1>10 DEF SweepPut, Sweeps
  <2> QED  BY <1>1, <1>10, <2>1 DEF SweepPut
<1>11. ASSUME NEW applied \in BOOLEAN, NEW ok \in BOOLEAN, SweepPutEnd(applied, ok)
       PROVE  /\ sweep' \in Sweeps /\ sweep'.began \in {0, now, sweep.began}
              /\ disk' \in [Hours -> Contents] /\ bucket' \in [Hours -> Contents] /\ putting' \in [Hours -> Contents]
              /\ lock' \in [Hours -> {"free", "upload", "sweep"}]
  <2>1. sweep' \in {NextFile(sweep), AfterStored}  BY <1>11 DEF SweepPutEnd, AfterPut
  <2>2. bucket' \in [Hours -> Contents]  BY <1>1, <1>11 DEF SweepPutEnd, Stored
  <2>3. putting' \in [Hours -> Contents]  BY <1>1, <1>5, <1>11 DEF SweepPutEnd
  <2> QED  BY <1>1, <1>2, <1>4, <1>11, <2>1, <2>2, <2>3 DEF SweepPutEnd
<1>12. CASE SweepStat
  <2>1. sweep' \in {NextFile(sweep), [sweep EXCEPT !.pc = "remove"]}  BY <1>12 DEF SweepStat
  <2>2. sweep' \in Sweeps /\ sweep'.began \in {0, sweep.began}  BY <1>1, <1>2, <2>1 DEF Sweeps
  <2> QED  BY <1>1, <1>12, <2>2 DEF SweepStat
<1>13. CASE SweepRemove
  <2>1. disk' \in [Hours -> Contents]  BY <1>1, <1>5, <1>13 DEF SweepRemove
  <2> QED  BY <1>1, <1>2, <1>13, <2>1 DEF SweepRemove
<1> QED  BY <1>6, <1>7, <1>8, <1>9, <1>10, <1>11, <1>12, <1>13 DEF SweepNext

LEMMA GoneDoes ==
    ASSUME Exit \/ Crash
    PROVE  /\ Gone /\ UNCHANGED <<now, nextId, disk, mtime, bucket>>
           /\ proc = "drained" \/ Crash
  BY DEF Exit, Crash

LEMMA TypedStep ==
    ASSUME ArchiveInv, [Next]_vars
    PROVE  ArchiveTyped'
<1> USE DEF ArchiveTyped, TypeOK
<1>0. ArchiveTyped  BY DEF ArchiveInv
<1>1. CASE Admit
  <2>1. PICK rx \in QueuedReception : rx = [id |-> nextId, recv |-> now]
    <3>1. nextId \in Receptions /\ now \in 0..MaxTime
      BY <1>0, <1>1, ArchiveAssumption DEF Admit, Receptions
    <3> QED  BY <3>1 DEF QueuedReception
  <2>2. admitted' = <<rx>>  BY <1>1, <2>1 DEF Admit
  <2>3. admitted' \in Seq(QueuedReception) /\ Len(admitted') <= 1  BY <2>2
  <2>4. nextId' \in 1..(MaxReceptions + 1)  BY <1>0, <1>1, ArchiveAssumption DEF Admit
  <2> QED  BY <1>0, <1>1, <2>3, <2>4 DEF Admit, writerVars, fileVars, uploadVars
<1>2. CASE Write
  <2>1. Len(admitted) \in {0, 1} /\ admitted # <<>> /\ Len(queue) < QueueCap /\ QueueCap \in Nat
    <3>1. admitted \in Seq(QueuedReception) /\ Len(admitted) <= 1  BY <1>0
    <3>2. PICK n \in Nat : n = Len(admitted)  BY <3>1
    <3>3. n = 0 \/ n = 1  BY <3>1, <3>2
    <3> QED  BY <1>2, <3>2, <3>3, ArchiveAssumption DEF Write
  <2>2. queue \o admitted \in Seq(QueuedReception) /\ Len(queue \o admitted) <= QueueCap
    BY <1>0, <2>1
  <2>3. admitted' \in Seq(QueuedReception) /\ Len(admitted') <= 1  BY <1>2 DEF Write
  <2> QED  BY <1>0, <1>2, <2>2, <2>3 DEF Write, fileVars, uploadVars
<1>3. CASE Offer
  <2>1. PICK recv \in 0..now : queue' = Append(queue, [id |-> nextId, recv |-> recv])
    BY <1>3 DEF Offer
  <2>2. [id |-> nextId, recv |-> recv] \in QueuedReception
    BY <1>0, <1>3, ArchiveAssumption DEF Offer, QueuedReception, Receptions
  <2>3. queue' \in Seq(QueuedReception) /\ Len(queue') <= QueueCap
    BY <1>0, <1>3, <2>1, <2>2, ArchiveAssumption DEF Offer
  <2>4. nextId' \in 1..(MaxReceptions + 1)  BY <1>0, <1>3, ArchiveAssumption DEF Offer
  <2> QED  BY <1>0, <1>3, <2>3, <2>4 DEF Offer, fileVars, uploadVars
<1>4. CASE Handle
  <2>1. PICK rx \in QueuedReception, hr \in Hours, due \in SUBSET Hours :
          HandleOf(rx, hr, due) /\ disk' \in [Hours -> Contents]
    BY <1>4, HandleDoes
  <2>2. queue' \in Seq(QueuedReception) /\ Len(queue') <= QueueCap
    BY <1>0, <2>1, ArchiveAssumption DEF HandleOf
  <2>3. buf' \in [Hours -> Seq(Receptions)] /\ buf' \in [Hours -> Contents]
    <3>1. \A h \in Hours : buf'[h] \in Seq(Receptions)  BY <1>0, <2>1, Typing DEF HandleOf
    <3>2. \A c : c \in Seq(Receptions) => c \in Contents  BY ArchiveAssumption DEF Contents, Receptions
    <3>3. buf' = [h \in Hours |-> buf'[h]]  BY <2>1 DEF HandleOf
    <3> QED  BY <3>1, <3>2, <3>3
  <2>4. mtime' \in [Hours -> 0..MaxTime]  BY <1>0, <2>1 DEF HandleOf
  <2>5. uploads' \in [Hours -> Nat] /\ holds' \in [Hours -> Nat]
    <3>1. \A h \in Hours : holds[h] + 1 \in Nat /\ uploads[h] + 1 \in Nat /\ holds[h] \in Nat /\ uploads[h] \in Nat
      BY Typing
    <3>2. uploads' = [h \in Hours |-> IF h \in due THEN uploads[h] + 1 ELSE uploads[h]]  BY <2>1 DEF HandleOf
    <3>3. holds' = [h \in Hours |-> IF h = hr /\ hr \notin open THEN holds[h] + 1 ELSE holds[h]]  BY <2>1 DEF HandleOf
    <3>4. uploads' \in [Hours -> Nat]  BY <3>1, <3>2
    <3>5. holds' \in [Hours -> Nat]  BY <3>1, <3>3
    <3> QED  BY <3>4, <3>5
  <2>6. open' \in SUBSET Hours /\ latest' \in 0..MaxTime /\ nextClose' \in Nat  BY <1>0, <2>1 DEF HandleOf
  <2>7. UNCHANGED <<now, nextId, admitted, closing, offersClosed, proc, stops, lock, putting, bucket, sweep>>
    BY <2>1 DEF HandleOf, intakeVars
  <2> QED  BY <1>0, <2>1, <2>2, <2>3, <2>4, <2>5, <2>6, <2>7
<1>5. CASE Flush \/ Drained
  <2>1. disk' \in [Hours -> Contents] /\ mtime' \in [Hours -> 0..MaxTime]
    <3>1. /\ disk' \in [Hours -> Contents]
          /\ mtime' = [h \in Hours |-> IF h \in open THEN now ELSE mtime[h]]
      BY <1>5, WrittenOut
    <3> QED  BY <1>0, <3>1
  <2>2. buf' \in [Hours -> Seq(Receptions)] /\ buf' \in [Hours -> Contents]
    <3>1. buf' = [h \in Hours |-> <<>>]  BY <1>5, WrittenOut
    <3> QED  BY <3>1 DEF Contents
  <2>3. holds' \in [Hours -> Nat]
    <3>1. \A h \in open : holds[h] - 1 \in Nat
      <4>1. \A h \in open : Up => holds[h] = uploads[h] + 1  BY <1>0 DEF ArchiveInv, OwnersInv, HoldsCountOwners
      <4> QED  BY <1>0, <1>5, <4>1, WrittenOut
    <3>2. CASE Flush  BY <1>0, <3>2 DEF Flush
    <3>3. CASE Drained
      <4>1. holds' = [h \in Hours |-> IF h \in open THEN holds[h] - 1 ELSE holds[h]]  BY <3>3 DEF Drained
      <4>2. \A h \in Hours : holds[h] \in Nat  BY Typing
      <4> QED  BY <3>1, <4>1, <4>2
    <3> QED  BY <1>5, <3>2, <3>3
  <2>4. CASE Flush
    BY <1>0, <2>1, <2>2, <2>3, <2>4 DEF Flush, intakeVars, uploadVars
  <2>5. CASE Drained
    BY <1>0, <2>1, <2>2, <2>3, <2>5 DEF Drained, intakeVars, uploadVars
  <2> QED  BY <1>5, <2>4, <2>5
<1>6. ASSUME NEW h \in Hours, UploadStart(h) PROVE ArchiveTyped'
  BY <1>0, <1>6 DEF UploadStart, intakeVars, writerVars, fileVars
<1>7. ASSUME NEW h \in Hours, NEW applied \in BOOLEAN, UploadEnd(h, applied) PROVE ArchiveTyped'
  <2>1. uploads[h] > 0 /\ holds[h] - 1 \in Nat /\ uploads[h] - 1 \in Nat
    <3>1. Up /\ lock[h] = "upload"  BY <1>7 DEF UploadEnd
    <3>2. uploads[h] > 0  BY <3>1 DEF ArchiveInv, OwnersInv
    <3>3. holds[h] = uploads[h] + (IF h \in open THEN 1 ELSE 0)
      BY <3>1 DEF ArchiveInv, OwnersInv, HoldsCountOwners
    <3>4. holds[h] \in Nat /\ uploads[h] \in Nat  BY Typing
    <3> QED  BY <3>2, <3>3, <3>4
  <2>2. bucket' \in [Hours -> Contents] /\ putting' \in [Hours -> Contents]
    <3>1. <<>> \in Contents  BY DEF Contents
    <3>2. bucket' = [bucket EXCEPT ![h] = IF applied THEN putting[h] ELSE @] /\ putting' = [putting EXCEPT ![h] = <<>>]
      BY <1>7 DEF UploadEnd, Stored
    <3> QED  BY <1>0, <3>1, <3>2
  <2>3. uploads' \in [Hours -> Nat] /\ holds' \in [Hours -> Nat] /\ lock' \in [Hours -> {"free", "upload", "sweep"}]
    BY <1>0, <1>7, <2>1 DEF UploadEnd, Released
  <2> QED  BY <1>0, <1>7, <2>2, <2>3 DEF UploadEnd, intakeVars, writerVars, fileVars
<1>8. CASE SweepNext
  <2>1. sweep' \in Sweeps  BY <1>8, SweepTyped
  <2>2. /\ sweep'.pc \in {"idle", "visit", "head", "put", "putting", "stat", "remove"}
        /\ sweep'.hour \in Hours
    BY <2>1 DEF Sweeps
  <2> QED  BY <1>0, <1>8, <2>1, <2>2, SweepTyped, SweepFrames
<1>9. CASE Tick
  <2>1. now' \in 0..MaxTime  BY <1>0, <1>9, ArchiveAssumption DEF Tick
  <2>2. UNCHANGED <<nextId, admitted, closing, offersClosed, proc, stops, queue, open, buf, disk, mtime,
                    latest, nextClose, holds, uploads, lock, putting, bucket, sweep>>
    BY <1>9 DEF Tick, intakeVars, writerVars, fileVars, uploadVars
  <2> QED  BY <1>0, <2>1, <2>2
<1>10. CASE BeginClose
  BY <1>0, <1>10 DEF BeginClose, writerVars, fileVars, uploadVars
<1>11. CASE CloseOffers
  BY <1>0, <1>11 DEF CloseOffers, writerVars, fileVars, uploadVars
<1>12. CASE Done \/ Restart
  BY <1>0, <1>12 DEF Done, Restart, intakeVars, writerVars, fileVars, uploadVars
<1>13. CASE Exit \/ Crash
  <2>1. Gone /\ UNCHANGED <<now, nextId, disk, mtime, bucket>>  BY <1>13, GoneDoes
  <2>2. <<>> \in Contents /\ <<>> \in Seq(Receptions) /\ 0 \in 0..MaxTime  BY ArchiveAssumption DEF Contents
  <2>3. /\ buf' \in [Hours -> Contents] /\ buf' \in [Hours -> Seq(Receptions)] /\ putting' \in [Hours -> Contents]
        /\ holds' \in [Hours -> Nat] /\ uploads' \in [Hours -> Nat] /\ lock' \in [Hours -> {"free", "upload", "sweep"}]
    BY <2>1, <2>2 DEF Gone
  <2>4. /\ sweep' \in Sweeps /\ sweep'.pc \in {"idle", "visit", "head", "put", "putting", "stat", "remove"}
        /\ sweep'.hour \in Hours
    BY <2>1, ArchiveAssumption DEF Gone, IdleSweep, Sweeps, Hours
  <2>5. queue' \in Seq(QueuedReception) /\ Len(queue') <= QueueCap /\ admitted' \in Seq(QueuedReception) /\ Len(admitted') <= 1
    BY <2>1, ArchiveAssumption DEF Gone
  <2>6. /\ closing' \in BOOLEAN /\ offersClosed' \in BOOLEAN
        /\ proc' \in {"up", "drain", "drained", "down"} /\ stops' \in Nat
        /\ open' \in SUBSET Hours /\ latest' \in 0..MaxTime /\ nextClose' \in Nat
    <3>1. stops \in Nat  BY <1>0
    <3>2. latest' = 0 /\ nextClose' = 0 /\ stops' = stops + 1 /\ open' = {}  BY <2>1 DEF Gone
    <3>3. closing' \in BOOLEAN /\ offersClosed' \in BOOLEAN  BY <2>1 DEF Gone
    <3>4. proc' \in {"up", "drain", "drained", "down"}  BY <2>1 DEF Gone
    <3> QED  BY <2>2, <3>1, <3>2, <3>3, <3>4
  <2> QED  BY <1>0, <2>1, <2>3, <2>4, <2>5, <2>6
<1>14. CASE UNCHANGED vars
  BY <1>0, <1>14 DEF vars
<1> QED
  BY <1>1, <1>2, <1>3, <1>4, <1>5, <1>6, <1>7, <1>8, <1>9, <1>10, <1>11, <1>12, <1>13, <1>14 DEF Next

-----------------------------------------------------------------------------
(* The process. *)

LEMMA ProcessStep ==
    ASSUME ArchiveInv, [Next]_vars
    PROVE  ProcessInv'
<1>1. ProcessInv /\ proc \in {"up", "drain", "drained", "down"}
  BY DEF ArchiveInv, ArchiveTyped, TypeOK
<1>2. CASE Admit \/ Write \/ Offer
  BY <1>1, <1>2 DEF ProcessInv, Admit, Write, Offer, writerVars, Up
<1>3. CASE Handle
  BY <1>1, <1>3, HandleDoes DEF ProcessInv, HandleOf, Writing, intakeVars
<1>4. CASE Flush \/ Drained
  <2>1. CASE Flush  BY <1>1, <2>1 DEF ProcessInv, Flush, intakeVars
  <2>2. CASE Drained  BY <1>1, <2>2 DEF ProcessInv, Drained, intakeVars
  <2> QED  BY <1>4, <2>1, <2>2
<1>5. CASE SweepNext
  BY <1>1, <1>5, SweepFrames DEF ProcessInv
<1>6. CASE BeginClose \/ CloseOffers \/ Done
  BY <1>1, <1>6 DEF ProcessInv, BeginClose, CloseOffers, Done, IntakeDrained, intakeVars, writerVars
<1>7. CASE Exit \/ Crash
  BY <1>7, GoneDoes DEF ProcessInv, Gone
<1>8. CASE Tick \/ Restart \/ UNCHANGED vars
  BY <1>1, <1>8 DEF ProcessInv, Tick, Restart, intakeVars, writerVars, vars
<1>9. ASSUME NEW h \in Hours, UploadStart(h) \/ \E applied \in BOOLEAN : UploadEnd(h, applied) PROVE ProcessInv'
  BY <1>1, <1>9 DEF ProcessInv, UploadStart, UploadEnd, intakeVars, writerVars
<1> QED  BY <1>2, <1>3, <1>4, <1>5, <1>6, <1>7, <1>8, <1>9 DEF Next

LEMMA DownStep ==
    ASSUME ArchiveInv, [Next]_vars
    PROVE  DownInv'
<1>1. DownInv  BY DEF ArchiveInv
<1>2. CASE Exit \/ Crash
  BY <1>2, GoneDoes DEF DownInv, Gone
<1>3. CASE Tick \/ UNCHANGED vars
  BY <1>1, <1>3 DEF DownInv, Up, Tick, intakeVars, writerVars, uploadVars, vars
<1>4. CASE Admit \/ Write \/ Offer \/ Restart
  BY <1>4 DEF DownInv, Up, Admit, Write, Offer, Restart
<1>5. CASE Handle
  BY <1>5, HandleDoes DEF DownInv, Up, HandleOf, Writing
<1>6. CASE Flush \/ Drained
  BY <1>6 DEF DownInv, Up, Flush, Drained
<1>7. CASE SweepNext
  BY <1>7, SweepFrames DEF DownInv, Up
<1>8. CASE BeginClose \/ CloseOffers \/ Done
  BY <1>8 DEF DownInv, Up, BeginClose, CloseOffers, Done
<1>9. ASSUME NEW h \in Hours, UploadStart(h) \/ \E applied \in BOOLEAN : UploadEnd(h, applied) PROVE DownInv'
  BY <1>9 DEF DownInv, Up, UploadStart, UploadEnd
<1> QED  BY <1>2, <1>3, <1>4, <1>5, <1>6, <1>7, <1>8, <1>9 DEF Next

-----------------------------------------------------------------------------
(* Who owns a file. *)

\* The sweep goes from state to state; it puts only between SweepPut and SweepPutEnd.
LEMMA SweepLocks ==
    ASSUME ArchiveInv, SweepNext
    PROVE  /\ \A h \in Hours : lock'[h] = "sweep" <=> sweep'.pc = "putting" /\ sweep'.hour = h
           /\ \A h \in Hours : lock'[h] = "upload" <=> lock[h] = "upload"
<1>1. /\ sweep \in Sweeps /\ lock \in [Hours -> {"free", "upload", "sweep"}]
      /\ \A h \in Hours : lock[h] = "sweep" <=> sweep.pc = "putting" /\ sweep.hour = h
  BY DEF ArchiveInv, ArchiveTyped, TypeOK, OwnersInv
<1>2. NextFile(sweep).pc # "putting" /\ sweep.hour \in Hours  BY <1>1, NextFileFacts DEF Sweeps
<1>3. AfterStored.pc # "putting"  BY <1>1, <1>2 DEF AfterStored, Sweeps
<1>4. ASSUME UNCHANGED lock, sweep.pc # "putting", sweep'.pc # "putting"
      PROVE  /\ \A h \in Hours : lock'[h] = "sweep" <=> sweep'.pc = "putting" /\ sweep'.hour = h
             /\ \A h \in Hours : lock'[h] = "upload" <=> lock[h] = "upload"
  BY <1>1, <1>4
<1>5. CASE SweepStart
  <2>1. UNCHANGED lock /\ sweep.pc # "putting" /\ sweep'.pc # "putting"
    BY <1>5 DEF SweepStart, IdleSweep
  <2> QED  BY <1>4, <2>1
<1>6. CASE SweepVisit \/ SweepHead \/ SweepHeadFails \/ SweepStat
  <2>1. UNCHANGED lock /\ sweep.pc # "putting"
    BY <1>6 DEF SweepVisit, SweepHead, SweepHeadFails, SweepStat
  <2>2. \/ sweep' \in {NextFile(sweep), AfterStored, [sweep EXCEPT !.pc = "remove"]}
        \/ sweep' = [sweep EXCEPT !.pc = "put", !.stored = Len(bucket[sweep.hour])]
        \/ sweep' = [sweep EXCEPT !.pc = "head", !.size = Len(disk[sweep.hour]), !.mtime = mtime[sweep.hour]]
    BY <1>6 DEF SweepVisit, SweepHead, SweepHeadFails, SweepStat
  <2>3. sweep'.pc # "putting"
    BY <1>1, <1>2, <1>3, <2>2 DEF Sweeps
  <2> QED  BY <1>4, <2>1, <2>3
<1>7. CASE SweepRemove
  <2>1. UNCHANGED lock /\ sweep.pc # "putting" /\ sweep' = NextFile(sweep)
    BY <1>7 DEF SweepRemove
  <2> QED  BY <1>2, <1>4, <2>1
<1>8. CASE SweepPut
  <2>1. /\ sweep.pc # "putting" /\ lock[sweep.hour] = "free"
        /\ lock' = [lock EXCEPT ![sweep.hour] = "sweep"]
        /\ sweep'.pc = "putting" /\ sweep'.hour = sweep.hour
    BY <1>1, <1>8 DEF SweepPut, Sweeps
  <2> QED  BY <1>1, <1>2, <2>1
<1>9. ASSUME NEW applied \in BOOLEAN, NEW ok \in BOOLEAN, SweepPutEnd(applied, ok)
      PROVE  /\ \A h \in Hours : lock'[h] = "sweep" <=> sweep'.pc = "putting" /\ sweep'.hour = h
             /\ \A h \in Hours : lock'[h] = "upload" <=> lock[h] = "upload"
  <2>1. /\ sweep.pc = "putting" /\ sweep' \in {NextFile(sweep), AfterStored}
        /\ lock' = [lock EXCEPT ![sweep.hour] = "free"]
    BY <1>9 DEF SweepPutEnd, AfterPut
  <2>2. sweep'.pc # "putting"  BY <1>2, <1>3, <2>1
  <2> QED  BY <1>1, <1>2, <2>1, <2>2
<1> QED  BY <1>5, <1>6, <1>7, <1>8, <1>9 DEF SweepNext

LEMMA OwnersStep ==
    ASSUME ArchiveInv, [Next]_vars
    PROVE  OwnersInv'
<1>1. /\ OwnersInv /\ lock \in [Hours -> {"free", "upload", "sweep"}]
      /\ holds \in [Hours -> Nat] /\ uploads \in [Hours -> Nat] /\ open \in SUBSET Hours
  BY DEF ArchiveInv, ArchiveTyped, TypeOK
<1>2. ASSUME UNCHANGED <<proc, holds, uploads, open, lock, sweep>> PROVE OwnersInv'
  BY <1>1, <1>2 DEF OwnersInv, HoldsCountOwners, Up
<1>3. CASE Admit \/ Write \/ Offer
  <2>1. UNCHANGED <<proc, holds, uploads, open, lock, sweep>>
    BY <1>3 DEF Admit, Write, Offer, writerVars, uploadVars
  <2> QED  BY <1>2, <2>1
<1>4. CASE Tick \/ BeginClose \/ CloseOffers \/ Flush \/ UNCHANGED vars
  <2>1. UNCHANGED <<proc, holds, uploads, open, lock, sweep>>
    BY <1>4 DEF Tick, BeginClose, CloseOffers, Flush, intakeVars, writerVars, uploadVars, vars
  <2> QED  BY <1>2, <2>1
<1>5. CASE Handle
  <2>1. PICK rx \in QueuedReception, hr \in Hours, due \in SUBSET Hours : HandleOf(rx, hr, due)
    BY <1>5, HandleDoes
  <2>2. /\ due \subseteq open \union {hr} /\ open' = (open \union {hr}) \ due
        /\ Up /\ UNCHANGED <<lock, sweep>>
        /\ uploads' = [h \in Hours |-> IF h \in due THEN uploads[h] + 1 ELSE uploads[h]]
        /\ holds' = [h \in Hours |-> IF h = hr /\ hr \notin open THEN holds[h] + 1 ELSE holds[h]]
    BY <2>1 DEF HandleOf, Writing, Up
  <2>3. ASSUME NEW h \in Hours
        PROVE  holds'[h] = uploads'[h] + (IF h \in open' THEN 1 ELSE 0) /\ (uploads[h] > 0 => uploads'[h] > 0)
    <3>1. /\ holds[h] = uploads[h] + (IF h \in open THEN 1 ELSE 0)
          /\ holds[h] \in Nat /\ uploads[h] \in Nat
      BY <1>1, <2>2 DEF OwnersInv, HoldsCountOwners
    <3>2. /\ uploads'[h] = IF h \in due THEN uploads[h] + 1 ELSE uploads[h]
          /\ holds'[h] = IF h = hr /\ hr \notin open THEN holds[h] + 1 ELSE holds[h]
      BY <2>2
    <3> QED  BY <2>2, <3>1, <3>2
  <2> QED  BY <1>1, <2>2, <2>3 DEF OwnersInv, HoldsCountOwners
<1>6. CASE Drained
  <2>1. /\ open' = {} /\ UNCHANGED <<uploads, lock, sweep>> /\ Up
        /\ holds' = [h \in Hours |-> IF h \in open THEN holds[h] - 1 ELSE holds[h]]
    BY <1>6 DEF Drained, uploadVars, Up
  <2>2. ASSUME NEW h \in Hours PROVE holds'[h] = uploads'[h] + (IF h \in open' THEN 1 ELSE 0)
    <3>1. holds[h] = uploads[h] + (IF h \in open THEN 1 ELSE 0) /\ uploads[h] \in Nat
      BY <1>1, <2>1 DEF OwnersInv, HoldsCountOwners
    <3> QED  BY <2>1, <3>1
  <2> QED  BY <1>1, <2>1, <2>2 DEF OwnersInv, HoldsCountOwners
<1>7. ASSUME NEW h \in Hours, UploadStart(h) PROVE OwnersInv'
  BY <1>1, <1>7 DEF OwnersInv, HoldsCountOwners, Up, UploadStart, writerVars
<1>8. ASSUME NEW h \in Hours, NEW applied \in BOOLEAN, UploadEnd(h, applied) PROVE OwnersInv'
  <2>1. /\ Up /\ lock[h] = "upload" /\ uploads[h] > 0 /\ UNCHANGED <<open, sweep>>
        /\ lock' = [lock EXCEPT ![h] = "free"]
        /\ uploads' = [uploads EXCEPT ![h] = @ - 1] /\ holds' = [holds EXCEPT ![h] = @ - 1]
    BY <1>1, <1>8 DEF UploadEnd, Released, OwnersInv, writerVars
  <2>2. ASSUME NEW g \in Hours PROVE holds'[g] = uploads'[g] + (IF g \in open' THEN 1 ELSE 0)
    <3>1. holds[g] = uploads[g] + (IF g \in open THEN 1 ELSE 0) /\ uploads[g] \in Nat
      BY <1>1, <2>1 DEF OwnersInv, HoldsCountOwners
    <3> QED  BY <1>1, <2>1, <3>1
  <2>3. \A g \in Hours : lock'[g] = "upload" => uploads'[g] > 0
    BY <1>1, <2>1 DEF OwnersInv
  <2>4. \A g \in Hours : lock'[g] = "sweep" <=> sweep'.pc = "putting" /\ sweep'.hour = g
    BY <1>1, <2>1 DEF OwnersInv
  <2> QED  BY <2>2, <2>3, <2>4 DEF OwnersInv, HoldsCountOwners
<1>9. CASE SweepNext
  BY <1>1, <1>9, SweepFrames, SweepLocks DEF OwnersInv, HoldsCountOwners, Up
<1>10. CASE Done \/ Restart
  <2>1. UNCHANGED <<holds, uploads, open, lock, sweep>>
    BY <1>10 DEF Done, Restart, writerVars, uploadVars
  <2>2. \A h \in Hours : holds[h] = uploads[h] + (IF h \in open THEN 1 ELSE 0)
    <3>1. CASE Done  BY <1>1, <3>1 DEF Done, Up, OwnersInv, HoldsCountOwners
    <3>2. CASE Restart  BY <3>2 DEF Restart, Up, ArchiveInv, DownInv
    <3> QED  BY <1>10, <3>1, <3>2
  <2> QED  BY <1>1, <2>1, <2>2 DEF OwnersInv, HoldsCountOwners
<1>11. CASE Exit \/ Crash
  <2>1. proc' = "down" /\ lock' = [h \in Hours |-> "free"] /\ sweep' = IdleSweep
    BY <1>11, GoneDoes DEF Gone
  <2>2. ~Up'  BY <2>1 DEF Up
  <2>3. \A h \in Hours : lock'[h] = "free"  BY <2>1
  <2>4. sweep'.pc # "putting"  BY <2>1 DEF IdleSweep
  <2> QED  BY <2>2, <2>3, <2>4 DEF OwnersInv, HoldsCountOwners
<1> QED
  BY <1>3, <1>4, <1>5, <1>6, <1>7, <1>8, <1>9, <1>10, <1>11 DEF Next

LEMMA WriterStep ==
    ASSUME ArchiveInv, [Next]_vars
    PROVE  WriterInv'
<1>1. WriterInv  BY DEF ArchiveInv
<1>2. ASSUME UNCHANGED <<open, buf, nextClose, latest>> PROVE WriterInv'
  BY <1>1, <1>2 DEF WriterInv
<1>3. CASE Admit \/ Write \/ Offer \/ Tick \/ BeginClose \/ CloseOffers \/ Done \/ Restart \/ UNCHANGED vars
  <2>1. UNCHANGED <<open, buf, nextClose, latest>>
    BY <1>3 DEF Admit, Write, Offer, Tick, BeginClose, CloseOffers, Done, Restart, writerVars, vars
  <2> QED  BY <1>2, <2>1
<1>4. ASSUME NEW h \in Hours, UploadStart(h) \/ \E applied \in BOOLEAN : UploadEnd(h, applied) PROVE WriterInv'
  <2>1. UNCHANGED <<open, buf, nextClose, latest>>
    BY <1>4 DEF UploadStart, UploadEnd, writerVars
  <2> QED  BY <1>2, <2>1
<1>5. CASE SweepNext  BY <1>2, <1>5, SweepFrames
<1>6. CASE Handle  BY <1>6, HandleDoes
<1>7. CASE Flush
  <2>1. UNCHANGED <<open, nextClose, latest>> /\ buf' = [h \in Hours |-> <<>>]  BY <1>7 DEF Flush
  <2> QED  BY <1>1, <2>1 DEF WriterInv
<1>8. CASE Drained \/ Exit \/ Crash
  <2>1. open' = {} /\ buf' = [h \in Hours |-> <<>>]  BY <1>8, GoneDoes DEF Drained, Gone
  <2> QED  BY <2>1 DEF WriterInv
<1> QED  BY <1>3, <1>4, <1>5, <1>6, <1>7, <1>8 DEF Next

-----------------------------------------------------------------------------
(* The clock. *)

\* Nothing reopens the hour of a file that is not recent (GraceCoversReopening).
LEMMA OldIsShut ==
    ASSUME ArchiveInv, InFile, ~Recent
    PROVE  Shut(sweep.hour) <= now
<1>1. /\ sweep.hour \in Hours /\ sweep.mtime \in Nat /\ sweep.began \in Nat /\ now \in Nat
      /\ Start(sweep.hour) <= sweep.mtime /\ sweep.began <= now
  BY DEF ArchiveInv, ArchiveTyped, TypeOK, Sweeps, SweepInv, ClockInv
<1>2. ArchiveGrace \in Nat /\ Shut(sweep.hour) \in Nat /\ Shut(sweep.hour) <= sweep.mtime + ArchiveGrace
  BY <1>1, HourFacts, ArchiveAssumption
<1>3. ~(sweep.mtime + ArchiveGrace > sweep.began)  BY DEF Recent
<1> QED  BY <1>1, <1>2, <1>3

LEMMA ClockStep ==
    ASSUME ArchiveInv, [Next]_vars
    PROVE  ClockInv'
<1> DEFINE TimelyQueue == \A i \in DOMAIN queue : queue[i].recv <= now /\ now <= queue[i].recv + MaxLag
           TimelyProducer == \A i \in DOMAIN admitted : admitted[i].recv <= now /\ now <= admitted[i].recv + MaxLag
           FileTimes == \A h \in Hours : mtime[h] <= now /\ (disk[h] # <<>> => Start(h) <= mtime[h])
           Objects == \A h \in Hours : bucket[h] # <<>> /\ disk[h] = <<>> => Shut(h) <= now
<1>1. ClockInv <=> TimelyQueue /\ TimelyProducer /\ FileTimes /\ Objects /\ sweep.began <= now
  BY DEF ClockInv
<1>2. (ClockInv <=> TimelyQueue /\ TimelyProducer /\ FileTimes /\ Objects /\ sweep.began <= now)'
  BY DEF ClockInv
<1>3. TimelyQueue /\ TimelyProducer /\ FileTimes /\ Objects /\ sweep.began <= now
  BY <1>1 DEF ArchiveInv
<1>4. /\ now \in Nat /\ MaxLag \in Nat /\ sweep.began \in Nat
      /\ queue \in Seq(QueuedReception) /\ admitted \in Seq(QueuedReception)
      /\ \A rx \in QueuedReception : rx.recv \in Nat
      /\ \A h \in Hours : mtime[h] \in Nat /\ Start(h) \in Nat /\ Shut(h) \in Nat
      /\ \A h \in Hours : h \in open \/ uploads[h] > 0 => disk[h] # <<>>
  <2>1. /\ now \in Nat /\ queue \in Seq(QueuedReception) /\ admitted \in Seq(QueuedReception)
        /\ \A rx \in QueuedReception : rx.recv \in Nat
        /\ \A h \in Hours : mtime[h] \in Nat
    BY Typing
  <2>2. MaxLag \in Nat /\ \A h \in Hours : Start(h) \in Nat /\ Shut(h) \in Nat
    BY ArchiveAssumption, HourFacts
  <2>3. sweep.began \in Nat  BY DEF ArchiveInv, ArchiveTyped, Sweeps
  <2>4. \A h \in Hours : h \in open \/ uploads[h] > 0 => disk[h] # <<>>
    BY DEF ArchiveInv, FilesInv, OwnedFileStays
  <2> QED  BY <2>1, <2>2, <2>3, <2>4
<1>5. CASE Admit
  <2>1. /\ admitted' = <<[id |-> nextId, recv |-> now]>>
        /\ UNCHANGED <<now, queue, mtime, disk, bucket, sweep>>
    BY <1>5 DEF Admit, writerVars, fileVars, uploadVars
  <2>2. TimelyProducer'  BY <1>4, <2>1
  <2> QED  BY <1>2, <1>3, <2>1, <2>2
<1>6. CASE Write
  <2>1. /\ queue' = queue \o admitted /\ admitted' = <<>>
        /\ UNCHANGED <<now, mtime, disk, bucket, sweep>>
    BY <1>6 DEF Write, fileVars, uploadVars
  <2>2. ASSUME NEW i \in DOMAIN (queue \o admitted)
        PROVE  (\E j \in DOMAIN queue : (queue \o admitted)[i] = queue[j])
               \/ (\E j \in DOMAIN admitted : (queue \o admitted)[i] = admitted[j])
    <3>1. /\ Len(queue) \in Nat /\ Len(admitted) \in Nat /\ i \in 1..(Len(queue) + Len(admitted))
          /\ i <= Len(queue) => i \in DOMAIN queue /\ (queue \o admitted)[i] = queue[i]
          /\ i > Len(queue) => i - Len(queue) \in DOMAIN admitted /\ (queue \o admitted)[i] = admitted[i - Len(queue)]
      BY <1>4
    <3> QED  BY <3>1
  <2>3. TimelyQueue'  BY <1>3, <2>1, <2>2
  <2>4. TimelyProducer'  BY <2>1
  <2> QED  BY <1>2, <1>3, <2>1, <2>3, <2>4
<1>7. CASE Offer
  <2>1. PICK recv \in 0..now : now - recv <= MaxLag /\ queue' = Append(queue, [id |-> nextId, recv |-> recv])
    BY <1>7 DEF Offer
  <2>2. UNCHANGED <<now, admitted, mtime, disk, bucket, sweep>>
    BY <1>7 DEF Offer, fileVars, uploadVars
  <2>3. ASSUME NEW i \in DOMAIN queue'
        PROVE  queue'[i].recv <= now /\ now <= queue'[i].recv + MaxLag
    <3>1. i \in 1..(Len(queue) + 1) /\ Len(queue) \in Nat
      <4>1. DOMAIN queue' = 1..(Len(queue) + 1)  BY <1>4, <2>1
      <4> QED  BY <1>4, <4>1
    <3>2. CASE i <= Len(queue)
      <4>1. i \in DOMAIN queue /\ queue'[i] = queue[i]  BY <1>4, <2>1, <3>1, <3>2
      <4> QED  BY <1>3, <4>1
    <3>3. CASE i = Len(queue) + 1
      <4>1. queue'[i].recv = recv  BY <1>4, <2>1, <3>3
      <4> QED  BY <1>4, <2>1, <4>1
    <3> QED  BY <3>1, <3>2, <3>3
  <2>4. TimelyQueue'  BY <2>2, <2>3
  <2> QED  BY <1>2, <1>3, <2>2, <2>4
<1>8. CASE Handle
  <2>1. PICK rx \in QueuedReception, hr \in Hours, due \in SUBSET Hours :
          HandleOf(rx, hr, due) /\ HandledFile(rx, hr, due)
    BY <1>8, HandleDoes
  <2>2. /\ queue # <<>> /\ queue' = Tail(queue) /\ UNCHANGED <<now, admitted, bucket, sweep>>
        /\ Start(hr) <= now /\ now < Shut(hr) /\ due \subseteq open \union {hr}
        /\ mtime' = [h \in Hours |-> IF h \in due \/ (h = hr /\ hr \notin open) THEN now ELSE mtime[h]]
    BY <2>1 DEF HandleOf, intakeVars
  <2>3. \A h \in Hours : (h \in open \union {hr} => disk'[h] # <<>>) /\ (h \notin open \union {hr} => disk'[h] = disk[h])
    BY <2>1 DEF HandledFile
  <2>4. TimelyQueue'
    <3>1. \A i \in DOMAIN Tail(queue) : i + 1 \in DOMAIN queue /\ Tail(queue)[i] = queue[i + 1]
      BY <1>4, <2>2
    <3> QED  BY <1>3, <2>2, <3>1
  <2>5. FileTimes'
    <3>1. ASSUME NEW h \in Hours PROVE mtime'[h] <= now /\ (disk'[h] # <<>> => Start(h) <= mtime'[h])
      <4>1. h \in open => Start(h) <= mtime[h] /\ mtime[h] <= now  BY <1>3, <1>4
      <4>2. CASE h \in due \/ (h = hr /\ hr \notin open)
        <5>1. mtime'[h] = now  BY <2>2, <4>2
        <5> QED  BY <1>4, <2>2, <4>1, <4>2, <5>1
      <4>3. CASE h \notin due /\ ~(h = hr /\ hr \notin open)
        <5>1. mtime'[h] = mtime[h]  BY <2>2, <4>3
        <5> QED  BY <1>3, <2>3, <4>1, <4>3, <5>1
      <4> QED  BY <4>2, <4>3
    <3> QED  BY <2>2, <3>1
  <2>6. Objects'  BY <1>3, <2>2, <2>3
  <2> QED  BY <1>2, <1>3, <2>2, <2>4, <2>5, <2>6
<1>9. CASE Flush \/ Drained
  <2>1. /\ UNCHANGED <<now, queue, admitted, bucket, sweep>>
        /\ mtime' = [h \in Hours |-> IF h \in open THEN now ELSE mtime[h]]
    BY <1>9, WrittenOut DEF Flush, Drained, intakeVars, uploadVars
  <2>2. \A h \in Hours : (disk[h] # <<>> => disk'[h] # <<>>) /\ (h \notin open => disk'[h] = disk[h])
    BY <1>9, WrittenOut
  <2>3. FileTimes'
    <3>1. ASSUME NEW h \in Hours PROVE mtime'[h] <= now /\ (disk'[h] # <<>> => Start(h) <= mtime'[h])
      <4>1. CASE h \in open
        <5>1. mtime'[h] = now /\ Start(h) <= mtime[h] /\ mtime[h] <= now  BY <1>3, <1>4, <2>1, <4>1
        <5> QED  BY <1>4, <5>1
      <4>2. CASE h \notin open  BY <1>3, <2>1, <2>2, <4>2
      <4> QED  BY <4>1, <4>2
    <3> QED  BY <2>1, <3>1
  <2>4. Objects'  BY <1>3, <2>1, <2>2
  <2> QED  BY <1>2, <1>3, <2>1, <2>3, <2>4
<1>10. ASSUME NEW h \in Hours, UploadStart(h) PROVE ClockInv'
  BY <1>2, <1>3, <1>10 DEF UploadStart, intakeVars, writerVars, fileVars
<1>11. ASSUME NEW h \in Hours, NEW applied \in BOOLEAN, UploadEnd(h, applied) PROVE ClockInv'
  <2>1. /\ UNCHANGED <<now, queue, admitted, mtime, disk, sweep>> /\ uploads[h] > 0
        /\ \A g \in Hours \ {h} : bucket'[g] = bucket[g]
    BY <1>11 DEF UploadEnd, Stored, intakeVars, writerVars, fileVars, ArchiveInv, ArchiveTyped, TypeOK, OwnersInv
  <2>2. Objects'  BY <1>3, <1>4, <2>1
  <2> QED  BY <1>2, <1>3, <2>1, <2>2
<1>12. CASE SweepNext
  <2>1. UNCHANGED <<now, queue, admitted, mtime>> /\ sweep'.began \in {0, now, sweep.began}
    BY <1>12, SweepFrames, SweepTyped
  <2>2. sweep'.began <= now  BY <1>3, <1>4, <2>1
  <2>3. FileTimes' /\ Objects'
    <3>1. CASE SweepRemove
      <4>1. /\ UNCHANGED bucket /\ sweep.pc = "remove"
            /\ \A h \in Hours : disk'[h] = disk[h] \/ (h = sweep.hour /\ disk'[h] = <<>>)
        BY <3>1 DEF SweepRemove, ArchiveInv, ArchiveTyped, TypeOK
      <4>2. Shut(sweep.hour) <= now
        <5>1. InFile /\ ~Recent  BY <4>1 DEF InFile, ArchiveInv, SweepInv
        <5> QED  BY <5>1, OldIsShut
      <4> QED  BY <1>3, <2>1, <4>1, <4>2
    <3>2. CASE \E applied, ok \in BOOLEAN : SweepPutEnd(applied, ok)
      <4>1. /\ UNCHANGED disk /\ sweep.pc = "putting"
            /\ \A h \in Hours : bucket'[h] = bucket[h] \/ h = sweep.hour
        BY <3>2 DEF SweepPutEnd, Stored, ArchiveInv, ArchiveTyped, TypeOK
      <4>2. disk[sweep.hour] # <<>>  BY <4>1 DEF ArchiveInv, SweepInv, InFile
      <4> QED  BY <1>3, <2>1, <4>1, <4>2
    <3>3. CASE UNCHANGED <<disk, bucket>>  BY <1>3, <2>1, <3>3
    <3> QED
      BY <1>12, <3>1, <3>2, <3>3
      DEF SweepNext, SweepStart, SweepVisit, SweepHead, SweepHeadFails, SweepPut, SweepStat
  <2> QED  BY <1>2, <1>3, <2>1, <2>2, <2>3
<1>13. CASE Tick
  <2>1. /\ now' = now + 1 /\ UNCHANGED <<queue, admitted, mtime, disk, bucket, sweep>>
        /\ \A i \in DOMAIN queue : now + 1 - queue[i].recv <= MaxLag
        /\ \A i \in DOMAIN admitted : now + 1 - admitted[i].recv <= MaxLag
    BY <1>13 DEF Tick, intakeVars, writerVars, fileVars, uploadVars
  <2>2. /\ \A i \in DOMAIN queue : queue[i].recv \in Nat
        /\ \A i \in DOMAIN admitted : admitted[i].recv \in Nat
    <3>1. /\ \A i \in DOMAIN queue : queue[i] \in QueuedReception
          /\ \A i \in DOMAIN admitted : admitted[i] \in QueuedReception
      BY <1>4
    <3> QED  BY <1>4, <3>1
  <2>3. TimelyQueue' /\ TimelyProducer'  BY <1>3, <1>4, <2>1, <2>2
  <2>4. FileTimes' /\ Objects' /\ sweep'.began <= now'  BY <1>3, <1>4, <2>1
  <2> QED  BY <1>2, <2>3, <2>4
<1>14. CASE BeginClose \/ CloseOffers \/ Done \/ Restart \/ UNCHANGED vars
  <2>1. UNCHANGED <<now, queue, admitted, mtime, disk, bucket, sweep>>
    BY <1>14 DEF BeginClose, CloseOffers, Done, Restart, intakeVars, writerVars, fileVars, uploadVars, vars
  <2> QED  BY <1>2, <1>3, <2>1
<1>15. CASE Exit \/ Crash
  <2>1. /\ queue' = <<>> /\ admitted' = <<>> /\ sweep' = IdleSweep
        /\ UNCHANGED <<now, mtime, disk, bucket>>
    BY <1>15, GoneDoes DEF Gone
  <2>2. sweep'.began <= now'  BY <1>4, <2>1 DEF IdleSweep
  <2>3. TimelyQueue' /\ TimelyProducer'  BY <2>1
  <2> QED  BY <1>2, <1>3, <2>1, <2>2, <2>3
<1> QED
  BY <1>5, <1>6, <1>7, <1>8, <1>9, <1>10, <1>11, <1>12, <1>13, <1>14, <1>15 DEF Next

-----------------------------------------------------------------------------
(* Files, puts and objects. *)

\* A file that only grew, and no object or lock that changed.
LEMMA FilesGrow ==
    ASSUME ArchiveInv, UNCHANGED <<bucket, putting, lock>>,
           \A h \in Hours : disk'[h] \in Contents /\ Prefix(disk[h], disk'[h]),
           \A h \in Hours : disk'[h] # <<>> => disk[h] # <<>> \/ bucket[h] = <<>>,
           \A h \in Hours : h \in open' \/ uploads'[h] > 0 => disk'[h] # <<>>
    PROVE  FilesInv'
<1>1. ASSUME NEW h \in Hours, disk'[h] # <<>> PROVE Prefix(bucket'[h], disk'[h])
  <2>1. PICK b \in Contents, d \in Contents, e \in Contents : b = bucket[h] /\ d = disk[h] /\ e = disk'[h]
    BY Typing
  <2>2. Prefix(d, e)  BY <2>1
  <2>3. CASE d # <<>>
    <3>1. Prefix(b, d)  BY <2>1, <2>3 DEF ArchiveInv, FilesInv
    <3> QED  BY <2>1, <2>2, <3>1, PrefixTransitive
  <2>4. CASE b = <<>>  BY <2>1, <2>4, PrefixFacts
  <2> QED  BY <1>1, <2>1, <2>3, <2>4
<1>2. ASSUME NEW h \in Hours, lock'[h] # "free" PROVE Prefix(bucket'[h], putting'[h]) /\ Prefix(putting'[h], disk'[h])
  <2>1. PICK p \in Contents, d \in Contents, e \in Contents : p = putting[h] /\ d = disk[h] /\ e = disk'[h]
    BY Typing
  <2>2. Prefix(d, e)  BY <2>1
  <2>3. Prefix(bucket[h], p) /\ Prefix(p, d)  BY <1>2, <2>1 DEF ArchiveInv, FilesInv
  <2> QED  BY <2>1, <2>2, <2>3, PrefixTransitive
<1> QED  BY <1>1, <1>2 DEF FilesInv, OwnedFileStays

\* A put of hour h starts on the file, or ends with its bytes in the bucket or not.
LEMMA PutsKeep ==
    ASSUME ArchiveInv, NEW h \in Hours, UNCHANGED <<disk, open>>, disk[h] # <<>>,
           \A g \in Hours : uploads'[g] > 0 => uploads[g] > 0,
           \A g \in Hours \ {h} : bucket'[g] = bucket[g] /\ putting'[g] = putting[g] /\ lock'[g] = lock[g],
           \/ /\ bucket'[h] = bucket[h] /\ putting'[h] = disk[h]
           \/ /\ lock[h] # "free" /\ lock'[h] = "free" /\ bucket'[h] \in {bucket[h], putting[h]}
    PROVE  FilesInv'
<1>1. PICK b \in Contents, d \in Contents, p \in Contents : b = bucket[h] /\ d = disk[h] /\ p = putting[h]
  BY Typing
<1>2. Prefix(b, d) /\ Prefix(d, d)  BY <1>1, PrefixFacts DEF ArchiveInv, FilesInv
<1>3. lock[h] # "free" => Prefix(p, d)  BY <1>1 DEF ArchiveInv, FilesInv
<1>4. ASSUME NEW g \in Hours, disk'[g] # <<>> PROVE Prefix(bucket'[g], disk'[g])
  <2>1. CASE g = h  BY <1>1, <1>2, <1>3, <2>1
  <2>2. CASE g # h  BY <1>4, <2>2 DEF ArchiveInv, FilesInv
  <2> QED  BY <2>1, <2>2
<1>5. ASSUME NEW g \in Hours, lock'[g] # "free" PROVE Prefix(bucket'[g], putting'[g]) /\ Prefix(putting'[g], disk'[g])
  <2>1. CASE g = h  BY <1>1, <1>2, <1>5, <2>1
  <2>2. CASE g # h  BY <1>5, <2>2 DEF ArchiveInv, FilesInv
  <2> QED  BY <2>1, <2>2
<1>6. ASSUME NEW g \in Hours, g \in open' \/ uploads'[g] > 0 PROVE disk'[g] # <<>>
  <2> QED  BY <1>6 DEF ArchiveInv, FilesInv, OwnedFileStays
<1> QED  BY <1>4, <1>5, <1>6 DEF FilesInv, OwnedFileStays

LEMMA FilesStep ==
    ASSUME ArchiveInv, [Next]_vars
    PROVE  FilesInv'
<1>1. /\ FilesInv /\ lock \in [Hours -> {"free", "upload", "sweep"}] /\ disk \in [Hours -> Contents]
      /\ bucket \in [Hours -> Contents] /\ putting \in [Hours -> Contents] /\ uploads \in [Hours -> Nat]
      /\ open \in SUBSET Hours /\ sweep.hour \in Hours
      /\ \A h \in Hours : h \in open \/ uploads[h] > 0 => disk[h] # <<>>
  BY DEF ArchiveInv, ArchiveTyped, TypeOK, FilesInv, OwnedFileStays
<1>2. ASSUME UNCHANGED <<open, uploads, disk, bucket, putting, lock>> PROVE FilesInv'
  BY <1>1, <1>2 DEF FilesInv, OwnedFileStays
<1>3. CASE Admit \/ Write \/ Offer \/ Tick \/ BeginClose \/ CloseOffers \/ Done \/ Restart \/ UNCHANGED vars
  <2>1. UNCHANGED <<open, uploads, disk, bucket, putting, lock>>
    BY <1>3 DEF Admit, Write, Offer, Tick, BeginClose, CloseOffers, Done, Restart, writerVars, fileVars, uploadVars, vars
  <2> QED  BY <1>2, <2>1
<1>4. CASE Handle
  <2>1. PICK rx \in QueuedReception, hr \in Hours, due \in SUBSET Hours :
          HandleOf(rx, hr, due) /\ HandledFile(rx, hr, due)
    BY <1>4, HandleDoes
  <2>2. /\ UNCHANGED <<now, lock, putting, bucket>> /\ now < Shut(hr)
        /\ due \subseteq open \union {hr} /\ open' = (open \union {hr}) \ due
        /\ \A h \in Hours : uploads'[h] = IF h \in due THEN uploads[h] + 1 ELSE uploads[h]
    BY <2>1 DEF HandleOf
  <2>3. \A h \in Hours : /\ disk'[h] \in Contents /\ Prefix(disk[h], disk'[h])
                         /\ h \in open \union {hr} => disk'[h] # <<>>
                         /\ h \notin open \union {hr} => disk'[h] = disk[h]
    BY <2>1 DEF HandledFile
  <2>4. disk[hr] = <<>> => bucket[hr] = <<>>
    <3>1. now \in Nat /\ Shut(hr) \in Nat  BY HourFacts, Typing
    <3> QED  BY <2>2, <3>1 DEF ArchiveInv, ClockInv
  <2>5. \A h \in Hours : disk'[h] # <<>> => disk[h] # <<>> \/ bucket[h] = <<>>
    BY <1>1, <2>3, <2>4
  <2>6. \A h \in Hours : h \in open' \/ uploads'[h] > 0 => disk'[h] # <<>>
    BY <1>1, <2>2, <2>3
  <2> QED  BY <2>2, <2>3, <2>5, <2>6, FilesGrow
<1>5. CASE Flush \/ Drained
  <2>1. UNCHANGED <<bucket, putting, lock, uploads>> /\ open' \subseteq open
    BY <1>5 DEF Flush, Drained, uploadVars
  <2>2. \A h \in Hours : /\ disk'[h] \in Contents /\ Prefix(disk[h], disk'[h])
                         /\ disk[h] # <<>> => disk'[h] # <<>>
                         /\ h \notin open => disk'[h] = disk[h]
    BY <1>5, WrittenOut
  <2>3. \A h \in Hours : disk'[h] # <<>> => disk[h] # <<>> \/ bucket[h] = <<>>
    BY <1>1, <2>2
  <2>4. \A h \in Hours : h \in open' \/ uploads'[h] > 0 => disk'[h] # <<>>
    BY <1>1, <2>1, <2>2
  <2> QED  BY <2>1, <2>2, <2>3, <2>4, FilesGrow
<1>6. ASSUME NEW h \in Hours, UploadStart(h) PROVE FilesInv'
  <2>1. /\ UNCHANGED <<disk, open, uploads, bucket>> /\ disk[h] # <<>>
        /\ lock' = [lock EXCEPT ![h] = "upload"] /\ putting' = [putting EXCEPT ![h] = disk[h]]
    BY <1>1, <1>6 DEF UploadStart, writerVars, fileVars
  <2>2. /\ \A g \in Hours \ {h} : putting'[g] = putting[g] /\ lock'[g] = lock[g]
        /\ putting'[h] = disk[h]
    BY <1>1, <2>1
  <2> QED  BY <2>1, <2>2, PutsKeep
<1>7. ASSUME NEW h \in Hours, NEW applied \in BOOLEAN, UploadEnd(h, applied) PROVE FilesInv'
  <2>1. /\ UNCHANGED <<disk, open>> /\ lock[h] = "upload" /\ disk[h] # <<>>
        /\ lock' = [lock EXCEPT ![h] = "free"] /\ putting' = [putting EXCEPT ![h] = <<>>]
        /\ bucket' = [bucket EXCEPT ![h] = IF applied THEN putting[h] ELSE @]
        /\ uploads' = [uploads EXCEPT ![h] = @ - 1] /\ uploads[h] > 0
    BY <1>1, <1>7 DEF UploadEnd, Stored, writerVars, fileVars, ArchiveInv, OwnersInv
  <2>2. /\ \A g \in Hours \ {h} : bucket'[g] = bucket[g] /\ putting'[g] = putting[g] /\ lock'[g] = lock[g]
        /\ lock[h] # "free" /\ lock'[h] = "free" /\ bucket'[h] \in {bucket[h], putting[h]}
    BY <1>1, <2>1
  <2>3. \A g \in Hours : uploads'[g] > 0 => uploads[g] > 0  BY <1>1, <2>1
  <2> QED  BY <2>1, <2>2, <2>3, PutsKeep
<1>8. CASE SweepStart \/ SweepVisit \/ SweepHead \/ SweepHeadFails \/ SweepStat
  <2>1. UNCHANGED <<open, uploads, disk, bucket, putting, lock>>
    BY <1>8 DEF SweepStart, SweepVisit, SweepHead, SweepHeadFails, SweepStat, SweepFrame, writerVars
  <2> QED  BY <1>2, <2>1
<1>9. CASE SweepPut
  <2>1. /\ UNCHANGED <<disk, open, uploads, bucket>> /\ sweep.pc = "put"
        /\ lock' = [lock EXCEPT ![sweep.hour] = "sweep"]
        /\ putting' = [putting EXCEPT ![sweep.hour] = disk[sweep.hour]]
    BY <1>9 DEF SweepPut, SweepFrame, writerVars
  <2>2. PICK h \in Hours : h = sweep.hour  BY <1>1
  <2>3. disk[h] # <<>>  BY <2>1, <2>2 DEF ArchiveInv, SweepInv, InFile
  <2>4. /\ \A g \in Hours \ {h} : putting'[g] = putting[g] /\ lock'[g] = lock[g]
        /\ putting'[h] = disk[h]
    BY <1>1, <2>1, <2>2
  <2> QED  BY <2>1, <2>3, <2>4, PutsKeep
<1>10. ASSUME NEW applied \in BOOLEAN, NEW ok \in BOOLEAN, SweepPutEnd(applied, ok) PROVE FilesInv'
  <2>1. /\ UNCHANGED <<disk, open, uploads>> /\ sweep.pc = "putting"
        /\ lock' = [lock EXCEPT ![sweep.hour] = "free"]
        /\ putting' = [putting EXCEPT ![sweep.hour] = <<>>]
        /\ bucket' = [bucket EXCEPT ![sweep.hour] = IF applied THEN putting[sweep.hour] ELSE @]
    BY <1>10 DEF SweepPutEnd, Stored, SweepFrame, writerVars
  <2>2. PICK h \in Hours : h = sweep.hour  BY <1>1
  <2>3. disk[h] # <<>>  BY <2>1, <2>2 DEF ArchiveInv, SweepInv, InFile
  <2>4. lock[h] = "sweep"  BY <2>1, <2>2 DEF ArchiveInv, OwnersInv
  <2>5. /\ \A g \in Hours \ {h} : bucket'[g] = bucket[g] /\ putting'[g] = putting[g] /\ lock'[g] = lock[g]
        /\ lock[h] # "free" /\ lock'[h] = "free" /\ bucket'[h] \in {bucket[h], putting[h]}
    BY <1>1, <2>1, <2>2, <2>4
  <2> QED  BY <2>1, <2>3, <2>5, PutsKeep
<1>11. CASE SweepRemove
  <2>1. /\ UNCHANGED <<open, uploads, bucket, putting, lock>> /\ sweep.pc = "remove"
        /\ disk' \in {disk, [disk EXCEPT ![sweep.hour] = <<>>]}
    BY <1>11 DEF SweepRemove, SweepFrame, writerVars
  <2>2. sweep.hour \notin open /\ uploads[sweep.hour] = 0
    BY <2>1 DEF ArchiveInv, SweepInv, InFile
  <2>3. lock[sweep.hour] = "free"
    <3>1. lock[sweep.hour] # "upload" /\ lock[sweep.hour] # "sweep"
      BY <1>1, <2>1, <2>2 DEF ArchiveInv, OwnersInv
    <3> QED  BY <1>1, <3>1
  <2>4. disk'[sweep.hour] \in {disk[sweep.hour], <<>>} /\ \A h \in Hours \ {sweep.hour} : disk'[h] = disk[h]
    BY <1>1, <2>1
  <2>5. \A h \in Hours : disk'[h] # <<>> => disk'[h] = disk[h]  BY <2>4
  <2>6. \A h \in Hours : h \in open' \/ uploads'[h] > 0 => disk'[h] # <<>>
    BY <1>1, <2>1, <2>2, <2>4
  <2>7. \A h \in Hours : disk'[h] # <<>> => Prefix(bucket'[h], disk'[h])
    BY <1>1, <2>1, <2>5 DEF FilesInv
  <2>8. \A h \in Hours : lock'[h] # "free" => Prefix(bucket'[h], putting'[h]) /\ Prefix(putting'[h], disk'[h])
    BY <1>1, <2>1, <2>3, <2>4 DEF FilesInv
  <2> QED  BY <2>6, <2>7, <2>8 DEF FilesInv, OwnedFileStays
<1>12. CASE Exit \/ Crash
  <2>1. /\ open' = {} /\ uploads' = [h \in Hours |-> 0] /\ lock' = [h \in Hours |-> "free"]
        /\ UNCHANGED <<disk, bucket>>
    BY <1>12, GoneDoes DEF Gone
  <2> QED  BY <1>1, <2>1 DEF FilesInv, OwnedFileStays
<1> QED
  BY <1>3, <1>4, <1>5, <1>6, <1>7, <1>8, <1>9, <1>10, <1>11, <1>12 DEF Next, SweepNext

-----------------------------------------------------------------------------
(* The sweep. *)

LEMMA SweepStep ==
    ASSUME ArchiveInv, [Next]_vars
    PROVE  SweepInv'
<1>1. /\ SweepInv /\ sweep \in Sweeps /\ sweep.hour \in Hours /\ sweep.size \in Nat
      /\ bucket \in [Hours -> Contents] /\ putting \in [Hours -> Contents] /\ disk \in [Hours -> Contents]
      /\ uploads \in [Hours -> Nat] /\ mtime \in [Hours -> 0..MaxTime]
      /\ \A h \in Hours : Len(disk[h]) \in Nat /\ Len(bucket[h]) \in Nat /\ Len(putting[h]) \in Nat
  <2>1. /\ SweepInv /\ sweep \in Sweeps
        /\ bucket \in [Hours -> Contents] /\ putting \in [Hours -> Contents] /\ disk \in [Hours -> Contents]
        /\ uploads \in [Hours -> Nat] /\ mtime \in [Hours -> 0..MaxTime]
    BY DEF ArchiveInv, ArchiveTyped, TypeOK
  <2>2. sweep.hour \in Hours /\ sweep.size \in Nat  BY <2>1 DEF Sweeps
  <2>3. \A c \in Contents : Len(c) \in Nat  BY DEF Contents
  <2> QED  BY <2>1, <2>2, <2>3
<1>2. ASSUME UNCHANGED <<sweep, disk, open, uploads, bucket, putting>> PROVE SweepInv'
  BY <1>1, <1>2 DEF SweepInv, InFile, Recent
<1>3. CASE Admit \/ Write \/ Offer \/ Tick \/ BeginClose \/ CloseOffers \/ Done \/ Restart \/ UNCHANGED vars
  <2>1. UNCHANGED <<sweep, disk, open, uploads, bucket, putting>>
    BY <1>3 DEF Admit, Write, Offer, Tick, BeginClose, CloseOffers, Done, Restart, writerVars, fileVars, uploadVars, vars
  <2> QED  BY <1>2, <2>1
<1>4. CASE Handle \/ Flush \/ Drained
  <2>1. /\ UNCHANGED <<sweep, bucket, putting>>
        /\ disk'[sweep.hour] \in Contents /\ Prefix(disk[sweep.hour], disk'[sweep.hour])
        /\ disk[sweep.hour] # <<>> => disk'[sweep.hour] # <<>>
    <3>1. CASE Handle
      <4>1. PICK rx \in QueuedReception, hr \in Hours, due \in SUBSET Hours :
              HandleOf(rx, hr, due) /\ HandledFile(rx, hr, due)
        BY <3>1, HandleDoes
      <4> QED  BY <1>1, <4>1 DEF HandleOf, HandledFile
    <3>2. CASE Flush \/ Drained
      BY <1>1, <3>2, WrittenOut DEF Flush, Drained, uploadVars
    <3> QED  BY <1>4, <3>1, <3>2
  <2>2. ASSUME InFile, ~Recent
        PROVE  disk'[sweep.hour] = disk[sweep.hour] /\ sweep.hour \notin open' /\ uploads'[sweep.hour] = 0
    <3>1. sweep.hour \notin open /\ uploads[sweep.hour] = 0  BY <1>1, <2>2 DEF SweepInv
    <3>2. CASE Handle
      <4>1. PICK rx \in QueuedReception, hr \in Hours, due \in SUBSET Hours :
              HandleOf(rx, hr, due) /\ HandledFile(rx, hr, due)
        BY <3>2, HandleDoes
      <4>2. /\ now < Shut(hr) /\ due \subseteq open \union {hr} /\ open' = (open \union {hr}) \ due
            /\ \A h \in Hours : uploads'[h] = IF h \in due THEN uploads[h] + 1 ELSE uploads[h]
        BY <4>1 DEF HandleOf
      <4>3. sweep.hour # hr
        <5>1. Shut(sweep.hour) <= now  BY <2>2, OldIsShut
        <5>2. now \in Nat /\ Shut(hr) \in Nat  BY HourFacts, Typing
        <5> QED  BY <4>2, <5>1, <5>2
      <4> QED  BY <1>1, <3>1, <4>1, <4>2, <4>3 DEF HandledFile
    <3>3. CASE Flush \/ Drained
      BY <1>1, <3>1, <3>3, WrittenOut DEF Flush, Drained, uploadVars
    <3> QED  BY <1>4, <3>2, <3>3
  <2>3. PICK d \in Contents, e \in Contents : d = disk[sweep.hour] /\ e = disk'[sweep.hour]
    BY <1>1, <2>1
  <2>4. Len(d) <= Len(e) /\ Len(d) \in Nat /\ Len(e) \in Nat
    BY <2>1, <2>3 DEF Prefix, Contents
  <2>5. InFile' => /\ disk'[sweep.hour] # <<>>
                   /\ Start(sweep.hour) <= sweep.mtime
                   /\ sweep.size <= Len(disk'[sweep.hour])
                   /\ ~Recent => sweep.hour \notin open' /\ uploads'[sweep.hour] = 0
    <3>1. InFile' <=> InFile  BY <2>1 DEF InFile
    <3> QED  BY <1>1, <2>1, <2>2, <2>3, <2>4, <3>1 DEF SweepInv
  <2>6. sweep.pc = "remove" => Len(disk'[sweep.hour]) = sweep.size
    BY <1>1, <2>2 DEF SweepInv, InFile
  <2> QED  BY <1>1, <2>1, <2>5, <2>6 DEF SweepInv, Recent
<1>5. ASSUME NEW h \in Hours, UploadStart(h) PROVE SweepInv'
  <2>1. /\ UNCHANGED <<sweep, disk, open, uploads, bucket>> /\ lock[h] = "free"
        /\ putting' = [putting EXCEPT ![h] = disk[h]]
    BY <1>5 DEF UploadStart, writerVars, fileVars
  <2>2. sweep.pc = "putting" => putting'[sweep.hour] = putting[sweep.hour]
    <3>1. sweep.pc = "putting" => sweep.hour # h  BY <1>1, <2>1 DEF ArchiveInv, OwnersInv
    <3> QED  BY <1>1, <2>1, <3>1
  <2> QED  BY <1>1, <2>1, <2>2 DEF SweepInv, InFile, Recent
<1>6. ASSUME NEW h \in Hours, NEW applied \in BOOLEAN, UploadEnd(h, applied) PROVE SweepInv'
  <2>1. /\ UNCHANGED <<sweep, disk, open>> /\ lock[h] = "upload" /\ uploads[h] > 0
        /\ putting' = [putting EXCEPT ![h] = <<>>]
        /\ bucket' = [bucket EXCEPT ![h] = IF applied THEN putting[h] ELSE @]
        /\ uploads' = [uploads EXCEPT ![h] = @ - 1]
    BY <1>6 DEF UploadEnd, Stored, writerVars, fileVars, ArchiveInv, OwnersInv
  <2>2. sweep.pc = "putting" => putting'[sweep.hour] = putting[sweep.hour]
    <3>1. sweep.pc = "putting" => sweep.hour # h  BY <1>1, <2>1 DEF ArchiveInv, OwnersInv
    <3> QED  BY <1>1, <2>1, <3>1
  <2>3. ASSUME InFile, ~Recent
        PROVE  uploads'[sweep.hour] = 0 /\ bucket'[sweep.hour] = bucket[sweep.hour]
    <3>1. uploads[sweep.hour] = 0  BY <1>1, <2>3 DEF SweepInv
    <3> QED  BY <1>1, <2>1, <3>1
  <2> QED  BY <1>1, <2>1, <2>2, <2>3 DEF SweepInv, InFile, Recent
<1>7. ASSUME sweep'.pc \in {"idle", "visit"} PROVE SweepInv'
  BY <1>7 DEF SweepInv, InFile
<1>8. NextFile(sweep).pc \in {"idle", "visit"}  BY <1>1, NextFileFacts
<1>9. CASE SweepStart
  <2>1. sweep'.pc = "visit"  BY <1>9 DEF SweepStart, IdleSweep
  <2> QED  BY <1>7, <2>1
<1>10. CASE SweepHeadFails \/ SweepRemove
  <2>1. sweep' = NextFile(sweep)  BY <1>10 DEF SweepHeadFails, SweepRemove
  <2> QED  BY <1>7, <1>8, <2>1
<1>11. CASE SweepVisit
  <2>1. CASE sweep' = NextFile(sweep)  BY <1>7, <1>8, <2>1
  <2>2. CASE sweep' # NextFile(sweep)
    <3>1. PICK h \in Hours : h = sweep.hour  BY <1>1
    <3>2. /\ Up /\ disk[h] # <<>> /\ ~(holds[h] > 0) /\ UNCHANGED <<disk, open, uploads, bucket, putting>>
          /\ sweep' = [sweep EXCEPT !.pc = "head", !.size = Len(disk[h]), !.mtime = mtime[h]]
      BY <1>11, <2>2, <3>1 DEF SweepVisit, SweepFrame, writerVars
    <3>3. sweep'.pc = "head" /\ sweep'.hour = h /\ sweep'.size = Len(disk[h]) /\ sweep'.mtime = mtime[h]
      BY <1>1, <3>1, <3>2 DEF Sweeps
    <3>4. h \notin open /\ uploads[h] = 0
      <4>1. holds[h] = uploads[h] + (IF h \in open THEN 1 ELSE 0) /\ holds[h] \in Nat /\ uploads[h] \in Nat
        BY <3>2, Typing DEF ArchiveInv, OwnersInv, HoldsCountOwners
      <4> QED  BY <3>2, <4>1
    <3>5. Start(h) <= mtime[h]  BY <3>2 DEF ArchiveInv, ClockInv
    <3> QED  BY <1>1, <3>2, <3>3, <3>4, <3>5 DEF SweepInv, InFile
  <2> QED  BY <2>1, <2>2
<1>12. ASSUME UNCHANGED <<disk, open, uploads, putting>>, InFile,
              sweep' \in {[sweep EXCEPT !.pc = "stat"], NextFile(sweep)},
              sweep' = NextFile(sweep) \/ (~Recent /\ sweep.size <= Len(bucket'[sweep.hour]))
       PROVE  SweepInv'
  <2>1. CASE sweep' = NextFile(sweep)  BY <1>7, <1>8, <2>1
  <2>2. CASE sweep' # NextFile(sweep)
    <3>1. /\ sweep'.pc = "stat" /\ sweep'.hour = sweep.hour /\ sweep'.size = sweep.size
          /\ sweep'.mtime = sweep.mtime /\ sweep'.began = sweep.began
      BY <1>1, <1>12, <2>2 DEF Sweeps
    <3> QED  BY <1>1, <1>12, <2>2, <3>1 DEF SweepInv, InFile, Recent
  <2> QED  BY <2>1, <2>2
<1>13. CASE SweepHead
  <2>1. /\ sweep.pc = "head" /\ UNCHANGED <<disk, open, uploads, bucket, putting>>
    BY <1>13 DEF SweepHead, SweepFrame, writerVars
  <2>2. CASE Len(bucket[sweep.hour]) > sweep.size
    <3>1. sweep' = NextFile(sweep)  BY <1>13, <2>2 DEF SweepHead
    <3> QED  BY <1>7, <1>8, <3>1
  <2>3. CASE Len(bucket[sweep.hour]) < sweep.size
    <3>1. sweep' = [sweep EXCEPT !.pc = "put", !.stored = Len(bucket[sweep.hour])]
      BY <1>1, <1>13, <2>3 DEF SweepHead
    <3>2. /\ sweep'.pc = "put" /\ sweep'.hour = sweep.hour /\ sweep'.size = sweep.size
          /\ sweep'.mtime = sweep.mtime /\ sweep'.began = sweep.began
      BY <1>1, <3>1 DEF Sweeps
    <3> QED  BY <1>1, <2>1, <3>2 DEF SweepInv, InFile, Recent
  <2>4. CASE Len(bucket[sweep.hour]) = sweep.size
    <3>1. sweep' = AfterStored  BY <1>1, <1>13, <2>4 DEF SweepHead
    <3> QED  BY <1>1, <1>12, <2>1, <2>4, <3>1 DEF AfterStored, InFile
  <2> QED  BY <1>1, <2>2, <2>3, <2>4
<1>14. CASE SweepPut
  <2>1. /\ sweep.pc = "put" /\ UNCHANGED <<disk, open, uploads, bucket>>
        /\ putting' = [putting EXCEPT ![sweep.hour] = disk[sweep.hour]]
        /\ sweep' = [sweep EXCEPT !.pc = "putting"]
    BY <1>14 DEF SweepPut, SweepFrame, writerVars
  <2>2. /\ sweep'.pc = "putting" /\ sweep'.hour = sweep.hour /\ sweep'.size = sweep.size
        /\ sweep'.mtime = sweep.mtime /\ sweep'.began = sweep.began
    BY <1>1, <2>1 DEF Sweeps
  <2>3. putting'[sweep.hour] = disk[sweep.hour]  BY <1>1, <2>1
  <2> QED  BY <1>1, <2>1, <2>2, <2>3 DEF SweepInv, InFile, Recent
<1>15. ASSUME NEW applied \in BOOLEAN, NEW ok \in BOOLEAN, SweepPutEnd(applied, ok) PROVE SweepInv'
  <2>1. CASE ~ok
    <3>1. sweep' = NextFile(sweep)  BY <1>15, <2>1 DEF SweepPutEnd, AfterPut
    <3> QED  BY <1>7, <1>8, <3>1
  <2>2. CASE ok
    <3>1. /\ sweep.pc = "putting" /\ UNCHANGED <<disk, open, uploads>> /\ sweep' = AfterStored
          /\ bucket' = [bucket EXCEPT ![sweep.hour] = putting[sweep.hour]]
      BY <1>15, <2>2 DEF SweepPutEnd, AfterPut, Stored, SweepFrame, writerVars
    <3>2. sweep.size <= Len(bucket'[sweep.hour])  BY <1>1, <3>1 DEF SweepInv
    <3>3. CASE Recent
      <4>1. sweep' = NextFile(sweep)  BY <3>1, <3>3 DEF AfterStored
      <4> QED  BY <1>7, <1>8, <4>1
    <3>4. CASE ~Recent
      <4>1. sweep' = [sweep EXCEPT !.pc = "stat"]  BY <3>1, <3>4 DEF AfterStored
      <4>2. /\ sweep'.pc = "stat" /\ sweep'.hour = sweep.hour /\ sweep'.size = sweep.size
            /\ sweep'.mtime = sweep.mtime /\ sweep'.began = sweep.began
        BY <1>1, <4>1 DEF Sweeps
      <4> QED  BY <1>1, <3>1, <3>2, <3>4, <4>2 DEF SweepInv, InFile, Recent
    <3> QED  BY <3>3, <3>4
  <2> QED  BY <2>1, <2>2
<1>16. CASE SweepStat
  <2>1. sweep.pc = "stat" /\ UNCHANGED <<disk, open, uploads, bucket, putting>>
    BY <1>16 DEF SweepStat, SweepFrame, writerVars
  <2>2. CASE sweep' = NextFile(sweep)  BY <1>7, <1>8, <2>2
  <2>3. CASE sweep' # NextFile(sweep)
    <3>1. Len(disk[sweep.hour]) = sweep.size /\ sweep' = [sweep EXCEPT !.pc = "remove"]
      BY <1>16, <2>3 DEF SweepStat
    <3>2. /\ sweep'.pc = "remove" /\ sweep'.hour = sweep.hour /\ sweep'.size = sweep.size
          /\ sweep'.mtime = sweep.mtime /\ sweep'.began = sweep.began
      BY <1>1, <3>1 DEF Sweeps
    <3> QED  BY <1>1, <2>1, <3>1, <3>2 DEF SweepInv, InFile, Recent
  <2> QED  BY <2>2, <2>3
<1>17. CASE Exit \/ Crash
  <2>1. Gone  BY <1>17, GoneDoes
  <2>2. sweep'.pc = "idle"  BY <2>1 DEF Gone, IdleSweep
  <2> QED  BY <1>7, <2>2
<1> QED
  BY <1>3, <1>4, <1>5, <1>6, <1>9, <1>10, <1>11, <1>13, <1>14, <1>15, <1>16, <1>17 DEF Next, SweepNext

-----------------------------------------------------------------------------
(* Where a reception is. *)

LEMMA NamesFacts ==
    /\ Names(<<>>) = {} /\ OneEach(<<>>)
    /\ \A r \in QueuedReception : Names(<<r>>) = {r.id}
  BY DEF Names, OneEach

LEMMA NamesAppend ==
    ASSUME NEW q \in Seq(QueuedReception), NEW r \in QueuedReception
    PROVE  /\ Names(Append(q, r)) = Names(q) \union {r.id}
           /\ OneEach(q) /\ r.id \notin Names(q) => OneEach(Append(q, r))
<1>1. /\ Len(q) \in Nat /\ DOMAIN q = 1..Len(q) /\ DOMAIN Append(q, r) = 1..(Len(q) + 1)
      /\ \A i \in DOMAIN q : Append(q, r)[i] = q[i]
      /\ Append(q, r)[Len(q) + 1] = r
  OBVIOUS
<1>2. \A i \in DOMAIN Append(q, r) : i \in DOMAIN q \/ i = Len(q) + 1  BY <1>1
<1>3. DOMAIN q \subseteq DOMAIN Append(q, r) /\ Len(q) + 1 \in DOMAIN Append(q, r)  BY <1>1
<1>4. Names(Append(q, r)) = Names(q) \union {r.id}
  <2>1. Names(Append(q, r)) \subseteq Names(q) \union {r.id}  BY <1>1, <1>2 DEF Names
  <2>2. Names(q) \union {r.id} \subseteq Names(Append(q, r))  BY <1>1, <1>3 DEF Names
  <2> QED  BY <2>1, <2>2
<1>5. ASSUME OneEach(q), r.id \notin Names(q) PROVE OneEach(Append(q, r))
  <2>1. \A i \in DOMAIN q : q[i].id # r.id  BY <1>5 DEF Names
  <2> QED  BY <1>1, <1>2, <1>5, <2>1 DEF OneEach
<1> QED  BY <1>4, <1>5

LEMMA NamesTail ==
    ASSUME NEW q \in Seq(QueuedReception), q # <<>>
    PROVE  /\ Names(q) = Names(Tail(q)) \union {Head(q).id}
           /\ OneEach(q) => OneEach(Tail(q)) /\ Head(q).id \notin Names(Tail(q))
<1>1. /\ 1 \in DOMAIN q /\ Head(q) = q[1] /\ DOMAIN q \subseteq Nat
      /\ \A i \in DOMAIN Tail(q) : i + 1 \in DOMAIN q /\ i + 1 # 1 /\ Tail(q)[i] = q[i + 1] /\ i \in Nat
      /\ \A i \in DOMAIN q : i = 1 \/ (i - 1 \in DOMAIN Tail(q) /\ q[i] = Tail(q)[i - 1])
  OBVIOUS
<1>2. Names(q) = Names(Tail(q)) \union {Head(q).id}
  <2>1. Names(q) \subseteq Names(Tail(q)) \union {Head(q).id}
    <3>1. ASSUME NEW i \in DOMAIN q PROVE q[i].id \in Names(Tail(q)) \union {Head(q).id}
      <4>1. CASE i = 1  BY <1>1, <4>1
      <4>2. CASE i # 1
        <5>1. i - 1 \in DOMAIN Tail(q) /\ q[i].id = Tail(q)[i - 1].id  BY <1>1, <4>2
        <5> QED  BY <5>1 DEF Names
      <4> QED  BY <4>1, <4>2
    <3> QED  BY <3>1 DEF Names
  <2>2. Names(Tail(q)) \union {Head(q).id} \subseteq Names(q)  BY <1>1 DEF Names
  <2> QED  BY <2>1, <2>2
<1>3. ASSUME OneEach(q) PROVE OneEach(Tail(q)) /\ Head(q).id \notin Names(Tail(q))
  <2>1. OneEach(Tail(q))
    <3> SUFFICES ASSUME NEW i \in DOMAIN Tail(q), NEW j \in DOMAIN Tail(q), Tail(q)[i].id = Tail(q)[j].id
                 PROVE  i = j
      BY DEF OneEach
    <3>1. i + 1 = j + 1  BY <1>1, <1>3 DEF OneEach
    <3> QED  BY <1>1, <3>1
  <2>2. Head(q).id \notin Names(Tail(q))  BY <1>1, <1>3 DEF OneEach, Names
  <2> QED  BY <2>1, <2>2
<1> QED  BY <1>2, <1>3

LEMMA SingleFacts ==
    ASSUME NEW S, NEW q \in Seq(S), Len(q) = 1
    PROVE  q[1] \in S /\ q = <<q[1]>>
<1>1. q[1] \in S  OBVIOUS
<1>2. PICK t \in Seq(S) : t = <<q[1]>> /\ Len(t) = 1 /\ t[1] = q[1]  BY <1>1
<1>3. \A i \in 1..1 : t[i] = q[i]  BY <1>2
<1>4. t = q  BY <1>2, <1>3
<1> QED  BY <1>1, <1>2, <1>4

\* The producer's reception joins the queue as one that is offered does.
LEMMA WriteAppends ==
    ASSUME ArchiveInv, Write
    PROVE  \E r \in QueuedReception : admitted = <<r>> /\ queue' = Append(queue, r)
<1>1. admitted \in Seq(QueuedReception) /\ queue \in Seq(QueuedReception) /\ Len(admitted) <= 1 /\ admitted # <<>>
  BY DEF Write, ArchiveInv, ArchiveTyped, TypeOK
<1>2. Len(admitted) = 1
  <2>1. PICK n \in Nat : n = Len(admitted)  BY <1>1
  <2>2. n = 1  BY <1>1, <2>1
  <2> QED  BY <2>1, <2>2
<1>3. PICK r \in QueuedReception : admitted = <<r>>
  BY <1>1, <1>2, SingleFacts
<1>4. queue' = queue \o <<r>>  BY <1>3 DEF Write
<1>5. queue \o <<r>> = Append(queue, r)  BY <1>1
<1> QED  BY <1>3, <1>4, <1>5

OnDisk == UNION {Ids(disk[h]) : h \in Hours}

PlaceSets ==
    /\ Volatile = Names(queue) \union Names(admitted) \union Buffered
    /\ Durable = Published \union OnDisk
    /\ \A r : /\ r \in Buffered <=> \E h \in Hours : r \in Ids(buf[h])
              /\ r \in OnDisk <=> \E h \in Hours : r \in Ids(disk[h])
              /\ r \in Published <=> \E h \in Hours : r \in Ids(bucket[h])

LEMMA PlaceSetsHold == PlaceSets /\ PlaceSets'
  BY DEF PlaceSets, Volatile, Durable, Published, OnDisk, Buffered, Names

\* The steps of the promise.
Accepted ==
    /\ nextId \in Receptions \ (Volatile \union Durable) /\ Volatile' = Volatile \union {nextId}
    /\ Durable' = Durable /\ Published' = Published
Persisted ==
    /\ \E R \in SUBSET Volatile : Volatile' = Volatile \ R /\ Durable' = Durable \union R
    /\ Published' = Published
PutThere ==
    /\ \E R \in SUBSET Durable : Published' = Published \union R
    /\ Volatile' = Volatile /\ Durable' = Durable
Lost ==
    /\ (Crash /\ proc # "drained") \/ Volatile = {}
    /\ Volatile' = {} /\ Durable' = Durable /\ Published' = Published

LEMMA AcceptStep ==
    ASSUME ArchiveInv, Admit \/ Offer
    PROVE  Accepted /\ PlacesInv'
<1>1. PICK r \in QueuedReception :
        /\ r.id = nextId /\ nextId \in Receptions /\ nextId' = nextId + 1
        /\ UNCHANGED <<buf, disk, bucket>>
        /\ \/ admitted = <<>> /\ admitted' = <<r>> /\ queue' = queue
           \/ admitted' = admitted /\ queue' = Append(queue, r)
  <2>1. nextId \in Receptions /\ now \in 0..MaxTime
    BY ArchiveAssumption DEF Admit, Offer, Receptions, ArchiveInv, ArchiveTyped, TypeOK
  <2>2. CASE Admit
    <3>1. PICK r \in QueuedReception : r = [id |-> nextId, recv |-> now]  BY <2>1 DEF QueuedReception
    <3>2. admitted' = <<r>>  BY <2>2, <3>1 DEF Admit
    <3> QED  BY <2>1, <2>2, <3>1, <3>2 DEF Admit, writerVars, fileVars, uploadVars
  <2>3. CASE Offer
    <3>1. PICK recv \in 0..now : queue' = Append(queue, [id |-> nextId, recv |-> recv])  BY <2>3 DEF Offer
    <3>3. recv \in 0..MaxTime  BY <2>1, <3>1, ArchiveAssumption
    <3>2. PICK r \in QueuedReception : r = [id |-> nextId, recv |-> recv]
      BY <2>1, <3>3 DEF QueuedReception
    <3> QED  BY <2>1, <2>3, <3>1, <3>2 DEF Offer, fileVars, uploadVars
  <2> QED  BY <2>2, <2>3
<1>2. queue \in Seq(QueuedReception) /\ nextId \in Nat /\ PlacesInv
  BY Typing DEF ArchiveInv
<1>3. nextId \notin Volatile \union Durable  BY <1>2 DEF PlacesInv
<1>4. Buffered' = Buffered /\ OnDisk' = OnDisk /\ Published' = Published
  BY <1>1 DEF Buffered, OnDisk, Published
<1>5. /\ Names(queue') \union Names(admitted') = Names(queue) \union Names(admitted) \union {nextId}
      /\ OneEach(queue')
      /\ Names(queue') \intersect Names(admitted') = {}
  <2>1. nextId \notin Names(queue) /\ nextId \notin Names(admitted)
    BY <1>3, PlaceSetsHold DEF PlaceSets
  <2>2. CASE admitted = <<>> /\ admitted' = <<r>> /\ queue' = queue
    <3>1. Names(admitted) = {} /\ Names(admitted') = {nextId}  BY <1>1, <2>2, NamesFacts
    <3> QED  BY <1>2, <2>1, <2>2, <3>1 DEF PlacesInv
  <2>3. CASE admitted' = admitted /\ queue' = Append(queue, r)
    <3>1. Names(queue') = Names(queue) \union {nextId} /\ OneEach(queue')
      BY <1>1, <1>2, <2>1, <2>3, NamesAppend DEF PlacesInv
    <3> QED  BY <1>2, <2>1, <2>3, <3>1 DEF PlacesInv
  <2> QED  BY <1>1, <2>2, <2>3
<1>6. Volatile' = Volatile \union {nextId} /\ Durable' = Durable
  BY <1>4, <1>5, PlaceSetsHold DEF PlaceSets
<1>7. Names(queue') \intersect Buffered' = {} /\ Names(admitted') \intersect Buffered' = {}
  <2>1. nextId \notin Buffered  BY <1>3, PlaceSetsHold DEF PlaceSets
  <2> QED  BY <1>2, <1>4, <1>5, <2>1 DEF PlacesInv
<1>8. \A q \in Volatile' \union Durable' : q < nextId'
  <2>1. \A q \in Volatile \union Durable : q < nextId /\ q \in Nat
    <3>1. \A q \in Volatile \union Durable : q < nextId  BY <1>2 DEF PlacesInv
    <3>2. Volatile \union Durable \subseteq Nat
      <4>1. \A h \in Hours : /\ Ids(buf[h]) \subseteq Nat /\ Ids(disk[h]) \subseteq Nat /\ Ids(bucket[h]) \subseteq Nat
        BY IdsAreReceptions, ArchiveAssumption DEF Receptions
      <4>2. Names(queue) \subseteq Nat /\ Names(admitted) \subseteq Nat
        <5>1. \A rx \in QueuedReception : rx.id \in Nat
          BY ArchiveAssumption DEF QueuedReception, Receptions
        <5>2. admitted \in Seq(QueuedReception)  BY DEF ArchiveInv, ArchiveTyped, TypeOK
        <5>3. /\ \A i \in DOMAIN queue : queue[i] \in QueuedReception
              /\ \A i \in DOMAIN admitted : admitted[i] \in QueuedReception
          BY <1>2, <5>2
        <5> QED  BY <5>1, <5>3 DEF Names
      <4> QED  BY <4>1, <4>2, PlaceSetsHold DEF PlaceSets
    <3> QED  BY <3>1, <3>2
  <2> QED  BY <1>1, <1>2, <1>6, <2>1
<1>9. PlacesInv'
  BY <1>1, <1>2, <1>5, <1>7, <1>8 DEF PlacesInv
<1> QED  BY <1>1, <1>3, <1>4, <1>6, <1>9 DEF Accepted

\* The rest of the invariant of places, where nothing is accepted.
LEMMA NoneNew ==
    ASSUME ArchiveInv, UNCHANGED nextId, Volatile' \union Durable' \subseteq Volatile \union Durable,
           OneEach(queue'), Names(queue') \intersect Names(admitted') = {},
           Names(queue') \intersect Buffered' = {}, Names(admitted') \intersect Buffered' = {},
           \A h, g \in Hours : h # g => Ids(buf'[h]) \intersect Ids(buf'[g]) = {}
    PROVE  PlacesInv'
  BY DEF PlacesInv, ArchiveInv

LEMMA NothingMoves ==
    ASSUME ArchiveInv, UNCHANGED <<nextId, queue, admitted, buf, disk, bucket>>
    PROVE  Persisted /\ PlacesInv'
<1>1. Volatile' = Volatile /\ Durable' = Durable /\ Published' = Published /\ Buffered' = Buffered
  BY DEF Volatile, Durable, Published, Buffered
<1>2. PlacesInv'  BY <1>1 DEF PlacesInv, ArchiveInv
<1>3. Persisted
  <2>1. {} \in SUBSET Volatile /\ Volatile' = Volatile \ {} /\ Durable' = Durable \union {}  BY <1>1
  <2> QED  BY <1>1, <2>1 DEF Persisted
<1> QED  BY <1>2, <1>3

LEMMA PersistStep ==
    ASSUME ArchiveInv, Write \/ Handle \/ Flush \/ Drained
    PROVE  Persisted /\ PlacesInv'
<1>1. PlacesInv /\ queue \in Seq(QueuedReception)  BY Typing DEF ArchiveInv
<1>2. CASE Write
  <2>1. PICK r \in QueuedReception : admitted = <<r>> /\ queue' = Append(queue, r)
    BY <1>2, WriteAppends
  <2>2. admitted' = <<>> /\ UNCHANGED <<nextId, buf, disk, bucket>>
    BY <1>2 DEF Write, fileVars, uploadVars
  <2>3. Buffered' = Buffered /\ OnDisk' = OnDisk /\ Published' = Published
    BY <2>2 DEF Buffered, OnDisk, Published
  <2>4. Names(admitted) = {r.id} /\ Names(admitted') = {}
    BY <2>1, <2>2, NamesFacts
  <2>5. Names(queue') = Names(queue) \union {r.id} /\ OneEach(queue')
    BY <1>1, <2>1, <2>4, NamesAppend DEF PlacesInv
  <2>6. Volatile' = Volatile /\ Durable' = Durable
    BY <2>3, <2>4, <2>5, PlaceSetsHold DEF PlaceSets
  <2>7. PlacesInv'
    BY <1>1, <2>2, <2>3, <2>4, <2>5, <2>6 DEF PlacesInv
  <2>8. {} \in SUBSET Volatile /\ Volatile' = Volatile \ {} /\ Durable' = Durable \union {}  BY <2>6
  <2> QED  BY <2>3, <2>7, <2>8 DEF Persisted
<1>3. CASE Handle
  <2>1. PICK rx \in QueuedReception, hr \in Hours, due \in SUBSET Hours :
          HandleOf(rx, hr, due) /\ HandledFile(rx, hr, due)
    BY <1>3, HandleDoes
  <2>2. /\ queue # <<>> /\ rx = Head(queue) /\ queue' = Tail(queue)
        /\ UNCHANGED <<nextId, admitted, bucket>>
        /\ buf' = [h \in Hours |-> IF h \in due THEN <<>> ELSE IF h = hr THEN Append(buf[h], rx.id) ELSE buf[h]]
    BY <2>1 DEF HandleOf, intakeVars
  <2>3. PICK id \in Receptions : id = rx.id  BY Typing
  <2>4. Names(queue) = Names(queue') \union {id} /\ OneEach(queue') /\ id \notin Names(queue')
    BY <1>1, <2>2, <2>3, NamesTail DEF PlacesInv
  <2>5. \A h \in Hours : Ids(buf'[h]) = IF h \in due THEN {}
                                       ELSE IF h = hr THEN Ids(buf[h]) \union {id} ELSE Ids(buf[h])
    <3>1. ASSUME NEW h \in Hours, h = hr, h \notin due PROVE Ids(buf'[h]) = Ids(buf[h]) \union {id}
      <4>1. PICK b \in Contents : b = buf[h]  BY Typing
      <4>2. id \in 0..(MaxReceptions + 1) /\ {id} \intersect Receptions = {id}  BY <2>3, Typing
      <4>3. Ids(Append(b, id)) = Ids(b) \union {id}  BY <4>2, FileAppend
      <4>4. buf'[h] = Append(b, id)  BY <2>2, <2>3, <3>1, <4>1
      <4> QED  BY <4>1, <4>3, <4>4
    <3>2. ASSUME NEW h \in Hours, h \in due PROVE Ids(buf'[h]) = {}
      <4>1. buf'[h] = <<>>  BY <2>2, <3>2
      <4> QED  BY <4>1, IdsAreReceptions
    <3>3. ASSUME NEW h \in Hours, h \notin due, h # hr PROVE Ids(buf'[h]) = Ids(buf[h])
      <4>1. buf'[h] = buf[h]  BY <2>2, <3>3
      <4> QED  BY <4>1
    <3> QED  BY <3>1, <3>2, <3>3
  <2>6. \A h \in Hours : Ids(disk'[h]) = Ids(disk[h]) \union
          (IF h \in due THEN Ids(buf[h]) \union (IF h = hr THEN {id} ELSE {}) ELSE {})
    BY <2>1, <2>3 DEF HandledFile
  <2> DEFINE WrittenOutNow(r) == (\E h \in due : r \in Ids(buf[h])) \/ (hr \in due /\ r = id)
  <2> DEFINE R == {r \in Receptions : WrittenOutNow(r)}
  <2>7. \A r : r \in R <=> (\E h \in due : r \in Ids(buf[h])) \/ (hr \in due /\ r = id)
    <3>1. \A h \in Hours : Ids(buf[h]) \subseteq Receptions  BY DEF Ids
    <3> QED  BY <2>3, <3>1
  <2> HIDE DEF R
  <2>8. /\ id \notin Names(admitted) /\ id \notin Buffered
        /\ \A h \in Hours : id \notin Ids(buf[h])
        /\ \A r : \A h, g \in Hours : r \in Ids(buf[h]) /\ r \in Ids(buf[g]) => h = g
    BY <1>1, <2>4, PlaceSetsHold DEF PlacesInv, PlaceSets
  <2>9. \A r : r \in Buffered' <=> (r \in Buffered \union {id}) /\ r \notin R
    <3>1. \A r : r \in Buffered' <=> \E h \in Hours : r \in Ids(buf'[h])
      BY PlaceSetsHold DEF PlaceSets
    <3>2. \A r : r \in Buffered <=> \E h \in Hours : r \in Ids(buf[h])
      BY PlaceSetsHold DEF PlaceSets
    <3>3. ASSUME NEW r, r \in Buffered' PROVE (r \in Buffered \union {id}) /\ r \notin R
      <4>1. PICK h \in Hours : r \in Ids(buf'[h])  BY <3>1, <3>3
      <4>2. h \notin due /\ (r \in Ids(buf[h]) \/ (h = hr /\ r = id))  BY <2>5, <4>1
      <4> QED  BY <2>7, <2>8, <3>2, <4>2
    <3>4. ASSUME NEW r, r \in Buffered, r \notin R PROVE r \in Buffered'
      <4>1. PICK h \in Hours : r \in Ids(buf[h])  BY <3>2, <3>4
      <4>2. h \notin due  BY <2>7, <3>4, <4>1
      <4> QED  BY <2>5, <3>1, <4>1, <4>2
    <3>5. id \notin R => id \in Buffered'  BY <2>5, <2>7, <3>1
    <3> QED  BY <3>3, <3>4, <3>5
  <2>10. R \subseteq Volatile /\ Volatile' = Volatile \ R
    <3>1. R \subseteq Buffered \union {id}  BY <2>7, PlaceSetsHold DEF PlaceSets
    <3>2. /\ Volatile = Names(queue') \union {id} \union Names(admitted) \union Buffered
          /\ Volatile' = Names(queue') \union Names(admitted) \union Buffered'
      BY <2>2, <2>4, PlaceSetsHold DEF PlaceSets
    <3>3. Names(queue') \intersect R = {} /\ Names(admitted) \intersect R = {}
      BY <1>1, <2>4, <2>8, <3>1 DEF PlacesInv
    <3> QED  BY <2>9, <3>1, <3>2, <3>3
  <2>11. Published' = Published /\ OnDisk' = OnDisk \union R
    <3>1. Published' = Published  BY <2>2 DEF Published
    <3>2. \A r : r \in OnDisk' <=> r \in OnDisk \/ r \in R
      <4>1. \A r : (r \in OnDisk <=> \E h \in Hours : r \in Ids(disk[h])) /\ (r \in OnDisk' <=> \E h \in Hours : r \in Ids(disk'[h]))
        BY PlaceSetsHold DEF PlaceSets
      <4> QED  BY <2>6, <2>7, <4>1
    <3> QED  BY <3>1, <3>2
  <2>12. Durable' = Durable \union R  BY <2>11, PlaceSetsHold DEF PlaceSets
  <2>13. PlacesInv'
    <3>1. Names(queue') \intersect Names(admitted') = {}  BY <1>1, <2>2, <2>4 DEF PlacesInv
    <3>2. Buffered' \subseteq Buffered \union {id}  BY <2>9
    <3>3. Names(queue') \intersect Buffered' = {} /\ Names(admitted') \intersect Buffered' = {}
      BY <1>1, <2>2, <2>4, <2>8, <3>2 DEF PlacesInv
    <3>4. \A h, g \in Hours : h # g => Ids(buf'[h]) \intersect Ids(buf'[g]) = {}
      BY <1>1, <2>5, <2>8 DEF PlacesInv
    <3>5. Volatile' \union Durable' \subseteq Volatile \union Durable  BY <2>10, <2>12
    <3> QED  BY <2>2, <2>4, <3>1, <3>3, <3>4, <3>5, NoneNew
  <2> QED  BY <2>10, <2>11, <2>12, <2>13 DEF Persisted
<1>4. CASE Flush \/ Drained
  <2>1. /\ UNCHANGED <<nextId, queue, admitted, bucket>>
        /\ buf' = [h \in Hours |-> <<>>]
        /\ \A h \in Hours : Ids(disk'[h]) = Ids(disk[h]) \union Ids(buf[h])
    BY <1>4, WrittenOut DEF Flush, Drained, intakeVars, uploadVars
  <2>2. \A h \in Hours : Ids(buf'[h]) = {}
    <3>1. \A h \in Hours : buf'[h] = <<>>  BY <2>1
    <3> QED  BY <3>1, IdsAreReceptions
  <2>3. Buffered' = {}  BY <2>2, PlaceSetsHold DEF PlaceSets
  <2>4. Published' = Published /\ OnDisk' = OnDisk \union Buffered
    <3>1. Published' = Published  BY <2>1 DEF Published
    <3>2. \A r : r \in OnDisk' <=> r \in OnDisk \/ r \in Buffered
      <4>1. \A r : r \in OnDisk <=> \E h \in Hours : r \in Ids(disk[h])
        BY PlaceSetsHold DEF PlaceSets
      <4>2. \A r : r \in OnDisk' <=> \E h \in Hours : r \in Ids(disk'[h])
        BY PlaceSetsHold DEF PlaceSets
      <4>3. \A r : r \in Buffered <=> \E h \in Hours : r \in Ids(buf[h])
        BY PlaceSetsHold DEF PlaceSets
      <4> QED  BY <2>1, <4>1, <4>2, <4>3
    <3> QED  BY <3>1, <3>2
  <2>5. Durable' = Durable \union Buffered  BY <2>4, PlaceSetsHold DEF PlaceSets
  <2>6. Volatile' = Volatile \ Buffered /\ Buffered \subseteq Volatile
    BY <1>1, <2>1, <2>3, PlaceSetsHold DEF PlaceSets, PlacesInv
  <2>7. PlacesInv'
    <3>1. Volatile' \union Durable' \subseteq Volatile \union Durable  BY <2>5, <2>6
    <3>2. OneEach(queue') /\ Names(queue') \intersect Names(admitted') = {}  BY <1>1, <2>1 DEF PlacesInv
    <3> QED  BY <2>1, <2>2, <2>3, <3>1, <3>2, NoneNew
  <2> QED  BY <2>4, <2>5, <2>6, <2>7 DEF Persisted
<1> QED  BY <1>2, <1>3, <1>4

\* A put ends: the hour's object is what it was, or what the put read of the file.
LEMMA PutEnds ==
    ASSUME ArchiveInv, NEW h \in Hours, UNCHANGED <<nextId, queue, admitted, buf, disk>>,
           lock[h] # "free", bucket'[h] \in {bucket[h], putting[h]},
           \A g \in Hours \ {h} : bucket'[g] = bucket[g]
    PROVE  PutThere /\ PlacesInv'
<1>1. PICK b \in Contents, p \in Contents, d \in Contents : b = bucket[h] /\ p = putting[h] /\ d = disk[h]
  BY Typing
<1>2. Ids(b) \subseteq Ids(p) /\ Ids(p) \subseteq Ids(d)
  <2>1. Prefix(b, p) /\ Prefix(p, d)  BY <1>1 DEF ArchiveInv, FilesInv
  <2> QED  BY <2>1, PrefixFacts
<1>3. /\ \A r : r \in Published <=> \E g \in Hours : r \in Ids(bucket[g])
      /\ \A r : r \in OnDisk <=> \E g \in Hours : r \in Ids(disk[g])
  BY PlaceSetsHold DEF PlaceSets
<1>4. \A r : r \in Published' <=> \E g \in Hours : r \in Ids(bucket'[g])
  BY PlaceSetsHold DEF PlaceSets
<1>5. Volatile' = Volatile /\ OnDisk' = OnDisk /\ Buffered' = Buffered
  BY DEF Volatile, OnDisk, Buffered
<1>6. Ids(p) \subseteq OnDisk  BY <1>1, <1>2, <1>3
<1>7. \E R \in SUBSET OnDisk : Published' = Published \union R
  <2>1. CASE bucket'[h] = bucket[h]
    <3>1. \A g \in Hours : bucket'[g] = bucket[g]  BY <2>1
    <3>2. Published' = Published \union {}  BY <1>3, <1>4, <3>1
    <3> QED  BY <3>2
  <2>2. CASE bucket'[h] = p
    <3>1. \A r : r \in Published' <=> r \in Published \/ r \in Ids(p)
      <4>1. ASSUME NEW r, r \in Published' PROVE r \in Published \/ r \in Ids(p)
        <5>1. PICK g \in Hours : r \in Ids(bucket'[g])  BY <1>4, <4>1
        <5>2. CASE g = h  BY <2>2, <5>1, <5>2
        <5>3. CASE g # h  BY <1>3, <5>1, <5>3
        <5> QED  BY <5>2, <5>3
      <4>2. ASSUME NEW r, r \in Published PROVE r \in Published'
        <5>1. PICK g \in Hours : r \in Ids(bucket[g])  BY <1>3, <4>2
        <5>2. r \in Ids(bucket'[g])
          <6>1. CASE g = h  BY <1>1, <1>2, <2>2, <5>1, <6>1
          <6>2. CASE g # h  BY <5>1, <6>2
          <6> QED  BY <6>1, <6>2
        <5> QED  BY <1>4, <5>2
      <4>3. ASSUME NEW r, r \in Ids(p) PROVE r \in Published'  BY <1>4, <2>2, <4>3
      <4> QED  BY <4>1, <4>2, <4>3
    <3>2. Published' = Published \union Ids(p)  BY <3>1
    <3> QED  BY <1>6, <3>2
  <2> QED  BY <1>1, <2>1, <2>2
<1>8. PICK R \in SUBSET OnDisk : Published' = Published \union R  BY <1>7
<1>9. Durable = Published \union OnDisk /\ Durable' = Published' \union OnDisk'
  BY PlaceSetsHold DEF PlaceSets
<1>10. Durable' = Durable /\ R \in SUBSET Durable  BY <1>5, <1>8, <1>9
<1>11. PlacesInv'
  BY <1>5, <1>10 DEF PlacesInv, ArchiveInv
<1> QED  BY <1>5, <1>8, <1>10, <1>11 DEF PutThere

\* The sweep deletes a file whose every byte is in the bucket.
LEMMA RemoveStep ==
    ASSUME ArchiveInv, SweepRemove
    PROVE  PutThere /\ PlacesInv'
<1>1. PICK h \in Hours : h = sweep.hour  BY DEF ArchiveInv, ArchiveTyped, TypeOK
<1>2. PICK b \in Contents, d \in Contents : b = bucket[h] /\ d = disk[h]  BY Typing
<1>3. /\ sweep.pc = "remove" /\ disk' \in {disk, [disk EXCEPT ![h] = <<>>]}
      /\ UNCHANGED <<nextId, queue, admitted, buf, bucket>>
  BY <1>1 DEF SweepRemove, SweepFrame, intakeVars, writerVars
<1>4. b = d
  <2>1. disk[h] # <<>> /\ Len(disk[h]) <= Len(bucket[h])
    BY <1>1, <1>3 DEF ArchiveInv, SweepInv, InFile
  <2>2. Prefix(b, d)  BY <1>2, <2>1 DEF ArchiveInv, FilesInv
  <2> QED  BY <1>2, <2>1, <2>2, PrefixFacts
<1>5. Volatile' = Volatile /\ Published' = Published /\ Buffered' = Buffered
  BY <1>3 DEF Volatile, Published, Buffered
<1>6. /\ \A r : r \in Published <=> \E g \in Hours : r \in Ids(bucket[g])
      /\ \A r : r \in OnDisk <=> \E g \in Hours : r \in Ids(disk[g])
      /\ Durable = Published \union OnDisk
  BY PlaceSetsHold DEF PlaceSets
<1>7. (\A r : r \in OnDisk' <=> \E g \in Hours : r \in Ids(disk'[g])) /\ Durable' = Published' \union OnDisk'
  BY PlaceSetsHold DEF PlaceSets
<1>8. disk \in [Hours -> Contents]  BY DEF ArchiveInv, ArchiveTyped, TypeOK
<1>9. \A g \in Hours : disk'[g] = disk[g] \/ (g = h /\ disk'[g] = <<>>)  BY <1>3, <1>8
<1>10. OnDisk' \subseteq OnDisk
  <2>1. ASSUME NEW g \in Hours PROVE Ids(disk'[g]) \subseteq Ids(disk[g])
    <3>1. CASE disk'[g] = disk[g]  BY <3>1
    <3>2. CASE disk'[g] = <<>>  BY <3>2, IdsAreReceptions
    <3> QED  BY <1>9, <3>1, <3>2
  <2> QED  BY <1>6, <1>7, <2>1
<1>11. OnDisk \subseteq Published \union OnDisk'
  <2>1. ASSUME NEW g \in Hours, NEW r \in Ids(disk[g]) PROVE r \in Published \union OnDisk'
    <3>1. CASE g = h  BY <1>2, <1>4, <1>6, <2>1, <3>1
    <3>2. CASE g # h
      <4>1. disk'[g] = disk[g]  BY <1>9, <3>2
      <4>2. r \in Ids(disk'[g])  BY <2>1, <4>1
      <4> QED  BY <1>7, <4>2
    <3> QED  BY <3>1, <3>2
  <2> QED  BY <1>6, <2>1
<1>12. Durable' = Durable  BY <1>5, <1>6, <1>7, <1>10, <1>11
<1>13. PlacesInv'
  BY <1>3, <1>5, <1>12 DEF PlacesInv, ArchiveInv
<1>14. {} \in SUBSET Durable /\ Published' = Published \union {}  BY <1>5
<1> QED  BY <1>5, <1>12, <1>13, <1>14 DEF PutThere

LEMMA PublishStep ==
    ASSUME ArchiveInv,
           \/ \E h \in Hours, applied \in BOOLEAN : UploadEnd(h, applied)
           \/ \E applied, ok \in BOOLEAN : SweepPutEnd(applied, ok)
           \/ SweepRemove
    PROVE  PutThere /\ PlacesInv'
<1>1. bucket \in [Hours -> Contents] /\ sweep.hour \in Hours
  BY DEF ArchiveInv, ArchiveTyped, TypeOK
<1>2. ASSUME NEW h \in Hours, NEW applied \in BOOLEAN, UploadEnd(h, applied) PROVE PutThere /\ PlacesInv'
  <2>1. /\ UNCHANGED <<nextId, queue, admitted, buf, disk>> /\ lock[h] # "free"
        /\ bucket' = [bucket EXCEPT ![h] = IF applied THEN putting[h] ELSE @]
    BY <1>2 DEF UploadEnd, Stored, intakeVars, writerVars, fileVars
  <2>2. bucket'[h] \in {bucket[h], putting[h]} /\ \A g \in Hours \ {h} : bucket'[g] = bucket[g]
    BY <1>1, <2>1
  <2> QED  BY <2>1, <2>2, PutEnds
<1>3. ASSUME NEW applied \in BOOLEAN, NEW ok \in BOOLEAN, SweepPutEnd(applied, ok) PROVE PutThere /\ PlacesInv'
  <2>1. PICK h \in Hours : h = sweep.hour  BY <1>1
  <2>2. /\ UNCHANGED <<nextId, queue, admitted, buf, disk>> /\ sweep.pc = "putting"
        /\ bucket' = [bucket EXCEPT ![h] = IF applied THEN putting[h] ELSE @]
    BY <1>3, <2>1 DEF SweepPutEnd, Stored, SweepFrame, intakeVars, writerVars
  <2>3. bucket'[h] \in {bucket[h], putting[h]} /\ \A g \in Hours \ {h} : bucket'[g] = bucket[g]
    BY <1>1, <2>2
  <2>4. lock[h] # "free"  BY <2>1, <2>2 DEF ArchiveInv, OwnersInv
  <2> QED  BY <2>2, <2>3, <2>4, PutEnds
<1> QED  BY <1>2, <1>3, RemoveStep

\* A process that has drained holds nothing that its end could lose.
LEMMA LoseStep ==
    ASSUME ArchiveInv, Exit \/ Crash
    PROVE  Lost /\ PlacesInv'
<1>1. Gone /\ UNCHANGED <<now, nextId, disk, mtime, bucket>> /\ (proc = "drained" \/ Crash)
  BY GoneDoes
<1>2. /\ queue' = <<>> /\ admitted' = <<>> /\ \A h \in Hours : buf'[h] = <<>>
      /\ UNCHANGED <<nextId, disk, bucket>>
  BY <1>1 DEF Gone
<1>3. Names(queue') = {} /\ Names(admitted') = {} /\ OneEach(queue')  BY <1>2, NamesFacts
<1>4. \A h \in Hours : Ids(buf'[h]) = {}  BY <1>2, IdsAreReceptions
<1>5. Buffered' = {}  BY <1>4, PlaceSetsHold DEF PlaceSets
<1>6. Volatile' = {}  BY <1>3, <1>5, PlaceSetsHold DEF PlaceSets
<1>7. Published' = Published /\ Durable' = Durable  BY <1>2 DEF Published, Durable
<1>8. PlacesInv'
  BY <1>2, <1>3, <1>4, <1>5, <1>6, <1>7, NoneNew
<1>9. proc = "drained" => Volatile = {}
  <2> SUFFICES ASSUME proc = "drained" PROVE Volatile = {}
    OBVIOUS
  <2>1. queue = <<>> /\ admitted = <<>> /\ open = {}  BY DEF ArchiveInv, ProcessInv
  <2>2. Names(queue) = {} /\ Names(admitted) = {}  BY <2>1, NamesFacts
  <2>3. \A h \in Hours : buf[h] = <<>>  BY <2>1 DEF ArchiveInv, WriterInv
  <2>4. \A h \in Hours : Ids(buf[h]) = {}  BY <2>3, IdsAreReceptions
  <2> QED  BY <2>2, <2>4, PlaceSetsHold DEF PlaceSets
<1> QED  BY <1>1, <1>6, <1>7, <1>8, <1>9 DEF Lost

\* Every step is one of the promise's.
LEMMA PlacesStep ==
    ASSUME ArchiveInv, [Next]_vars
    PROVE  (Accepted \/ Persisted \/ PutThere \/ Lost) /\ PlacesInv'
<1>1. CASE Admit \/ Offer  BY <1>1, AcceptStep
<1>2. CASE Write \/ Handle \/ Flush \/ Drained  BY <1>2, PersistStep
<1>3. CASE \/ \E h \in Hours, applied \in BOOLEAN : UploadEnd(h, applied)
           \/ \E applied, ok \in BOOLEAN : SweepPutEnd(applied, ok)
           \/ SweepRemove
  BY <1>3, PublishStep
<1>4. CASE Exit \/ Crash  BY <1>4, LoseStep
<1>5. CASE \/ Tick \/ BeginClose \/ CloseOffers \/ Done \/ Restart \/ UNCHANGED vars
           \/ SweepStart \/ SweepVisit \/ SweepHead \/ SweepHeadFails \/ SweepPut \/ SweepStat
           \/ \E h \in Hours : UploadStart(h)
  <2>1. UNCHANGED <<nextId, queue, admitted, buf, disk, bucket>>
    BY <1>5 DEF Tick, BeginClose, CloseOffers, Done, Restart, vars, SweepStart, SweepVisit, SweepHead,
       SweepHeadFails, SweepPut, SweepStat, UploadStart, SweepFrame, intakeVars, writerVars, fileVars, uploadVars
  <2> QED  BY <2>1, NothingMoves
<1> QED  BY <1>1, <1>2, <1>3, <1>4, <1>5 DEF Next, SweepNext

-----------------------------------------------------------------------------
(* The theorems. *)

LEMMA ArchiveInitHolds ==
    ASSUME Init
    PROVE  ArchiveInv
<1>1. /\ MaxTime \in Nat /\ MaxHour \in Nat /\ MaxReceptions \in Nat /\ QueueCap \in Nat /\ 0 \in Hours
  BY ArchiveAssumption DEF Hours
<1>2. <<>> \in Contents /\ <<>> \in Seq(Receptions) /\ <<>> \in Seq(QueuedReception) /\ Len(<<>>) = 0
  BY DEF Contents
<1>3. TypeOK  BY <1>1, <1>2 DEF Init, TypeOK, IdleSweep
<1>4. ArchiveTyped  BY <1>1, <1>2, <1>3 DEF Init, ArchiveTyped, IdleSweep, Sweeps
<1>5. ProcessInv /\ DownInv  BY DEF Init, ProcessInv, DownInv, Up
<1>6. OwnersInv  BY DEF Init, OwnersInv, HoldsCountOwners, IdleSweep
<1>7. ClockInv  BY DEF Init, ClockInv, IdleSweep
<1>8. FilesInv  BY DEF Init, FilesInv, OwnedFileStays
<1>9. SweepInv /\ WriterInv  BY DEF Init, SweepInv, InFile, IdleSweep, WriterInv
<1>10. PlacesInv
  <2>1. /\ \A h \in Hours : buf[h] = <<>> /\ disk[h] = <<>> /\ bucket[h] = <<>>
        /\ queue = <<>> /\ admitted = <<>>
    BY DEF Init
  <2>2. \A h \in Hours : Ids(buf[h]) = {} /\ Ids(disk[h]) = {} /\ Ids(bucket[h]) = {}
    BY <2>1, IdsAreReceptions
  <2>3. Names(queue) = {} /\ Names(admitted) = {} /\ OneEach(queue)  BY <2>1, NamesFacts
  <2>4. Volatile = {} /\ Durable = {} /\ Buffered = {}
    BY <2>2, <2>3, PlaceSetsHold DEF PlaceSets
  <2> QED  BY <2>2, <2>3, <2>4 DEF PlacesInv
<1> QED  BY <1>4, <1>5, <1>6, <1>7, <1>8, <1>9, <1>10 DEF ArchiveInv

LEMMA ArchiveStep ==
    ASSUME ArchiveInv, [Next]_vars
    PROVE  ArchiveInv'
<1>1. ArchiveTyped' /\ ProcessInv' /\ DownInv'  BY TypedStep, ProcessStep, DownStep
<1>2. OwnersInv' /\ ClockInv' /\ FilesInv'  BY OwnersStep, ClockStep, FilesStep
<1>3. SweepInv' /\ WriterInv' /\ PlacesInv'  BY SweepStep, WriterStep, PlacesStep
<1> QED  BY <1>1, <1>2, <1>3 DEF ArchiveInv

\* The invariant the archive rests on: types, the order of a stop, the counts of
\* owners, the clock and the files, what the sweep saw, and where receptions are
\* (archive.go: run, handle, rotate, sweep, shutdown).
THEOREM ArchiveHolds == Spec => []ArchiveInv
<1>1. Init => ArchiveInv  BY ArchiveInitHolds
<1>2. ArchiveInv /\ [Next]_vars => ArchiveInv'  BY ArchiveStep
<1> QED  BY <1>1, <1>2, PTL DEF Spec

\* No release and no reopen unprotects a file another owner still has, and no
\* sweep deletes one under its writer or upload (archive.go:107-112, 377-381).
THEOREM OwnersProtectFiles == Spec => []OwnersAreSafe
<1>1. ArchiveInv => OwnersAreSafe  BY DEF ArchiveInv, OwnersInv, FilesInv, OwnersAreSafe
<1> QED  BY <1>1, ArchiveHolds, PTL

\* No hour stays open past the reception that passes its grace: nextClose is
\* never later than an open hour's close time (archive.go:254-257).
THEOREM HoursCloseOnTime == Spec => []NoOverdueHour
<1>1. ArchiveInv => NoOverdueHour  BY DEF ArchiveInv, WriterInv, NoOverdueHour
<1> QED  BY <1>1, ArchiveHolds, PTL

\* Objects change only when a put of their key ends.
LEMMA ObjectsMove ==
    ASSUME ArchiveInv, [Next]_vars, NEW h \in Hours
    PROVE  bucket'[h] = bucket[h] \/ (lock[h] # "free" /\ bucket'[h] = putting[h])
<1>1. bucket \in [Hours -> Contents] /\ sweep.hour \in Hours
  BY DEF ArchiveInv, ArchiveTyped, TypeOK
<1>2. CASE bucket' = bucket  BY <1>2
<1>3. ASSUME NEW g \in Hours, NEW applied \in BOOLEAN, UploadEnd(g, applied)
      PROVE  bucket'[h] = bucket[h] \/ (lock[h] # "free" /\ bucket'[h] = putting[h])
  BY <1>1, <1>3 DEF UploadEnd, Stored
<1>4. ASSUME NEW applied \in BOOLEAN, NEW ok \in BOOLEAN, SweepPutEnd(applied, ok)
      PROVE  bucket'[h] = bucket[h] \/ (lock[h] # "free" /\ bucket'[h] = putting[h])
  <2>1. sweep.pc = "putting" /\ bucket' = [bucket EXCEPT ![sweep.hour] = IF applied THEN putting[sweep.hour] ELSE @]
    BY <1>4 DEF SweepPutEnd, Stored
  <2>2. lock[sweep.hour] # "free"  BY <1>1, <2>1 DEF ArchiveInv, OwnersInv
  <2> QED  BY <1>1, <2>1, <2>2
<1>5. CASE \/ Admit \/ Write \/ Offer \/ Handle \/ Flush \/ \E g \in Hours : UploadStart(g)
           \/ SweepStart \/ SweepVisit \/ SweepHead \/ SweepHeadFails \/ SweepPut \/ SweepStat \/ SweepRemove
           \/ Tick \/ BeginClose \/ CloseOffers \/ Done \/ Drained \/ Restart \/ UNCHANGED vars
  <2>1. bucket' = bucket
    BY <1>5 DEF Admit, Write, Offer, Handle, Flush, UploadStart, Tick, BeginClose, CloseOffers, Done, Drained,
       Restart, vars, SweepStart, SweepVisit, SweepHead, SweepHeadFails, SweepPut, SweepStat, SweepRemove,
       uploadVars
  <2> QED  BY <1>2, <2>1
<1>6. CASE Exit \/ Crash  BY <1>2, <1>6, GoneDoes
<1> QED  BY <1>3, <1>4, <1>5, <1>6 DEF Next, SweepNext

\* No put replaces an object by a shorter one or a stub, in whatever order the
\* uploads and the sweep's puts of its key end (archive.go:116-120).
THEOREM NoStubReplaces == Spec => ObjectsOnlyGrow
<1> DEFINE Grown == \A h \in Hours : /\ Len(bucket[h]) <= Len(bucket'[h])
                                     /\ bucket[h] = SubSeq(bucket'[h], 1, Len(bucket[h]))
<1>1. ArchiveInv /\ ArchiveInv' /\ [Next]_vars => [Grown]_vars
  <2> SUFFICES ASSUME ArchiveInv, [Next]_vars, NEW h \in Hours
               PROVE  Len(bucket[h]) <= Len(bucket'[h]) /\ bucket[h] = SubSeq(bucket'[h], 1, Len(bucket[h]))
    OBVIOUS
  <2>1. bucket'[h] = bucket[h] \/ (lock[h] # "free" /\ bucket'[h] = putting[h])
    BY ObjectsMove
  <2>2. PICK b \in Contents, p \in Contents : b = bucket[h] /\ p = putting[h]  BY Typing
  <2>3. CASE bucket'[h] = bucket[h]
    <3>1. Prefix(b, b)  BY PrefixFacts
    <3> QED  BY <2>2, <2>3, <3>1, PrefixFacts
  <2>4. CASE lock[h] # "free" /\ bucket'[h] = putting[h]
    <3>1. Prefix(b, p)  BY <2>2, <2>4 DEF ArchiveInv, FilesInv
    <3> QED  BY <2>2, <2>4, <3>1, PrefixFacts
  <2> QED  BY <2>1, <2>3, <2>4
<1> QED  BY <1>1, ArchiveHolds, PTL DEF Spec, ObjectsOnlyGrow

\* A stop that is not a crash loses nothing the archive took, and after the
\* writer's drain not even a crash does (pipeline.go:244-247, archive.go:179).
THEOREM StopsLoseNothing == Spec => OnlyACrashLoses
<1> DEFINE Kept == \/ Crash /\ proc # "drained"
                   \/ (Volatile \union Durable) \subseteq (Volatile \union Durable)'
<1>1. ArchiveInv /\ [Next]_vars => [Kept]_vars
  <2> SUFFICES ASSUME ArchiveInv, [Next]_vars PROVE Kept
    OBVIOUS
  <2>1. CASE Accepted  BY <2>1 DEF Accepted
  <2>2. CASE Persisted  BY <2>2 DEF Persisted
  <2>3. CASE PutThere  BY <2>3 DEF PutThere
  <2>4. CASE Lost  BY <2>4 DEF Lost
  <2> QED  BY <2>1, <2>2, <2>3, <2>4, PlacesStep
<1> QED  BY <1>1, ArchiveHolds, PTL DEF Spec, OnlyACrashLoses

\* The archive implements ArchivePromise: a reception it takes is new, reaches
\* the disk or dies with the process in memory, and once durable or published
\* stays so through sweeps, uploads, stops and crashes (archive.go: the sweep's
\* comment, and closeArchives in pipeline.go).
THEOREM ArchiveKeepsPromise == Spec => KeepsPromise
<1>1. Init => Promise!Init
  <2> SUFFICES ASSUME Init PROVE Promise!Init
    OBVIOUS
  <2>1. /\ \A h \in Hours : buf[h] = <<>> /\ disk[h] = <<>> /\ bucket[h] = <<>>
        /\ queue = <<>> /\ admitted = <<>>
    BY DEF Init
  <2>2. \A h \in Hours : Ids(buf[h]) = {} /\ Ids(disk[h]) = {} /\ Ids(bucket[h]) = {}
    BY <2>1, IdsAreReceptions
  <2>3. Names(queue) = {} /\ Names(admitted) = {}  BY <2>1, NamesFacts
  <2>4. Volatile = {} /\ Durable = {} /\ Published = {}
    BY <2>2, <2>3, PlaceSetsHold DEF PlaceSets
  <2> QED  BY <2>4 DEF Promise!Init
<1>2. ArchiveInv /\ [Next]_vars => [Promise!Next]_(Promise!vars)
  <2> SUFFICES ASSUME ArchiveInv, [Next]_vars PROVE Promise!Next
    OBVIOUS
  <2>1. CASE Accepted
    <3>1. Promise!Accept  BY <2>1 DEF Accepted, Promise!Accept
    <3> QED  BY <3>1 DEF Promise!Next
  <2>2. CASE Persisted
    <3>1. Promise!Persist  BY <2>2 DEF Persisted, Promise!Persist
    <3> QED  BY <3>1 DEF Promise!Next
  <2>3. CASE PutThere
    <3>1. Promise!Publish  BY <2>3 DEF PutThere, Promise!Publish
    <3> QED  BY <3>1 DEF Promise!Next
  <2>4. CASE Lost
    <3>1. Promise!Crash  BY <2>4 DEF Lost, Promise!Crash
    <3> QED  BY <3>1 DEF Promise!Next
  <2> QED  BY <2>1, <2>2, <2>3, <2>4, PlacesStep
<1> QED  BY <1>1, <1>2, ArchiveHolds, PTL DEF Spec, KeepsPromise, Promise!Spec
=============================================================================
