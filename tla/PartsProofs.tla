----------------------------- MODULE PartsProofs -----------------------------
(* Theorems about the components that run by themselves, each under its own *)
(* specification: dedupe's window and the verdict copies carry, a station's *)
(* series, own vessels, the reads of a vessel's record, the static states.  *)
EXTENDS StationSeries, Dedupe, OwnVessels, VesselReads, StaticStates, TLAPS, FiniteSetTheorems

-----------------------------------------------------------------------------
(* Dedupe (pipeline.go, dedupe_state.go). *)

\* What the window, the verdicts and the histories hold.
Times(f) == DOMAIN f \subseteq Payloads /\ \A k \in DOMAIN f : f[k] \in Nat

DedupeTyped ==
  /\ now \in Nat /\ boots \in Nat /\ seenHW \in Nat /\ file.hw \in Nat
  /\ up \in BOOLEAN
  /\ order = NoFold \/ order \in [key : Payloads, at : Nat]
  /\ Times(seen) /\ Times(bad) /\ Times(accepted) /\ Times(file.seen)
  /\ \A k \in DOMAIN folding : \A r \in folding[k] : r \in [key : {k}, at : Nat, implausible : BOOLEAN]
  /\ DOMAIN judged \subseteq Payloads
  /\ \A k \in DOMAIN judged : judged[k].at \in Nat /\ judged[k].boot \in Nat /\ judged[k].boot <= boots

\* A transmission this process judged bad is among the bad for as long as the
\* window holds it: the prune forgets both by one cutoff.
VerdictsKept ==
  up => \A k \in DOMAIN judged :
          /\ judged[k].boot = boots /\ judged[k].bad /\ order.key # k
          /\ k \in DOMAIN seen /\ seen[k] = judged[k].at
          => k \in DOMAIN bad /\ bad[k] = seen[k]

\* What should be in the window is in it, or lags the newest stamp by more than
\* the prune age; while the process is down, the file stands for the window.
InWindow(window, hw, k) == accepted[k] < hw - PruneAge \/ (k \in DOMAIN window /\ window[k] = accepted[k])
WindowKept ==
  \A k \in DOMAIN accepted : IF up THEN InWindow(seen, seenHW, k) ELSE InWindow(file.seen, file.hw, k)

DedupeInv == DedupeTyped /\ VerdictsKept /\ WindowKept

LEMMA LargerOfTwo ==
    ASSUME NEW a \in Nat, NEW b \in Nat
    PROVE  Max({a, b}) \in Nat /\ Max({a, b}) >= a /\ Max({a, b}) >= b
<1>1. PICK x \in {a, b} : \A y \in {a, b} : x >= y  OBVIOUS
<1>2. Max({a, b}) \in {a, b} /\ \A y \in {a, b} : Max({a, b}) >= y  BY <1>1 DEF Max
<1> QED  BY <1>2

\* The window's helpers.
LEMMA EntryAdded ==
    ASSUME NEW f, NEW k, NEW v
    PROVE  /\ DOMAIN WithEntry(f, k, v) = DOMAIN f \union {k}
           /\ WithEntry(f, k, v)[k] = v
           /\ \A x \in DOMAIN f : x # k => WithEntry(f, k, v)[x] = f[x]
  BY DEF WithEntry

LEMMA OldPruned ==
    ASSUME NEW f, NEW cutoff
    PROVE  /\ DOMAIN Younger(f, cutoff) = {x \in DOMAIN f : f[x] >= cutoff}
           /\ \A x \in DOMAIN Younger(f, cutoff) : Younger(f, cutoff)[x] = f[x]
  BY DEF Younger

LEMMA TimesAdded ==
    ASSUME NEW f, Times(f), NEW k \in Payloads, NEW t \in Nat
    PROVE  Times(WithEntry(f, k, t))
  BY EntryAdded DEF Times, WithEntry

LEMMA TimesPruned ==
    ASSUME NEW f, Times(f), NEW cutoff
    PROVE  Times(Younger(f, cutoff))
  BY OldPruned DEF Times, Younger

LEMMA NothingTimed == Times(NoEntries)
  BY DEF Times, NoEntries

\* Event times are naturals.
LEMMA ReceptionTimes ==
    ASSUME now \in Nat
    PROVE  LineTimes \subseteq Nat /\ PacketTimes \subseteq Nat
<1>1. Stamps \subseteq Nat /\ NoStamp \notin Nat  BY DedupeAssumption DEF Stamps, NoStamp
<1>2. ASSUME NEW rx \in Lines PROVE EventTime(rx) \in Nat
  BY <1>1 DEF EventTime, Lines
<1> QED  BY <1>1, <1>2 DEF LineTimes, PacketTimes

\* What a copy, and a transmission of its own, do to the window.
LEMMA Arrival ==
    ASSUME NEW k \in Payloads, DedupeTyped, ArriveLine(k) \/ ArrivePacket(k)
    PROVE  \E t \in Nat : Admitted /\ (Copy(k, t) \/ Accept(k, t))
                            /\ UNCHANGED <<now, up, boots, chOn, file, judged>>
  BY ReceptionTimes DEF ArriveLine, ArrivePacket, Arrive, DedupeTyped

LEMMA Acceptance ==
    ASSUME NEW k \in Payloads, NEW t \in Nat, DedupeTyped, Accept(k, t)
    PROVE  \E hw \in Nat :
             /\ hw >= seenHW /\ hw >= t /\ seenHW' = hw /\ ~IsCopy(k, t)
             /\ \/ seen' = WithEntry(seen, k, t) /\ bad' = bad
                \/ seen' = Younger(WithEntry(seen, k, t), hw - PruneAge) /\ bad' = Younger(bad, hw - PruneAge)
             /\ order' = [key |-> k, at |-> t] /\ accepted' = WithEntry(accepted, k, t)
             /\ folding' \in {folding, WithEntry(folding, k, {})} /\ UNCHANGED written
<1>1. seenHW \in Nat  BY DEF DedupeTyped
<1>2. PICK hw \in Nat : hw = Max({seenHW, t}) /\ hw >= seenHW /\ hw >= t  BY <1>1, LargerOfTwo
<1> QED  BY <1>2 DEF Accept, Cutoff

LEMMA DedupeTypedStep ==
    ASSUME DedupeTyped, [DedupeNext]_dedupeVars
    PROVE  DedupeTyped'
<1>1. ASSUME NEW k \in Payloads, ArriveLine(k) \/ ArrivePacket(k) PROVE DedupeTyped'
  <2>1. PICK t \in Nat : Admitted /\ (Copy(k, t) \/ Accept(k, t))
                           /\ UNCHANGED <<now, up, boots, chOn, file, judged>>
    BY <1>1, Arrival
  <2>2. CASE Copy(k, t)
    <3>1. UNCHANGED <<order, seen, bad, seenHW, accepted>>  BY <2>2 DEF Copy
    <3>2. k \in DOMAIN seen /\ seen[k] \in Nat  BY <2>2 DEF Copy, IsCopy, DedupeTyped, Times
    <3>3. Row(k, FALSE) \in [key : {k}, at : Nat, implausible : BOOLEAN]  BY <3>2 DEF Row
    <3>4. folding' = folding \/ (k \in DOMAIN folding /\ folding' = [folding EXCEPT ![k] = @ \union {Row(k, FALSE)}])
      BY <2>2 DEF Copy
    <3>5. \A x \in DOMAIN folding' : \A r \in folding'[x] : r \in [key : {x}, at : Nat, implausible : BOOLEAN]
      <4> SUFFICES ASSUME NEW x \in DOMAIN folding', NEW r \in folding'[x]
                   PROVE  r \in [key : {x}, at : Nat, implausible : BOOLEAN]
        OBVIOUS
      <4>1. x \in DOMAIN folding  BY <3>4
      <4>2. r \in folding[x] \/ (x = k /\ r = Row(k, FALSE))  BY <3>4, <4>1
      <4> QED  BY <3>3, <4>1, <4>2 DEF DedupeTyped
    <3> QED  BY <2>1, <3>1, <3>5 DEF DedupeTyped, Times
  <2>3. CASE Accept(k, t)
    <3>1. PICK hw \in Nat :
             /\ hw >= seenHW /\ hw >= t /\ seenHW' = hw /\ ~IsCopy(k, t)
             /\ \/ seen' = WithEntry(seen, k, t) /\ bad' = bad
                \/ seen' = Younger(WithEntry(seen, k, t), hw - PruneAge) /\ bad' = Younger(bad, hw - PruneAge)
             /\ order' = [key |-> k, at |-> t] /\ accepted' = WithEntry(accepted, k, t)
             /\ folding' \in {folding, WithEntry(folding, k, {})} /\ UNCHANGED written
      BY <2>3, Acceptance
    <3>2. Times(WithEntry(seen, k, t)) /\ Times(WithEntry(accepted, k, t))
      BY TimesAdded DEF DedupeTyped
    <3>3. Times(seen') /\ Times(bad') /\ Times(accepted')
      BY <3>1, <3>2, TimesPruned DEF DedupeTyped
    <3>4. \A x \in DOMAIN folding' : \A r \in folding'[x] : r \in [key : {x}, at : Nat, implausible : BOOLEAN]
      <4>1. CASE folding' = folding  BY <4>1 DEF DedupeTyped
      <4>2. CASE folding' = WithEntry(folding, k, {})
        <5> SUFFICES ASSUME NEW x \in DOMAIN folding', NEW r \in folding'[x]
                     PROVE  r \in [key : {x}, at : Nat, implausible : BOOLEAN]
          OBVIOUS
        <5>1. /\ DOMAIN folding' = DOMAIN folding \union {k} /\ folding'[k] = {}
              /\ \A y \in DOMAIN folding : y # k => folding'[y] = folding[y]
          BY <4>2 DEF WithEntry
        <5>2. x # k /\ x \in DOMAIN folding /\ r \in folding[x]  BY <5>1
        <5> QED  BY <5>2 DEF DedupeTyped
      <4> QED  BY <3>1, <4>1, <4>2
    <3>5. order' \in [key : Payloads, at : Nat]  BY <3>1
    <3>6. seenHW' \in Nat /\ UNCHANGED <<now, up, boots, file, judged>>  BY <2>1, <3>1
    <3>7. Times(file.seen)'  BY <3>6 DEF DedupeTyped
    <3> QED  BY <3>3, <3>4, <3>5, <3>6, <3>7 DEF DedupeTyped
  <2> QED  BY <2>1, <2>2, <2>3
<1>2. ASSUME NEW verdict \in Verdicts, Settle(verdict) PROVE DedupeTyped'
  <2>1. order \in [key : Payloads, at : Nat]  BY <1>2 DEF Settle, DedupeTyped
  <2>2. PICK k \in Payloads, t \in Nat : k = order.key /\ t = order.at  BY <2>1
  <2>3. PICK boot \in Nat : boot = boots  BY DEF DedupeTyped
  <2>4. /\ bad' \in {bad, WithEntry(bad, k, t)} /\ folding' \in {folding, Without(folding, k)}
        /\ judged' = WithEntry(judged, k, [at |-> t, bad |-> verdict # "good", boot |-> boot])
        /\ order' = NoFold /\ UNCHANGED <<now, up, boots, seen, seenHW, file, accepted>>
    BY <1>2, <2>2, <2>3 DEF Settle
  <2>5. Times(bad')  BY <2>4, TimesAdded DEF DedupeTyped
  <2>6. \A x \in DOMAIN folding' : \A r \in folding'[x] : r \in [key : {x}, at : Nat, implausible : BOOLEAN]
    BY <2>4 DEF DedupeTyped, Without
  <2>7. DOMAIN judged' \subseteq Payloads
        /\ \A x \in DOMAIN judged' : judged'[x].at \in Nat /\ judged'[x].boot \in Nat /\ judged'[x].boot <= boots
    BY <2>3, <2>4 DEF DedupeTyped, WithEntry
  <2> QED  BY <2>4, <2>5, <2>6, <2>7 DEF DedupeTyped, Times
<1>3. CASE Tick  BY <1>3 DEF Tick, DedupeTyped, Times
<1>4. CASE AttachClickHouse  BY <1>4 DEF AttachClickHouse, DedupeTyped, Times
<1>5. CASE SaveDedupe
  <2>1. Times(Younger(seen, Cutoff(seenHW)))  BY TimesPruned DEF DedupeTyped
  <2>2. /\ file'.hw = seenHW /\ file'.seen = Younger(seen, Cutoff(seenHW)) /\ Gone
        /\ UNCHANGED <<now, boots, accepted, judged>>
    BY <1>5 DEF SaveDedupe
  <2>3. Times(file'.seen)  BY <2>1, <2>2
  <2> QED  BY <2>2, <2>3, NothingTimed DEF DedupeTyped, Gone, NoEntries, Times
<1>6. CASE Crash
  <2>1. Gone /\ accepted' = NoEntries /\ UNCHANGED <<now, boots, file, judged>>  BY <1>6 DEF Crash
  <2> QED  BY <2>1, NothingTimed DEF DedupeTyped, Gone, NoEntries, Times
<1>7. CASE LoadDedupe
  <2>1. /\ up' = TRUE /\ boots' = boots + 1 /\ seen' = file.seen /\ seenHW' = file.hw
        /\ UNCHANGED <<now, order, bad, folding, file, accepted, judged>>
    BY <1>7 DEF LoadDedupe
  <2> QED  BY <2>1 DEF DedupeTyped, Times
<1>8. CASE UNCHANGED dedupeVars  BY <1>8 DEF dedupeVars, DedupeTyped, Times
<1> QED  BY <1>1, <1>2, <1>3, <1>4, <1>5, <1>6, <1>7, <1>8 DEF DedupeNext

LEMMA VerdictsKeptStep ==
    ASSUME DedupeInv, [DedupeNext]_dedupeVars
    PROVE  VerdictsKept'
<1> SUFFICES ASSUME up', NEW k \in DOMAIN judged', judged'[k].boot = boots', judged'[k].bad, order'.key # k,
                    k \in DOMAIN seen', seen'[k] = judged'[k].at
             PROVE  k \in DOMAIN bad' /\ bad'[k] = seen'[k]
  BY DEF VerdictsKept
<1>1. DedupeTyped /\ DedupeTyped'  BY DedupeTypedStep DEF DedupeInv
<1>2. k \in Payloads /\ k # NoFold.key  BY <1>1, DedupeAssumption DEF DedupeTyped, NoFold
\* Where the window, the verdicts and the process stand still, so does the fact.
<1>3. ASSUME k \in DOMAIN judged, judged[k].boot = boots, judged[k].bad, order.key # k, up,
             k \in DOMAIN seen, seen[k] = judged[k].at
      PROVE  k \in DOMAIN bad /\ bad[k] = seen[k]
  BY <1>3 DEF DedupeInv, VerdictsKept
<1>4. ASSUME NEW x \in Payloads, ArriveLine(x) \/ ArrivePacket(x) PROVE k \in DOMAIN bad' /\ bad'[k] = seen'[k]
  <2>1. PICK t \in Nat : Admitted /\ (Copy(x, t) \/ Accept(x, t))
                           /\ UNCHANGED <<now, up, boots, chOn, file, judged>>
    BY <1>1, <1>4, Arrival
  <2>2. up /\ order.key # k  BY <1>2, <2>1 DEF Admitted
  <2>3. CASE Copy(x, t)
    <3>1. UNCHANGED <<order, seen, bad>>  BY <2>3 DEF Copy
    <3> QED  BY <1>3, <2>1, <2>2, <3>1
  <2>4. CASE Accept(x, t)
    <3>1. PICK hw \in Nat :
             /\ hw >= seenHW /\ hw >= t /\ seenHW' = hw /\ ~IsCopy(x, t)
             /\ \/ seen' = WithEntry(seen, x, t) /\ bad' = bad
                \/ seen' = Younger(WithEntry(seen, x, t), hw - PruneAge) /\ bad' = Younger(bad, hw - PruneAge)
             /\ order' = [key |-> x, at |-> t] /\ accepted' = WithEntry(accepted, x, t)
             /\ folding' \in {folding, WithEntry(folding, x, {})} /\ UNCHANGED written
      BY <1>1, <2>4, Acceptance
    <3>2. x # k  BY <3>1
    <3>3. k \in DOMAIN seen /\ seen'[k] = seen[k]
      <4>1. /\ DOMAIN WithEntry(seen, x, t) = DOMAIN seen \union {x}
            /\ \A y \in DOMAIN seen : y # x => WithEntry(seen, x, t)[y] = seen[y]
        BY DEF WithEntry
      <4>2. CASE seen' = WithEntry(seen, x, t)  BY <3>2, <4>1, <4>2
      <4>3. CASE seen' = Younger(WithEntry(seen, x, t), hw - PruneAge)
        <5>1. k \in DOMAIN WithEntry(seen, x, t) /\ seen'[k] = WithEntry(seen, x, t)[k]  BY <4>3, OldPruned
        <5> QED  BY <3>2, <4>1, <5>1
      <4> QED  BY <3>1, <4>2, <4>3
    <3>4. k \in DOMAIN bad /\ bad[k] = seen[k]  BY <1>3, <2>1, <2>2, <3>3
    <3>5. CASE bad' = bad  BY <3>3, <3>4, <3>5
    <3>6. CASE seen' = Younger(WithEntry(seen, x, t), hw - PruneAge) /\ bad' = Younger(bad, hw - PruneAge)
      <4>1. seen[k] >= hw - PruneAge  BY <3>2, <3>3, <3>6 DEF WithEntry, Younger
      <4> QED  BY <3>3, <3>4, <3>6, <4>1 DEF Younger
    <3> QED  BY <3>1, <3>5, <3>6
  <2> QED  BY <2>1, <2>3, <2>4
<1>5. ASSUME NEW verdict \in Verdicts, Settle(verdict) PROVE k \in DOMAIN bad' /\ bad'[k] = seen'[k]
  <2>1. /\ up /\ order # NoFold /\ UNCHANGED <<up, boots, seen>>
        /\ judged' = WithEntry(judged, order.key, [at |-> order.at, bad |-> verdict # "good", boot |-> boots])
        /\ bad' = IF (chOn \/ verdict = "implausible") /\ Unread(verdict)
                  THEN WithEntry(bad, order.key, order.at) ELSE bad
        /\ verdict = "unserved" => chOn
    BY <1>5 DEF Settle
  <2>2. CASE k = order.key
    <3>2. verdict # "good" /\ seen'[k] = order.at
      <4>1. judged'[k].bad = (verdict # "good") /\ judged'[k].at = order.at
        BY <2>1, <2>2 DEF WithEntry
      <4> QED  BY <4>1
    <3>3. Unread(verdict) /\ (chOn \/ verdict = "implausible")
      BY <2>1, <3>2 DEF Unread, Verdicts
    <3> QED  BY <2>1, <2>2, <3>2, <3>3 DEF WithEntry
  <2>3. CASE k # order.key
    <3>1. k \in DOMAIN judged /\ judged'[k] = judged[k]  BY <2>1, <2>3 DEF WithEntry
    <3>2. k \in DOMAIN bad /\ bad[k] = seen[k]  BY <1>3, <2>1, <2>3, <3>1
    <3> QED  BY <2>1, <2>3, <3>2 DEF WithEntry
  <2> QED  BY <2>2, <2>3
<1>6. CASE Tick \/ AttachClickHouse \/ UNCHANGED dedupeVars
  <2>1. UNCHANGED <<up, boots, order, seen, bad, judged>>  BY <1>6 DEF Tick, AttachClickHouse, dedupeVars
  <2> QED  BY <1>3, <2>1
<1>7. CASE SaveDedupe \/ Crash  BY <1>7 DEF SaveDedupe, Crash, Gone
<1>8. CASE LoadDedupe
  <2>1. boots' = boots + 1 /\ judged' = judged  BY <1>8 DEF LoadDedupe
  <2>2. judged[k].boot \in Nat /\ judged[k].boot <= boots /\ boots \in Nat  BY <1>1, <2>1 DEF DedupeTyped
  <2> QED  BY <2>1, <2>2
<1> QED  BY <1>4, <1>5, <1>6, <1>7, <1>8 DEF DedupeNext

LEMMA WindowKeptStep ==
    ASSUME DedupeInv, [DedupeNext]_dedupeVars
    PROVE  WindowKept'
<1> SUFFICES ASSUME NEW k \in DOMAIN accepted'
             PROVE  IF up' THEN InWindow(seen, seenHW, k)' ELSE InWindow(file.seen, file.hw, k)'
  BY DEF WindowKept
<1>1. DedupeTyped /\ DedupeTyped'  BY DedupeTypedStep DEF DedupeInv
<1>2. k \in DOMAIN accepted => IF up THEN InWindow(seen, seenHW, k) ELSE InWindow(file.seen, file.hw, k)
  BY DEF DedupeInv, WindowKept
<1>3. /\ seenHW \in Nat /\ PruneAge \in Nat /\ accepted'[k] \in Nat
      /\ k \in DOMAIN accepted => accepted[k] \in Nat
  BY <1>1, DedupeAssumption DEF DedupeTyped, Times
<1>4. ASSUME NEW x \in Payloads, ArriveLine(x) \/ ArrivePacket(x) PROVE up' /\ InWindow(seen, seenHW, k)'
  <2>1. PICK t \in Nat : Admitted /\ (Copy(x, t) \/ Accept(x, t))
                           /\ UNCHANGED <<now, up, boots, chOn, file, judged>>
    BY <1>1, <1>4, Arrival
  <2>2. up /\ up'  BY <2>1 DEF Admitted
  <2>3. CASE Copy(x, t)
    <3>1. UNCHANGED <<seen, seenHW, accepted>>  BY <2>3 DEF Copy
    <3> QED  BY <1>2, <2>2, <3>1 DEF InWindow
  <2>4. CASE Accept(x, t)
    <3>1. PICK hw \in Nat :
             /\ hw >= seenHW /\ hw >= t /\ seenHW' = hw /\ ~IsCopy(x, t)
             /\ \/ seen' = WithEntry(seen, x, t) /\ bad' = bad
                \/ seen' = Younger(WithEntry(seen, x, t), hw - PruneAge) /\ bad' = Younger(bad, hw - PruneAge)
             /\ order' = [key |-> x, at |-> t] /\ accepted' = WithEntry(accepted, x, t)
             /\ folding' \in {folding, WithEntry(folding, x, {})} /\ UNCHANGED written
      BY <1>1, <2>4, Acceptance
    <3>2. PICK entries : entries = WithEntry(seen, x, t)  OBVIOUS
    <3>3. seen' = entries \/ seen' = Younger(entries, hw - PruneAge)  BY <3>1, <3>2
    <3>4. accepted'[k] < hw - PruneAge \/ (k \in DOMAIN entries /\ entries[k] = accepted'[k])
      <4>1. CASE k = x  BY <3>1, <3>2, <4>1 DEF WithEntry
      <4>2. CASE k # x
        <5>1. k \in DOMAIN accepted /\ accepted'[k] = accepted[k]  BY <3>1, <4>2 DEF WithEntry
        <5>2. InWindow(seen, seenHW, k)  BY <1>2, <2>2, <5>1
        <5> QED  BY <1>3, <3>1, <3>2, <5>1, <5>2 DEF InWindow, WithEntry
      <4> QED  BY <4>1, <4>2
    <3>5. CASE seen' = entries  BY <2>2, <3>1, <3>4, <3>5 DEF InWindow
    <3>6. CASE seen' = Younger(entries, hw - PruneAge)
      <4>1. accepted'[k] < hw - PruneAge \/ (k \in DOMAIN seen' /\ seen'[k] = accepted'[k])
        BY <1>3, <3>1, <3>4, <3>6 DEF Younger
      <4> QED  BY <2>2, <3>1, <4>1 DEF InWindow
    <3> QED  BY <3>3, <3>5, <3>6
  <2> QED  BY <2>1, <2>3, <2>4
<1>5. ASSUME NEW verdict \in Verdicts, Settle(verdict) PROVE up' /\ InWindow(seen, seenHW, k)'
  BY <1>2, <1>5 DEF Settle, InWindow
<1>6. CASE Tick \/ AttachClickHouse \/ UNCHANGED dedupeVars
  <2>1. UNCHANGED <<up, seen, seenHW, accepted, file>>  BY <1>6 DEF Tick, AttachClickHouse, dedupeVars
  <2> QED  BY <1>2, <2>1 DEF InWindow
<1>7. CASE SaveDedupe
  <2>1. /\ up /\ ~up' /\ accepted' = accepted
        /\ file'.hw = seenHW /\ file'.seen = Younger(seen, seenHW - PruneAge)
    BY <1>7 DEF SaveDedupe, Gone, Cutoff
  <2>2. accepted[k] < seenHW - PruneAge \/ (k \in DOMAIN seen /\ seen[k] = accepted[k])
    BY <1>2, <2>1 DEF InWindow
  <2>3. accepted[k] < seenHW - PruneAge \/ (k \in DOMAIN file'.seen /\ file'.seen[k] = accepted[k])
    BY <1>3, <2>1, <2>2 DEF Younger
  <2> QED  BY <2>1, <2>3 DEF InWindow
<1>8. CASE Crash  BY <1>8 DEF Crash, NoEntries
<1>9. CASE LoadDedupe
  <2>1. ~up /\ up' /\ seen' = file.seen /\ seenHW' = file.hw /\ accepted' = accepted
    BY <1>9 DEF LoadDedupe
  <2> QED  BY <1>2, <2>1 DEF InWindow
<1> QED  BY <1>4, <1>5, <1>6, <1>7, <1>8, <1>9 DEF DedupeNext

\* Dedupe's invariant: what the window and the verdicts hold of the
\* transmissions this process accepted and judged (pipeline.go:438).
THEOREM DedupeHolds == DedupeSpec => []DedupeInv
<1>1. DedupeInit => DedupeInv
  <2> SUFFICES ASSUME DedupeInit PROVE DedupeInv
    OBVIOUS
  <2>1. DedupeTyped  BY NothingTimed DEF DedupeInit, DedupeTyped, NoEntries
  <2>2. VerdictsKept /\ WindowKept  BY DEF DedupeInit, VerdictsKept, WindowKept, NoEntries
  <2> QED  BY <2>1, <2>2 DEF DedupeInv
<1>2. DedupeInv /\ [DedupeNext]_dedupeVars => DedupeInv'
  BY DedupeTypedStep, VerdictsKeptStep, WindowKeptStep DEF DedupeInv
<1> QED  BY <1>1, <1>2, PTL DEF DedupeSpec

\* A copy of a transmission this process judged bad is never queued as one that
\* reads serve: it is written with the verdict (noteCopy, settleFold).
THEOREM CopiesAreJudged == DedupeSpec => CopiesCarryVerdict
<1>1. ASSUME DedupeInv, [DedupeNext]_dedupeVars
      PROVE  [\A r \in written' \ written : JudgedBad(r) /\ judged'[r.key].boot = boots => r.implausible]_dedupeVars
  <2> SUFFICES ASSUME NEW r \in written', r \notin written, JudgedBad(r), judged'[r.key].boot = boots
               PROVE  r.implausible
    OBVIOUS
  <2>1. DedupeTyped  BY <1>1 DEF DedupeInv
  <2>2. /\ r.key \in DOMAIN judged' /\ judged'[r.key].at = r.at /\ judged'[r.key].bad
    BY DEF JudgedBad
  <2>3. ASSUME NEW x \in Payloads, ArriveLine(x) \/ ArrivePacket(x) PROVE r.implausible
    <3>1. PICK t \in Nat : Admitted /\ (Copy(x, t) \/ Accept(x, t))
                             /\ UNCHANGED <<now, up, boots, chOn, file, judged>>
      BY <2>1, <2>3, Arrival
    <3>2. Copy(x, t)  BY <3>1 DEF Accept
    <3>3. IsCopy(x, t) /\ written' = written \union {Row(x, x \in DOMAIN bad /\ bad[x] = seen[x])}
      BY <3>2 DEF Copy
    <3>4. /\ x \in DOMAIN seen /\ r.key = x /\ r.at = seen[x]
          /\ r.implausible = (x \in DOMAIN bad /\ bad[x] = seen[x])
      BY <3>3 DEF Row, IsCopy
    <3>5. up /\ order.key # x  BY <3>1, DedupeAssumption DEF Admitted, NoFold
    <3>6. x \in DOMAIN bad /\ bad[x] = seen[x]
      BY <1>1, <2>2, <3>1, <3>4, <3>5 DEF DedupeInv, VerdictsKept
    <3> QED  BY <3>4, <3>6
  <2>4. ASSUME NEW verdict \in Verdicts, Settle(verdict) PROVE r.implausible
    <3>1. /\ order.key \in DOMAIN folding
          /\ \E q \in folding[order.key] : r = [q EXCEPT !.implausible = Unread(verdict)]
      BY <2>4 DEF Settle
    <3>2. PICK q \in folding[order.key] : r = [q EXCEPT !.implausible = Unread(verdict)]  BY <3>1
    <3>3. q \in [key : {order.key}, at : Nat, implausible : BOOLEAN]  BY <2>1, <3>1, <3>2 DEF DedupeTyped
    <3>4. r.key = order.key /\ r.implausible = Unread(verdict)  BY <3>2, <3>3
    <3>5. judged'[order.key].bad = (verdict # "good")  BY <2>4 DEF Settle, WithEntry
    <3> QED  BY <2>2, <3>4, <3>5 DEF Unread, Verdicts
  <2>5. ASSUME Tick \/ AttachClickHouse \/ SaveDedupe \/ Crash \/ LoadDedupe \/ UNCHANGED dedupeVars PROVE FALSE
    BY <2>5 DEF Tick, AttachClickHouse, SaveDedupe, Crash, LoadDedupe, dedupeVars
  <2> QED  BY <1>1, <2>3, <2>4, <2>5 DEF DedupeNext
<1> QED  BY <1>1, DedupeHolds, PTL DEF DedupeSpec, CopiesCarryVerdict

\* Unless a crash lost the window, a transmission is accepted within the window
\* of the one before it under its key only when that one lagged the newest stamp
\* by more than the prune age (emit's prune, saveDedupe and loadDedupe).
THEOREM TransmissionsAreAcceptedOnce == DedupeSpec => AcceptedOnce
<1>1. ASSUME DedupeInv, [DedupeNext]_dedupeVars
      PROVE  [\A k \in DOMAIN accepted :
                order = NoFold /\ order'.key = k /\ Distance(order'.at, accepted[k]) < Window
                  => accepted[k] < seenHW' - PruneAge]_dedupeVars
  <2> SUFFICES ASSUME NEW k \in DOMAIN accepted, order = NoFold, order'.key = k,
                      Distance(order'.at, accepted[k]) < Window
               PROVE  accepted[k] < seenHW' - PruneAge
    OBVIOUS
  <2>1. DedupeTyped /\ k \in Payloads /\ accepted[k] \in Nat /\ seenHW \in Nat /\ PruneAge \in Nat
    BY <1>1, DedupeAssumption DEF DedupeInv, DedupeTyped, Times
  <2>2. order' # NoFold  BY <2>1, DedupeAssumption DEF NoFold
  <2>3. PICK x \in Payloads : ArriveLine(x) \/ ArrivePacket(x)
    BY <1>1, <2>2 DEF DedupeNext, Settle, Tick, AttachClickHouse, SaveDedupe, Crash, Gone, LoadDedupe, dedupeVars
  <2>4. PICK t \in Nat : Admitted /\ (Copy(x, t) \/ Accept(x, t))
                           /\ UNCHANGED <<now, up, boots, chOn, file, judged>>
    BY <2>1, <2>3, Arrival
  <2>5. Accept(x, t)  BY <2>2, <2>4 DEF Copy
  <2>6. PICK hw \in Nat :
           /\ hw >= seenHW /\ hw >= t /\ seenHW' = hw /\ ~IsCopy(x, t)
           /\ \/ seen' = WithEntry(seen, x, t) /\ bad' = bad
              \/ seen' = Younger(WithEntry(seen, x, t), hw - PruneAge) /\ bad' = Younger(bad, hw - PruneAge)
           /\ order' = [key |-> x, at |-> t] /\ accepted' = WithEntry(accepted, x, t)
           /\ folding' \in {folding, WithEntry(folding, x, {})} /\ UNCHANGED written
    BY <2>1, <2>5, Acceptance
  <2>7. x = k /\ Distance(t, accepted[k]) < Window  BY <2>6
  <2>8. InWindow(seen, seenHW, k)  BY <1>1, <2>4 DEF DedupeInv, WindowKept, Admitted
  <2>9. ~(k \in DOMAIN seen /\ seen[k] = accepted[k])  BY <2>6, <2>7 DEF IsCopy
  <2>10. accepted[k] < seenHW - PruneAge  BY <2>8, <2>9 DEF InWindow
  <2> QED  BY <2>1, <2>6, <2>10
<1> QED  BY <1>1, DedupeHolds, PTL DEF DedupeSpec, AcceptedOnce

-----------------------------------------------------------------------------
(* Sets of naturals: their least, and their largest when they are bounded.  *)

LEMMA LeastNatural ==
    ASSUME NEW S \in SUBSET Nat, S # {}
    PROVE  \E x \in S : \A y \in S : x <= y
<1>1. PICK x \in S : \A y \in S : ~ (<<y, x>> \in OpToRel(<, Nat))  BY NatLessThanWellFounded, WFMin
<1>2. ASSUME NEW y \in S PROVE x <= y
  <2>1. ~(<<y, x>> \in OpToRel(<, Nat))  BY <1>1
  <2> QED BY <2>1 DEF OpToRel
<1> QED  BY <1>2

LEMMA LargestBounded ==
    ASSUME NEW S \in SUBSET Nat, S # {}, NEW n \in Nat, \A x \in S : x <= n
    PROVE  Max(S) \in S /\ \A x \in S : x <= Max(S)
<1> DEFINE U == {m \in Nat : \A x \in S : x <= m}
<1>1. PICK m \in U : \A k \in U : m <= k
  <2>1. U \in SUBSET Nat /\ U # {}  OBVIOUS
  <2> HIDE DEF U
  <2> QED BY <2>1, LeastNatural
<1>2. m \in S
  <2> SUFFICES ASSUME m \notin S PROVE FALSE
    OBVIOUS
  <2>1. \A x \in S : x <= m - 1 /\ m - 1 \in Nat  OBVIOUS
  <2>2. m - 1 \in U  BY <2>1
  <2> QED  BY <1>1, <2>2
<1>3. \E x \in S : \A y \in S : x >= y  BY <1>2
<1> QED  BY <1>3 DEF Max

LEMMA FiniteIsBounded ==
    ASSUME NEW S \in SUBSET Nat, IsFiniteSet(S)
    PROVE  \E n \in Nat : \A x \in S : x <= n
<1> DEFINE Bounded(T) == \E n \in Nat : \A x \in T : x <= n
           C == {T \in FiniteSubsetsOf(S) : ~Bounded(T)}
<1> SUFFICES ASSUME ~Bounded(S) PROVE FALSE
  OBVIOUS
<1>1. C \subseteq FiniteSubsetsOf(S) /\ C # {}  BY DEF FiniteSubsetsOf
<1>2. PICK T \in C : \A U \in C : <<U, T>> \notin StrictSubsetOrdering(S)
  <2> HIDE DEF C
  <2> QED  BY <1>1, FS_StrictSubsetOrderingWellFounded, WFMin
<1>3. T \in SUBSET S /\ IsFiniteSet(T) /\ ~Bounded(T)  BY <1>2 DEF FiniteSubsetsOf
<1>4. PICK x \in T : TRUE  BY <1>3
<1>5. T \ {x} \in SUBSET S /\ IsFiniteSet(T \ {x})  BY <1>3, FS_RemoveElement
<1>6. <<T \ {x}, T>> \in StrictSubsetOrdering(S)  BY <1>3, <1>4, <1>5 DEF StrictSubsetOrdering
<1>7. Bounded(T \ {x})  BY <1>2, <1>5, <1>6 DEF FiniteSubsetsOf
<1>8. PICK n \in Nat : \A y \in T \ {x} : y <= n  BY <1>7
<1>9. x \in Nat  BY <1>3, <1>4
<1>10. \A y \in T : y <= n + x  BY <1>3, <1>8, <1>9
<1> QED  BY <1>3, <1>8, <1>9, <1>10

-----------------------------------------------------------------------------
(* The station series (stationseries.go). *)

Statements == {"station_hours", "station_vessels", "station_versions", "drop_hours", "drop_vessels",
               "drop_versions", "finish"}
Rounds == [pc : {"idle", "day", "bin"} \union Statements, days : SUBSET Nat, marks : [Hours -> Nat],
           left : SUBSET Hours, run : SUBSET Hours, built : Nat]
Blocks == [built : Nat, at : Nat, copy : Nat]

SeriesTyped ==
  /\ change \in [Hours -> Nat] /\ marked \in [Hours -> Nat]
  /\ settled \in [Hours -> Nat] /\ builtMark \in [Hours -> Nat]
  /\ flying \subseteq [hour : Hours, marker : Nat]
  /\ tables \in [Tables -> [Hours -> SUBSET Blocks]]
  /\ recorded \in [Hours -> SUBSET Nat] /\ last \in Nat
  /\ worker \in [Workers -> Rounds]
  /\ purge \in [pc : {"idle", "delete", "mark"}, hours : SUBSET Hours]

\* A marker is taken in once it settled, which is after its insert is over.
MarksOrdered ==
  /\ \A h \in Hours : builtMark[h] <= settled[h] /\ settled[h] <= marked[h]
  /\ \A f \in flying : settled[f.hour] < f.marker /\ f.marker <= marked[f.hour]
  /\ \A w \in Workers, h \in Hours : worker[w].marks[h] <= settled[h]

Holding(w) == worker[w].pc \notin {"idle", "day"}
Active(w) == worker[w].pc \in Statements

\* A day is binned by one worker at a time.
DaysLocked ==
  /\ \A w \in Workers : Holding(w) => worker[w].left \subseteq HoursOf(DayAt(worker[w]))
  /\ \A w \in Workers : Active(w) => worker[w].run \subseteq worker[w].left
  /\ \A u, w \in Workers : u # w /\ Holding(u) /\ Holding(w) => DayAt(worker[u]) # DayAt(worker[w])

\* Versions are positive and there is a latest one, and no block reflects a
\* change of receptions that is yet to come.
VersionsBounded ==
  /\ \A h \in Hours : 0 \notin recorded[h]
  /\ \A t \in Tables, h \in Hours : \A b \in tables[t][h] : b.built > 0 /\ b.at <= change[h]
  /\ \E n \in Nat : \A h \in Hours : /\ \A v \in recorded[h] : v <= n
                                     /\ \A t \in Tables : \A b \in tables[t][h] : b.built <= n

Blocked(t, h, v) == {b \in tables[t][h] : b.built = v}
Whole(t, h, v) == \E b \in tables[t][h] : Blocked(t, h, v) = {b}
Owed(h, m) == marked[h] > m \/ (purge.pc = "mark" /\ h \in purge.hours) \/ h \in unmarked

\* An hour of a run: how far its version has come, that no other is newer, and
\* that what changed since its rows were read stays owed past the run's markers.
RunHolds(w, h) ==
  LET r == worker[w] IN
  /\ r.built > 0
  /\ \A v \in recorded[h] : v <= r.built
  /\ \A t \in Tables : \A b \in tables[t][h] : b.built <= r.built
  /\ r.pc = "station_hours" => Blocked("station_hours", h, r.built) = {}
  /\ r.pc \in {"station_hours", "station_vessels"} => Blocked("station_vessels", h, r.built) = {}
  /\ r.pc \in {"station_hours", "station_vessels", "station_versions"} => r.built \notin recorded[h]
  /\ r.pc \in Statements \ {"station_hours"} => Whole("station_hours", h, r.built)
  /\ r.pc \in Statements \ {"station_hours", "station_vessels"} /\ h \in VesselHours
       => Whole("station_vessels", h, r.built)
  /\ r.pc \in {"drop_hours", "drop_vessels", "drop_versions", "finish"} => r.built \in recorded[h]
  /\ \A t \in Tables : \A b \in Blocked(t, h, r.built) :
       /\ \A c \in tables[t][h] : c.at <= b.at
       /\ b.at # change[h] => Owed(h, builtMark[h]) /\ Owed(h, r.marks[h])
RunsHold == \A w \in Workers : Active(w) => \A h \in worker[w].run : RunHolds(w, h)

\* What is served of an hour: the block of its newest version, whole and once,
\* and what changed since its rows were read is owed.
IsNewest(h, v) == v \in recorded[h] /\ \A x \in recorded[h] : x <= v
HourServed(h) ==
  \A t \in Tables : h \in Kept(t) =>
    \A v \in recorded[h] : IsNewest(h, v) =>
      /\ Whole(t, h, v)
      /\ \A b \in Blocked(t, h, v) : b.at # change[h] => Owed(h, builtMark[h])
HoursServed == \A h \in Hours : HourServed(h)

SeriesInv == SeriesTyped /\ MarksOrdered /\ DaysLocked /\ VersionsBounded /\ RunsHold /\ HoursServed

LEMMA StatementsAre ==
    /\ DOMAIN After \union {"finish"} = Statements
    /\ After["station_hours"] = "station_vessels" /\ After["station_vessels"] = "station_versions"
    /\ After["station_versions"] = "drop_hours" /\ After["drop_hours"] = "drop_vessels"
    /\ After["drop_vessels"] = "drop_versions" /\ After["drop_versions"] = "finish"
  BY DEF After, Statements

LEMMA Bumped ==
    ASSUME NEW f \in [Hours -> Nat], NEW S
    PROVE  /\ Bump(f, S) \in [Hours -> Nat]
           /\ \A h \in Hours : Bump(f, S)[h] = IF h \in S THEN f[h] + 1 ELSE f[h]
  BY DEF Bump

\* Two runs share no hour.
LEMMA RunsApart ==
    ASSUME SeriesTyped, DaysLocked, NEW u \in Workers, NEW w \in Workers, u # w, Active(u), Active(w),
           NEW h \in worker[u].run
    PROVE  h \notin worker[w].run
<1>1. Holding(u) /\ Holding(w)  BY DEF Holding, Active, Statements
<1>2. DayOf[h] = DayAt(worker[u])  BY <1>1 DEF DaysLocked, HoursOf
<1>3. h \in worker[w].run => DayOf[h] = DayAt(worker[w])  BY <1>1 DEF DaysLocked, HoursOf
<1> QED  BY <1>1, <1>2, <1>3 DEF DaysLocked

\* The steps by what they leave alone: those of receptions and their markers,
\* those of a worker between two runs, the start of a run, and a statement.
Marking == \/ \E h \in Hours : Insert(h) \/ Age(h)
           \/ \E f \in flying : Land(f)
           \/ DeleteBegin \/ Delete \/ DeleteStops
Planning == Query \/ Backfill \/ (\E w \in Workers : StartDay(w)) \/ Restart
Binning(w) == \E part \in SUBSET worker[w].run :
  /\ Active(w) /\ Statement(w, part)
  /\ \/ worker' = [worker EXCEPT ![w] = RunOver(worker[w])]
     \/ part = worker[w].run /\ worker[w].pc # "finish"
        /\ worker' = [worker EXCEPT ![w] = [worker[w] EXCEPT !.pc = After[worker[w].pc]]]
  /\ UNCHANGED <<change, marked, settled, flying, last, purge, unmarked>>

LEMMA SeriesSteps ==
    ASSUME [SeriesNext]_seriesVars
    PROVE  \/ Marking \/ Planning \/ (\E w \in Workers : StartRun(w) \/ Binning(w)) \/ UNCHANGED seriesVars
<1>1. ASSUME NEW w \in Workers, Bin(w) PROVE Binning(w)
  <2>1. worker[w].run \in SUBSET worker[w].run /\ Active(w) /\ Statement(w, worker[w].run)
    BY <1>1, StatementsAre DEF Bin, Active
  <2>2. \/ worker' = [worker EXCEPT ![w] = RunOver(worker[w])]
        \/ worker[w].pc # "finish" /\ worker' = [worker EXCEPT ![w] = [worker[w] EXCEPT !.pc = After[worker[w].pc]]]
    BY <1>1 DEF Bin
  <2>3. UNCHANGED <<change, marked, settled, flying, last, purge, unmarked>>  BY <1>1 DEF Bin
  <2> QED  BY <2>1, <2>2, <2>3 DEF Binning
<1>2. ASSUME NEW w \in Workers, Fail(w) PROVE Binning(w)
  <2>1. Active(w) /\ (\E part \in SUBSET worker[w].run : Statement(w, part))
        /\ worker' = [worker EXCEPT ![w] = RunOver(worker[w])]
        /\ UNCHANGED <<change, marked, settled, flying, last, purge, unmarked>>
    BY <1>2, StatementsAre DEF Fail, Active
  <2> QED  BY <2>1 DEF Binning
<1> QED  BY <1>1, <1>2 DEF SeriesNext, Work, Marking, Planning

\* The steps of receptions and markers: what they do to the types and bounds,
\* and that a debt stays one, and a change becomes one.
LEMMA MarkingSteps ==
    ASSUME SeriesTyped, MarksOrdered, Marking
    PROVE  /\ SeriesTyped' /\ MarksOrdered'
           /\ UNCHANGED <<builtMark, tables, recorded, ledger, last, worker>>
           /\ \A h \in Hours : change[h] <= change'[h]
           /\ \A h \in Hours, m \in Nat : m <= settled[h] /\ (Owed(h, m) \/ change'[h] # change[h]) => Owed(h, m)'
<1> DEFINE Goal == /\ SeriesTyped' /\ MarksOrdered'
                   /\ UNCHANGED <<builtMark, tables, recorded, ledger, last, worker>>
                   /\ \A h \in Hours : change[h] <= change'[h]
                   /\ \A h \in Hours, m \in Nat : m <= settled[h] /\ (Owed(h, m) \/ change'[h] # change[h]) => Owed(h, m)'
<1>a. /\ change \in [Hours -> Nat] /\ marked \in [Hours -> Nat]
      /\ settled \in [Hours -> Nat] /\ builtMark \in [Hours -> Nat]
      /\ flying \subseteq [hour : Hours, marker : Nat]
      /\ purge \in [pc : {"idle", "delete", "mark"}, hours : SUBSET Hours]
      /\ worker \in [Workers -> Rounds]
  BY DEF SeriesTyped
<1>b. \A w \in Workers, h \in Hours : worker[w].marks[h] \in Nat /\ worker[w].marks[h] <= settled[h]
  BY <1>a DEF MarksOrdered, Rounds
<1>c. \A h \in Hours : builtMark[h] <= settled[h] /\ settled[h] <= marked[h]
  BY DEF MarksOrdered
<1>d. \A f \in flying : f.hour \in Hours /\ f.marker \in Nat /\ settled[f.hour] < f.marker /\ f.marker <= marked[f.hour]
  BY <1>a DEF MarksOrdered
<1>1. ASSUME NEW x \in Hours, Insert(x) PROVE Goal
  <2>1. PICK f \in [hour : Hours, marker : Nat] :
          /\ f.hour = x /\ f.marker = marked[x] + 1 /\ flying' = flying \union {f}
          /\ marked' = Bump(marked, {x}) /\ unmarked' = unmarked \ {x}
          /\ UNCHANGED <<change, settled, builtMark, tables, recorded, ledger, last, worker, purge>>
    <3>1. [hour |-> x, marker |-> marked[x] + 1] \in [hour : Hours, marker : Nat]  BY <1>a
    <3> QED  BY <1>1, <3>1 DEF Insert
  <2>2. marked' \in [Hours -> Nat] /\ \A h \in Hours : marked'[h] = IF h = x THEN marked[h] + 1 ELSE marked[h]
    BY <1>a, <2>1, Bumped
  <2>3. SeriesTyped'  BY <2>1, <2>2 DEF SeriesTyped
  <2>4. MarksOrdered'
    <3>1. ASSUME NEW h \in Hours
          PROVE  /\ builtMark[h] \in Nat /\ settled[h] \in Nat /\ marked[h] \in Nat
                 /\ marked'[h] \in Nat /\ marked[h] <= marked'[h]
      BY <1>a, <2>2
    <3>2. ASSUME NEW h \in Hours PROVE builtMark'[h] <= settled'[h] /\ settled'[h] <= marked'[h]
      <4>1. builtMark[h] <= settled[h] /\ settled[h] <= marked[h]  BY <1>c
      <4>2. builtMark'[h] = builtMark[h] /\ settled'[h] = settled[h]  BY <2>1
      <4> QED  BY <3>1, <4>1, <4>2
    <3>3. ASSUME NEW g \in flying' PROVE settled'[g.hour] < g.marker /\ g.marker <= marked'[g.hour]
      <4>1. CASE g \in flying
        <5>1. g.hour \in Hours /\ g.marker \in Nat /\ settled[g.hour] < g.marker /\ g.marker <= marked[g.hour]
          BY <1>d, <4>1
        <5>2. settled'[g.hour] = settled[g.hour] /\ marked'[g.hour] \in Nat /\ marked[g.hour] <= marked'[g.hour]
              /\ marked[g.hour] \in Nat
          BY <2>1, <3>1, <5>1
        <5> QED  BY <5>1, <5>2
      <4>2. CASE g = f
        <5>1. settled[x] <= marked[x] /\ marked'[x] = marked[x] + 1  BY <1>c, <2>2
        <5> QED  BY <2>1, <3>1, <4>2, <5>1
      <4> QED  BY <2>1, <4>1, <4>2
    <3> QED  BY <1>b, <2>1, <3>2, <3>3 DEF MarksOrdered
  <2>5. ASSUME NEW h \in Hours, NEW m \in Nat, m <= settled[h], Owed(h, m) \/ change'[h] # change[h] PROVE Owed(h, m)'
    <3>1. CASE h = x  BY <1>a, <1>c, <2>2, <2>5, <3>1 DEF Owed
    <3>2. CASE h # x  BY <1>a, <2>1, <2>2, <2>5, <3>2 DEF Owed
    <3> QED  BY <3>1, <3>2
  <2> QED  BY <1>a, <2>1, <2>3, <2>4, <2>5
<1>2. ASSUME NEW f \in flying, Land(f) PROVE Goal
  <2>1. /\ flying' = flying \ {f} /\ change' \in {change, Bump(change, {f.hour})}
        /\ UNCHANGED <<marked, settled, builtMark, tables, recorded, ledger, last, worker, purge, unmarked>>
    BY <1>2 DEF Land
  <2>2. /\ change' \in [Hours -> Nat]
        /\ \A h \in Hours : change'[h] = change[h] \/ (h = f.hour /\ change'[h] = change[h] + 1)
    BY <1>a, <2>1, Bumped
  <2>3. SeriesTyped'  BY <1>a, <2>1, <2>2 DEF SeriesTyped
  <2>4. MarksOrdered'  BY <2>1 DEF MarksOrdered
  <2>5. ASSUME NEW h \in Hours, NEW m \in Nat, m <= settled[h], Owed(h, m) \/ change'[h] # change[h] PROVE Owed(h, m)'
    <3>1. CASE Owed(h, m)  BY <2>1, <3>1 DEF Owed
    <3>2. CASE change'[h] # change[h]
      <4>1. h = f.hour  BY <2>2, <3>2
      <4>2. marked[h] > m  BY <1>a, <1>d, <2>5, <4>1
      <4> QED  BY <2>1, <4>2 DEF Owed
    <3> QED  BY <2>5, <3>1, <3>2
  <2>6. \A h \in Hours : change[h] <= change'[h]  BY <1>a, <2>2
  <2> QED  BY <2>1, <2>3, <2>4, <2>5, <2>6
<1>3. ASSUME NEW x \in Hours, Age(x) PROVE Goal
  <2>1. /\ Settles(x) /\ settled' = Bump(settled, {x})
        /\ UNCHANGED <<change, marked, builtMark, flying, tables, recorded, ledger, last, worker, purge, unmarked>>
    BY <1>3 DEF Age
  <2>2. settled' \in [Hours -> Nat] /\ \A h \in Hours : settled'[h] = IF h = x THEN settled[h] + 1 ELSE settled[h]
    BY <1>a, <2>1, Bumped
  <2>3. SeriesTyped'  BY <2>1, <2>2 DEF SeriesTyped
  <2>4. MarksOrdered'
    <3>1. ASSUME NEW h \in Hours PROVE builtMark'[h] <= settled'[h] /\ settled'[h] <= marked'[h]
      <4>1. /\ builtMark[h] \in Nat /\ settled[h] \in Nat /\ marked[h] \in Nat
            /\ builtMark[h] <= settled[h] /\ settled[h] <= marked[h]
        BY <1>a, <1>c
      <4>2. builtMark'[h] = builtMark[h] /\ marked'[h] = marked[h]  BY <2>1
      <4>3. settled[x] < marked[x]  BY <2>1 DEF Settles
      <4> QED  BY <2>2, <4>1, <4>2, <4>3
    <3>2. ASSUME NEW g \in flying' PROVE settled'[g.hour] < g.marker /\ g.marker <= marked'[g.hour]
      BY <1>a, <1>d, <2>1, <2>2 DEF Settles
    <3>3. ASSUME NEW w \in Workers, NEW h \in Hours PROVE worker'[w].marks[h] <= settled'[h]
      <4>1. worker[w].marks[h] \in Nat /\ worker[w].marks[h] <= settled[h] /\ settled[h] \in Nat  BY <1>a, <1>b
      <4>2. settled'[h] = settled[h] \/ settled'[h] = settled[h] + 1  BY <2>2
      <4> QED  BY <2>1, <4>1, <4>2
    <3> QED  BY <3>1, <3>2, <3>3 DEF MarksOrdered
  <2>5. ASSUME NEW h \in Hours, NEW m \in Nat, m <= settled[h], Owed(h, m) \/ change'[h] # change[h] PROVE Owed(h, m)'
    BY <2>1, <2>5 DEF Owed
  <2> QED  BY <1>a, <2>1, <2>3, <2>4, <2>5
<1>4. CASE DeleteBegin
  <2>1. PICK S \in SUBSET Hours : purge.pc = "idle" /\ purge' = [pc |-> "delete", hours |-> S]
          /\ UNCHANGED <<change, marked, settled, builtMark, flying, tables, recorded, ledger, last, worker, unmarked>>
    BY <1>4 DEF DeleteBegin
  <2>2. SeriesTyped'  BY <2>1 DEF SeriesTyped
  <2>3. MarksOrdered'  BY <2>1 DEF MarksOrdered
  <2> QED  BY <1>a, <2>1, <2>2, <2>3 DEF Owed
<1>5. CASE Delete
  <2>1. /\ DeleteThenMark /\ UNCHANGED <<settled, builtMark, flying, tables, recorded, ledger, last, worker>>
        /\ unmarked' = IF marked' = marked THEN unmarked ELSE unmarked \ purge.hours
    BY <1>5 DEF Delete
  <2>2. PICK H \in SUBSET Hours : H = purge.hours  BY <1>a
  <2>3. CASE purge.pc = "delete"
    <3>1. change' = Bump(change, H) /\ marked' = marked /\ unmarked' = unmarked
          /\ purge' = [purge EXCEPT !.pc = "mark"]
      BY <2>1, <2>2, <2>3 DEF DeleteThenMark
    <3>2. change' \in [Hours -> Nat] /\ \A h \in Hours : change'[h] = IF h \in H THEN change[h] + 1 ELSE change[h]
      BY <1>a, <3>1, Bumped
    <3>3. purge' \in [pc : {"idle", "delete", "mark"}, hours : SUBSET Hours] /\ purge'.pc = "mark" /\ purge'.hours = H
      BY <1>a, <2>2, <3>1
    <3>4. SeriesTyped'  BY <2>1, <3>1, <3>2, <3>3 DEF SeriesTyped
    <3>5. MarksOrdered'  BY <2>1, <3>1 DEF MarksOrdered
    <3>6. ASSUME NEW h \in Hours, NEW m \in Nat, m <= settled[h], Owed(h, m) \/ change'[h] # change[h] PROVE Owed(h, m)'
      BY <2>3, <3>1, <3>2, <3>3, <3>6 DEF Owed
    <3> QED  BY <1>a, <2>1, <3>2, <3>4, <3>5, <3>6
  <2>4. CASE purge.pc = "mark"
    <3>1. marked' = Bump(marked, H) /\ change' = change /\ purge' = [purge EXCEPT !.pc = "idle", !.hours = {}]
      BY <2>1, <2>2, <2>4 DEF DeleteThenMark
    <3>2. marked' \in [Hours -> Nat] /\ \A h \in Hours : marked'[h] = IF h \in H THEN marked[h] + 1 ELSE marked[h]
      BY <1>a, <3>1, Bumped
    <3>3. purge' \in [pc : {"idle", "delete", "mark"}, hours : SUBSET Hours] /\ purge'.pc = "idle"
      BY <1>a, <3>1
    <3>4. SeriesTyped'  BY <2>1, <3>1, <3>2, <3>3 DEF SeriesTyped
    <3>5. MarksOrdered'
      <4>1. \A h \in Hours : marked[h] <= marked'[h]  BY <1>a, <3>2
      <4>2. ASSUME NEW h \in Hours PROVE builtMark'[h] <= settled'[h] /\ settled'[h] <= marked'[h]
        BY <1>a, <1>c, <2>1, <3>2, <4>1
      <4>3. ASSUME NEW g \in flying' PROVE settled'[g.hour] < g.marker /\ g.marker <= marked'[g.hour]
        <5>1. g \in flying /\ g.hour \in Hours /\ g.marker \in Nat  BY <1>d, <2>1
        <5> QED  BY <1>a, <1>d, <2>1, <3>2, <4>1, <5>1
      <4> QED  BY <1>b, <2>1, <4>2, <4>3 DEF MarksOrdered
    <3>6. ASSUME NEW h \in Hours, NEW m \in Nat, m <= settled[h], Owed(h, m) \/ change'[h] # change[h] PROVE Owed(h, m)'
      <4>1. CASE h \in H  BY <1>a, <1>c, <3>2, <3>6, <4>1 DEF Owed
      <4>2. CASE h \notin H  BY <1>a, <2>1, <2>2, <3>1, <3>2, <3>6, <4>2 DEF Owed
      <4> QED  BY <4>1, <4>2
    <3> QED  BY <1>a, <2>1, <3>1, <3>4, <3>5, <3>6
  <2> QED  BY <2>1, <2>3, <2>4 DEF DeleteThenMark
<1>6. CASE DeleteStops
  <2>1. /\ unmarked' = IF purge.pc = "mark" THEN unmarked \union purge.hours ELSE unmarked
        /\ purge' = [pc |-> "idle", hours |-> {}]
        /\ UNCHANGED <<change, marked, settled, builtMark, flying, tables, recorded, ledger, last, worker>>
    BY <1>6 DEF DeleteStops
  <2>2. SeriesTyped'  BY <2>1 DEF SeriesTyped
  <2>3. MarksOrdered'  BY <2>1 DEF MarksOrdered
  <2> QED  BY <1>a, <2>1, <2>2, <2>3 DEF Owed
<1> QED  BY <1>1, <1>2, <1>3, <1>4, <1>5, <1>6 DEF Marking

\* A worker between two runs: the others, and every run under way, stand still.
LEMMA PlanningSteps ==
    ASSUME SeriesTyped, MarksOrdered, DaysLocked, Planning
    PROVE  /\ worker' \in [Workers -> Rounds] /\ last' \in Nat /\ DaysLocked'
           /\ UNCHANGED <<change, marked, settled, builtMark, flying, tables, recorded, purge, unmarked>>
           /\ \A w \in Workers : Active(w)' => Active(w) /\ worker'[w] = worker[w]
           /\ \A w \in Workers, h \in Hours : worker'[w].marks[h] <= settled[h]
<1> DEFINE Goal == /\ worker' \in [Workers -> Rounds] /\ last' \in Nat /\ DaysLocked'
                   /\ UNCHANGED <<change, marked, settled, builtMark, flying, tables, recorded, purge, unmarked>>
                   /\ \A w \in Workers : Active(w)' => Active(w) /\ worker'[w] = worker[w]
                   /\ \A w \in Workers, h \in Hours : worker'[w].marks[h] <= settled[h]
<1>a. worker \in [Workers -> Rounds] /\ last \in Nat /\ settled \in [Hours -> Nat]
  BY DEF SeriesTyped
<1>b. \A w \in Workers, h \in Hours : worker[w].marks[h] <= settled[h]  BY DEF MarksOrdered
<1>c. Days \subseteq Nat  BY SeriesAssumption DEF Days
<1>d. Idle \in Rounds /\ Idle.pc = "idle" /\ \A h \in Hours : Idle.marks[h] = 0  BY DEF Idle, Rounds
<1>e. "job" \in Workers /\ "older" \in Workers /\ "backfill" \in Workers /\ "job" # "older"  BY DEF Workers
\* A worker that turns to days, or to none, where it was busy with none.
<1>f. ASSUME NEW f \in [Workers -> Rounds], worker' = f,
             \A w \in Workers : f[w] = worker[w] \/ f[w].pc \in {"idle", "day"}
      PROVE  DaysLocked' /\ \A w \in Workers : Active(w)' => Active(w) /\ worker'[w] = worker[w]
  <2>1. ASSUME NEW w \in Workers, Holding(w)' PROVE Holding(w) /\ f[w] = worker[w]
    BY <1>f, <2>1 DEF Holding
  <2>2. ASSUME NEW w \in Workers, Active(w)' PROVE Active(w) /\ f[w] = worker[w]
    BY <1>f, <2>2 DEF Active, Statements
  <2>3. ASSUME NEW w \in Workers, Holding(w)' PROVE (worker[w].left \subseteq HoursOf(DayAt(worker[w])))'
    <3>1. Holding(w) /\ worker'[w] = worker[w]  BY <1>f, <2>1, <2>3
    <3>2. worker[w].left \subseteq HoursOf(DayAt(worker[w]))  BY <3>1 DEF DaysLocked
    <3> QED  BY <3>1, <3>2 DEF HoursOf, DayAt
  <2>4. ASSUME NEW w \in Workers, Active(w)' PROVE (worker[w].run \subseteq worker[w].left)'
    <3>1. Active(w) /\ worker'[w] = worker[w]  BY <1>f, <2>2, <2>4
    <3> QED  BY <3>1 DEF DaysLocked
  <2>5. ASSUME NEW u \in Workers, NEW w \in Workers, u # w, Holding(u)', Holding(w)'
        PROVE  (DayAt(worker[u]) # DayAt(worker[w]))'
    <3>1. Holding(u) /\ worker'[u] = worker[u] /\ Holding(w) /\ worker'[w] = worker[w]  BY <1>f, <2>1, <2>5
    <3>2. DayAt(worker[u]) # DayAt(worker[w])  BY <2>5, <3>1 DEF DaysLocked
    <3> QED  BY <3>1, <3>2 DEF DayAt
  <2> QED  BY <1>f, <2>2, <2>3, <2>4, <2>5 DEF DaysLocked
<1>1. CASE Query
  <2>1. PICK D \in SUBSET Nat :
          /\ worker["job"].pc = "idle" /\ (D \ Recent = {} \/ worker["older"].pc = "idle")
          /\ worker' = [worker EXCEPT !["job"] = Assigned("job", D \intersect Recent),
                                      !["older"] = Assigned("older", D \ Recent)]
    <3>1. Handed({DayOf[h] : h \in Due}) \in SUBSET Nat  BY SeriesAssumption DEF Handed, Due
    <3>2. Handed({DayOf[h] : h \in Due}) \ Recent = {} \/ worker["older"].pc = "idle"  BY DEF Handed
    <3>3. PICK D \in SUBSET Nat : D = Handed({DayOf[h] : h \in Due})  BY <3>1
    <3> QED  BY <1>1, <3>2, <3>3 DEF Query
  <2>2. ASSUME NEW w \in Workers, NEW S \in SUBSET Nat, S = {} \/ worker[w].pc = "idle"
        PROVE  /\ Assigned(w, S) \in Rounds /\ (Assigned(w, S) = worker[w] \/ Assigned(w, S).pc \in {"idle", "day"})
               /\ \A h \in Hours : Assigned(w, S).marks[h] <= settled[h]
    <3>1. CASE S = {}  BY <1>a, <1>b, <3>1 DEF Assigned
    <3>2. CASE S # {}
      <4>1. PICK g \in [Hours -> Nat] : /\ g = [h \in Hours |-> IF h \in Due /\ DayOf[h] \in S THEN settled[h] ELSE 0]
                                        /\ \A h \in Hours : g[h] <= settled[h]
        <5>1. [h \in Hours |-> IF h \in Due /\ DayOf[h] \in S THEN settled[h] ELSE 0] \in [Hours -> Nat]  BY <1>a
        <5>2. PICK g \in [Hours -> Nat] : g = [h \in Hours |-> IF h \in Due /\ DayOf[h] \in S THEN settled[h] ELSE 0]
          BY <5>1
        <5>3. \A h \in Hours : g[h] <= settled[h]  BY <1>a, <5>2
        <5> QED  BY <5>2, <5>3
      <4>2. Assigned(w, S) = [Idle EXCEPT !.pc = "day", !.days = S, !.marks = g]  BY <3>2, <4>1 DEF Assigned
      <4>3. Assigned(w, S) = [pc |-> "day", days |-> S, marks |-> g, left |-> {}, run |-> {}, built |-> 0]
        BY <4>2 DEF Idle
      <4>4. {} \in SUBSET Hours /\ "day" \in {"idle", "day", "bin"} \union Statements  OBVIOUS
      <4>5. Assigned(w, S) \in Rounds  BY <4>1, <4>3, <4>4 DEF Rounds
      <4> QED  BY <4>1, <4>3, <4>5
    <3> QED  BY <3>1, <3>2
  <2>3. PICK a \in Rounds : /\ a = Assigned("job", D \intersect Recent)
                            /\ a = worker["job"] \/ a.pc \in {"idle", "day"}
                            /\ \A h \in Hours : a.marks[h] <= settled[h]
    BY <1>e, <2>1, <2>2
  <2>4. PICK b \in Rounds : /\ b = Assigned("older", D \ Recent)
                            /\ b = worker["older"] \/ b.pc \in {"idle", "day"}
                            /\ \A h \in Hours : b.marks[h] <= settled[h]
    BY <1>e, <2>1, <2>2
  <2>5. PICK f \in [Workers -> Rounds] : /\ f = worker'
                                         /\ \A w \in Workers : f[w] = worker[w] \/ (w = "job" /\ f[w] = a) \/ (w = "older" /\ f[w] = b)
    <3>1. worker' = [worker EXCEPT !["job"] = a, !["older"] = b]  BY <2>1, <2>3, <2>4
    <3>2. [worker EXCEPT !["job"] = a, !["older"] = b] \in [Workers -> Rounds]  BY <1>a, <2>3, <2>4
    <3> QED  BY <1>a, <1>e, <3>1, <3>2
  <2>6. \A w \in Workers : f[w] = worker[w] \/ f[w].pc \in {"idle", "day"}  BY <2>3, <2>4, <2>5
  <2>7. \A w \in Workers, h \in Hours : f[w].marks[h] <= settled[h]  BY <1>b, <2>3, <2>4, <2>5
  <2> QED  BY <1>1, <1>a, <1>f, <2>5, <2>6, <2>7 DEF Query
<1>2. CASE Backfill
  <2>1. PICK a \in Rounds : a = [Idle EXCEPT !.pc = "day", !.days = Days \ ledger] /\ a.pc = "day" /\ a.marks = Idle.marks
    <3>1. PICK r \in Rounds : r = Idle  BY <1>d
    <3>2. [r EXCEPT !.pc = "day", !.days = Days \ ledger] \in Rounds  BY <1>c DEF Rounds
    <3>3. PICK a \in Rounds : a = [r EXCEPT !.pc = "day", !.days = Days \ ledger]  BY <3>2
    <3>4. a.pc = "day" /\ a.marks = r.marks  BY <3>3 DEF Rounds
    <3> QED  BY <3>1, <3>3, <3>4
  <2>2. worker' = [worker EXCEPT !["backfill"] = a]  BY <1>2, <2>1 DEF Backfill
  <2>3. PICK f \in [Workers -> Rounds] : f = worker' /\ \A w \in Workers : f[w] = worker[w] \/ f[w] = a
    BY <1>a, <2>2
  <2>4. \A w \in Workers, h \in Hours : f[w].marks[h] <= settled[h]  
    <3>1. \A h \in Hours : a.marks[h] = 0 /\ settled[h] \in Nat  BY <1>a, <1>d, <2>1
    <3>2. \A h \in Hours : a.marks[h] <= settled[h]  BY <3>1
    <3> QED  BY <1>b, <2>3, <3>2
  <2> QED  BY <1>2, <1>a, <1>f, <2>1, <2>3, <2>4 DEF Backfill
<1>3. ASSUME NEW w \in Workers, StartDay(w) PROVE Goal
  <2>1. worker[w].pc = "day" /\ Free(w, DayAt(worker[w]))  BY <1>3 DEF StartDay
  <2>2. PICK L \in SUBSET Hours : L \subseteq HoursOf(DayAt(worker[w]))
                                  /\ worker' = [worker EXCEPT ![w] = [worker[w] EXCEPT !.pc = "bin", !.left = L]]
    <3>1. {h \in HoursOf(DayAt(worker[w])) : w = "backfill" \/ worker[w].marks[h] > 0} \subseteq HoursOf(DayAt(worker[w]))
      OBVIOUS
    <3>2. HoursOf(DayAt(worker[w])) \subseteq Hours  BY DEF HoursOf
    <3>3. PICK L \in SUBSET Hours : /\ L = {h \in HoursOf(DayAt(worker[w])) : w = "backfill" \/ worker[w].marks[h] > 0}
                                    /\ L \subseteq HoursOf(DayAt(worker[w]))
      BY <3>1, <3>2
    <3> QED  BY <1>3, <1>a, <3>3 DEF StartDay
  <2>3. PICK a \in Rounds : /\ a = [worker[w] EXCEPT !.pc = "bin", !.left = L]
                            /\ a.pc = "bin" /\ a.left = L /\ a.days = worker[w].days /\ a.marks = worker[w].marks
    <3>1. PICK r \in Rounds : r = worker[w]  BY <1>a
    <3>2. [r EXCEPT !.pc = "bin", !.left = L] \in Rounds  BY DEF Rounds
    <3>3. PICK a \in Rounds : a = [r EXCEPT !.pc = "bin", !.left = L]  BY <3>2
    <3>4. a.pc = "bin" /\ a.left = L /\ a.days = r.days /\ a.marks = r.marks  BY <3>3 DEF Rounds
    <3> QED  BY <3>1, <3>3, <3>4
  <2>4. worker' \in [Workers -> Rounds] /\ worker'[w] = a /\ \A u \in Workers : u # w => worker'[u] = worker[u]
    BY <1>a, <2>2, <2>3
  <2>5. DayAt(worker'[w]) = DayAt(worker[w])  BY <2>3, <2>4 DEF DayAt
  <2>6. DaysLocked'
    <3>1. ASSUME NEW u \in Workers, Holding(u)' PROVE (worker[u].left \subseteq HoursOf(DayAt(worker[u])))'
      <4>1. CASE u = w  BY <2>2, <2>3, <2>4, <2>5, <4>1 DEF HoursOf
      <4>2. CASE u # w
        <5>1. worker'[u] = worker[u] /\ Holding(u)  BY <2>4, <3>1, <4>2 DEF Holding
        <5>2. worker[u].left \subseteq HoursOf(DayAt(worker[u]))  BY <5>1 DEF DaysLocked
        <5> QED  BY <5>1, <5>2 DEF HoursOf, DayAt
      <4> QED  BY <4>1, <4>2
    <3>2. ASSUME NEW u \in Workers, Active(u)' PROVE (worker[u].run \subseteq worker[u].left)'
      <4>1. u # w  BY <2>3, <2>4, <3>2 DEF Active, Statements
      <4>2. worker'[u] = worker[u] /\ Active(u)  BY <2>4, <3>2, <4>1 DEF Active
      <4> QED  BY <4>2 DEF DaysLocked
    <3>3. ASSUME NEW u \in Workers, NEW v \in Workers, u # v, Holding(u)', Holding(v)'
          PROVE  (DayAt(worker[u]) # DayAt(worker[v]))'
      <4>1. ASSUME NEW x \in Workers, x # w, Holding(x)' PROVE Holding(x) /\ DayAt(worker'[x]) = DayAt(worker[x])
                                                            /\ DayAt(worker[x]) # DayAt(worker[w])
        <5>1. worker'[x] = worker[x] /\ Holding(x)  BY <2>4, <4>1 DEF Holding
        <5>2. ~Holds(x, DayAt(worker[w]))  BY <2>1, <4>1 DEF Free
        <5> QED  BY <5>1, <5>2 DEF Holds, Holding
      <4>2. CASE u = w  BY <2>5, <3>3, <4>1, <4>2
      <4>3. CASE v = w  BY <2>5, <3>3, <4>1, <4>3
      <4>4. CASE u # w /\ v # w
        <5>1. DayAt(worker[u]) # DayAt(worker[v])  BY <3>3, <4>1, <4>4 DEF DaysLocked
        <5> QED  BY <3>3, <4>1, <4>4, <5>1
      <4> QED  BY <4>2, <4>3, <4>4
    <3> QED  BY <3>1, <3>2, <3>3 DEF DaysLocked
  <2>7. \A u \in Workers : Active(u)' => Active(u) /\ worker'[u] = worker[u]
    BY <2>3, <2>4 DEF Active, Statements
  <2>8. \A u \in Workers, h \in Hours : worker'[u].marks[h] <= settled[h]  BY <1>b, <2>3, <2>4
  <2> QED  BY <1>3, <1>a, <2>4, <2>6, <2>7, <2>8 DEF StartDay
<1>4. CASE Restart
  <2>1. PICK f \in [Workers -> Rounds] : f = worker' /\ \A w \in Workers : f[w] = Idle
    BY <1>4, <1>d DEF Restart
  <2>2. \A w \in Workers, h \in Hours : f[w].marks[h] <= settled[h]  BY <1>a, <1>d, <2>1
  <2> QED  BY <1>4, <1>d, <1>f, <2>1, <2>2 DEF Restart
<1> QED  BY <1>1, <1>2, <1>3, <1>4 DEF Planning

\* A worker that stays on its day, or leaves it, disturbs no lock.
LEMMA LockKept ==
    ASSUME SeriesTyped, DaysLocked, NEW w \in Workers, NEW a \in Rounds, worker' = [worker EXCEPT ![w] = a],
           a.pc \notin {"idle", "day"} =>
             Holding(w) /\ Max(a.days) = Max(worker[w].days) /\ a.left \subseteq worker[w].left,
           a.pc \in Statements => a.run \subseteq a.left
    PROVE  worker' \in [Workers -> Rounds] /\ DaysLocked' /\ worker'[w] = a
           /\ \A u \in Workers : u # w => worker'[u] = worker[u]
<1>1. worker \in [Workers -> Rounds]  BY DEF SeriesTyped
<1>2. worker' \in [Workers -> Rounds] /\ worker'[w] = a /\ \A u \in Workers : u # w => worker'[u] = worker[u]
  BY <1>1
<1>3. ASSUME NEW u \in Workers, Holding(u)'
      PROVE  Holding(u) /\ DayAt(worker'[u]) = DayAt(worker[u]) /\ worker'[u].left \subseteq worker[u].left
  BY <1>2, <1>3 DEF Holding, DayAt
<1>4. ASSUME NEW u \in Workers, Holding(u)' PROVE (worker[u].left \subseteq HoursOf(DayAt(worker[u])))'
  <2>1. worker[u].left \subseteq HoursOf(DayAt(worker[u]))  BY <1>3, <1>4 DEF DaysLocked
  <2> QED  BY <1>3, <1>4, <2>1 DEF HoursOf
<1>5. ASSUME NEW u \in Workers, Active(u)' PROVE (worker[u].run \subseteq worker[u].left)'
  BY <1>2, <1>5 DEF Active, DaysLocked
<1>6. ASSUME NEW u \in Workers, NEW v \in Workers, u # v, Holding(u)', Holding(v)'
      PROVE  (DayAt(worker[u]) # DayAt(worker[v]))'
  <2>1. DayAt(worker[u]) # DayAt(worker[v])  BY <1>3, <1>6 DEF DaysLocked
  <2> QED  BY <1>3, <1>6, <2>1
<1> QED  BY <1>2, <1>4, <1>5, <1>6 DEF DaysLocked

\* A run starts under a version later than any its hours hold.
LEMMA StartRunStep ==
    ASSUME SeriesTyped, MarksOrdered, DaysLocked, VersionsBounded, NEW w \in Workers, StartRun(w)
    PROVE  /\ worker' \in [Workers -> Rounds] /\ last' \in Nat /\ DaysLocked'
           /\ UNCHANGED <<change, marked, settled, builtMark, flying, tables, recorded, ledger, purge, unmarked>>
           /\ \A u \in Workers : u # w => worker'[u] = worker[u]
           /\ worker'[w].marks = worker[w].marks /\ worker'[w].pc = "station_hours" /\ worker'[w].built > 0
           /\ \A h \in worker'[w].run : /\ \A v \in recorded[h] : v < worker'[w].built
                                        /\ \A t \in Tables : \A b \in tables[t][h] : b.built < worker'[w].built
<1>1. worker \in [Workers -> Rounds] /\ last \in Nat /\ recorded \in [Hours -> SUBSET Nat]
      /\ tables \in [Tables -> [Hours -> SUBSET Blocks]]
  BY DEF SeriesTyped
<1>2. PICK r \in Rounds : r = worker[w]  BY <1>1
<1>3. PICK R \in SUBSET r.left : R = (IF w = "backfill" THEN r.left ELSE FirstRun(r.left))  BY DEF FirstRun
<1>4. R \in SUBSET Hours /\ r.left \in SUBSET Hours  BY DEF Rounds
<1>5. last' = VersionAfter(R) /\ r.pc = "bin"
      /\ worker' = [worker EXCEPT ![w] = [worker[w] EXCEPT !.pc = "station_hours", !.run = R, !.built = last']]
      /\ UNCHANGED <<change, marked, settled, builtMark, flying, tables, recorded, ledger, purge, unmarked>>
  BY <1>1, <1>2, <1>3 DEF StartRun
<1> DEFINE B == UNION {tables[t][h] : t \in Tables, h \in R}
           Noted == UNION {recorded[h] : h \in R}
           Built == {b.built : b \in B}
           Old == {last} \union Noted \union Built
<1>51. VersionAfter(R) = 1 + Max(Old)  BY DEF VersionAfter
<1>52. ASSUME NEW x
       PROVE  x \in Old <=> \/ x = last \/ (\E h \in R : x \in recorded[h])
                            \/ (\E t \in Tables, h \in R : \E b \in tables[t][h] : x = b.built)
  <2>1. x \in Noted <=> \E h \in R : x \in recorded[h]  OBVIOUS
  <2>2. \A b : b \in B <=> \E t \in Tables, h \in R : b \in tables[t][h]  OBVIOUS
  <2> HIDE DEF B, Noted
  <2>3. x \in Built <=> \E b \in B : x = b.built  OBVIOUS
  <2>4. (\E b \in B : x = b.built) <=> \E t \in Tables, h \in R : \E b \in tables[t][h] : x = b.built
    BY <2>2
  <2> HIDE DEF Built
  <2>5. x \in Old <=> x = last \/ x \in Noted \/ x \in Built  OBVIOUS
  <2> QED  BY <2>1, <2>3, <2>4, <2>5
<1> HIDE DEF Old
<1>6. Old \in SUBSET Nat /\ Old # {}
  <2>1. \A h \in R : recorded[h] \subseteq Nat  BY <1>1, <1>4
  <2>2. \A t \in Tables, h \in R : \A b \in tables[t][h] : b.built \in Nat  BY <1>1, <1>4 DEF Blocks
  <2>3. \A x \in Old : x \in Nat  BY <1>1, <1>52, <2>1, <2>2
  <2> QED  BY <1>52, <2>3
<1>7. PICK n \in Nat : \A x \in Old : x <= n
  <2>1. PICK m \in Nat : \A h \in Hours : /\ \A v \in recorded[h] : v <= m
                                          /\ \A t \in Tables : \A b \in tables[t][h] : b.built <= m
    BY DEF VersionsBounded
  <2>2. ASSUME NEW x \in Old PROVE x <= m + last
    <3>1. x \in Nat  BY <1>6
    <3>2. x = last \/ (\E h \in R : x \in recorded[h]) \/ (\E t \in Tables, h \in R : \E b \in tables[t][h] : x = b.built)
      BY <1>52
    <3>3. x = last \/ x <= m  BY <1>4, <2>1, <3>2
    <3> QED  BY <1>1, <3>1, <3>3
  <2>3. m + last \in Nat  BY <1>1
  <2> QED  BY <2>2, <2>3
<1>8. PICK v \in Nat : v = last' /\ v > 0 /\ \A x \in Old : x < v
  <2>1. PICK O \in SUBSET Nat : O = Old /\ O # {} /\ \A x \in O : x <= n  BY <1>6, <1>7
  <2>2. Max(O) \in Nat /\ \A x \in O : x <= Max(O)  BY <2>1, LargestBounded
  <2>3. last' = 1 + Max(O)  BY <1>5, <1>51, <2>1
  <2> QED  BY <2>1, <2>2, <2>3
<1>9. PICK a \in Rounds : /\ a = [r EXCEPT !.pc = "station_hours", !.run = R, !.built = v]
                          /\ a.pc = "station_hours" /\ a.run = R /\ a.built = v
                          /\ a.days = r.days /\ a.left = r.left /\ a.marks = r.marks
  <2>1. [r EXCEPT !.pc = "station_hours", !.run = R, !.built = v] \in Rounds  BY <1>4 DEF Rounds, Statements
  <2>2. PICK a \in Rounds : a = [r EXCEPT !.pc = "station_hours", !.run = R, !.built = v]  BY <2>1
  <2>3. /\ a.pc = "station_hours" /\ a.run = R /\ a.built = v
        /\ a.days = r.days /\ a.left = r.left /\ a.marks = r.marks
    BY <2>2 DEF Rounds
  <2> QED  BY <2>2, <2>3
<1>10. worker' = [worker EXCEPT ![w] = a]  BY <1>2, <1>5, <1>8, <1>9
<1>11. Holding(w)  BY <1>2, <1>5 DEF Holding
<1>12. worker' \in [Workers -> Rounds] /\ DaysLocked' /\ worker'[w] = a /\ \A u \in Workers : u # w => worker'[u] = worker[u]
  BY <1>2, <1>9, <1>10, <1>11, LockKept
<1>13. ASSUME NEW h \in R
       PROVE  (\A x \in recorded[h] : x < v) /\ \A t \in Tables : \A b \in tables[t][h] : b.built < v
  <2>1. \A x \in recorded[h] : x \in Old  BY <1>52
  <2>2. \A t \in Tables : \A b \in tables[t][h] : b.built \in Old  BY <1>52
  <2> QED  BY <1>8, <2>1, <2>2
<1> QED  BY <1>2, <1>5, <1>8, <1>9, <1>12, <1>13

\* What a statement of a binning does to an hour of its run.
HourSame(h) ==
  (\A t \in Tables : tables'[t][h] = tables[t][h]) /\ recorded'[h] = recorded[h] /\ builtMark'[h] = builtMark[h]
HourBinned(w, h, t) ==
  /\ \E b \in Blocks : /\ b.built = worker[w].built /\ b.at = change[h]
                       /\ tables'[t][h] = tables[t][h] \union {b}
  /\ \A u \in Tables \ {t} : tables'[u][h] = tables[u][h]
  /\ recorded'[h] = recorded[h] /\ builtMark'[h] = builtMark[h]
HourRecorded(w, h) ==
  /\ \A t \in Tables : tables'[t][h] = tables[t][h]
  /\ recorded'[h] = recorded[h] \union {worker[w].built} /\ builtMark'[h] = builtMark[h]
HourDropped(w, h) ==
  /\ \A t \in Tables : tables'[t][h] \in {tables[t][h], {b \in tables[t][h] : b.built >= worker[w].built}}
  /\ recorded'[h] \in {recorded[h], {v \in recorded[h] : v >= worker[w].built}}
  /\ builtMark'[h] = builtMark[h]
HourTaken(w, h) ==
  /\ \A t \in Tables : tables'[t][h] = tables[t][h]
  /\ recorded'[h] = recorded[h] /\ builtMark'[h] \in {builtMark[h], worker[w].marks[h]}

HourMoves(w, h) ==
  \/ worker[w].pc = "station_hours" /\ HourBinned(w, h, "station_hours")
  \/ worker[w].pc = "station_vessels" /\ (HourBinned(w, h, "station_vessels") \/ (h \notin VesselHours /\ HourSame(h)))
  \/ worker[w].pc = "station_versions" /\ HourRecorded(w, h)
  \/ worker[w].pc \in {"drop_hours", "drop_vessels", "drop_versions"} /\ HourDropped(w, h)
  \/ worker[w].pc = "finish" /\ HourTaken(w, h)

Unbuilt(t, P, v) == \A h \in P : Blocked(t, h, v) = {}

\* The rows of one version added to some hours of a table.
RowsAdded(t, P, v) ==
  /\ tables' \in [Tables -> [Hours -> SUBSET Blocks]]
  /\ \A h \in P : \E b \in Blocks : b.built = v /\ b.at = change[h] /\ tables'[t][h] = tables[t][h] \union {b}
  /\ \A u \in Tables, h \in Hours : u # t \/ h \notin P => tables'[u][h] = tables[u][h]

LEMMA BinnedBlocks ==
    ASSUME SeriesTyped, NEW w \in Workers, NEW t \in Tables, NEW P \in SUBSET Hours,
           Unbuilt(t, P, worker[w].built), tables' = Binned(t, worker[w], P)
    PROVE  RowsAdded(t, P, worker[w].built)
<1>1. /\ tables \in [Tables -> [Hours -> SUBSET Blocks]] /\ change \in [Hours -> Nat]
      /\ worker[w].built \in Nat
  BY DEF SeriesTyped, Rounds
<1> DEFINE g == [h \in Hours |->
                   IF h \in P
                   THEN tables[t][h] \union {[built |-> worker[w].built, at |-> change[h], copy |-> Cardinality({b \in tables[t][h] : b.built = worker[w].built})]}
                   ELSE tables[t][h]]
           added(h) == [built |-> worker[w].built, at |-> change[h], copy |-> 0]
<1>2. tables' = [tables EXCEPT ![t] = g]  BY <1>1 DEF Binned
<1>3. ASSUME NEW h \in P PROVE g[h] = tables[t][h] \union {added(h)} /\ added(h) \in Blocks
  <2>1. {b \in tables[t][h] : b.built = worker[w].built} = {}  BY DEF Unbuilt, Blocked
  <2>2. Cardinality({b \in tables[t][h] : b.built = worker[w].built}) = 0  BY <2>1, FS_EmptySet
  <2>3. g[h] = tables[t][h] \union {added(h)}  BY <2>2
  <2>4. change[h] \in Nat  BY <1>1
  <2> QED  BY <1>1, <2>3, <2>4 DEF Blocks
<1>4. \A h \in Hours : h \notin P => g[h] = tables[t][h]  OBVIOUS
<1>5. g \in [Hours -> SUBSET Blocks]
  <2>1. ASSUME NEW h \in Hours PROVE g[h] \in SUBSET Blocks
    <3>1. tables[t][h] \in SUBSET Blocks  BY <1>1
    <3> HIDE DEF g, added
    <3> QED  BY <1>3, <1>4, <3>1
  <2> QED  BY <2>1
<1> HIDE DEF g
<1>6. tables' \in [Tables -> [Hours -> SUBSET Blocks]]  BY <1>1, <1>2, <1>5
<1>7. tables'[t] = g /\ \A u \in Tables : u # t => tables'[u] = tables[u]  BY <1>1, <1>2
<1>8. ASSUME NEW h \in P
      PROVE  \E b \in Blocks : /\ b.built = worker[w].built /\ b.at = change[h]
                               /\ tables'[t][h] = tables[t][h] \union {b}
  BY <1>3, <1>7
<1> QED  BY <1>4, <1>6, <1>7, <1>8 DEF RowsAdded

LEMMA DroppedBlocks ==
    ASSUME SeriesTyped, NEW w \in Workers, NEW t \in Tables, NEW P \in SUBSET Hours,
           tables' = WithoutOlder(t, worker[w], P)
    PROVE  /\ tables' \in [Tables -> [Hours -> SUBSET Blocks]]
           /\ \A h \in P : tables'[t][h] = {b \in tables[t][h] : b.built >= worker[w].built}
           /\ \A u \in Tables, h \in Hours : u # t \/ h \notin P => tables'[u][h] = tables[u][h]
<1>1. tables \in [Tables -> [Hours -> SUBSET Blocks]]  BY DEF SeriesTyped
<1> DEFINE g == [h \in Hours |-> IF h \in P THEN {b \in tables[t][h] : b.built >= worker[w].built} ELSE tables[t][h]]
<1>2. tables' = [tables EXCEPT ![t] = g]  BY <1>1 DEF WithoutOlder
<1>3. g \in [Hours -> SUBSET Blocks]
  <2>1. ASSUME NEW h \in Hours PROVE g[h] \in SUBSET Blocks
    <3>1. tables[t][h] \in SUBSET Blocks  BY <1>1
    <3> QED  BY <3>1
  <2> QED  BY <2>1
<1>4. \A h \in Hours : g[h] = IF h \in P THEN {b \in tables[t][h] : b.built >= worker[w].built} ELSE tables[t][h]
  OBVIOUS
<1> HIDE DEF g
<1>5. tables' \in [Tables -> [Hours -> SUBSET Blocks]]  BY <1>1, <1>2, <1>3
<1>6. tables'[t] = g /\ \A u \in Tables : u # t => tables'[u] = tables[u]  BY <1>1, <1>2
<1> QED  BY <1>4, <1>5, <1>6

LEMMA StatementStep ==
    ASSUME SeriesTyped, MarksOrdered, RunsHold, NEW w \in Workers, Active(w), NEW part \in SUBSET worker[w].run,
           Statement(w, part)
    PROVE  /\ tables' \in [Tables -> [Hours -> SUBSET Blocks]] /\ recorded' \in [Hours -> SUBSET Nat]
           /\ builtMark' \in [Hours -> Nat] /\ \A h \in Hours : builtMark'[h] <= settled[h]
           /\ \A h \in Hours : IF h \in part THEN HourMoves(w, h) ELSE HourSame(h)
<1> DEFINE r == worker[w]
           Goal == /\ tables' \in [Tables -> [Hours -> SUBSET Blocks]] /\ recorded' \in [Hours -> SUBSET Nat]
                   /\ builtMark' \in [Hours -> Nat] /\ \A h \in Hours : builtMark'[h] <= settled[h]
                   /\ \A h \in Hours : IF h \in part THEN HourMoves(w, h) ELSE HourSame(h)
<1>1. /\ tables \in [Tables -> [Hours -> SUBSET Blocks]] /\ recorded \in [Hours -> SUBSET Nat]
      /\ builtMark \in [Hours -> Nat] /\ r \in Rounds
      /\ \A h \in Hours : builtMark[h] <= settled[h] /\ r.marks[h] <= settled[h]
  BY DEF SeriesTyped, MarksOrdered
<1>2. /\ r.run \subseteq Hours /\ part \subseteq Hours /\ r.built \in Nat /\ r.marks \in [Hours -> Nat]
      /\ "station_hours" \in Tables /\ "station_vessels" \in Tables
  BY <1>1 DEF Rounds, Tables
<1>3. \A h \in r.run : RunHolds(w, h)  BY DEF RunsHold
<1>4. CASE r.pc = "station_hours"
  <2>1. tables' = Binned("station_hours", r, part) /\ UNCHANGED <<recorded, builtMark>>  BY <1>4 DEF Statement
  <2>2. \A h \in part : Blocked("station_hours", h, r.built) = {}  BY <1>3, <1>4 DEF RunHolds
  <2>3. /\ tables' \in [Tables -> [Hours -> SUBSET Blocks]]
        /\ \A h \in part : \E b \in Blocks : /\ b.built = r.built /\ b.at = change[h]
                                             /\ tables'["station_hours"][h] = tables["station_hours"][h] \union {b}
        /\ \A u \in Tables, h \in Hours : u # "station_hours" \/ h \notin part => tables'[u][h] = tables[u][h]
    <3>1. part \in SUBSET Hours  BY <1>2
    <3>2. Unbuilt("station_hours", part, worker[w].built)  BY <2>2 DEF Unbuilt
    <3>3. tables' = Binned("station_hours", worker[w], part)  BY <2>1
    <3>4. RowsAdded("station_hours", part, worker[w].built)  BY <1>2, <3>1, <3>2, <3>3, BinnedBlocks
    <3> QED  BY <3>4 DEF RowsAdded
  <2>4. ASSUME NEW h \in part PROVE HourMoves(w, h)
    <3>1. HourBinned(w, h, "station_hours")  BY <1>2, <2>1, <2>3 DEF HourBinned
    <3> QED  BY <1>4, <3>1 DEF HourMoves
  <2>5. ASSUME NEW h \in Hours, h \notin part PROVE HourSame(h)  BY <2>1, <2>3, <2>5 DEF HourSame
  <2> QED  BY <1>1, <2>1, <2>3, <2>4, <2>5
<1>5. CASE r.pc = "station_vessels"
  <2>1. PICK P \in SUBSET part : P = (IF Max(r.run) \in VesselHours THEN part ELSE {})  OBVIOUS
  <2>2. tables' = Binned("station_vessels", r, P) /\ UNCHANGED <<recorded, builtMark>>  BY <1>5, <2>1 DEF Statement
  <2>3. \A h \in P : Blocked("station_vessels", h, r.built) = {}  BY <1>3, <1>5 DEF RunHolds
  <2>4. /\ tables' \in [Tables -> [Hours -> SUBSET Blocks]]
        /\ \A h \in P : \E b \in Blocks : /\ b.built = r.built /\ b.at = change[h]
                                          /\ tables'["station_vessels"][h] = tables["station_vessels"][h] \union {b}
        /\ \A u \in Tables, h \in Hours : u # "station_vessels" \/ h \notin P => tables'[u][h] = tables[u][h]
    <3>1. P \in SUBSET Hours  BY <1>2
    <3>2. Unbuilt("station_vessels", P, worker[w].built)  BY <2>3 DEF Unbuilt
    <3>3. tables' = Binned("station_vessels", worker[w], P)  BY <2>2
    <3>4. RowsAdded("station_vessels", P, worker[w].built)  BY <1>2, <3>1, <3>2, <3>3, BinnedBlocks
    <3> QED  BY <3>4 DEF RowsAdded
  <2>5. ASSUME NEW h \in part, h \notin P PROVE h \notin VesselHours
    <3>1. Max(r.run) \notin VesselHours  BY <2>1, <2>5
    <3>2. r.run \in SUBSET Nat /\ r.run # {}  BY <1>2, SeriesAssumption
    <3>3. PICK n \in Nat : \A x \in r.run : x <= n
      <4>1. IsFiniteSet(r.run)  BY <1>2, SeriesAssumption, FS_Subset
      <4> QED  BY <3>2, <4>1, FiniteIsBounded
    <3>4. Max(r.run) \in r.run /\ h <= Max(r.run)  BY <3>2, <3>3, LargestBounded
    <3>5. h \in Hours /\ Max(r.run) \in Hours  BY <1>2, <3>4
    <3> QED  BY <3>1, <3>4, <3>5, SeriesAssumption
  <2>6. ASSUME NEW h \in part PROVE HourMoves(w, h)
    <3>1. CASE h \in P
      <4>1. HourBinned(w, h, "station_vessels")  BY <1>2, <2>2, <2>4, <3>1 DEF HourBinned
      <4> QED  BY <1>5, <4>1 DEF HourMoves
    <3>2. CASE h \notin P
      <4>1. HourSame(h) /\ h \notin VesselHours  BY <1>2, <2>2, <2>4, <2>5, <3>2 DEF HourSame
      <4> QED  BY <1>5, <4>1 DEF HourMoves
    <3> QED  BY <3>1, <3>2
  <2>7. ASSUME NEW h \in Hours, h \notin part PROVE HourSame(h)  BY <2>2, <2>4, <2>7 DEF HourSame
  <2> QED  BY <1>1, <2>2, <2>4, <2>6, <2>7
<1>6. CASE r.pc = "station_versions"
  <2>1. recorded' = [h \in Hours |-> recorded[h] \union (IF h \in part THEN {r.built} ELSE {})]
        /\ UNCHANGED <<tables, builtMark>>
    BY <1>6 DEF Statement
  <2>2. recorded' \in [Hours -> SUBSET Nat]  BY <1>1, <1>2, <2>1
  <2>3. ASSUME NEW h \in part PROVE HourMoves(w, h)
    <3>1. recorded'[h] = recorded[h] \union {r.built}  BY <1>2, <2>1
    <3> QED  BY <1>6, <2>1, <3>1 DEF HourMoves, HourRecorded
  <2>4. ASSUME NEW h \in Hours, h \notin part PROVE HourSame(h)
    <3>1. recorded'[h] = recorded[h]  BY <2>1, <2>4
    <3> QED  BY <2>1, <3>1 DEF HourSame
  <2> QED  BY <1>1, <2>1, <2>2, <2>3, <2>4
<1>7. CASE r.pc \in {"drop_hours", "drop_vessels"}
  <2>1. PICK t \in Tables : tables' = WithoutOlder(t, r, part) /\ UNCHANGED <<recorded, builtMark>>
    BY <1>2, <1>7 DEF Statement
  <2>2. /\ tables' \in [Tables -> [Hours -> SUBSET Blocks]]
        /\ \A h \in part : tables'[t][h] = {b \in tables[t][h] : b.built >= r.built}
        /\ \A u \in Tables, h \in Hours : u # t \/ h \notin part => tables'[u][h] = tables[u][h]
    <3>1. part \in SUBSET Hours  BY <1>2
    <3>2. tables' = WithoutOlder(t, worker[w], part)  BY <2>1
    <3> QED  BY ONLY SeriesTyped, w \in Workers, t \in Tables, <3>1, <3>2, DroppedBlocks
  <2>3. ASSUME NEW h \in part PROVE HourMoves(w, h)
    <3>1. ASSUME NEW u \in Tables
          PROVE  tables'[u][h] \in {tables[u][h], {b \in tables[u][h] : b.built >= r.built}}
      BY <1>2, <2>2
    <3>2. HourDropped(w, h)  BY <2>1, <3>1 DEF HourDropped
    <3> QED  BY <1>7, <3>2 DEF HourMoves
  <2>4. ASSUME NEW h \in Hours, h \notin part PROVE HourSame(h)  BY <2>1, <2>2, <2>4 DEF HourSame
  <2> QED  BY <1>1, <2>1, <2>2, <2>3, <2>4
<1>8. CASE r.pc = "drop_versions"
  <2>1. recorded' = [h \in Hours |-> {v \in recorded[h] : h \in part => v >= r.built}]
        /\ UNCHANGED <<tables, builtMark>>
    BY <1>8 DEF Statement
  <2>2. recorded' \in [Hours -> SUBSET Nat]  BY <1>1, <2>1
  <2>3. ASSUME NEW h \in part PROVE HourMoves(w, h)
    <3>1. recorded'[h] = {v \in recorded[h] : v >= r.built}  BY <1>2, <2>1
    <3>2. HourDropped(w, h)  BY <2>1, <3>1 DEF HourDropped
    <3> QED  BY <1>8, <3>2 DEF HourMoves
  <2>4. ASSUME NEW h \in Hours, h \notin part PROVE HourSame(h)
    <3>1. recorded'[h] = recorded[h]  BY <2>1, <2>4
    <3> QED  BY <2>1, <3>1 DEF HourSame
  <2> QED  BY <1>1, <2>1, <2>2, <2>3, <2>4
<1>9. CASE r.pc = "finish"
  <2>1. UNCHANGED <<tables, recorded>>
        /\ (builtMark' = builtMark
            \/ builtMark' = [h \in Hours |-> IF h \in part THEN Max({builtMark[h], r.marks[h]}) ELSE builtMark[h]])
    BY <1>9 DEF Statement
  <2>2. ASSUME NEW h \in Hours
        PROVE  /\ builtMark'[h] \in {builtMark[h], r.marks[h]} /\ (h \notin part => builtMark'[h] = builtMark[h])
    <3>1. builtMark[h] \in Nat /\ r.marks[h] \in Nat  BY <1>1, <1>2
    <3>2. Max({builtMark[h], r.marks[h]}) \in {builtMark[h], r.marks[h]}
      <4>1. PICK x \in {builtMark[h], r.marks[h]} : \A y \in {builtMark[h], r.marks[h]} : x >= y  BY <3>1
      <4> QED  BY <4>1 DEF Max
    <3> QED  BY <2>1, <3>2
  <2>3. builtMark' \in [Hours -> Nat]
    <3>1. \A h \in Hours : builtMark'[h] \in Nat  BY <1>1, <1>2, <2>2
    <3> QED  BY <1>1, <2>1, <3>1
  <2>4. \A h \in Hours : builtMark'[h] <= settled[h]  BY <1>1, <2>2
  <2>5. ASSUME NEW h \in part PROVE HourMoves(w, h)
    <3>1. HourTaken(w, h)  BY <1>2, <2>1, <2>2 DEF HourTaken
    <3> QED  BY <1>9, <3>1 DEF HourMoves
  <2>6. ASSUME NEW h \in Hours, h \notin part PROVE HourSame(h)  BY <2>1, <2>2, <2>6 DEF HourSame
  <2> QED  BY <1>1, <2>1, <2>3, <2>4, <2>5, <2>6
<1> QED  BY <1>4, <1>5, <1>6, <1>7, <1>8, <1>9 DEF Active, Statements

\* A statement done, or failed, moves its worker on; the locks hold.
LEMMA WorkerMoves ==
    ASSUME SeriesTyped, MarksOrdered, DaysLocked, NEW w \in Workers, Binning(w)
    PROVE  /\ worker' \in [Workers -> Rounds] /\ DaysLocked'
           /\ \A u \in Workers : u # w => worker'[u] = worker[u]
           /\ \A u \in Workers, h \in Hours : worker'[u].marks[h] <= settled[h]
           /\ \/ worker'[w].pc \in {"idle", "day", "bin"}
              \/ /\ worker[w].pc # "finish" /\ Statement(w, worker[w].run) /\ worker'[w].pc = After[worker[w].pc]
                 /\ worker'[w].run = worker[w].run /\ worker'[w].built = worker[w].built
                 /\ worker'[w].marks = worker[w].marks
<1>1. worker \in [Workers -> Rounds] /\ settled \in [Hours -> Nat]  BY DEF SeriesTyped
<1>2. PICK r \in Rounds : r = worker[w]  BY <1>1
<1>3. r.pc \in Statements /\ Holding(w) /\ r.run \subseteq r.left
  BY <1>2 DEF Binning, Active, Holding, Statements, DaysLocked
<1>4. Idle \in Rounds /\ Idle.pc = "idle" /\ \A h \in Hours : Idle.marks[h] = 0  BY DEF Idle, Rounds
<1>5. \A h \in Hours : r.marks[h] <= settled[h] /\ 0 <= settled[h]  BY <1>1, <1>2 DEF MarksOrdered
<1>6. ASSUME worker' = [worker EXCEPT ![w] = RunOver(r)]
      PROVE  \E a \in Rounds : /\ worker' = [worker EXCEPT ![w] = a]
                               /\ a.pc \in {"idle", "day", "bin"}
                               /\ a.pc = "bin" => a.days = r.days /\ a.left \subseteq r.left
                               /\ \A h \in Hours : a.marks[h] <= settled[h]
  <2>1. CASE r.left # r.run
    <3>1. [r EXCEPT !.pc = "bin", !.left = @ \ r.run, !.run = {}, !.built = 0] \in Rounds  BY DEF Rounds
    <3>2. PICK a \in Rounds : a = [r EXCEPT !.pc = "bin", !.left = @ \ r.run, !.run = {}, !.built = 0]  BY <3>1
    <3>3. a.pc = "bin" /\ a.days = r.days /\ a.left \subseteq r.left /\ a.marks = r.marks  BY <3>2 DEF Rounds
    <3> QED  BY <1>5, <1>6, <2>1, <3>2, <3>3 DEF RunOver
  <2>2. CASE r.left = r.run /\ r.days # {DayAt(r)}
    <3>1. [r EXCEPT !.pc = "day", !.days = @ \ {DayAt(r)}, !.left = {}, !.run = {}, !.built = 0] \in Rounds
      BY DEF Rounds
    <3>2. PICK a \in Rounds : a = [r EXCEPT !.pc = "day", !.days = @ \ {DayAt(r)}, !.left = {}, !.run = {}, !.built = 0]
      BY <3>1
    <3>3. a.pc = "day" /\ a.marks = r.marks  BY <3>2 DEF Rounds
    <3> QED  BY <1>5, <1>6, <2>2, <3>2, <3>3 DEF RunOver
  <2>3. CASE r.left = r.run /\ r.days = {DayAt(r)}  BY <1>4, <1>5, <1>6, <2>3 DEF RunOver
  <2> QED  BY <2>1, <2>2, <2>3
<1>7. ASSUME r.pc # "finish", worker' = [worker EXCEPT ![w] = [r EXCEPT !.pc = After[r.pc]]]
      PROVE  \E a \in Rounds : /\ worker' = [worker EXCEPT ![w] = a]
                               /\ a.pc = After[r.pc] /\ a.days = r.days /\ a.left = r.left
                               /\ a.run = r.run /\ a.built = r.built /\ a.marks = r.marks
  <2>1. After[r.pc] \in Statements  BY <1>3, <1>7, StatementsAre DEF Statements
  <2>2. [r EXCEPT !.pc = After[r.pc]] \in Rounds  BY <2>1 DEF Rounds
  <2>3. PICK a \in Rounds : a = [r EXCEPT !.pc = After[r.pc]]  BY <2>2
  <2>4. /\ a.pc = After[r.pc] /\ a.days = r.days /\ a.left = r.left
        /\ a.run = r.run /\ a.built = r.built /\ a.marks = r.marks
    BY <2>3 DEF Rounds
  <2> QED  BY <1>7, <2>3, <2>4
<1>8. PICK a \in Rounds :
        /\ worker' = [worker EXCEPT ![w] = a]
        /\ a.pc \notin {"idle", "day"} => a.days = r.days /\ a.left \subseteq r.left
        /\ a.pc \in Statements => a.run \subseteq a.left
        /\ \A h \in Hours : a.marks[h] <= settled[h]
        /\ \/ a.pc \in {"idle", "day", "bin"}
           \/ /\ r.pc # "finish" /\ Statement(w, r.run) /\ a.pc = After[r.pc]
              /\ a.run = r.run /\ a.built = r.built /\ a.marks = r.marks
  <2>1. \/ worker' = [worker EXCEPT ![w] = RunOver(r)]
        \/ r.pc # "finish" /\ Statement(w, r.run) /\ worker' = [worker EXCEPT ![w] = [r EXCEPT !.pc = After[r.pc]]]
    BY <1>2 DEF Binning
  <2> QED  BY <1>3, <1>5, <1>6, <1>7, <2>1 DEF Statements
<1>9. worker' \in [Workers -> Rounds] /\ DaysLocked' /\ worker'[w] = a /\ \A u \in Workers : u # w => worker'[u] = worker[u]
  BY <1>2, <1>3, <1>8, LockKept
<1>10. \A u \in Workers, h \in Hours : worker'[u].marks[h] <= settled[h]  BY <1>8, <1>9 DEF MarksOrdered
<1> QED  BY <1>2, <1>8, <1>9, <1>10

\* Where the hour's figures stand still, what is said of them stays: what
\* becomes of receptions only adds to what is owed.
Debts(h) == \A m \in Nat : m <= settled[h] /\ (Owed(h, m) \/ change'[h] # change[h]) => Owed(h, m)'

LEMMA DebtsStay ==
    ASSUME UNCHANGED <<change, marked, purge, unmarked>>, NEW h \in Hours
    PROVE  Debts(h)
  BY DEF Debts, Owed

LEMMA RunStays ==
    ASSUME SeriesTyped, MarksOrdered, NEW w \in Workers, NEW h \in Hours, RunHolds(w, h),
           worker'[w] = worker[w], HourSame(h), Debts(h)
    PROVE  RunHolds(w, h)'
<1>1. /\ \A t \in Tables : tables'[t][h] = tables[t][h] /\ "station_hours" \in Tables /\ "station_vessels" \in Tables
      /\ recorded'[h] = recorded[h] /\ builtMark'[h] = builtMark[h]
  BY DEF HourSame, Tables
<1>2. builtMark[h] \in Nat /\ builtMark[h] <= settled[h]
      /\ worker[w].marks[h] \in Nat /\ worker[w].marks[h] <= settled[h]
  BY DEF SeriesTyped, MarksOrdered, Rounds
<1>3. ASSUME NEW t \in Tables, NEW v PROVE Blocked(t, h, v)' = Blocked(t, h, v) /\ (Whole(t, h, v) => Whole(t, h, v)')
  BY <1>1 DEF Blocked, Whole
<1>4. ASSUME NEW t \in Tables, NEW b \in Blocked(t, h, worker[w].built), b.at # change'[h]
      PROVE  Owed(h, builtMark[h])' /\ Owed(h, worker[w].marks[h])'
  <2>1. b.at # change[h] => Owed(h, builtMark[h]) /\ Owed(h, worker[w].marks[h])  BY DEF RunHolds
  <2>2. PICK m \in Nat : m = builtMark[h] /\ m <= settled[h]  BY <1>2
  <2>3. PICK k \in Nat : k = worker[w].marks[h] /\ k <= settled[h]  BY <1>2
  <2>4. Owed(h, m)' /\ Owed(h, k)'  BY <1>4, <2>1, <2>2, <2>3 DEF Debts
  <2>5. m = builtMark'[h] /\ k = worker'[w].marks[h]  BY <1>1, <2>2, <2>3
  <2> QED  BY <2>4, <2>5 DEF Owed
<1>5. ASSUME NEW t \in Tables, NEW b \in Blocked(t, h, worker[w].built)'
      PROVE  /\ \A c \in tables'[t][h] : c.at <= b.at
             /\ b.at # change'[h] => Owed(h, builtMark[h])' /\ Owed(h, worker[w].marks[h])'
  <2>1. b \in Blocked(t, h, worker[w].built)  BY <1>3 DEF Blocked
  <2>2. \A c \in tables'[t][h] : c.at <= b.at  BY <1>1, <2>1 DEF RunHolds
  <2> QED  BY <1>4, <2>1, <2>2
<1>6. PICK r \in Rounds : r = worker[w] /\ r = worker'[w]  BY DEF SeriesTyped
<1>7. /\ r.built > 0 /\ (\A x \in recorded'[h] : x <= r.built)
      /\ \A t \in Tables : \A b \in tables'[t][h] : b.built <= r.built
      /\ r.pc \in {"station_hours", "station_vessels", "station_versions"} => r.built \notin recorded'[h]
      /\ r.pc \in {"drop_hours", "drop_vessels", "drop_versions", "finish"} => r.built \in recorded'[h]
  BY <1>1, <1>6 DEF RunHolds
<1>8. /\ r.pc = "station_hours" => Blocked("station_hours", h, r.built)' = {}
      /\ r.pc \in {"station_hours", "station_vessels"} => Blocked("station_vessels", h, r.built)' = {}
      /\ r.pc \in Statements \ {"station_hours"} => Whole("station_hours", h, r.built)'
      /\ r.pc \in Statements \ {"station_hours", "station_vessels"} /\ h \in VesselHours
           => Whole("station_vessels", h, r.built)'
  <2>1. /\ r.pc = "station_hours" => Blocked("station_hours", h, r.built) = {}
        /\ r.pc \in {"station_hours", "station_vessels"} => Blocked("station_vessels", h, r.built) = {}
        /\ r.pc \in Statements \ {"station_hours"} => Whole("station_hours", h, r.built)
        /\ r.pc \in Statements \ {"station_hours", "station_vessels"} /\ h \in VesselHours
             => Whole("station_vessels", h, r.built)
    BY <1>6 DEF RunHolds
  <2>2. \A t \in Tables : /\ Blocked(t, h, r.built)' = Blocked(t, h, r.built)
                          /\ Whole(t, h, r.built) => Whole(t, h, r.built)'
    BY <1>3
  <2>3. "station_hours" \in Tables /\ "station_vessels" \in Tables  BY DEF Tables
  <2> QED  BY <2>1, <2>2, <2>3
<1>9. \A t \in Tables : \A b \in Blocked(t, h, r.built)' :
        /\ \A c \in tables'[t][h] : c.at <= b.at
        /\ b.at # change'[h] => Owed(h, builtMark[h])' /\ Owed(h, r.marks[h])'
  BY <1>5, <1>6
<1> QED  BY <1>6, <1>7, <1>8, <1>9 DEF RunHolds

LEMMA ServedStays ==
    ASSUME SeriesTyped, MarksOrdered, NEW h \in Hours, HourServed(h), HourSame(h), Debts(h)
    PROVE  HourServed(h)'
<1>1. /\ \A t \in Tables : tables'[t][h] = tables[t][h]
      /\ recorded'[h] = recorded[h] /\ builtMark'[h] = builtMark[h]
  BY DEF HourSame
<1>2. PICK m \in Nat : m = builtMark[h] /\ m <= settled[h]
  BY DEF SeriesTyped, MarksOrdered
<1>3. ASSUME NEW t \in Tables, h \in Kept(t), NEW v \in recorded'[h], IsNewest(h, v)'
      PROVE  Whole(t, h, v)' /\ \A b \in Blocked(t, h, v)' : b.at # change'[h] => Owed(h, builtMark[h])'
  <2>1. v \in recorded[h] /\ IsNewest(h, v)  BY <1>1, <1>3 DEF IsNewest
  <2>2. Blocked(t, h, v)' = Blocked(t, h, v) /\ (Whole(t, h, v) => Whole(t, h, v)')  BY <1>1 DEF Blocked, Whole
  <2>3. Whole(t, h, v) /\ \A b \in Blocked(t, h, v) : b.at # change[h] => Owed(h, m)
    BY <1>2, <1>3, <2>1 DEF HourServed
  <2>4. ASSUME NEW b \in Blocked(t, h, v), b.at # change'[h] PROVE Owed(h, m)'
    BY <1>2, <2>3, <2>4 DEF Debts
  <2>5. m = builtMark'[h]  BY <1>1, <1>2
  <2> QED  BY <2>2, <2>3, <2>4, <2>5 DEF Owed
<1> QED  BY <1>3 DEF HourServed, Kept

\* The same, by the table: it keeps what the run binned, or gains it.
HourKeeps(t, h, v) == tables'[t][h] \subseteq tables[t][h] /\ Blocked(t, h, v) \subseteq tables'[t][h]
HourGains(t, h, v) == \E b \in Blocks : b.built = v /\ b.at = change[h] /\ tables'[t][h] = tables[t][h] \union {b}

LEMMA HourTables ==
    ASSUME SeriesTyped, NEW w \in Workers, Active(w), NEW h \in Hours, HourMoves(w, h),
           NEW v \in Nat, v = worker[w].built, NEW pc \in Statements, pc = worker[w].pc
    PROVE  /\ \A t \in Tables : HourKeeps(t, h, v) \/ (pc = t /\ HourGains(t, h, v))
           /\ pc = "station_hours" => HourGains("station_hours", h, v)
           /\ pc = "station_vessels" /\ h \in VesselHours => HourGains("station_vessels", h, v)
           /\ recorded'[h] \subseteq recorded[h] \union {v}
           /\ v \in recorded[h] => v \in recorded'[h]
           /\ pc \in Tables => recorded'[h] = recorded[h]
           /\ pc = "station_versions" => v \in recorded'[h]
           /\ builtMark'[h] \in {builtMark[h], worker[w].marks[h]} /\ (pc # "finish" => builtMark'[h] = builtMark[h])
<1> DEFINE Goal == /\ \A t \in Tables : HourKeeps(t, h, v) \/ (pc = t /\ HourGains(t, h, v))
                   /\ pc = "station_hours" => HourGains("station_hours", h, v)
                   /\ pc = "station_vessels" /\ h \in VesselHours => HourGains("station_vessels", h, v)
                   /\ recorded'[h] \subseteq recorded[h] \union {v}
                   /\ v \in recorded[h] => v \in recorded'[h]
                   /\ pc \in Tables => recorded'[h] = recorded[h]
                   /\ pc = "station_versions" => v \in recorded'[h]
                   /\ builtMark'[h] \in {builtMark[h], worker[w].marks[h]}
                   /\ pc # "finish" => builtMark'[h] = builtMark[h]
<1>1. ASSUME NEW t \in Tables, tables'[t][h] = tables[t][h] PROVE HourKeeps(t, h, v)
  BY <1>1 DEF HourKeeps, Blocked
<1>2. CASE pc = "station_hours"
  <2>1. HourBinned(w, h, "station_hours")  BY <1>2 DEF HourMoves
  <2>2. HourGains("station_hours", h, v) /\ recorded'[h] = recorded[h] /\ builtMark'[h] = builtMark[h]
    BY <2>1 DEF HourBinned, HourGains
  <2>3. \A t \in Tables : HourKeeps(t, h, v) \/ (pc = t /\ HourGains(t, h, v))
    BY <1>1, <1>2, <2>1, <2>2 DEF HourBinned
  <2> QED  BY <1>2, <2>2, <2>3
<1>3. CASE pc = "station_vessels"
  <2>1. CASE HourBinned(w, h, "station_vessels")
    <3>1. HourGains("station_vessels", h, v) /\ recorded'[h] = recorded[h] /\ builtMark'[h] = builtMark[h]
      BY <2>1 DEF HourBinned, HourGains
    <3>2. \A t \in Tables : HourKeeps(t, h, v) \/ (pc = t /\ HourGains(t, h, v))
      BY <1>1, <1>3, <2>1, <3>1 DEF HourBinned
    <3> QED  BY <1>3, <3>1, <3>2
  <2>2. CASE h \notin VesselHours /\ HourSame(h)
    <3>1. recorded'[h] = recorded[h] /\ builtMark'[h] = builtMark[h] /\ \A t \in Tables : HourKeeps(t, h, v)
      BY <1>1, <2>2 DEF HourSame
    <3> QED  BY <1>3, <2>2, <3>1
  <2> QED  BY <1>3, <2>1, <2>2 DEF HourMoves
<1>4. CASE pc = "station_versions"
  <2>1. HourRecorded(w, h)  BY <1>4 DEF HourMoves
  <2>2. /\ \A t \in Tables : HourKeeps(t, h, v)
        /\ recorded'[h] = recorded[h] \union {v} /\ builtMark'[h] = builtMark[h]
    BY <1>1, <2>1 DEF HourRecorded
  <2> QED  BY <1>4, <2>2 DEF Tables
<1>5. CASE pc \in {"drop_hours", "drop_vessels", "drop_versions"}
  <2>1. HourDropped(w, h)  BY <1>5 DEF HourMoves
  <2>2. ASSUME NEW t \in Tables PROVE HourKeeps(t, h, v)
    <3>1. tables'[t][h] \in {tables[t][h], {b \in tables[t][h] : b.built >= v}}  BY <2>1 DEF HourDropped
    <3>2. \A b \in Blocked(t, h, v) : b \in tables[t][h] /\ b.built >= v  BY DEF Blocked
    <3> QED  BY <3>1, <3>2 DEF HourKeeps
  <2>3. recorded'[h] \in {recorded[h], {x \in recorded[h] : x >= v}} /\ builtMark'[h] = builtMark[h]
    BY <2>1 DEF HourDropped
  <2> QED  BY <1>5, <2>2, <2>3 DEF Tables
<1>6. CASE pc = "finish"
  <2>1. HourTaken(w, h)  BY <1>6 DEF HourMoves
  <2>2. \A t \in Tables : HourKeeps(t, h, v)  BY <1>1, <2>1 DEF HourTaken
  <2>3. recorded'[h] = recorded[h] /\ builtMark'[h] \in {builtMark[h], worker[w].marks[h]}
    BY <2>1 DEF HourTaken
  <2> QED  BY <1>6, <2>2, <2>3 DEF Tables
<1> QED  BY <1>2, <1>3, <1>4, <1>5, <1>6 DEF Statements

LEMMA BlocksKept ==
    ASSUME NEW t, NEW h, NEW v, HourKeeps(t, h, v)
    PROVE  Blocked(t, h, v)' = Blocked(t, h, v) /\ (Whole(t, h, v) => Whole(t, h, v)')
<1>1. Blocked(t, h, v)' = Blocked(t, h, v)  BY DEF HourKeeps, Blocked
<1>2. ASSUME NEW b \in tables[t][h], Blocked(t, h, v) = {b} PROVE b \in tables'[t][h]  BY <1>2 DEF HourKeeps
<1> QED  BY <1>1, <1>2 DEF Whole

LEMMA BlocksGained ==
    ASSUME NEW t, NEW h, NEW v, HourGains(t, h, v), Blocked(t, h, v) = {}
    PROVE  /\ Whole(t, h, v)'
           /\ \A b \in Blocked(t, h, v)' : b.at = change[h]
           /\ \A b \in tables'[t][h] : b \in tables[t][h] \/ (b.built = v /\ b.at = change[h])
<1>1. PICK b \in Blocks : b.built = v /\ b.at = change[h] /\ tables'[t][h] = tables[t][h] \union {b}  BY DEF HourGains
<1>2. Blocked(t, h, v)' = {b}  BY <1>1 DEF Blocked
<1> QED  BY <1>1, <1>2 DEF Whole

\* A run that goes on to its next statement.
LEMMA RunAdvances ==
    ASSUME SeriesTyped, VersionsBounded, NEW w \in Workers, Active(w), NEW h \in Hours, RunHolds(w, h),
           HourMoves(w, h), UNCHANGED <<change, marked, purge, unmarked>>, worker' \in [Workers -> Rounds],
           worker[w].pc # "finish", worker'[w].pc = After[worker[w].pc],
           worker'[w].built = worker[w].built, worker'[w].marks = worker[w].marks
    PROVE  RunHolds(w, h)'
<1>1. PICK r \in Rounds : r = worker[w]  BY DEF SeriesTyped
<1>2. PICK a \in Rounds : a = worker'[w]  OBVIOUS
<1>3. PICK v \in Nat : v = r.built /\ v = a.built  BY <1>1, <1>2 DEF Rounds
<1>4. PICK m \in [Hours -> Nat] : m = r.marks /\ m = a.marks  BY <1>1, <1>2 DEF Rounds
<1>5. /\ r.pc \in Statements \ {"finish"} /\ a.pc = After[r.pc]  BY <1>1, <1>2 DEF Active
<1>6. /\ v > 0 /\ (\A x \in recorded[h] : x <= v)
      /\ \A t \in Tables : \A b \in tables[t][h] : b.built <= v
      /\ r.pc \in Tables \union {"station_versions"} => v \notin recorded[h]
      /\ r.pc \in {"drop_hours", "drop_vessels", "drop_versions", "finish"} => v \in recorded[h]
  BY <1>1, <1>3 DEF RunHolds, Tables
<1>7. /\ r.pc = "station_hours" => Blocked("station_hours", h, v) = {}
      /\ r.pc \in {"station_hours", "station_vessels"} => Blocked("station_vessels", h, v) = {}
      /\ r.pc \in Statements \ {"station_hours"} => Whole("station_hours", h, v)
      /\ r.pc \in Statements \ {"station_hours", "station_vessels"} /\ h \in VesselHours
           => Whole("station_vessels", h, v)
  BY <1>1, <1>3 DEF RunHolds
<1>8. \A t \in Tables : \A b \in Blocked(t, h, v) :
        /\ \A c \in tables[t][h] : c.at <= b.at
        /\ b.at # change[h] => Owed(h, builtMark[h]) /\ Owed(h, m[h])
  BY <1>1, <1>3, <1>4 DEF RunHolds
<1>9. /\ \A t \in Tables : HourKeeps(t, h, v) \/ (r.pc = t /\ HourGains(t, h, v))
      /\ r.pc = "station_hours" => HourGains("station_hours", h, v)
      /\ r.pc = "station_vessels" /\ h \in VesselHours => HourGains("station_vessels", h, v)
      /\ recorded'[h] \subseteq recorded[h] \union {v}
      /\ v \in recorded[h] => v \in recorded'[h]
      /\ r.pc \in Tables => recorded'[h] = recorded[h]
      /\ r.pc = "station_versions" => v \in recorded'[h]
      /\ builtMark'[h] = builtMark[h]
  <2>1. PICK pc \in Statements : pc = r.pc /\ pc = worker[w].pc /\ pc # "finish"  BY <1>1, <1>5
  <2>2. v = worker[w].built  BY <1>1, <1>3
  <2>3. /\ \A t \in Tables : HourKeeps(t, h, v) \/ (pc = t /\ HourGains(t, h, v))
        /\ pc = "station_hours" => HourGains("station_hours", h, v)
        /\ pc = "station_vessels" /\ h \in VesselHours => HourGains("station_vessels", h, v)
        /\ recorded'[h] \subseteq recorded[h] \union {v}
        /\ v \in recorded[h] => v \in recorded'[h]
        /\ pc \in Tables => recorded'[h] = recorded[h]
        /\ pc = "station_versions" => v \in recorded'[h]
        /\ pc # "finish" => builtMark'[h] = builtMark[h]
    BY <2>1, <2>2, HourTables
  <2> QED  BY <2>1, <2>3
<1>10. "station_hours" \in Tables /\ "station_vessels" \in Tables  BY DEF Tables
<1>11. ASSUME NEW t \in Tables, HourKeeps(t, h, v)
       PROVE  /\ Blocked(t, h, v)' = Blocked(t, h, v) /\ (Whole(t, h, v) => Whole(t, h, v)')
              /\ \A b \in tables'[t][h] : b \in tables[t][h]
  <2>1. \A b \in tables'[t][h] : b \in tables[t][h]  BY <1>11 DEF HourKeeps
  <2> QED  BY <1>11, <2>1, BlocksKept
<1>12. ASSUME NEW t \in Tables, r.pc = t, HourGains(t, h, v)
       PROVE  /\ Whole(t, h, v)' /\ \A b \in Blocked(t, h, v)' : b.at = change[h]
              /\ \A b \in tables'[t][h] : b \in tables[t][h] \/ (b.built = v /\ b.at = change[h])
  <2>1. Blocked(t, h, v) = {}  BY <1>7, <1>12 DEF Tables
  <2> QED  BY <1>12, <2>1, BlocksGained
<1>13. \A t \in Tables : \A b \in tables'[t][h] : b.built <= v /\ b.at <= change[h]
  <2>1. \A t \in Tables : \A b \in tables[t][h] : b.at <= change[h]  BY DEF VersionsBounded
  <2>2. change[h] \in Nat  BY DEF SeriesTyped
  <2> QED  BY <1>6, <1>9, <1>11, <1>12, <2>1, <2>2
<1>14. \A t \in Tables : \A b \in Blocked(t, h, v)' :
         /\ \A c \in tables'[t][h] : c.at <= b.at
         /\ b.at # change'[h] => Owed(h, builtMark[h])' /\ Owed(h, m[h])'
  <2>1. ASSUME NEW t \in Tables, NEW b \in Blocked(t, h, v)', HourKeeps(t, h, v)
        PROVE  /\ \A c \in tables'[t][h] : c.at <= b.at
               /\ b.at # change'[h] => Owed(h, builtMark[h])' /\ Owed(h, m[h])'
    <3>1. b \in Blocked(t, h, v) /\ \A c \in tables'[t][h] : c \in tables[t][h]  BY <1>11, <2>1
    <3>2. \A c \in tables'[t][h] : c.at <= b.at  BY <1>8, <3>1
    <3>3. b.at # change[h] => Owed(h, builtMark[h]) /\ Owed(h, m[h])  BY <1>8, <3>1
    <3> QED  BY <1>9, <3>2, <3>3 DEF Owed
  <2>2. ASSUME NEW t \in Tables, NEW b \in Blocked(t, h, v)', r.pc = t, HourGains(t, h, v)
        PROVE  (\A c \in tables'[t][h] : c.at <= b.at) /\ b.at = change'[h]
    BY <1>12, <1>13, <2>2
  <2> QED  BY <1>9, <2>1, <2>2
<1>15. /\ a.pc = "station_hours" => Blocked("station_hours", h, v)' = {}
       /\ a.pc \in {"station_hours", "station_vessels"} => Blocked("station_vessels", h, v)' = {}
       /\ a.pc \in Statements \ {"station_hours"} => Whole("station_hours", h, v)'
       /\ a.pc \in Statements \ {"station_hours", "station_vessels"} /\ h \in VesselHours
            => Whole("station_vessels", h, v)'
  <2>1. CASE r.pc = "station_hours"
    <3>1. a.pc = "station_vessels"  BY <1>5, <2>1, StatementsAre
    <3>2. HourKeeps("station_vessels", h, v)  BY <1>9, <1>10, <2>1
    <3>3. Blocked("station_vessels", h, v)' = {}  BY <1>7, <1>10, <1>11, <2>1, <3>2
    <3>4. Whole("station_hours", h, v)'  BY <1>9, <1>10, <1>12, <2>1
    <3> QED  BY <3>1, <3>3, <3>4
  <2>2. CASE r.pc = "station_vessels"
    <3>1. a.pc = "station_versions"  BY <1>5, <2>2, StatementsAre
    <3>2. HourKeeps("station_hours", h, v)  BY <1>9, <1>10, <2>2
    <3>3. Whole("station_hours", h, v)'  BY <1>5, <1>7, <1>10, <1>11, <2>2, <3>2
    <3>4. h \in VesselHours => Whole("station_vessels", h, v)'  BY <1>9, <1>10, <1>12, <2>2
    <3> QED  BY <3>1, <3>3, <3>4
  <2>3. CASE r.pc \notin Tables
    <3>1. a.pc \notin {"station_hours", "station_vessels"}  BY <1>5, <2>3, StatementsAre DEF Statements, Tables
    <3>2. \A t \in Tables : HourKeeps(t, h, v)  BY <1>9, <2>3
    <3>3. \A t \in Tables : Whole(t, h, v) => Whole(t, h, v)'  BY <1>11, <3>2
    <3> QED  BY <1>5, <1>7, <1>10, <2>3, <3>1, <3>3 DEF Tables
  <2> QED  BY <2>1, <2>2, <2>3 DEF Tables
<1>16. /\ \A x \in recorded'[h] : x <= v
       /\ a.pc \in {"station_hours", "station_vessels", "station_versions"} => v \notin recorded'[h]
       /\ a.pc \in {"drop_hours", "drop_vessels", "drop_versions", "finish"} => v \in recorded'[h]
  <2>1. \A x \in recorded'[h] : x <= v  BY <1>6, <1>9
  <2>2. a.pc \in {"station_hours", "station_vessels", "station_versions"} => r.pc \in Tables
    BY <1>5, StatementsAre DEF Statements, Tables
  <2>3. a.pc \in {"drop_hours", "drop_vessels", "drop_versions", "finish"}
          => r.pc \in {"station_versions", "drop_hours", "drop_vessels", "drop_versions"}
    BY <1>5, StatementsAre DEF Statements
  <2> QED  BY <1>6, <1>9, <2>1, <2>2, <2>3
<1>17. \A t \in Tables : \A b \in tables'[t][h] : b.built <= v  BY <1>13
<1> QED  BY <1>2, <1>3, <1>4, <1>6, <1>14, <1>15, <1>16, <1>17 DEF RunHolds

\* What is served once a statement of a run has reached an hour.
LEMMA ServedAdvances ==
    ASSUME SeriesTyped, NEW w \in Workers, Active(w), NEW h \in Hours, RunHolds(w, h), HourServed(h),
           HourMoves(w, h), UNCHANGED <<change, marked, purge, unmarked>>
    PROVE  HourServed(h)'
<1>1. PICK r \in Rounds : r = worker[w]  BY DEF SeriesTyped
<1>2. PICK v \in Nat : v = worker[w].built /\ v = r.built  BY <1>1 DEF Rounds
<1>3. PICK pc \in Statements : pc = worker[w].pc /\ pc = r.pc  BY <1>1 DEF Active
<1>4. PICK m \in [Hours -> Nat] : m = worker[w].marks  BY <1>1 DEF Rounds
<1>5. /\ \A t \in Tables : HourKeeps(t, h, v) \/ (pc = t /\ HourGains(t, h, v))
      /\ recorded'[h] \subseteq recorded[h] \union {v}
      /\ v \in recorded[h] => v \in recorded'[h]
      /\ pc \in Tables => recorded'[h] = recorded[h]
      /\ pc = "station_versions" => v \in recorded'[h]
      /\ builtMark'[h] \in {builtMark[h], worker[w].marks[h]} /\ (pc # "finish" => builtMark'[h] = builtMark[h])
  BY <1>2, <1>3, HourTables
<1>6. recorded[h] \subseteq Nat  BY DEF SeriesTyped
<1>7. CASE pc \in Tables
  <2>1. v \notin recorded[h]  BY <1>1, <1>2, <1>3, <1>7 DEF RunHolds, Tables
  <2>2. ASSUME NEW t \in Tables PROVE tables'[t][h] = tables[t][h] \/ HourGains(t, h, v)
    <3>1. HourSame(h) \/ HourBinned(w, h, pc)  BY <1>3, <1>7 DEF HourMoves, Tables
    <3> QED  BY <1>2, <3>1 DEF HourSame, HourBinned, HourGains
  <2>3. ASSUME NEW t \in Tables, h \in Kept(t), NEW x \in recorded'[h], IsNewest(h, x)'
        PROVE  Whole(t, h, x)' /\ \A b \in Blocked(t, h, x)' : b.at # change'[h] => Owed(h, builtMark[h])'
    <3>1. x \in recorded[h] /\ IsNewest(h, x) /\ x # v  BY <1>5, <1>7, <2>1, <2>3 DEF IsNewest
    <3>2. Whole(t, h, x) /\ \A b \in Blocked(t, h, x) : b.at # change[h] => Owed(h, builtMark[h])
      BY <2>3, <3>1 DEF HourServed
    <3>3. Blocked(t, h, x)' = Blocked(t, h, x) /\ \A b \in tables[t][h] : b \in tables'[t][h]
      BY <2>2, <3>1 DEF Blocked, HourGains
    <3>4. Whole(t, h, x)'  BY <3>2, <3>3 DEF Whole
    <3>5. builtMark'[h] = builtMark[h]  BY <1>5, <1>7 DEF Tables
    <3> QED  BY <3>2, <3>3, <3>4, <3>5 DEF Owed
  <2> QED  BY <2>3 DEF HourServed, Kept
<1>8. CASE pc \notin Tables
  <2>1. v \in recorded'[h] /\ \A x \in recorded'[h] : x <= v
    <3>1. \A x \in recorded[h] : x <= v  BY <1>1, <1>2 DEF RunHolds
    <3>2. pc = "station_versions" \/ pc \in {"drop_hours", "drop_vessels", "drop_versions", "finish"}
      BY <1>8 DEF Statements, Tables
    <3>3. pc \in {"drop_hours", "drop_vessels", "drop_versions", "finish"} => v \in recorded[h]
      BY <1>1, <1>2, <1>3 DEF RunHolds
    <3> QED  BY <1>5, <3>1, <3>2, <3>3
  <2>2. ASSUME NEW t \in Tables, h \in Kept(t)
        PROVE  Whole(t, h, v) /\ \A b \in Blocked(t, h, v) : b.at # change[h] => Owed(h, builtMark[h]) /\ Owed(h, m[h])
    <3>1. t = "station_hours" \/ (t = "station_vessels" /\ h \in VesselHours)  BY <2>2 DEF Kept, Tables
    <3>2. Whole(t, h, v)  BY <1>1, <1>2, <1>3, <1>8, <3>1 DEF RunHolds, Statements, Tables
    <3>3. \A b \in Blocked(t, h, v) : b.at # change[h] => Owed(h, builtMark[h]) /\ Owed(h, m[h])
      BY <1>2, <1>4 DEF RunHolds
    <3> QED  BY <3>2, <3>3
  <2>3. ASSUME NEW t \in Tables, h \in Kept(t), NEW x \in recorded'[h], IsNewest(h, x)'
        PROVE  Whole(t, h, x)' /\ \A b \in Blocked(t, h, x)' : b.at # change'[h] => Owed(h, builtMark[h])'
    <3>1. x = v
      <4>1. x \in Nat /\ x <= v /\ v <= x  BY <1>5, <1>6, <2>1, <2>3 DEF IsNewest
      <4> QED  BY <4>1
    <3>2. HourKeeps(t, h, v)  BY <1>5, <1>8
    <3>3. Blocked(t, h, v)' = Blocked(t, h, v) /\ (Whole(t, h, v) => Whole(t, h, v)')  BY <3>2, BlocksKept
    <3>4. PICK k : k = builtMark'[h] /\ k \in {builtMark[h], m[h]}  BY <1>4, <1>5
    <3>5. \A b \in Blocked(t, h, v) : b.at # change[h] => Owed(h, k)  BY <2>2, <2>3, <3>4
    <3>6. \A b \in Blocked(t, h, v) : b.at # change'[h] => Owed(h, k)'  BY <3>5 DEF Owed
    <3>7. Whole(t, h, v)' /\ \A b \in Blocked(t, h, v)' : b.at # change'[h] => Owed(h, builtMark[h])'
      BY <2>2, <2>3, <3>3, <3>4, <3>6 DEF Owed
    <3> QED  BY <3>1, <3>7
  <2> QED  BY <2>3 DEF HourServed, Kept
<1> QED  BY <1>7, <1>8

LEMMA BoundsAdvance ==
    ASSUME SeriesTyped, VersionsBounded, RunsHold, NEW w \in Workers, Active(w),
           NEW part \in SUBSET worker[w].run, UNCHANGED change,
           \A h \in Hours : IF h \in part THEN HourMoves(w, h) ELSE HourSame(h)
    PROVE  VersionsBounded'
<1>1. PICK r \in Rounds : r = worker[w]  BY DEF SeriesTyped
<1>2. PICK v \in Nat : v = worker[w].built /\ v = r.built  BY <1>1 DEF Rounds
<1>3. PICK pc \in Statements : pc = worker[w].pc /\ pc = r.pc  BY <1>1 DEF Active
<1>4. PICK n \in Nat : \A h \in Hours : /\ \A x \in recorded[h] : x <= n
                                        /\ \A t \in Tables : \A b \in tables[t][h] : b.built <= n
  BY DEF VersionsBounded
<1>5. ASSUME NEW h \in Hours
      PROVE  /\ \A x \in recorded'[h] : x \in recorded[h] \/ (x = v /\ v > 0)
             /\ \A t \in Tables : \A b \in tables'[t][h] :
                  b \in tables[t][h] \/ (b.built = v /\ v > 0 /\ b.at = change[h])
  <2>1. CASE h \in part
    <3>1. HourMoves(w, h) /\ RunHolds(w, h)  BY <2>1 DEF RunsHold
    <3>2. v > 0  BY <1>2, <3>1 DEF RunHolds
    <3>3. /\ \A t \in Tables : HourKeeps(t, h, v) \/ (pc = t /\ HourGains(t, h, v))
          /\ recorded'[h] \subseteq recorded[h] \union {v}
      BY <1>2, <1>3, <3>1, HourTables
    <3> QED  BY <3>2, <3>3 DEF HourKeeps, HourGains
  <2>2. CASE h \notin part  BY <2>2 DEF HourSame
  <2> QED  BY <2>1, <2>2
<1>6. /\ recorded \in [Hours -> SUBSET Nat] /\ tables \in [Tables -> [Hours -> SUBSET Blocks]]
      /\ change \in [Hours -> Nat]
  BY DEF SeriesTyped
<1>7. \A h \in Hours : 0 \notin recorded'[h]  BY <1>2, <1>5 DEF VersionsBounded
<1>8. ASSUME NEW t \in Tables, NEW h \in Hours, NEW b \in tables'[t][h] PROVE b.built > 0 /\ b.at <= change'[h]
  <2>1. CASE b \in tables[t][h]  BY <2>1 DEF VersionsBounded
  <2>2. CASE b.built = v /\ v > 0 /\ b.at = change[h]  BY <1>6, <2>2
  <2> QED  BY <1>5, <2>1, <2>2
<1>9. ASSUME NEW h \in Hours
      PROVE  (\A x \in recorded'[h] : x <= n + v) /\ \A t \in Tables : \A b \in tables'[t][h] : b.built <= n + v
  <2>1. ASSUME NEW x \in recorded'[h] PROVE x <= n + v
    <3>1. x \in recorded[h] => x \in Nat /\ x <= n  BY <1>4, <1>6
    <3> QED  BY <1>5, <2>1, <3>1
  <2>2. ASSUME NEW t \in Tables, NEW b \in tables'[t][h] PROVE b.built <= n + v
    <3>1. b \in tables[t][h] => b.built \in Nat /\ b.built <= n  BY <1>4, <1>6 DEF Blocks
    <3> QED  BY <1>5, <2>2, <3>1
  <2> QED  BY <2>1, <2>2
<1>10. n + v \in Nat  BY <1>2, <1>4
<1> QED  BY <1>7, <1>8, <1>9, <1>10 DEF VersionsBounded

LEMMA BinningStep ==
    ASSUME SeriesInv, NEW w \in Workers, Binning(w)
    PROVE  SeriesInv'
<1>1. SeriesTyped /\ MarksOrdered /\ DaysLocked /\ VersionsBounded /\ RunsHold /\ HoursServed  BY DEF SeriesInv
<1>2. PICK part \in SUBSET worker[w].run : Active(w) /\ Statement(w, part)  BY DEF Binning
<1>3. UNCHANGED <<change, marked, settled, flying, last, purge, unmarked>>  BY DEF Binning
<1>4. /\ tables' \in [Tables -> [Hours -> SUBSET Blocks]] /\ recorded' \in [Hours -> SUBSET Nat]
      /\ builtMark' \in [Hours -> Nat] /\ \A h \in Hours : builtMark'[h] <= settled[h]
      /\ \A h \in Hours : IF h \in part THEN HourMoves(w, h) ELSE HourSame(h)
  BY <1>1, <1>2, StatementStep
<1>5. /\ worker' \in [Workers -> Rounds] /\ DaysLocked'
      /\ \A u \in Workers : u # w => worker'[u] = worker[u]
      /\ \A u \in Workers, h \in Hours : worker'[u].marks[h] <= settled[h]
      /\ \/ worker'[w].pc \in {"idle", "day", "bin"}
         \/ /\ worker[w].pc # "finish" /\ Statement(w, worker[w].run) /\ worker'[w].pc = After[worker[w].pc]
            /\ worker'[w].run = worker[w].run /\ worker'[w].built = worker[w].built
            /\ worker'[w].marks = worker[w].marks
  BY <1>1, WorkerMoves
<1>6. SeriesTyped'  BY <1>1, <1>3, <1>4, <1>5 DEF SeriesTyped
<1>7. MarksOrdered'  BY <1>1, <1>3, <1>4, <1>5 DEF MarksOrdered
<1>8. VersionsBounded'  BY <1>1, <1>2, <1>3, <1>4, BoundsAdvance
<1>9. worker[w].run \subseteq Hours /\ \A u \in Workers : worker'[u].run \subseteq Hours
  BY <1>1, <1>5 DEF SeriesTyped, Rounds
<1>10. RunsHold'
  <2>1. ASSUME NEW u \in Workers, Active(u)', NEW h \in worker'[u].run, u # w PROVE RunHolds(u, h)'
    <3>1. worker'[u] = worker[u] /\ Active(u) /\ h \in worker[u].run /\ h \in Hours
      BY <1>5, <1>9, <2>1 DEF Active
    <3>2. h \notin worker[w].run  BY <1>1, <1>2, <2>1, <3>1, RunsApart
    <3>3. HourSame(h)  BY <1>4, <3>1, <3>2
    <3>4. Debts(h)  BY <1>3, <3>1, DebtsStay
    <3>5. RunHolds(u, h)  BY <1>1, <3>1 DEF RunsHold
    <3> QED  BY <1>1, <3>1, <3>3, <3>4, <3>5, RunStays
  <2>2. ASSUME Active(w)', NEW h \in worker'[w].run PROVE RunHolds(w, h)'
    <3>1. worker'[w].pc \notin {"idle", "day", "bin"}  BY <2>2 DEF Active, Statements
    <3>2. Statement(w, worker[w].run) /\ h \in worker[w].run /\ h \in Hours  BY <1>5, <1>9, <2>2, <3>1
    <3>3. \A k \in Hours : IF k \in worker[w].run THEN HourMoves(w, k) ELSE HourSame(k)
      <4>1. PICK P \in SUBSET worker[w].run : P = worker[w].run  OBVIOUS
      <4>2. \A k \in Hours : IF k \in P THEN HourMoves(w, k) ELSE HourSame(k)
        BY <1>1, <1>2, <3>2, <4>1, StatementStep
      <4> QED  BY <4>1, <4>2
    <3>4. HourMoves(w, h)  BY <3>2, <3>3
    <3>5. RunHolds(w, h)  BY <1>1, <1>2, <3>2 DEF RunsHold
    <3> QED  BY <1>1, <1>2, <1>3, <1>5, <3>1, <3>2, <3>4, <3>5, RunAdvances
  <2> QED  BY <2>1, <2>2 DEF RunsHold
<1>11. HoursServed'
  <2>1. ASSUME NEW h \in Hours PROVE HourServed(h)'
    <3>1. HourServed(h)  BY <1>1 DEF HoursServed
    <3>2. CASE h \in part
      <4>1. HourMoves(w, h)  BY <1>4, <3>2
      <4>2. RunHolds(w, h)  BY <1>1, <1>2, <3>2 DEF RunsHold
      <4> QED  BY <1>1, <1>2, <1>3, <3>1, <4>1, <4>2, ServedAdvances
    <3>3. CASE h \notin part
      <4>1. HourSame(h)  BY <1>4, <3>3
      <4>2. Debts(h)  BY <1>3, DebtsStay
      <4> QED  BY <1>1, <3>1, <4>1, <4>2, ServedStays
    <3> QED  BY <3>2, <3>3
  <2> QED  BY <2>1 DEF HoursServed
<1> QED  BY <1>5, <1>6, <1>7, <1>8, <1>10, <1>11 DEF SeriesInv

LEMMA MarkingStep ==
    ASSUME SeriesInv, Marking
    PROVE  SeriesInv'
<1>1. SeriesTyped /\ MarksOrdered /\ DaysLocked /\ VersionsBounded /\ RunsHold /\ HoursServed  BY DEF SeriesInv
<1>2. /\ SeriesTyped' /\ MarksOrdered'
      /\ UNCHANGED <<builtMark, tables, recorded, ledger, last, worker>>
      /\ \A h \in Hours : change[h] <= change'[h]
      /\ \A h \in Hours, m \in Nat : m <= settled[h] /\ (Owed(h, m) \/ change'[h] # change[h]) => Owed(h, m)'
  BY <1>1, MarkingSteps
<1>3. \A h \in Hours : HourSame(h) /\ Debts(h)  BY <1>2 DEF HourSame, Debts
<1>4. DaysLocked'  BY <1>1, <1>2 DEF DaysLocked, Holding, Active, DayAt, HoursOf
<1>5. VersionsBounded'
  <2>1. ASSUME NEW t \in Tables, NEW h \in Hours, NEW b \in tables'[t][h] PROVE b.built > 0 /\ b.at <= change'[h]
    <3>1. b \in tables[t][h] /\ b \in Blocks /\ change[h] \in Nat /\ change'[h] \in Nat
      BY <1>1, <1>2, <2>1 DEF SeriesTyped
    <3>2. b.built > 0 /\ b.at <= change[h] /\ b.at \in Nat /\ change[h] <= change'[h]
      BY <1>1, <1>2, <3>1 DEF VersionsBounded, Blocks
    <3> QED  BY <3>1, <3>2
  <2> QED  BY <1>1, <1>2, <2>1 DEF VersionsBounded
<1>6. RunsHold'
  <2>1. ASSUME NEW w \in Workers, Active(w)', NEW h \in worker'[w].run PROVE RunHolds(w, h)'
    <3>1. Active(w) /\ h \in worker[w].run /\ worker'[w] = worker[w]  BY <1>2, <2>1 DEF Active
    <3>2. h \in Hours  BY <1>1, <3>1 DEF SeriesTyped, Rounds
    <3>3. RunHolds(w, h)  BY <1>1, <3>1 DEF RunsHold
    <3> QED  BY <1>1, <1>3, <3>1, <3>2, <3>3, RunStays
  <2> QED  BY <2>1 DEF RunsHold
<1>7. HoursServed'
  <2>1. ASSUME NEW h \in Hours PROVE HourServed(h)'
    <3>1. HourServed(h)  BY <1>1 DEF HoursServed
    <3> QED  BY <1>1, <1>3, <3>1, ServedStays
  <2> QED  BY <2>1 DEF HoursServed
<1> QED  BY <1>2, <1>4, <1>5, <1>6, <1>7 DEF SeriesInv

\* Where receptions, their markers and the figures stand still, only the runs
\* that a step starts have to be seen to.
LEMMA FiguresStill ==
    ASSUME SeriesInv, UNCHANGED <<change, marked, settled, builtMark, flying, tables, recorded, purge, unmarked>>,
           worker' \in [Workers -> Rounds], last' \in Nat, DaysLocked',
           \A w \in Workers, h \in Hours : worker'[w].marks[h] <= settled[h],
           \A w \in Workers : Active(w)' => (Active(w) /\ worker'[w] = worker[w])
                                            \/ \A h \in worker'[w].run : RunHolds(w, h)'
    PROVE  SeriesInv'
<1>1. SeriesTyped /\ MarksOrdered /\ DaysLocked /\ VersionsBounded /\ RunsHold /\ HoursServed  BY DEF SeriesInv
<1>2. SeriesTyped'  BY <1>1 DEF SeriesTyped
<1>3. MarksOrdered'  BY <1>1 DEF MarksOrdered
<1>4. VersionsBounded'  BY <1>1 DEF VersionsBounded
<1>5. \A h \in Hours : HourSame(h) /\ Debts(h)  BY DebtsStay DEF HourSame
<1>6. RunsHold'
  <2>1. ASSUME NEW w \in Workers, Active(w)', NEW h \in worker'[w].run, Active(w), worker'[w] = worker[w]
        PROVE  RunHolds(w, h)'
    <3>1. h \in worker[w].run /\ h \in Hours  BY <1>1, <2>1 DEF SeriesTyped, Rounds
    <3>2. RunHolds(w, h)  BY <1>1, <2>1, <3>1 DEF RunsHold
    <3> QED  BY <1>1, <1>5, <2>1, <3>1, <3>2, RunStays
  <2> QED  BY <2>1 DEF RunsHold
<1>7. HoursServed'
  <2>1. ASSUME NEW h \in Hours PROVE HourServed(h)'
    <3>1. HourServed(h)  BY <1>1 DEF HoursServed
    <3> QED  BY <1>1, <1>5, <3>1, ServedStays
  <2> QED  BY <2>1 DEF HoursServed
<1> QED  BY <1>2, <1>3, <1>4, <1>6, <1>7 DEF SeriesInv

LEMMA StartsFresh ==
    ASSUME SeriesInv, NEW w \in Workers, StartRun(w)
    PROVE  SeriesInv'
<1>1. SeriesTyped /\ MarksOrdered /\ DaysLocked /\ VersionsBounded  BY DEF SeriesInv
<1>2. /\ worker' \in [Workers -> Rounds] /\ last' \in Nat /\ DaysLocked'
      /\ UNCHANGED <<change, marked, settled, builtMark, flying, tables, recorded, ledger, purge, unmarked>>
      /\ \A u \in Workers : u # w => worker'[u] = worker[u]
      /\ worker'[w].marks = worker[w].marks /\ worker'[w].pc = "station_hours" /\ worker'[w].built > 0
      /\ \A h \in worker'[w].run : /\ \A v \in recorded[h] : v < worker'[w].built
                                   /\ \A t \in Tables : \A b \in tables[t][h] : b.built < worker'[w].built
  BY <1>1, StartRunStep
<1>3. PICK a \in Rounds : a = worker'[w]  BY <1>2
<1>4. ASSUME NEW h \in a.run PROVE RunHolds(w, h)'
  <2>1. h \in Hours /\ a.built \in Nat /\ a.built > 0 /\ a.pc = "station_hours"  BY <1>2, <1>3 DEF Rounds
  <2>2. recorded'[h] \subseteq Nat /\ \A t \in Tables : tables'[t][h] \subseteq Blocks
    BY <1>1, <1>2, <2>1 DEF SeriesTyped
  <2>3. \A v \in recorded'[h] : v \in Nat /\ v < a.built  BY <1>2, <1>3, <1>4, <2>2
  <2>4. \A t \in Tables : \A b \in tables'[t][h] : b.built \in Nat /\ b.built < a.built
    BY <1>2, <1>3, <1>4, <2>2 DEF Blocks
  <2>5. \A v \in recorded'[h] : v <= a.built /\ v # a.built  BY <2>1, <2>3
  <2>6. \A t \in Tables : \A b \in tables'[t][h] : b.built <= a.built /\ b.built # a.built  BY <2>1, <2>4
  <2>7. \A t \in Tables : Blocked(t, h, a.built)' = {}  BY <2>6 DEF Blocked
  <2>8. "station_hours" \in Tables /\ "station_vessels" \in Tables  BY DEF Tables
  <2> QED  BY <1>3, <2>1, <2>5, <2>6, <2>7, <2>8 DEF RunHolds
<1>5. \A u \in Workers, h \in Hours : worker'[u].marks[h] <= settled[h]  BY <1>1, <1>2 DEF MarksOrdered
<1>6. ASSUME NEW u \in Workers, Active(u)'
      PROVE  (Active(u) /\ worker'[u] = worker[u]) \/ \A h \in worker'[u].run : RunHolds(u, h)'
  BY <1>2, <1>3, <1>4, <1>6 DEF Active
<1> QED  BY <1>2, <1>5, <1>6, FiguresStill

LEMMA SeriesInductive ==
    ASSUME SeriesInv, [SeriesNext]_seriesVars
    PROVE  SeriesInv'
<1>1. CASE Marking  BY <1>1, MarkingStep
<1>2. CASE Planning
  <2>1. /\ worker' \in [Workers -> Rounds] /\ last' \in Nat /\ DaysLocked'
        /\ UNCHANGED <<change, marked, settled, builtMark, flying, tables, recorded, purge, unmarked>>
        /\ \A w \in Workers : Active(w)' => Active(w) /\ worker'[w] = worker[w]
        /\ \A w \in Workers, h \in Hours : worker'[w].marks[h] <= settled[h]
    BY <1>2, PlanningSteps DEF SeriesInv
  <2> QED  BY <2>1, FiguresStill
<1>3. ASSUME NEW w \in Workers, StartRun(w) PROVE SeriesInv'  BY <1>3, StartsFresh
<1>4. ASSUME NEW w \in Workers, Binning(w) PROVE SeriesInv'  BY <1>4, BinningStep
<1>5. CASE UNCHANGED seriesVars
  <2>1. worker' = worker /\ last' = last
        /\ UNCHANGED <<change, marked, settled, builtMark, flying, tables, recorded, purge, unmarked>>
    BY <1>5 DEF seriesVars
  <2>2. worker' \in [Workers -> Rounds] /\ last' \in Nat  BY <2>1 DEF SeriesInv, SeriesTyped
  <2>3. DaysLocked'  BY <2>1 DEF SeriesInv, DaysLocked, Holding, Active, DayAt, HoursOf
  <2>4. \A w \in Workers, h \in Hours : worker'[w].marks[h] <= settled[h]  BY <2>1 DEF SeriesInv, MarksOrdered
  <2>5. \A w \in Workers : Active(w)' => Active(w) /\ worker'[w] = worker[w]  BY <2>1 DEF Active
  <2> QED  BY <2>1, <2>2, <2>3, <2>4, <2>5, FiguresStill
<1> QED  BY <1>1, <1>2, <1>3, <1>4, <1>5, SeriesSteps

LEMMA SeriesStarts ==
    ASSUME SeriesInit
    PROVE  SeriesInv
<1>1. PICK r \in Rounds : r = Idle /\ r.pc = "idle" /\ \A h \in Hours : r.marks[h] = 0
  <2>1. Idle \in Rounds /\ Idle.pc = "idle" /\ \A h \in Hours : Idle.marks[h] = 0  BY DEF Idle, Rounds
  <2> QED  BY <2>1
<1>2. \A w \in Workers : worker[w] = r  BY <1>1 DEF SeriesInit
<1>3. worker \in [Workers -> Rounds]  BY <1>1, <1>2 DEF SeriesInit
<1>4. /\ change \in [Hours -> Nat] /\ marked \in [Hours -> Nat] /\ settled \in [Hours -> Nat]
      /\ builtMark \in [Hours -> Nat]
      /\ \A h \in Hours : marked[h] = 0 /\ settled[h] = 0 /\ builtMark[h] = 0
      /\ \A h \in Hours : recorded[h] = {} /\ \A t \in Tables : tables[t][h] = {}
      /\ flying = {} /\ last = 0 /\ purge = [pc |-> "idle", hours |-> {}]
  BY DEF SeriesInit
<1>5. tables \in [Tables -> [Hours -> SUBSET Blocks]] /\ recorded \in [Hours -> SUBSET Nat]  BY DEF SeriesInit
<1>6. SeriesTyped  BY <1>3, <1>4, <1>5 DEF SeriesTyped
<1>7. MarksOrdered  BY <1>1, <1>2, <1>4 DEF MarksOrdered
<1>8. DaysLocked /\ RunsHold  BY <1>1, <1>2 DEF DaysLocked, RunsHold, Holding, Active, Statements
<1>9. VersionsBounded  BY <1>4 DEF VersionsBounded
<1>10. HoursServed  BY <1>4 DEF HoursServed, HourServed
<1> QED  BY <1>6, <1>7, <1>8, <1>9, <1>10 DEF SeriesInv

\* Days are locked, versions are later than what they replace, and what a
\* read takes of an hour is whole, with every change since owed.
THEOREM SeriesHolds == SeriesSpec => []SeriesInv
<1>1. SeriesInit => SeriesInv  BY SeriesStarts
<1>2. SeriesInv /\ [SeriesNext]_seriesVars => SeriesInv'  BY SeriesInductive
<1> QED  BY <1>1, <1>2, PTL DEF SeriesSpec

\* A read takes the newest recorded version, in one block, or nothing.
LEMMA NewestIs ==
    ASSUME SeriesInv, NEW h \in Hours
    PROVE  IF recorded[h] = {} THEN Newest(h) = 0 ELSE Newest(h) \in recorded[h] /\ IsNewest(h, Newest(h))
<1>1. recorded[h] \in SUBSET Nat /\ 0 \notin recorded[h]  BY DEF SeriesInv, SeriesTyped, VersionsBounded
<1>2. PICK S \in SUBSET Nat : S = recorded[h] \union {0}
  <2>1. recorded[h] \union {0} \in SUBSET Nat  BY <1>1
  <2> QED  BY <2>1
<1>3. PICK n \in Nat : \A x \in S : x <= n
  <2>1. PICK n \in Nat : \A x \in recorded[h] : x <= n  BY DEF SeriesInv, VersionsBounded
  <2>2. \A x \in S : x <= n
    <3>1. \A x \in S : x \in recorded[h] \/ x = 0  BY <1>2
    <3> QED  BY <2>1, <3>1
  <2> QED  BY <2>2
<1>4. Max(S) \in S /\ \A x \in S : x <= Max(S)  BY <1>2, <1>3, LargestBounded
<1>5. Newest(h) = Max(S)  BY <1>2 DEF Newest, Highest
<1>6. recorded[h] # {} => Max(S) # 0  BY <1>1, <1>2, <1>4
<1> QED  BY <1>2, <1>4, <1>5, <1>6 DEF IsNewest

LEMMA HighestOfOne ==
    ASSUME NEW n \in Nat
    PROVE  Highest({n}) = n /\ Highest({}) = 0
<1>1. PICK S \in SUBSET Nat : S = {n} \union {0} /\ S # {} /\ \A x \in S : x = n \/ x = 0
  <2>1. {n} \union {0} \in SUBSET Nat  OBVIOUS
  <2> QED  BY <2>1
<1>2. Max(S) \in S /\ \A x \in S : x <= Max(S)
  <2>1. \A x \in S : x <= n  BY <1>1
  <2> QED  BY <1>1, <2>1, LargestBounded
<1>3. Max(S) = n  BY <1>1, <1>2
<1>4. PICK Z \in SUBSET Nat : Z = {} \union {0} /\ Z # {} /\ \A x \in Z : x = 0
  <2>1. {} \union {0} \in SUBSET Nat  OBVIOUS
  <2> QED  BY <2>1
<1>5. Max(Z) \in Z
  <2>1. (\A x \in Z : x <= 0) /\ 0 \in Nat  BY <1>4
  <2> QED  BY <1>4, <2>1, LargestBounded
<1> QED  BY <1>1, <1>3, <1>4, <1>5 DEF Highest

LEMMA ServedIs ==
    ASSUME SeriesInv, NEW h \in Hours, NEW t \in Tables, h \in Kept(t)
    PROVE  IF recorded[h] = {} THEN Served(t, h) = {} /\ Reflects(t, h) = 0
           ELSE \E b \in tables[t][h] : /\ Served(t, h) = {b} /\ Reflects(t, h) = b.at /\ b.built = Newest(h)
                                        /\ b.at # change[h] => Owed(h, builtMark[h])
<1>1. tables[t][h] \subseteq Blocks  BY DEF SeriesInv, SeriesTyped
<1>2. Served(t, h) = Blocked(t, h, Newest(h))  BY DEF Served, Blocked
<1>3. CASE recorded[h] = {}
  <2>1. \A b \in tables[t][h] : b.built > 0 /\ b.built \in Nat  BY <1>1 DEF SeriesInv, VersionsBounded, Blocks
  <2>2. Newest(h) = 0  BY <1>3, NewestIs
  <2>3. Served(t, h) = {}  BY <2>1, <2>2 DEF Served
  <2>4. {b.at : b \in Served(t, h)} = {}  BY <2>3
  <2>5. Reflects(t, h) = Highest({})  BY <2>4 DEF Reflects
  <2>6. 0 \in Nat  OBVIOUS
  <2> QED  BY <1>3, <2>3, <2>5, <2>6, HighestOfOne
<1>4. CASE recorded[h] # {}
  <2>1. Newest(h) \in recorded[h] /\ IsNewest(h, Newest(h))  BY <1>4, NewestIs
  <2>2. /\ Whole(t, h, Newest(h))
        /\ \A b \in Blocked(t, h, Newest(h)) : b.at # change[h] => Owed(h, builtMark[h])
    BY <2>1 DEF SeriesInv, HoursServed, HourServed
  <2>3. PICK b \in tables[t][h] : Blocked(t, h, Newest(h)) = {b}  BY <2>2 DEF Whole
  <2>4. Served(t, h) = {b}  BY <1>2, <2>3
  <2>5. {c.at : c \in Served(t, h)} = {b.at}  BY <2>4
  <2>6. b.at \in Nat  BY <1>1 DEF Blocks
  <2>7. Reflects(t, h) = b.at  BY <2>5, <2>6, HighestOfOne DEF Reflects
  <2>8. b.built = Newest(h)  BY <2>3 DEF Blocked
  <2> QED  BY <1>4, <2>2, <2>3, <2>4, <2>7, <2>8
<1> QED  BY <1>3, <1>4

NewestKnown ==
  \A h \in Hours : IF recorded[h] = {} THEN Newest(h) = 0
                   ELSE Newest(h) \in recorded[h] /\ IsNewest(h, Newest(h))
OneServed ==
  \A h \in Hours, t \in Tables : recorded[h] # {} /\ h \in Kept(t) =>
    \E b \in tables[t][h] : Reflects(t, h) = b.at /\ b.built = Newest(h)

\* An hour is never read empty or twice while it is rebuilt (binHours,
\* src/server/stationseries.go:413).
THEOREM HoursAreReadOnce == SeriesSpec => []ReadOnce
<1>1. ASSUME SeriesInv PROVE ReadOnce
  <2> SUFFICES ASSUME NEW h \in Hours, recorded[h] # {}, NEW t \in Tables, h \in Kept(t)
               PROVE  Cardinality(Served(t, h)) = 1
    BY DEF ReadOnce
  <2>1. \E b : Served(t, h) = {b}  BY <1>1, ServedIs
  <2> QED  BY <2>1, FS_Singleton
<1> QED  BY <1>1, SeriesHolds, PTL

\* What changed in receptions since an hour's figures were binned is owed a
\* rebuild, by a marker or by a delete yet to mark it (rebuildStationSeries).
THEOREM ChangesAreOwed == SeriesSpec => []EveryChangeIsOwed
<1>1. ASSUME SeriesInv PROVE EveryChangeIsOwed
  <2> SUFFICES ASSUME NEW h \in Hours, NEW t \in Tables, recorded[h] # {}, h \in Kept(t), Reflects(t, h) # change[h]
               PROVE  marked[h] > builtMark[h] \/ (purge.pc = "mark" /\ h \in purge.hours) \/ h \in unmarked
    BY DEF EveryChangeIsOwed
  <2>1. \E b \in tables[t][h] : Reflects(t, h) = b.at /\ (b.at # change[h] => Owed(h, builtMark[h]))
    BY <1>1, ServedIs
  <2> QED  BY <2>1 DEF Owed
<1> QED  BY <1>1, SeriesHolds, PTL

\* A rebuild never serves an older reading of receptions than the one served
\* before it (seriesVersion, lockDay).
THEOREM ReadsAdvance == SeriesSpec => ReadsOnlyAdvance
<1>a. SeriesInv => NewestKnown /\ OneServed
  <2> SUFFICES ASSUME SeriesInv PROVE NewestKnown /\ OneServed
    OBVIOUS
  <2>1. NewestKnown  BY NewestIs DEF NewestKnown
  <2>2. ASSUME NEW h \in Hours, NEW t \in Tables, recorded[h] # {}, h \in Kept(t)
        PROVE  \E b \in tables[t][h] : Reflects(t, h) = b.at /\ b.built = Newest(h)
    BY <2>2, ServedIs
  <2> QED  BY <2>1, <2>2 DEF OneServed
<1>b. SeriesInv' => NewestKnown' /\ OneServed'  BY <1>a, PTL
<1>1. ASSUME SeriesInv, [SeriesNext]_seriesVars
      PROVE  [\A h \in Hours, t \in Tables : h \in Kept(t) => Reflects(t, h)' >= Reflects(t, h)]_seriesVars
  <2> SUFFICES ASSUME NEW h \in Hours, NEW t \in Tables, h \in Kept(t)
               PROVE  Reflects(t, h)' >= Reflects(t, h)
    OBVIOUS
  <2>1. SeriesInv'  BY <1>1, SeriesInductive
  <2>2. h \in Kept(t)'  BY DEF Kept
  <2>3. IF recorded[h] = {} THEN Served(t, h) = {} /\ Reflects(t, h) = 0
        ELSE \E b \in tables[t][h] : Served(t, h) = {b} /\ Reflects(t, h) = b.at /\ b.built = Newest(h)
    BY <1>1, ServedIs
  <2>4. Reflects(t, h) \in Nat /\ (Reflects(t, h) = 0 \/ \E b \in tables[t][h] : Reflects(t, h) = b.at)
    <3>1. tables[t][h] \subseteq Blocks  BY <1>1 DEF SeriesInv, SeriesTyped
    <3> QED  BY <2>3, <3>1 DEF Blocks
  <2>5. ASSUME Served(t, h)' = Served(t, h) PROVE Reflects(t, h)' >= Reflects(t, h)
    <3>1. Reflects(t, h)' = Reflects(t, h)  BY <2>5 DEF Reflects
    <3> QED  BY <2>4, <3>1
  <2>6. ASSUME recorded'[h] = recorded[h], tables'[t][h] = tables[t][h] PROVE Reflects(t, h)' >= Reflects(t, h)
    <3>1. Served(t, h)' = Served(t, h)  BY <2>6 DEF Served, Newest
    <3> QED  BY <2>5, <3>1
  <2>7. ASSUME NEW w \in Workers, Binning(w) PROVE Reflects(t, h)' >= Reflects(t, h)
    <3>1. PICK part \in SUBSET worker[w].run : Active(w) /\ Statement(w, part)  BY <2>7 DEF Binning
    <3>2. IF h \in part THEN HourMoves(w, h) ELSE HourSame(h)  BY <1>1, <3>1, StatementStep DEF SeriesInv
    <3>3. CASE h \notin part  BY <2>6, <3>2, <3>3 DEF HourSame
    <3>4. CASE h \in part /\ worker[w].pc \in Tables
      <4>1. RunHolds(w, h) /\ HourMoves(w, h)  BY <1>1, <3>1, <3>2, <3>4 DEF SeriesInv, RunsHold
      <4>2. PICK v \in Nat : v = worker[w].built  BY <1>1 DEF SeriesInv, SeriesTyped, Rounds
      <4>3. v \notin recorded[h] /\ v > 0  BY <3>4, <4>1, <4>2 DEF RunHolds, Tables
      <4>4. HourSame(h) \/ HourBinned(w, h, worker[w].pc)  BY <3>4, <4>1 DEF HourMoves, Tables
      <4>5. recorded'[h] = recorded[h] /\ (tables'[t][h] = tables[t][h] \/ HourGains(t, h, v))
        BY <4>2, <4>4 DEF HourSame, HourBinned, HourGains
      <4>6. Newest(h)' = Newest(h)  BY <4>5 DEF Newest
      <4>7. Newest(h) # v  BY <1>1, <4>3, NewestIs
      <4>8. Served(t, h)' = Served(t, h)  BY <4>5, <4>6, <4>7 DEF Served, HourGains
      <4> QED  BY <2>5, <4>8
    <3>5. CASE h \in part /\ worker[w].pc \notin Tables
      <4>1. RunHolds(w, h) /\ HourMoves(w, h)  BY <1>1, <3>1, <3>2, <3>5 DEF SeriesInv, RunsHold
      <4>2. PICK v \in Nat : v = worker[w].built  BY <1>1 DEF SeriesInv, SeriesTyped, Rounds
      <4>3. PICK pc \in Statements : pc = worker[w].pc  BY <3>1 DEF Active
      <4>4. SeriesTyped  BY <1>1 DEF SeriesInv
      <4>5. /\ \A u \in Tables : HourKeeps(u, h, v) \/ (pc = u /\ HourGains(u, h, v))
            /\ recorded'[h] \subseteq recorded[h] \union {v}
            /\ v \in recorded[h] => v \in recorded'[h]
            /\ pc = "station_versions" => v \in recorded'[h]
        BY <3>1, <4>1, <4>2, <4>3, <4>4, HourTables
      <4>6. v \in recorded'[h] /\ \A x \in recorded'[h] : x <= v
        <5>1. \A x \in recorded[h] : x <= v  BY <4>1, <4>2 DEF RunHolds
        <5>2. pc = "station_versions" \/ pc \in {"drop_hours", "drop_vessels", "drop_versions", "finish"}
          BY <3>5, <4>3 DEF Statements, Tables
        <5>3. pc \in {"drop_hours", "drop_vessels", "drop_versions", "finish"} => v \in recorded[h]
          BY <4>1, <4>2, <4>3 DEF RunHolds
        <5> QED  BY <4>2, <4>5, <5>1, <5>2, <5>3
      <4>7. HourKeeps(t, h, v)  BY <3>5, <4>3, <4>5
      <4>8. PICK b \in tables'[t][h] : Reflects(t, h)' = b.at /\ b.built = Newest(h)'
        BY <1>b, <2>1, <2>2, <4>6 DEF OneServed
      <4>9. Newest(h)' = v
        <5>1. PICK n : n = Newest(h)'  OBVIOUS
        <5>2. n \in recorded'[h] /\ \A x \in recorded'[h] : x <= n  BY <1>b, <2>1, <4>6, <5>1 DEF NewestKnown, IsNewest
        <5>3. recorded'[h] \subseteq Nat  BY <2>1 DEF SeriesInv, SeriesTyped
        <5>4. n \in Nat /\ v \in Nat /\ n <= v /\ v <= n  BY <4>2, <4>6, <5>2, <5>3
        <5> QED  BY <5>1, <5>4
      <4>10. b \in Blocked(t, h, v)
        <5>1. b.built = v  BY <4>8, <4>9
        <5> QED  BY <4>7, <5>1 DEF HourKeeps, Blocked
      <4>11. \A c \in tables[t][h] : c.at <= b.at  BY <4>1, <4>2, <4>10 DEF RunHolds
      <4>12. b.at \in Nat  BY <4>4, <4>10 DEF SeriesTyped, Blocks, Blocked
      <4> QED  BY <2>4, <4>8, <4>11, <4>12
    <3> QED  BY <3>3, <3>4, <3>5
  <2>8. CASE Marking
    <3>1. UNCHANGED <<tables, recorded>>  BY <1>1, <2>8, MarkingSteps DEF SeriesInv
    <3> QED  BY <2>6, <3>1
  <2>9. CASE Planning
    <3>1. UNCHANGED <<tables, recorded>>  BY <1>1, <2>9, PlanningSteps DEF SeriesInv
    <3> QED  BY <2>6, <3>1
  <2>10. ASSUME NEW w \in Workers, StartRun(w) PROVE Reflects(t, h)' >= Reflects(t, h)
    BY <2>6, <2>10 DEF StartRun
  <2>11. CASE UNCHANGED seriesVars  BY <2>6, <2>11 DEF seriesVars
  <2> QED  BY <1>1, <2>7, <2>8, <2>9, <2>10, <2>11, SeriesSteps
<1> QED  BY <1>1, SeriesHolds, PTL DEF SeriesSpec, ReadsOnlyAdvance

-----------------------------------------------------------------------------
(* Own vessels (stations.go, names.go, pipeline.go). *)

\* When each station last sent each vessel, or never.
SentTimes == [Masts -> [OwnShips -> Nat]]

OwnTyped ==
  /\ tick \in Nat \ {0} /\ restarts \in Nat /\ heardOf \subseteq Masts
  /\ cands \in SentTimes /\ restOwn \in SentTimes /\ unsent \in SentTimes
  /\ ownTable \in SentTimes /\ told \in SentTimes
  /\ decider.cands \in SentTimes /\ decider.told \in SentTimes /\ decider.now \in Nat

\* A vessel sent within ownSettle is with what the station has or would claim,
\* or, before the candidates are back, in the table they come from.
Remembered ==
  \A s \in Masts, o \in OwnShips :
    told[s][o] # NotSent /\ told[s][o] > tick - OwnSettle =>
      \/ told[s][o] <= Claimed(s)[o]
      \/ ~back /\ told[s][o] <= ownTable[s][o]

\* A round that found its candidates back read all of them.
RoundKnows ==
  decider.pc = "decide" /\ decider.back =>
    /\ back
    /\ \A s \in Masts, o \in OwnShips :
         decider.told[s][o] # NotSent /\ decider.told[s][o] > decider.now - OwnSettle
           => decider.told[s][o] <= decider.cands[s][o]

\* Once the candidates are back no round waits; before, none are put by.
WaitsForThem == (back => ~pending) /\ (~back => restOwn = NoCands)

OwnInv == OwnTyped /\ Remembered /\ RoundKnows /\ WaitsForThem

LEMMA NothingSent ==
    NoCands \in SentTimes /\ \A s \in Masts, o \in OwnShips : NoCands[s][o] = NotSent
  BY DEF NoCands, SentTimes, NotSent

LEMMA LatestIs ==
    ASSUME NEW f \in SentTimes, NEW g \in SentTimes
    PROVE  /\ Latest(f, g) \in SentTimes
           /\ \A s \in Masts, o \in OwnShips : Latest(f, g)[s][o] >= f[s][o] /\ Latest(f, g)[s][o] >= g[s][o]
<1>1. \A s \in Masts, o \in OwnShips : f[s][o] \in Nat /\ g[s][o] \in Nat  BY DEF SentTimes
<1>2. \A s \in Masts, o \in OwnShips :
        /\ Max({f[s][o], g[s][o]}) \in Nat
        /\ Max({f[s][o], g[s][o]}) >= f[s][o] /\ Max({f[s][o], g[s][o]}) >= g[s][o]
  BY <1>1, LargerOfTwo
<1>3. \A s \in Masts, o \in OwnShips : Latest(f, g)[s][o] = Max({f[s][o], g[s][o]})  BY DEF Latest
<1>4. Latest(f, g) \in SentTimes  BY <1>2 DEF Latest, SentTimes
<1> QED  BY <1>2, <1>3, <1>4

\* What a station has, or would claim, is at least each part of it.
LEMMA ClaimedIs ==
    ASSUME OwnTyped, NEW s \in Masts
    PROVE  /\ Claimed(s) \in [OwnShips -> Nat]
           /\ \A o \in OwnShips : /\ Claimed(s)[o] >= cands[s][o]
                                  /\ s \notin heardOf => Claimed(s)[o] >= restOwn[s][o]
                                  /\ s \in heardOf => Claimed(s)[o] = cands[s][o]
                                  /\ Claimed(s)[o] = cands[s][o] \/ Claimed(s)[o] = restOwn[s][o]
<1>1. cands \in SentTimes /\ restOwn \in SentTimes  BY DEF OwnTyped
<1>2. Latest(cands, restOwn)[s] \in [OwnShips -> Nat] /\ cands[s] \in [OwnShips -> Nat]
  BY <1>1, LatestIs DEF SentTimes
<1>3. ASSUME NEW o \in OwnShips
      PROVE  /\ cands[s][o] \in Nat /\ restOwn[s][o] \in Nat
             /\ Latest(cands, restOwn)[s][o] \in {cands[s][o], restOwn[s][o]}
  <2>1. cands[s][o] \in Nat /\ restOwn[s][o] \in Nat  BY <1>1 DEF SentTimes
  <2>2. Latest(cands, restOwn)[s][o] = Max({cands[s][o], restOwn[s][o]})  BY DEF Latest
  <2>3. PICK x \in {cands[s][o], restOwn[s][o]} : \A y \in {cands[s][o], restOwn[s][o]} : x >= y
    BY <2>1
  <2>4. Max({cands[s][o], restOwn[s][o]}) \in {cands[s][o], restOwn[s][o]}  BY <2>3 DEF Max
  <2> QED  BY <2>1, <2>2, <2>4
<1> QED  BY <1>1, <1>2, <1>3, LatestIs DEF Claimed

AtLeastItsParts(s) ==
  /\ Claimed(s) \in [OwnShips -> Nat]
  /\ \A o \in OwnShips : /\ Claimed(s)[o] >= cands[s][o]
                         /\ s \notin heardOf => Claimed(s)[o] >= restOwn[s][o]

LEMMA ClaimedNext ==
    ASSUME NEW s \in Masts
    PROVE  OwnTyped' => AtLeastItsParts(s)'
<1>1. OwnTyped => AtLeastItsParts(s)  BY ClaimedIs DEF AtLeastItsParts
<1> QED  BY <1>1, PTL

\* A station is listed with what it claims.
LEMMA Listing ==
    ASSUME OwnTyped, NEW s \in Masts, Lists(s), NEW c \in [OwnShips -> Nat],
           cands' = [cands EXCEPT ![s] = c]
    PROVE  /\ heardOf' \subseteq Masts /\ cands' \in SentTimes /\ restOwn' \in SentTimes
           /\ \A m \in Masts : /\ m = s => Claimed(m)' = c
                               /\ m # s => Claimed(m)' = Claimed(m)
           /\ restOwn = NoCands => restOwn' = NoCands
<1>1. cands \in SentTimes /\ restOwn \in SentTimes /\ NoCands \in SentTimes  BY NothingSent DEF OwnTyped
<1>2. cands' \in SentTimes  BY <1>1 DEF SentTimes
<1>3. NoCands[s] \in [OwnShips -> Nat]  BY <1>1 DEF SentTimes
<1>4. restOwn' \in SentTimes  BY <1>1, <1>3 DEF SentTimes, Lists
<1>5. heardOf' = heardOf \union {s} /\ heardOf' \subseteq Masts  BY DEF Lists, OwnTyped
<1>6. ASSUME NEW m \in Masts, m = s PROVE Claimed(m)' = c
  <2>1. PICK n \in Masts : n = m  OBVIOUS
  <2>2. n \in heardOf' /\ cands'[n] = c  BY <1>1, <1>5, <1>6, <2>1 DEF SentTimes
  <2>3. Claimed(n)' = c  BY <2>2 DEF Claimed
  <2> QED  BY <2>1, <2>3
<1>7. ASSUME NEW m \in Masts, m # s PROVE Claimed(m)' = Claimed(m)
  <2>1. cands'[m] = cands[m] /\ restOwn'[m] = restOwn[m]  BY <1>1, <1>7 DEF SentTimes, Lists
  <2>2. Latest(cands', restOwn')[m] = Latest(cands, restOwn)[m]  BY <2>1 DEF Latest
  <2> QED  BY <1>5, <1>7, <2>1, <2>2 DEF Claimed
<1>8. restOwn = NoCands => restOwn' = NoCands  BY DEF Lists, NoCands
<1> QED  BY <1>2, <1>4, <1>5, <1>6, <1>7, <1>8

LEMMA Gathering ==
    ASSUME OwnTyped, NEW s \in Masts, NEW o \in OwnShips, NEW at \in Nat, Gather(s, o, at)
    PROVE  unsent' \in SentTimes
<1>1. unsent \in SentTimes /\ unsent[s][o] \in Nat  BY DEF OwnTyped, SentTimes
<1>2. Max({unsent[s][o], at}) \in Nat  BY <1>1, LargerOfTwo
<1> QED  BY <1>1, <1>2 DEF Gather, SentTimes

LEMMA Messaging ==
    ASSUME OwnInv, NEW s \in Masts,
           \/ Send(s)
           \/ \E o \in OwnShips, at \in {tick, tick - 1} \ {NotSent} : SendOwn(s, o, at) \/ SendOvertaken(s, o, at)
    PROVE  OwnInv'
<1> USE DEF OwnInv
<1>1. tick \in Nat \ {0}  BY DEF OwnTyped
<1>2. CASE Send(s)
  <2>1. Claimed(s) \in [OwnShips -> Nat]  BY ClaimedIs
  <2>2. PICK c \in [OwnShips -> Nat] : c = Claimed(s)  BY <2>1
  <2>3. Lists(s) /\ cands' = [cands EXCEPT ![s] = c]  BY <1>2, <2>2 DEF Send
  <2>4. UNCHANGED <<tick, restarts, pending, unsent, ownTable, decider, told, back>>  BY <1>2 DEF Send
  <2>5. OwnTyped'  BY <2>3, <2>4, Listing DEF OwnTyped
  <2>6. \A m \in Masts : Claimed(m)' = Claimed(m)  BY <2>2, <2>3, Listing
  <2>7. Remembered'
    <3> SUFFICES ASSUME NEW m \in Masts, NEW o \in OwnShips,
                        told'[m][o] # NotSent, told'[m][o] > tick' - OwnSettle
                 PROVE  \/ told'[m][o] <= (Claimed(m)')[o]
                        \/ ~back' /\ told'[m][o] <= ownTable'[m][o]
      BY DEF Remembered
    <3> QED  BY <2>4, <2>6 DEF Remembered
  <2>8. RoundKnows'  BY <2>4 DEF RoundKnows
  <2>9. WaitsForThem'  BY <2>3, <2>4, Listing DEF WaitsForThem
  <2> QED  BY <2>5, <2>7, <2>8, <2>9
<1>3. ASSUME NEW o \in OwnShips, NEW at \in {tick, tick - 1} \ {NotSent}, SendOwn(s, o, at)
      PROVE  OwnInv'
  <2>1. at \in Nat  BY <1>1 DEF NotSent
  <2>2. Claimed(s) \in [OwnShips -> Nat]  BY ClaimedIs
  <2>3. PICK c \in [OwnShips -> Nat] : c = [Claimed(s) EXCEPT ![o] = at]  BY <2>1, <2>2
  <2>4. c[o] = at /\ \A p \in OwnShips \ {o} : c[p] = Claimed(s)[p]  BY <2>2, <2>3
  <2>5. Lists(s) /\ cands' = [cands EXCEPT ![s] = c]  BY <1>3, <2>3 DEF SendOwn
  <2>6. UNCHANGED <<tick, restarts, pending, ownTable, decider, back>> /\ told' = [told EXCEPT ![s][o] = at]
    BY <1>3 DEF SendOwn
  <2>7. told \in SentTimes  BY DEF OwnTyped
  <2>8. told' \in SentTimes /\ told'[s][o] = at
        /\ \A m \in Masts, p \in OwnShips : <<m, p>> # <<s, o>> => told'[m][p] = told[m][p]
    BY <2>1, <2>6, <2>7 DEF SentTimes
  <2>9. unsent' \in SentTimes  BY <1>3, <2>1, Gathering DEF SendOwn
  <2>10. OwnTyped'  BY <2>5, <2>6, <2>8, <2>9, Listing DEF OwnTyped
  <2>11. Claimed(s)' = c /\ \A m \in Masts \ {s} : Claimed(m)' = Claimed(m)  BY <2>5, Listing
  <2>12. Remembered'
    <3> SUFFICES ASSUME NEW m \in Masts, NEW p \in OwnShips,
                        told'[m][p] # NotSent, told'[m][p] > tick' - OwnSettle
                 PROVE  \/ told'[m][p] <= (Claimed(m)')[p]
                        \/ ~back' /\ told'[m][p] <= ownTable'[m][p]
      BY DEF Remembered
    <3>1. CASE m = s /\ p = o
      <4>1. (Claimed(m)')[p] = at  BY <3>1, <2>4, <2>11
      <4> QED  BY <3>1, <4>1, <2>1, <2>8
    <3>2. CASE ~(m = s /\ p = o)
      <4>1. told'[m][p] = told[m][p]  BY <3>2, <2>8
      <4>2. (Claimed(m)')[p] = Claimed(m)[p]
        <5>1. CASE m = s  BY <5>1, <3>2, <2>4, <2>11
        <5>2. CASE m # s  BY <5>2, <2>11
        <5> QED  BY <5>1, <5>2
      <4> QED  BY <4>1, <4>2, <2>6 DEF Remembered
    <3> QED  BY <3>1, <3>2
  <2>13. RoundKnows'  BY <2>6 DEF RoundKnows
  <2>14. WaitsForThem'  BY <2>5, <2>6, Listing DEF WaitsForThem
  <2> QED  BY <2>10, <2>12, <2>13, <2>14
<1>4. ASSUME NEW o \in OwnShips, NEW at \in {tick, tick - 1} \ {NotSent}, SendOvertaken(s, o, at)
      PROVE  OwnInv'
  <2>1. at \in Nat  BY <1>1 DEF NotSent
  <2>2. unsent' \in SentTimes  BY <1>4, <2>1, Gathering DEF SendOvertaken
  <2>3. UNCHANGED <<tick, restarts, heardOf, cands, restOwn, pending, ownTable, decider, told, back>>
    BY <1>4 DEF SendOvertaken
  <2> QED  BY <2>2, <2>3 DEF OwnTyped, Remembered, Claimed, Latest, RoundKnows, WaitsForThem
<1> QED  BY <1>2, <1>3, <1>4

\* The sweep forgets only what is older than ownSettle.
LEMMA Passing ==
    ASSUME OwnInv, TimePasses
    PROVE  OwnInv'
<1> USE DEF OwnInv
<1>1. tick \in Nat /\ tick' = tick + 1 /\ OwnSettle \in Nat /\ Forget \in Nat /\ OwnSettle < Forget
  BY OwnAssumption DEF TimePasses, OwnTyped
<1>2. UNCHANGED <<restarts, heardOf, restOwn, pending, unsent, ownTable, decider, told, back>>  BY DEF TimePasses
<1>3. cands \in SentTimes /\ told \in SentTimes /\ restOwn \in SentTimes  BY DEF OwnTyped
<1>4. \A s \in Masts, o \in OwnShips : cands[s][o] \in Nat /\ told[s][o] \in Nat /\ restOwn[s][o] \in Nat
  BY <1>3 DEF SentTimes
<1>5. \A s \in Masts, o \in OwnShips :
        cands'[s][o] = IF cands[s][o] < tick' - Forget THEN NotSent ELSE cands[s][o]
  BY DEF TimePasses
<1>6. cands' \in SentTimes  BY <1>4 DEF TimePasses, SentTimes, NotSent
<1>7. OwnTyped'  BY <1>1, <1>2, <1>6 DEF OwnTyped
<1>8. Remembered'
  <2> SUFFICES ASSUME NEW s \in Masts, NEW o \in OwnShips,
                      told'[s][o] # NotSent, told'[s][o] > tick' - OwnSettle
               PROVE  \/ told'[s][o] <= (Claimed(s)')[o]
                      \/ ~back' /\ told'[s][o] <= ownTable'[s][o]
    BY DEF Remembered
  <2>1. told[s][o] # NotSent /\ told[s][o] > tick - OwnSettle  BY <1>1, <1>2, <1>4
  <2>2. CASE ~back /\ told[s][o] <= ownTable[s][o]  BY <2>2, <1>2
  <2>3. CASE told[s][o] <= Claimed(s)[o]
    <3>1. PICK m \in Masts : m = s  OBVIOUS
    <3>2. PICK f \in SentTimes : f = cands'  BY <1>6
    <3>3. (Claimed(m)')[o] \in Nat /\ (Claimed(m)')[o] >= cands'[m][o]
          /\ (m \notin heardOf => (Claimed(m)')[o] >= restOwn[m][o])
      BY <1>2, <1>7, ClaimedNext DEF AtLeastItsParts
    <3>4. CASE Claimed(s)[o] = cands[s][o]
      <4>1. cands'[s][o] = cands[s][o]  BY <3>4, <2>3, <1>1, <1>2, <1>4, <1>5
      <4>2. (Claimed(s)')[o] >= cands[s][o]  BY <3>1, <3>3, <4>1
      <4>3. (Claimed(s)')[o] \in Nat  BY <3>1, <3>3
      <4>4. cands[s][o] \in Nat /\ told[s][o] \in Nat  BY <1>4
      <4> QED  BY <4>2, <4>3, <4>4, <3>4, <2>3, <1>2
    <3>5. CASE Claimed(s)[o] = restOwn[s][o] /\ Claimed(s)[o] # cands[s][o]
      <4>1. s \notin heardOf  BY <3>5, ClaimedIs
      <4>2. (Claimed(s)')[o] >= restOwn[s][o]  BY <3>1, <3>3, <4>1
      <4>3. (Claimed(s)')[o] \in Nat  BY <3>1, <3>3
      <4>4. restOwn[s][o] \in Nat /\ told[s][o] \in Nat  BY <1>4
      <4> QED  BY <4>2, <4>3, <4>4, <3>5, <2>3, <1>2
    <3>6. Claimed(s)[o] = cands[s][o] \/ Claimed(s)[o] = restOwn[s][o]  BY ClaimedIs
    <3> QED  BY <3>4, <3>5, <3>6
  <2> QED  BY <2>1, <2>2, <2>3 DEF Remembered
<1>9. RoundKnows' /\ WaitsForThem'  BY <1>2 DEF RoundKnows, WaitsForThem
<1> QED  BY <1>7, <1>8, <1>9

\* The candidates come back: all of ownSettle that the table has.
LEMMA BringingBack ==
    ASSUME OwnInv, BringBack
    PROVE  OwnInv'
<1> USE DEF OwnInv
<1>1. tick \in Nat /\ OwnSettle \in Nat  BY OwnAssumption DEF OwnTyped
<1>2. UNCHANGED <<tick, restarts, heardOf, unsent, ownTable, decider, told>> /\ ~back /\ back' /\ ~pending'
  BY DEF BringBack
<1>3. restOwn = NoCands  BY <1>2 DEF WaitsForThem
<1>4. cands \in SentTimes /\ told \in SentTimes /\ ownTable \in SentTimes /\ NoCands \in SentTimes
  BY NothingSent DEF OwnTyped
<1>5. \A s \in Masts, o \in OwnShips : cands[s][o] \in Nat /\ told[s][o] \in Nat /\ ownTable[s][o] \in Nat
  BY <1>4 DEF SentTimes
<1>6. PICK past : past = [s \in Masts |-> [o \in OwnShips |->
                            IF ownTable[s][o] > tick - OwnSettle - 1 THEN ownTable[s][o] ELSE NotSent]]
  OBVIOUS
<1>7. /\ cands' = [s \in Masts |-> IF s \in heardOf THEN Latest(cands, past)[s] ELSE cands[s]]
      /\ restOwn' = [s \in Masts |-> IF s \in heardOf THEN NoCands[s] ELSE past[s]]
  BY <1>6 DEF BringBack
<1>8. past \in SentTimes  BY <1>5, <1>6 DEF SentTimes, NotSent
<1>9. \A s \in Masts, o \in OwnShips : ownTable[s][o] > tick - OwnSettle - 1 => past[s][o] = ownTable[s][o]
  BY <1>6
<1>10. Latest(cands, past) \in SentTimes
       /\ \A s \in Masts, o \in OwnShips : Latest(cands, past)[s][o] >= cands[s][o] /\ Latest(cands, past)[s][o] >= past[s][o]
  BY <1>4, <1>8, LatestIs
<1>11. cands' \in SentTimes /\ restOwn' \in SentTimes  BY <1>4, <1>7, <1>8, <1>10 DEF SentTimes
<1>12. OwnTyped'  BY <1>2, <1>11 DEF OwnTyped
<1>13. Remembered'
  <2> SUFFICES ASSUME NEW s \in Masts, NEW o \in OwnShips,
                      told'[s][o] # NotSent, told'[s][o] > tick' - OwnSettle
               PROVE  told'[s][o] <= (Claimed(s)')[o]
    BY DEF Remembered
  <2>1. PICK m \in Masts : m = s  OBVIOUS
  <2>2. told[m][o] # NotSent /\ told[m][o] > tick - OwnSettle /\ told'[m][o] = told[m][o]  BY <1>2, <2>1
  <2>3. cands[m][o] \in Nat /\ told[m][o] \in Nat /\ ownTable[m][o] \in Nat /\ past[m][o] \in Nat
        /\ Latest(cands, past)[m][o] \in Nat
    BY <1>5, <1>8, <1>10 DEF SentTimes
  <2>4. (Claimed(m)')[o] \in Nat /\ (Claimed(m)')[o] >= cands'[m][o]
        /\ (m \notin heardOf => (Claimed(m)')[o] >= restOwn'[m][o])
    BY <1>2, <1>12, ClaimedNext DEF AtLeastItsParts
  <2>5. (Claimed(m)')[o] >= cands[m][o] /\ (Claimed(m)')[o] >= past[m][o]
    <3>1. CASE m \in heardOf
      <4>1. cands'[m][o] = Latest(cands, past)[m][o]  BY <1>7, <3>1
      <4>2. Latest(cands, past)[m][o] >= cands[m][o] /\ Latest(cands, past)[m][o] >= past[m][o]  BY <1>10
      <4> QED  BY <4>1, <4>2, <2>3, <2>4
    <3>2. CASE m \notin heardOf
      <4>1. cands'[m][o] = cands[m][o] /\ restOwn'[m][o] = past[m][o]  BY <1>7, <3>2
      <4> QED  BY <4>1, <2>4, <3>2
    <3> QED  BY <3>1, <3>2
  <2>6. CASE told[m][o] <= ownTable[m][o]
    <3>1. past[m][o] = ownTable[m][o]  BY <2>6, <2>2, <2>3, <1>1, <1>9
    <3> QED  BY <3>1, <2>1, <2>2, <2>3, <2>4, <2>5, <2>6
  <2>7. CASE told[m][o] <= Claimed(m)[o]
    <3>1. Claimed(m)[o] = cands[m][o] \/ Claimed(m)[o] = NotSent
      BY <1>3, ClaimedIs, NothingSent
    <3>2. told[m][o] <= cands[m][o]  BY <3>1, <2>2, <2>3, <2>7 DEF NotSent
    <3> QED  BY <3>2, <2>1, <2>2, <2>3, <2>4, <2>5
  <2> QED  BY <2>2, <2>6, <2>7 DEF Remembered
<1>14. RoundKnows'  BY <1>2 DEF RoundKnows
<1>15. WaitsForThem'  BY <1>2 DEF WaitsForThem
<1> QED  BY <1>12, <1>13, <1>14, <1>15

LEMMA OwnStep ==
    ASSUME OwnInv, [OwnNext]_ownVars
    PROVE  OwnInv'
<1> USE DEF OwnInv
<1>1. CASE \E s \in Masts : \/ Send(s)
                            \/ \E o \in OwnShips, at \in {tick, tick - 1} \ {NotSent} : SendOwn(s, o, at) \/ SendOvertaken(s, o, at)
  BY <1>1, Messaging
<1>2. CASE TimePasses  BY <1>2, Passing
<1>3. CASE FlushOwn
  <2>1. UNCHANGED <<tick, restarts, heardOf, cands, restOwn, pending, decider, told, back>>
        /\ unsent' = NoCands /\ ownTable' = Latest(ownTable, unsent)
    BY <1>3 DEF FlushOwn
  <2>2. ownTable \in SentTimes /\ unsent \in SentTimes /\ told \in SentTimes  BY DEF OwnTyped
  <2>3. ownTable' \in SentTimes /\ \A s \in Masts, o \in OwnShips : ownTable'[s][o] >= ownTable[s][o]
    BY <2>1, <2>2, LatestIs
  <2>4. OwnTyped'  BY <2>1, <2>3, NothingSent DEF OwnTyped
  <2>5. Remembered'
    <3> SUFFICES ASSUME NEW s \in Masts, NEW o \in OwnShips,
                        told'[s][o] # NotSent, told'[s][o] > tick' - OwnSettle
                 PROVE  \/ told'[s][o] <= (Claimed(s)')[o]
                        \/ ~back' /\ told'[s][o] <= ownTable'[s][o]
      BY DEF Remembered
    <3>1. ownTable[s][o] \in Nat /\ ownTable'[s][o] \in Nat /\ told[s][o] \in Nat /\ ownTable'[s][o] >= ownTable[s][o]
      BY <2>2, <2>3 DEF SentTimes
    <3>2. Claimed(s)' = Claimed(s)  BY <2>1 DEF Claimed, Latest
    <3> QED  BY <2>1, <3>1, <3>2 DEF Remembered
  <2> QED  BY <2>1, <2>4, <2>5 DEF RoundKnows, WaitsForThem
<1>4. CASE Relaunch
  <2>1. heardOf' = {} /\ cands' = NoCands /\ restOwn' = NoCands /\ unsent' = NoCands /\ pending' = TRUE
        /\ decider' = NotDeciding /\ told' = ownTable /\ back' = FALSE /\ UNCHANGED <<tick, ownTable>>
        /\ restarts' = restarts + 1
    BY <1>4 DEF Relaunch
  <2>2. ownTable \in SentTimes  BY DEF OwnTyped
  <2>3. OwnTyped'  BY <2>1, <2>2, NothingSent DEF OwnTyped, NotDeciding
  <2>4. \A s \in Masts, o \in OwnShips : told'[s][o] <= ownTable'[s][o]  BY <2>1, <2>2 DEF SentTimes
  <2>5. Remembered'  BY <2>1, <2>4 DEF Remembered
  <2> QED  BY <2>1, <2>3, <2>5 DEF RoundKnows, WaitsForThem, NotDeciding
<1>5. CASE BringBack  BY <1>5, BringingBack
<1>6. CASE WaitedEnough
  BY <1>6 DEF WaitedEnough, OwnTyped, Remembered, Claimed, Latest, RoundKnows, WaitsForThem
<1>7. CASE ReadOwn
  <2>1. UNCHANGED <<tick, restarts, heardOf, cands, restOwn, pending, unsent, ownTable, told, back>>  BY <1>7 DEF ReadOwn
  <2>2. PICK c : c = [s \in Masts |-> Claimed(s)]  OBVIOUS
  <2>3. c \in SentTimes  BY <2>2, ClaimedIs DEF SentTimes
  <2>4. decider' = [pc |-> "decide", cands |-> c, told |-> told, now |-> tick, back |-> back]
    BY <1>7, <2>2 DEF ReadOwn
  <2>5. OwnTyped'  BY <2>1, <2>3, <2>4 DEF OwnTyped
  <2>6. Remembered' /\ WaitsForThem'  BY <2>1 DEF Remembered, Claimed, Latest, WaitsForThem
  <2>7. RoundKnows'  BY <2>1, <2>2, <2>4 DEF RoundKnows, Remembered
  <2> QED  BY <2>5, <2>6, <2>7
<1>8. CASE DecideRound
  BY <1>8, NothingSent DEF DecideRound, NotDeciding, OwnTyped, Remembered, Claimed, Latest, RoundKnows, WaitsForThem
<1>9. CASE UNCHANGED ownVars
  BY <1>9 DEF ownVars, OwnTyped, Remembered, Claimed, Latest, RoundKnows, WaitsForThem
<1> QED  BY <1>1, <1>2, <1>3, <1>4, <1>5, <1>6, <1>7, <1>8, <1>9 DEF OwnNext

\* What a station sent within ownSettle is remembered, in the process or in the
\* table until its candidates are back, and a round that found them back read it.
THEOREM SightingsAreRemembered == OwnSpec => []OwnInv
<1>1. OwnInit => OwnInv
  <2> SUFFICES ASSUME OwnInit PROVE OwnInv  OBVIOUS
  <2>1. OwnTyped  BY NothingSent DEF OwnInit, OwnTyped, NotDeciding
  <2>2. Remembered  BY NothingSent DEF OwnInit, Remembered
  <2> QED  BY <2>1, <2>2 DEF OwnInit, OwnInv, RoundKnows, WaitsForThem, NotDeciding
<1>2. OwnInv /\ [OwnNext]_ownVars => OwnInv'  BY OwnStep
<1> QED  BY <1>1, <1>2, PTL DEF OwnSpec

\* No round that found its candidates back decides on a vessel another was sent
\* beside within ownSettle (decideOwn).
THEOREM OwnVesselsAreAlone == OwnSpec => OwnWasAlone
<1>1. ASSUME OwnInv, [OwnNext]_ownVars, decider.pc = "decide", decider.back, restarts' = restarts,
             decider'.pc = "idle", NEW s \in Masts, own'[s] # "none",
             NEW o \in OwnShips \ {own'[s]}, decider.told[s][o] # NotSent
      PROVE  decider.told[s][o] <= decider.now - OwnSettle
  <2>1. DecideRound
    <3>1. ~ReadOwn  BY <1>1 DEF ReadOwn
    <3>2. ~Relaunch  BY <1>1 DEF Relaunch, OwnInv, OwnTyped
    <3>3. decider' # decider  BY <1>1
    <3> QED  BY <1>1, <3>1, <3>2, <3>3
             DEF OwnNext, ownVars, Send, SendOwn, SendOvertaken, TimePasses, FlushOwn, BringBack, WaitedEnough
  <2>2. back /\ ~pending  BY <1>1 DEF OwnInv, RoundKnows, WaitsForThem
  <2>3. own'[s] \in Decisions(decider.cands[s], decider.now, own[s])  BY <2>1, <2>2 DEF DecideRound
  <2>4. PICK at \in [OwnShips -> Nat] : at = decider.cands[s]  BY <1>1 DEF OwnInv, OwnTyped, SentTimes
  <2>5. decider.now \in Nat /\ OwnSettle \in Nat /\ decider.told[s][o] \in Nat
    BY <1>1, OwnAssumption DEF OwnInv, OwnTyped, SentTimes
  <2> SUFFICES ASSUME decider.told[s][o] > decider.now - OwnSettle PROVE FALSE  BY <2>5
  <2>6. decider.told[s][o] <= at[o]  BY <1>1, <2>4 DEF OwnInv, RoundKnows
  <2>7. at[o] # NotSent /\ at[o] > decider.now - OwnSettle  BY <1>1, <2>4, <2>5, <2>6 DEF NotSent
  <2>8. PICK sent : sent = {p \in OwnShips : at[p] # NotSent}  OBVIOUS
  <2>9. o \in sent  BY <2>7, <2>8
  <2>10. own'[s] \in {p \in sent : \A q \in sent \ {p} : at[q] <= decider.now - OwnSettle}
    BY <1>1, <2>3, <2>4, <2>8, <2>9 DEF Decisions
  <2> QED  BY <1>1, <2>4, <2>5, <2>7, <2>9, <2>10
<1>2. OwnInv /\ [OwnNext]_ownVars =>
        [decider.pc = "decide" /\ decider.back /\ restarts' = restarts /\ decider'.pc = "idle" =>
           \A s \in Masts : own'[s] # "none" =>
             \A o \in OwnShips \ {own'[s]} :
               decider.told[s][o] # NotSent => decider.told[s][o] <= decider.now - OwnSettle]_ownVars
  BY <1>1
<1> QED  BY <1>2, SightingsAreRemembered, PTL DEF OwnSpec, OwnWasAlone

-----------------------------------------------------------------------------
(* The reads of vessels (vessels.go, tiles.go, mcp.go, mirror.go). *)

\* Reports and rows: a vessel's state is Unknown when it was never heard.
StateRecords == [seen : Nat \union {-1}, at : {"none", "in", "out"}, posAt : Nat \union {-1}, fast : BOOLEAN]
VesselStates == {v \in StateRecords : v.seen = -1 => v = Unknown}

\* A row that is no newer than what the cache holds.
Behind(r, c) ==
  Known(c) => r.seen <= c.seen /\ (Positioned(c) /\ Positioned(r) => r.posAt <= c.posAt)

\* A state that knows all that another one knew, or newer.
Newer(v, w) ==
  v.seen >= w.seen /\ (Positioned(w) => Positioned(v) /\ v.posAt >= w.posAt)

ReadsTyped ==
  /\ moment \in Nat
  /\ cached \in [Boats -> VesselStates] /\ filed \in [Boats -> VesselStates]
  /\ request.pc \in {"idle", "cache", "record", "merge"}
  /\ request.pc # "idle" => request.kind \in Kinds /\ request.now \in Nat
  /\ request.pc = "cache" => request.kind \notin Searches \union {"tile"}

\* The record never runs ahead of the cache, and what only it holds was swept.
BoatFollows(c, f, t) ==
  /\ c.seen <= t /\ (Positioned(c) => c.posAt <= t)
  /\ f.seen <= t /\ (Positioned(f) => f.posAt <= t)
  /\ Behind(f, c)
  /\ ~Known(c) => f = Unknown \/ f.seen < t - CacheAge
RecordFollows == \A b \in Boats : BoatFollows(cached[b], filed[b], moment)

\* What the cache answers of one boat.
CacheFinds(kind, v, t) ==
  \/ kind \in {"area", "tile"} /\ Shown(v, t)
  \/ kind = "near" /\ InBox(v)
  \/ kind \in {"named", "centre"} /\ Positioned(v)
  \/ kind \in {"vessel", "get"} /\ Known(v)

Quiet(rq, b) == b \notin rq.heard \union rq.swept

\* The row a request read of a boat: no older than the one it began with, and
\* of a boat neither heard nor swept, that one or the one filed by now.
RowRead(rq, r, c, f, b) ==
  /\ Newer(r, rq.rows[b]) /\ Newer(f, r)
  /\ Quiet(rq, b) => r \in {rq.rows[b], f}
  /\ b \notin rq.swept => Behind(r, c)
  /\ b \in DOMAIN rq.recs <=> MirrorFinds(rq.kind, r, rq.now) \/ SearchFinds(rq.kind, r)
  /\ b \in DOMAIN rq.recs => rq.recs[b] = r

\* What is so of a boat while a request has it in hand: cache and record are no
\* older than at the first reading unless it was swept, and of a boat neither
\* heard nor swept they are as they were but for the flush.
BoatHolds(rq, c, f, b) ==
  /\ rq.had[b] \in VesselStates /\ rq.rows[b] \in VesselStates /\ Behind(rq.rows[b], rq.had[b])
  /\ Newer(f, rq.rows[b])
  /\ b \notin rq.swept => Newer(c, rq.had[b])
  /\ b \notin rq.heard => c \in {rq.had[b], Unknown}
  /\ Quiet(rq, b) => c = rq.had[b] /\ f \in {rq.rows[b], Merged(rq.had[b], rq.rows[b])}
  /\ rq.kind = "tile" /\ ~Known(rq.had[b]) => rq.rows[b] = Unknown \/ rq.rows[b].seen < rq.now - CacheAge
  /\ rq.pc # "cache" /\ rq.kind \notin Searches \union {"tile"} =>
       /\ b \in DOMAIN rq.first <=> CacheFinds(rq.kind, rq.had[b], rq.now)
       /\ b \in DOMAIN rq.first => rq.first[b] = rq.had[b]
  /\ rq.pc = "merge" => \E r \in VesselStates : RowRead(rq, r, c, f, b)

RequestHolds == request.pc # "idle" => \A b \in Boats : BoatHolds(request, cached[b], filed[b], b)

ReadsInv == ReadsTyped /\ RecordFollows /\ RequestHolds

\* A state completed with the position of another.
Completed(c, r) == [c EXCEPT !.at = r.at, !.posAt = r.posAt, !.fast = r.fast]

LEMMA NeverHeard ==
    Unknown \in VesselStates /\ ~Positioned(Unknown) /\ ~InBox(Unknown) /\ Unknown.seen = -1
  BY DEF Unknown, VesselStates, StateRecords, Positioned, InBox

LEMMA StateFields ==
    ASSUME NEW v \in VesselStates
    PROVE  /\ v \in StateRecords
           /\ v.seen \in Nat \union {-1} /\ v.posAt \in Nat \union {-1}
           /\ v.seen = -1 <=> ~Known(v)
           /\ Positioned(v) => Known(v)
           /\ InBox(v) => Positioned(v)
<1>1. v \in StateRecords /\ (v.seen = -1 => v = Unknown)  BY DEF VesselStates
<1>2. v.seen \in Nat \union {-1} /\ v.posAt \in Nat \union {-1}  BY <1>1 DEF StateRecords
<1>3. v.seen = -1 <=> ~Known(v)  BY <1>1, NeverHeard DEF Known
<1>4. Positioned(v) => Known(v)  BY NeverHeard DEF Known
<1>5. InBox(v) => Positioned(v)  BY DEF InBox, Positioned
<1> QED  BY <1>1, <1>2, <1>3, <1>4, <1>5

LEMMA NewerItself == ASSUME NEW v \in VesselStates PROVE Newer(v, v)
  BY StateFields DEF Newer

LEMMA NewerYet ==
    ASSUME NEW u \in VesselStates, NEW v \in VesselStates, NEW w \in VesselStates, Newer(u, v), Newer(v, w)
    PROVE  Newer(u, w)
<1>1. u.seen >= v.seen /\ v.seen >= w.seen  BY DEF Newer
<1>2. u.seen >= w.seen  BY <1>1, StateFields
<1>3. ASSUME Positioned(w) PROVE Positioned(u) /\ u.posAt >= w.posAt
  <2>1. Positioned(v) /\ v.posAt >= w.posAt  BY <1>3 DEF Newer
  <2>2. Positioned(u) /\ u.posAt >= v.posAt  BY <2>1 DEF Newer
  <2> QED  BY <2>1, <2>2, StateFields
<1> QED  BY <1>2, <1>3 DEF Newer

LEMMA NewerThanUnknown == ASSUME NEW v \in VesselStates PROVE Newer(v, Unknown)
  BY StateFields, NeverHeard DEF Newer

LEMMA CompletedIs ==
    ASSUME NEW c \in VesselStates, NEW r \in VesselStates, Known(c)
    PROVE  /\ Completed(c, r) \in VesselStates
           /\ Completed(c, r).seen = c.seen /\ Completed(c, r).posAt = r.posAt /\ Completed(c, r).at = r.at
           /\ Completed(c, r).fast = r.fast
<1>1. c \in StateRecords /\ r \in StateRecords  BY StateFields
<1>2. c.seen # -1  BY StateFields
<1>3. PICK m : m = Completed(c, r)  OBVIOUS
<1>4. m \in StateRecords /\ m.seen = c.seen /\ m.posAt = r.posAt /\ m.at = r.at /\ m.fast = r.fast
  BY <1>1, <1>3 DEF Completed, StateRecords
<1> QED  BY <1>2, <1>3, <1>4 DEF VesselStates

\* Merged with a row no newer, the cache's state stands but for the position it
\* lacks (vessel.merge).
LEMMA MergedIs ==
    ASSUME NEW c \in VesselStates, NEW r \in VesselStates, Behind(r, c)
    PROVE  /\ ~Known(c) => Merged(c, r) = r
           /\ Known(c) /\ (Positioned(c) \/ ~Positioned(r)) => Merged(c, r) = c
           /\ Known(c) /\ ~Positioned(c) /\ Positioned(r) => Merged(c, r) = Completed(c, r)
<1>1. CASE ~Known(c)  BY <1>1 DEF Merged
<1>2. CASE Known(c) /\ ~Known(r)
  <2>1. ~Positioned(r)  BY <1>2, StateFields
  <2> QED  BY <1>2, <2>1 DEF Merged
<1>3. CASE Known(c) /\ Known(r)
  <2>1. PICK fixed : fixed = IF Positioned(r) /\ (~Positioned(c) \/ r.posAt > c.posAt)
                             THEN [c EXCEPT !.at = r.at, !.posAt = r.posAt, !.fast = r.fast] ELSE c
    OBVIOUS
  <2>2. Merged(c, r) = IF r.seen > c.seen THEN [fixed EXCEPT !.seen = r.seen] ELSE fixed
    BY <1>3, <2>1 DEF Merged
  <2>3. ~(r.seen > c.seen) /\ (Positioned(c) /\ Positioned(r) => ~(r.posAt > c.posAt))
    BY <1>3, StateFields DEF Behind
  <2> QED  BY <1>3, <2>1, <2>2, <2>3 DEF Completed
<1> QED  BY <1>1, <1>2, <1>3

\* A merge knows what either of the two did.
LEMMA MergedNewer ==
    ASSUME NEW c \in VesselStates, NEW r \in VesselStates
    PROVE  /\ Merged(c, r) \in VesselStates
           /\ Newer(Merged(c, r), c) /\ Newer(Merged(c, r), r)
<1>1. CASE ~Known(c)
  <2>1. Merged(c, r) = r /\ c = Unknown  BY <1>1 DEF Merged, Known
  <2> QED  BY <2>1, NewerItself, NewerThanUnknown
<1>2. CASE Known(c) /\ ~Known(r)
  <2>1. Merged(c, r) = c /\ r = Unknown  BY <1>2 DEF Merged, Known
  <2> QED  BY <2>1, NewerItself, NewerThanUnknown
<1>3. CASE Known(c) /\ Known(r)
  <2>1. PICK moved : moved <=> Positioned(r) /\ (~Positioned(c) \/ r.posAt > c.posAt)  OBVIOUS
  <2>2. PICK fixed : fixed = IF moved THEN Completed(c, r) ELSE c  OBVIOUS
  <2>3. Merged(c, r) = IF r.seen > c.seen THEN [fixed EXCEPT !.seen = r.seen] ELSE fixed
    BY <1>3, <2>1, <2>2 DEF Merged, Completed
  <2>4. fixed \in VesselStates /\ fixed.seen = c.seen  BY <1>3, <2>2, CompletedIs
  <2>5. (Positioned(c) \/ Positioned(r) => Positioned(fixed))
        /\ (Positioned(c) => fixed.posAt >= c.posAt) /\ (Positioned(r) => fixed.posAt >= r.posAt)
    <3>1. CASE moved
      <4>1. fixed.posAt = r.posAt /\ fixed.at = r.at  BY <1>3, <2>2, <3>1, CompletedIs
      <4>2. Positioned(fixed) /\ Positioned(r)  BY <2>1, <3>1, <4>1 DEF Positioned
      <4>3. r.posAt \in Int /\ c.posAt \in Int /\ (Positioned(c) => r.posAt > c.posAt)  BY <2>1, <3>1, StateFields
      <4> QED  BY <4>1, <4>2, <4>3
    <3>2. CASE ~moved
      <4>1. fixed = c  BY <2>2, <3>2
      <4>2. r.posAt \in Int /\ c.posAt \in Int  BY StateFields
      <4> QED  BY <2>1, <3>2, <4>1, <4>2
    <3> QED  BY <3>1, <3>2
  <2>6. PICK m : m = Merged(c, r)  OBVIOUS
  <2>7. m \in VesselStates /\ m.seen >= c.seen /\ m.seen >= r.seen /\ m.at = fixed.at /\ m.posAt = fixed.posAt
    <3>1. c.seen \in Int /\ r.seen \in Int /\ r.seen \in Nat \union {-1} /\ r.seen # -1  BY <1>3, StateFields
    <3>2. CASE r.seen > c.seen
      <4>1. m = [fixed EXCEPT !.seen = r.seen]  BY <2>3, <2>6, <3>2
      <4>2. fixed \in StateRecords  BY <2>4, StateFields
      <4>3. m \in StateRecords /\ m.seen = r.seen /\ m.at = fixed.at /\ m.posAt = fixed.posAt
        BY <3>1, <4>1, <4>2 DEF StateRecords
      <4> QED  BY <3>1, <3>2, <4>3 DEF VesselStates
    <3>3. CASE ~(r.seen > c.seen)
      <4>1. m = fixed  BY <2>3, <2>6, <3>3
      <4> QED  BY <2>4, <3>1, <3>3, <4>1
    <3> QED  BY <3>2, <3>3
  <2>8. Positioned(m) <=> Positioned(fixed)  BY <2>7 DEF Positioned
  <2> QED  BY <2>5, <2>6, <2>7, <2>8 DEF Newer
<1> QED  BY <1>1, <1>2, <1>3

\* What knows all that two did knows what they do merged.
LEMMA NewerThanBoth ==
    ASSUME NEW x \in VesselStates, NEW c \in VesselStates, NEW r \in VesselStates, Behind(r, c), Newer(x, c), Newer(x, r)
    PROVE  Newer(x, Merged(c, r))
<1>1. CASE ~Known(c) \/ Positioned(c) \/ ~Positioned(r)
  <2>1. Merged(c, r) \in {c, r}  BY <1>1, StateFields, MergedIs
  <2> QED  BY <2>1
<1>2. CASE Known(c) /\ ~Positioned(c) /\ Positioned(r)
  <2>1. Merged(c, r) = Completed(c, r)  BY <1>2, MergedIs
  <2>2. Merged(c, r).seen = c.seen /\ Merged(c, r).posAt = r.posAt  BY <1>2, <2>1, CompletedIs
  <2> QED  BY <1>2, <2>2 DEF Newer
<1> QED  BY <1>1, <1>2

\* Merging what was merged changes nothing.
LEMMA MergedTwice ==
    ASSUME NEW c \in VesselStates, NEW r \in VesselStates, Behind(r, c), Known(c)
    PROVE  Merged(c, Merged(c, r)) = Merged(c, r)
<1>1. CASE Positioned(c) \/ ~Positioned(r)
  <2>1. Merged(c, r) = c  BY <1>1, MergedIs
  <2>2. Behind(c, c)  BY StateFields DEF Behind
  <2> QED  BY <2>1, <2>2, MergedIs
<1>2. CASE ~Positioned(c) /\ Positioned(r)
  <2>1. PICK m : m = Completed(c, r)  OBVIOUS
  <2>2. Merged(c, r) = m  BY <1>2, <2>1, MergedIs
  <2>3. m \in VesselStates /\ m.seen = c.seen /\ m.posAt = r.posAt /\ m.at = r.at /\ m.fast = r.fast
    BY <2>1, CompletedIs
  <2>4. Positioned(m)  BY <1>2, <2>3 DEF Positioned
  <2>5. Behind(m, c)  BY <1>2, <2>3, StateFields DEF Behind
  <2>6. Merged(c, m) = Completed(c, m)  BY <1>2, <2>3, <2>4, <2>5, MergedIs
  <2>7. Completed(c, m) = m  BY <2>1, <2>3 DEF Completed
  <2> QED  BY <2>2, <2>6, <2>7
<1> QED  BY <1>1, <1>2

\* A flush files no less than there was, and nothing ahead of the cache.
LEMMA MergedBehind ==
    ASSUME NEW c \in VesselStates, NEW r \in VesselStates, Behind(r, c), Known(c)
    PROVE  /\ Behind(Merged(c, r), c) /\ Merged(c, r).seen = c.seen
           /\ Positioned(Merged(c, r)) => \/ Positioned(c) /\ Merged(c, r).posAt = c.posAt
                                          \/ Positioned(r) /\ Merged(c, r).posAt = r.posAt
<1>1. CASE Positioned(c) \/ ~Positioned(r)
  <2>1. Merged(c, r) = c  BY <1>1, MergedIs
  <2> QED  BY <2>1, StateFields DEF Behind
<1>2. CASE ~Positioned(c) /\ Positioned(r)
  <2>1. Merged(c, r) = Completed(c, r)  BY <1>2, MergedIs
  <2>2. Merged(c, r).seen = c.seen /\ Merged(c, r).posAt = r.posAt  BY <2>1, CompletedIs
  <2> QED  BY <1>2, <2>2, StateFields DEF Behind
<1> QED  BY <1>1, <1>2

\* The state a report leaves: of this moment, with the position it had or a new one.
LEMMA ReportedState ==
    ASSUME ReadsTyped, NEW b \in Boats, Report(b)
    PROVE  \E v \in VesselStates :
             /\ cached' = [cached EXCEPT ![b] = v]
             /\ v.seen = moment
             /\ Positioned(cached[b]) => Positioned(v)
             /\ Positioned(v) => v.posAt = moment \/ (Positioned(cached[b]) /\ v.posAt = cached[b].posAt)
<1>1. moment \in Nat /\ cached[b] \in VesselStates  BY DEF ReadsTyped
<1>2. CASE \E at \in {"in", "out"}, fast \in BOOLEAN :
             cached' = [cached EXCEPT ![b] = [seen |-> moment, at |-> at, posAt |-> moment, fast |-> fast]]
  <2>1. PICK at \in {"in", "out"}, fast \in BOOLEAN :
               cached' = [cached EXCEPT ![b] = [seen |-> moment, at |-> at, posAt |-> moment, fast |-> fast]]
    BY <1>2
  <2>2. PICK v : v = [seen |-> moment, at |-> at, posAt |-> moment, fast |-> fast]  OBVIOUS
  <2>3. v \in VesselStates /\ Positioned(v)  BY <1>1, <2>2 DEF VesselStates, StateRecords, Positioned
  <2> QED  BY <2>1, <2>2, <2>3
<1>3. CASE cached' = [cached EXCEPT ![b].seen = moment]
  <2>1. cached[b] \in StateRecords  BY <1>1, StateFields
  <2>2. PICK v : v = [cached[b] EXCEPT !.seen = moment]  OBVIOUS
  <2>3. v \in StateRecords /\ v.seen = moment /\ v.at = cached[b].at /\ v.posAt = cached[b].posAt
    BY <1>1, <2>1, <2>2 DEF StateRecords
  <2>4. v \in VesselStates  BY <1>1, <2>3 DEF VesselStates
  <2>5. cached' = [cached EXCEPT ![b] = v]  BY <1>3, <2>2
  <2> QED  BY <2>3, <2>4, <2>5 DEF Positioned
<1> QED  BY <1>2, <1>3 DEF Report

LEMMA FromCacheIs ==
    ASSUME NEW b \in Boats, NEW kind, NEW t
    PROVE  b \in FromCache(kind, t) <=> CacheFinds(kind, cached[b], t)
  BY DEF FromCache, CacheFinds

LEMMA FromRecordIs ==
    ASSUME NEW b \in Boats, NEW kind, NEW t
    PROVE  b \in FromRecord(kind, t) <=> MirrorFinds(kind, filed[b], t) \/ SearchFinds(kind, filed[b])
  BY DEF FromRecord

\* A report notes its boat as heard, and the request's other fields stay.
LEMMA NotedHeard ==
    ASSUME NEW rq, NEW q, NEW b \in Boats, q = [rq EXCEPT !.heard = @ \union {b}]
    PROVE  /\ q.pc = rq.pc /\ q.kind = rq.kind /\ q.now = rq.now /\ q.had = rq.had /\ q.rows = rq.rows
           /\ q.first = rq.first /\ q.recs = rq.recs /\ q.swept = rq.swept
           /\ q.heard = rq.heard \union {b}
  OBVIOUS

LEMMA NotedSwept ==
    ASSUME NEW rq, NEW q, NEW b \in Boats, q = [rq EXCEPT !.swept = @ \union {b}]
    PROVE  /\ q.pc = rq.pc /\ q.kind = rq.kind /\ q.now = rq.now /\ q.had = rq.had /\ q.rows = rq.rows
           /\ q.first = rq.first /\ q.recs = rq.recs /\ q.heard = rq.heard
           /\ q.swept = rq.swept \union {b}
  OBVIOUS

\* What a report leaves of a boat: nothing older than it had, nor than the row.
LEMMA ReportedIs ==
    ASSUME NEW c \in VesselStates, NEW f \in VesselStates, NEW v \in VesselStates, NEW t \in Nat,
           BoatFollows(c, f, t), v.seen = t, Positioned(c) => Positioned(v),
           Positioned(v) => v.posAt = t \/ (Positioned(c) /\ v.posAt = c.posAt)
    PROVE  /\ Known(v) /\ Newer(v, c) /\ BoatFollows(v, f, t)
           /\ \A x \in VesselStates : Newer(f, x) /\ Behind(x, c) => Behind(x, v)
<1>1. Known(v) /\ (Positioned(c) => Known(c))  BY StateFields
<1>2. c.seen <= t /\ (Positioned(c) => c.posAt <= t) /\ f.seen <= t /\ (Positioned(f) => f.posAt <= t) /\ Behind(f, c)
  BY DEF BoatFollows
<1>3. Newer(v, c)
  <2>1. v.posAt \in Int /\ c.posAt \in Int  BY StateFields
  <2> QED  BY <1>2, <2>1 DEF Newer
<1>4. ASSUME NEW x \in VesselStates, Newer(f, x), Behind(x, c) PROVE Behind(x, v)
  <2>1. x.seen \in Int /\ x.posAt \in Int /\ f.seen \in Int /\ f.posAt \in Int /\ c.posAt \in Int /\ v.posAt \in Int
    BY StateFields
  <2>2. x.seen <= t  BY <1>2, <1>4, <2>1 DEF Newer
  <2>3. Positioned(x) => x.posAt <= t  BY <1>2, <1>4, <2>1 DEF Newer
  <2>4. Positioned(c) /\ Positioned(x) => x.posAt <= c.posAt  BY <1>1, <1>4 DEF Behind
  <2> QED  BY <2>2, <2>3, <2>4 DEF Behind
<1>5. Newer(f, f)  BY NewerItself
<1>6. BoatFollows(v, f, t)
  <2>1. Behind(f, v)  BY <1>2, <1>4, <1>5
  <2>2. Positioned(v) => v.posAt <= t  BY <1>2
  <2> QED  BY <1>1, <1>2, <2>1, <2>2 DEF BoatFollows
<1> QED  BY <1>1, <1>3, <1>4, <1>6

LEMMA HeardHolds ==
    ASSUME NEW rq, NEW q, NEW b \in Boats, q = [rq EXCEPT !.heard = @ \union {b}],
           NEW c \in VesselStates, NEW f \in VesselStates, NEW v \in VesselStates, BoatHolds(rq, c, f, b), Newer(v, c),
           \A x \in VesselStates : Newer(f, x) /\ Behind(x, c) => Behind(x, v)
    PROVE  BoatHolds(q, v, f, b)
<1>1. /\ q.pc = rq.pc /\ q.kind = rq.kind /\ q.now = rq.now /\ q.had = rq.had /\ q.rows = rq.rows
      /\ q.first = rq.first /\ q.recs = rq.recs /\ q.swept = rq.swept
      /\ q.heard = rq.heard \union {b}
  BY NotedHeard
<1>2. b \in q.heard /\ ~Quiet(q, b)  BY <1>1 DEF Quiet
<1>3. b \notin q.swept => Newer(v, q.had[b])
  <2>1. rq.had[b] \in VesselStates /\ (b \notin rq.swept => Newer(c, rq.had[b]))  BY DEF BoatHolds
  <2> QED  BY <1>1, <2>1, NewerYet
<1>4. ASSUME q.pc = "merge" PROVE \E r \in VesselStates : RowRead(q, r, v, f, b)
  <2>1. PICK r \in VesselStates : RowRead(rq, r, c, f, b)  BY <1>1, <1>4 DEF BoatHolds
  <2>2. RowRead(q, r, v, f, b)  BY <1>1, <1>2, <2>1 DEF RowRead
  <2> QED  BY <2>2
<1> QED  BY <1>1, <1>2, <1>3, <1>4 DEF BoatHolds

LEMMA SweptHolds ==
    ASSUME NEW rq, NEW q, NEW b \in Boats, q = [rq EXCEPT !.swept = @ \union {b}],
           NEW c, NEW f, BoatHolds(rq, c, f, b)
    PROVE  BoatHolds(q, Unknown, f, b)
<1>1. /\ q.pc = rq.pc /\ q.kind = rq.kind /\ q.now = rq.now /\ q.had = rq.had /\ q.rows = rq.rows
      /\ q.first = rq.first /\ q.recs = rq.recs /\ q.heard = rq.heard
      /\ q.swept = rq.swept \union {b}
  BY NotedSwept
<1>2. b \in q.swept /\ ~Quiet(q, b)  BY <1>1 DEF Quiet
<1>3. ASSUME q.pc = "merge" PROVE \E r \in VesselStates : RowRead(q, r, Unknown, f, b)
  <2>1. PICK r \in VesselStates : RowRead(rq, r, c, f, b)  BY <1>1, <1>3 DEF BoatHolds
  <2>2. RowRead(q, r, Unknown, f, b)  BY <1>1, <1>2, <2>1 DEF RowRead
  <2> QED  BY <2>2
<1> QED  BY <1>1, <1>2, <1>3 DEF BoatHolds

\* Another boat's report or sweep changes nothing of this one.
LEMMA OtherHolds ==
    ASSUME NEW rq, NEW q, NEW b \in Boats, NEW m \in Boats \ {b}, NEW c, NEW f, BoatHolds(rq, c, f, m),
           q = [rq EXCEPT !.heard = @ \union {b}] \/ q = [rq EXCEPT !.swept = @ \union {b}]
    PROVE  BoatHolds(q, c, f, m)
<1>1. /\ q.pc = rq.pc /\ q.kind = rq.kind /\ q.now = rq.now /\ q.had = rq.had /\ q.rows = rq.rows
      /\ q.first = rq.first /\ q.recs = rq.recs
      /\ (q.heard = rq.heard \union {b} /\ q.swept = rq.swept) \/ (q.heard = rq.heard /\ q.swept = rq.swept \union {b})
  BY NotedHeard, NotedSwept
<1>2. (m \in q.heard <=> m \in rq.heard) /\ (m \in q.swept <=> m \in rq.swept)  BY <1>1
<1>3. Quiet(q, m) <=> Quiet(rq, m)  BY <1>2 DEF Quiet
<1>4. ASSUME q.pc = "merge" PROVE \E r \in VesselStates : RowRead(q, r, c, f, m)
  <2>1. PICK r \in VesselStates : RowRead(rq, r, c, f, m)  BY <1>1, <1>4 DEF BoatHolds
  <2>2. RowRead(q, r, c, f, m)  BY <1>1, <1>2, <1>3, <2>1 DEF RowRead
  <2> QED  BY <2>2
<1> QED  BY <1>1, <1>2, <1>3, <1>4 DEF BoatHolds

\* A flush files the cache's state with what only the row knew: of a boat neither
\* heard nor swept, what a flush before it in the same request filed.
LEMMA WrittenHolds ==
    ASSUME NEW rq, NEW b \in Boats, NEW c \in VesselStates, NEW f \in VesselStates, Known(c), BoatHolds(rq, c, f, b)
    PROVE  BoatHolds(rq, c, Merged(c, f), b)
<1>1. PICK w \in VesselStates : w = Merged(c, f) /\ Newer(w, f)  BY MergedNewer
<1>2. /\ rq.had[b] \in VesselStates /\ rq.rows[b] \in VesselStates /\ Behind(rq.rows[b], rq.had[b])
      /\ Newer(f, rq.rows[b])
      /\ Quiet(rq, b) => c = rq.had[b] /\ f \in {rq.rows[b], Merged(rq.had[b], rq.rows[b])}
  BY DEF BoatHolds
<1>3. Newer(w, rq.rows[b])  BY <1>1, <1>2, NewerYet
<1>4. Quiet(rq, b) => w = Merged(rq.had[b], rq.rows[b])  BY <1>1, <1>2, MergedTwice
<1>5. ASSUME rq.pc = "merge" PROVE \E r \in VesselStates : RowRead(rq, r, c, w, b)
  <2>1. PICK r \in VesselStates : RowRead(rq, r, c, f, b)  BY <1>5 DEF BoatHolds
  <2>2. Newer(w, r)  BY <1>1, <2>1, NewerYet DEF RowRead
  <2>3. Quiet(rq, b) => r \in {rq.rows[b], w}  BY <1>2, <1>4, <2>1 DEF RowRead
  <2>4. RowRead(rq, r, c, w, b)  BY <2>1, <2>2, <2>3 DEF RowRead
  <2> QED  BY <2>4
<1>6. BoatHolds(rq, c, w, b)  BY <1>2, <1>3, <1>4, <1>5 DEF BoatHolds
<1> QED  BY <1>1, <1>6

\* What a step shows of the boats has to be shown of each.
LEMMA ReadsByBoat ==
    ASSUME ReadsTyped', \A b \in Boats : BoatFollows(cached'[b], filed'[b], moment'),
           request'.pc # "idle" => \A b \in Boats : BoatHolds(request', cached'[b], filed'[b], b)
    PROVE  ReadsInv'
<1>1. RecordFollows'  BY DEF RecordFollows
<1>2. RequestHolds'  BY DEF RequestHolds
<1> QED  BY <1>1, <1>2 DEF ReadsInv

LEMMA ReportStep ==
    ASSUME ReadsInv, NEW b \in Boats, Report(b)
    PROVE  ReadsInv'
<1>1. moment \in Nat /\ cached \in [Boats -> VesselStates] /\ filed \in [Boats -> VesselStates]
      /\ \A m \in Boats : BoatFollows(cached[m], filed[m], moment)
  BY DEF ReadsInv, ReadsTyped, RecordFollows
<1>2. PICK v \in VesselStates :
        /\ cached' = [cached EXCEPT ![b] = v]
        /\ v.seen = moment
        /\ Positioned(cached[b]) => Positioned(v)
        /\ Positioned(v) => v.posAt = moment \/ (Positioned(cached[b]) /\ v.posAt = cached[b].posAt)
  BY ReportedState DEF ReadsInv
<1>3. UNCHANGED <<moment, filed>>
      /\ request' = IF request.pc = "idle" THEN request ELSE [request EXCEPT !.heard = @ \union {b}]
  BY DEF Report
<1>4. PICK t \in Nat : t = moment  BY <1>1
<1>5. PICK c \in VesselStates, f \in VesselStates : c = cached[b] /\ f = filed[b]  BY <1>1
<1>6. Newer(v, c) /\ BoatFollows(v, f, t) /\ \A x \in VesselStates : Newer(f, x) /\ Behind(x, c) => Behind(x, v)
  BY <1>1, <1>2, <1>4, <1>5, ReportedIs
<1>7. cached' \in [Boats -> VesselStates] /\ cached'[b] = v /\ \A m \in Boats \ {b} : cached'[m] = cached[m]
  BY <1>1, <1>2
<1>8. request'.pc = request.pc /\ request'.kind = request.kind /\ request'.now = request.now
  BY <1>3, NotedHeard
<1>9. ReadsTyped'  BY <1>1, <1>3, <1>7, <1>8 DEF ReadsInv, ReadsTyped
<1>10. ASSUME NEW m \in Boats PROVE BoatFollows(cached'[m], filed'[m], moment')
  <2>1. CASE m = b  BY <2>1, <1>3, <1>4, <1>5, <1>6, <1>7
  <2>2. CASE m # b  BY <2>2, <1>1, <1>3, <1>7
  <2> QED  BY <2>1, <2>2
<1>11. ASSUME request'.pc # "idle", NEW m \in Boats PROVE BoatHolds(request', cached'[m], filed'[m], m)
  <2>1. PICK q : q = request'  OBVIOUS
  <2>2. q = [request EXCEPT !.heard = @ \union {b}]  BY <1>3, <1>8, <1>11, <2>1
  <2>3. BoatHolds(request, cached[m], filed[m], m)  BY <1>8, <1>11 DEF ReadsInv, RequestHolds
  <2>4. CASE m = b
    <3>1. BoatHolds(q, v, f, b)  BY <1>5, <1>6, <2>2, <2>3, <2>4, HeardHolds
    <3> QED  BY <3>1, <2>1, <2>4, <1>3, <1>5, <1>7
  <2>5. CASE m # b
    <3>1. BoatHolds(q, cached[m], filed[m], m)  BY <2>2, <2>3, <2>5, OtherHolds
    <3> QED  BY <3>1, <2>1, <2>5, <1>3, <1>7
  <2> QED  BY <2>4, <2>5
<1> QED  BY <1>9, <1>10, <1>11, ReadsByBoat

LEMMA WriteStep ==
    ASSUME ReadsInv, NEW b \in Boats, Write(b)
    PROVE  ReadsInv'
<1>1. moment \in Nat /\ cached \in [Boats -> VesselStates] /\ filed \in [Boats -> VesselStates]
      /\ \A m \in Boats : BoatFollows(cached[m], filed[m], moment)
  BY DEF ReadsInv, ReadsTyped, RecordFollows
<1>2. PICK c \in VesselStates, f \in VesselStates : c = cached[b] /\ f = filed[b]  BY <1>1
<1>3. PICK w \in VesselStates : w = Merged(c, f)  BY MergedNewer
<1>4. Known(c) /\ filed' = [filed EXCEPT ![b] = w] /\ UNCHANGED <<moment, cached, request>>  BY <1>2, <1>3 DEF Write
<1>5. filed' \in [Boats -> VesselStates] /\ filed'[b] = w /\ \A m \in Boats \ {b} : filed'[m] = filed[m]
  BY <1>1, <1>4
<1>6. ReadsTyped'  BY <1>4, <1>5 DEF ReadsInv, ReadsTyped
<1>7. BoatFollows(c, w, moment)
  <2>1. BoatFollows(c, f, moment)  BY <1>1, <1>2
  <2>2. /\ Behind(w, c) /\ w.seen = c.seen
        /\ Positioned(w) => (Positioned(c) /\ w.posAt = c.posAt) \/ (Positioned(f) /\ w.posAt = f.posAt)
    BY <1>3, <1>4, <2>1, MergedBehind DEF BoatFollows
  <2> QED  BY <1>4, <2>1, <2>2 DEF BoatFollows
<1>8. ASSUME NEW m \in Boats PROVE BoatFollows(cached'[m], filed'[m], moment')
  <2>1. CASE m = b  BY <2>1, <1>2, <1>4, <1>5, <1>7
  <2>2. CASE m # b  BY <2>2, <1>1, <1>4, <1>5
  <2> QED  BY <2>1, <2>2
<1>9. ASSUME request'.pc # "idle", NEW m \in Boats PROVE BoatHolds(request', cached'[m], filed'[m], m)
  <2>1. BoatHolds(request, cached[m], filed[m], m)  BY <1>4, <1>9 DEF ReadsInv, RequestHolds
  <2>2. CASE m = b
    <3>1. BoatHolds(request, c, w, b)  BY <1>2, <1>3, <1>4, <2>1, <2>2, WrittenHolds
    <3> QED  BY <3>1, <2>2, <1>2, <1>4, <1>5
  <2>3. CASE m # b  BY <2>1, <2>3, <1>4, <1>5
  <2> QED  BY <2>2, <2>3
<1> QED  BY <1>6, <1>8, <1>9, ReadsByBoat

\* The sweep drops a boat whatever of it was written.
LEMMA SweepStep ==
    ASSUME ReadsInv, NEW b \in Boats, SweepBoat(b)
    PROVE  ReadsInv'
<1>1. moment \in Nat /\ cached \in [Boats -> VesselStates] /\ filed \in [Boats -> VesselStates]
      /\ \A m \in Boats : BoatFollows(cached[m], filed[m], moment)
  BY DEF ReadsInv, ReadsTyped, RecordFollows
<1>2. PICK c \in VesselStates, f \in VesselStates : c = cached[b] /\ f = filed[b]  BY <1>1
<1>3. Known(c) /\ c.seen < moment - CacheAge /\ cached' = [cached EXCEPT ![b] = Unknown] /\ UNCHANGED <<moment, filed>>
      /\ request' = IF request.pc = "idle" THEN request ELSE [request EXCEPT !.swept = @ \union {b}]
  BY <1>2 DEF SweepBoat
<1>4. cached' \in [Boats -> VesselStates] /\ cached'[b] = Unknown /\ \A m \in Boats \ {b} : cached'[m] = cached[m]
  BY <1>1, <1>3, NeverHeard
<1>5. request'.pc = request.pc /\ request'.kind = request.kind /\ request'.now = request.now
  BY <1>3, NotedSwept
<1>6. ReadsTyped'  BY <1>1, <1>3, <1>4, <1>5 DEF ReadsInv, ReadsTyped
<1>7. BoatFollows(Unknown, f, moment)
  <2>1. BoatFollows(c, f, moment)  BY <1>1, <1>2
  <2>2. f.seen <= c.seen  BY <1>3, <2>1 DEF BoatFollows, Behind
  <2>3. f.seen \in Int /\ c.seen \in Int /\ CacheAge \in Int  BY StateFields, ReadsAssumption
  <2>4. f.seen < moment - CacheAge  BY <1>1, <1>3, <2>2, <2>3
  <2>5. -1 <= moment  BY <1>1
  <2> QED  BY <2>1, <2>4, <2>5, NeverHeard DEF BoatFollows, Behind, Known
<1>8. ASSUME NEW m \in Boats PROVE BoatFollows(cached'[m], filed'[m], moment')
  <2>1. CASE m = b  BY <2>1, <1>2, <1>3, <1>4, <1>7
  <2>2. CASE m # b  BY <2>2, <1>1, <1>3, <1>4
  <2> QED  BY <2>1, <2>2
<1>9. ASSUME request'.pc # "idle", NEW m \in Boats PROVE BoatHolds(request', cached'[m], filed'[m], m)
  <2>1. PICK q : q = request'  OBVIOUS
  <2>2. q = [request EXCEPT !.swept = @ \union {b}]  BY <1>3, <1>5, <1>9, <2>1
  <2>3. BoatHolds(request, cached[m], filed[m], m)  BY <1>5, <1>9 DEF ReadsInv, RequestHolds
  <2>4. CASE m = b
    <3>1. BoatHolds(q, Unknown, f, b)  BY <1>2, <2>2, <2>3, <2>4, SweptHolds
    <3> QED  BY <3>1, <2>1, <2>4, <1>2, <1>3, <1>4
  <2>5. CASE m # b
    <3>1. BoatHolds(q, cached[m], filed[m], m)  BY <2>2, <2>3, <2>5, OtherHolds
    <3> QED  BY <3>1, <2>1, <2>5, <1>3, <1>4
  <2> QED  BY <2>4, <2>5
<1> QED  BY <1>6, <1>8, <1>9, ReadsByBoat

LEMMA PassStep ==
    ASSUME ReadsInv, Pass
    PROVE  ReadsInv'
<1>1. moment \in Nat /\ moment' = moment + 1 /\ CacheAge \in Nat /\ UNCHANGED <<cached, filed, request>>
  BY ReadsAssumption DEF Pass, ReadsInv, ReadsTyped
<1>2. ReadsTyped'  BY <1>1 DEF ReadsInv, ReadsTyped
<1>3. ASSUME NEW m \in Boats PROVE BoatFollows(cached'[m], filed'[m], moment')
  <2>1. PICK c \in VesselStates, f \in VesselStates : c = cached[m] /\ f = filed[m]  BY DEF ReadsInv, ReadsTyped
  <2>2. PICK t \in Nat : t = moment /\ moment' = t + 1  BY <1>1
  <2>3. BoatFollows(c, f, t)  BY <2>1, <2>2 DEF ReadsInv, RecordFollows
  <2>4. c.seen \in Int /\ c.posAt \in Int /\ f.seen \in Int /\ f.posAt \in Int  BY StateFields
  <2>5. BoatFollows(c, f, t + 1)  BY <1>1, <2>3, <2>4 DEF BoatFollows
  <2> QED  BY <1>1, <2>1, <2>2, <2>5
<1>4. ASSUME request'.pc # "idle", NEW m \in Boats PROVE BoatHolds(request', cached'[m], filed'[m], m)
  BY <1>1, <1>4 DEF ReadsInv, RequestHolds
<1> QED  BY <1>2, <1>3, <1>4, ReadsByBoat

\* A request's reading takes what there is of a boat.
LEMMA ReadHolds ==
    ASSUME ReadsInv, NEW b \in Boats, NEW q, q.had = cached, q.rows = filed, q.heard = {}, q.swept = {},
           q.pc # "merge", q.kind = "tile" => q.now = moment,
           q.pc # "cache" /\ q.kind \notin Searches \union {"tile"} =>
             /\ b \in DOMAIN q.first <=> CacheFinds(q.kind, cached[b], q.now)
             /\ b \in DOMAIN q.first => q.first[b] = cached[b]
    PROVE  BoatHolds(q, cached[b], filed[b], b)
<1>1. PICK c \in VesselStates, f \in VesselStates : c = cached[b] /\ f = filed[b]  BY DEF ReadsInv, ReadsTyped
<1>2. BoatFollows(c, f, moment)  BY <1>1 DEF ReadsInv, RecordFollows
<1>3. Newer(c, c) /\ Newer(f, f)  BY NewerItself
<1>4. q.had[b] = c /\ q.rows[b] = f  BY <1>1
<1>5. q.kind = "tile" /\ ~Known(c) => f = Unknown \/ f.seen < q.now - CacheAge  BY <1>2 DEF BoatFollows
<1>6. BoatHolds(q, c, f, b)  BY <1>1, <1>2, <1>3, <1>4, <1>5 DEF BoatHolds, BoatFollows
<1> QED  BY <1>1, <1>6

\* A request begins, reads the cache and reads the record.
LEMMA RequestSteps ==
    ASSUME ReadsInv, (\E kind \in Kinds : Begin(kind)) \/ ReadCache \/ ReadRecord \/ Answer
    PROVE  ReadsInv'
<1>1. UNCHANGED <<moment, cached, filed>>  BY DEF Begin, ReadCache, ReadRecord, Answer
<1>2. \A b \in Boats : BoatFollows(cached'[b], filed'[b], moment')  BY <1>1 DEF ReadsInv, RecordFollows
<1>3. moment \in Nat /\ request.pc \in {"idle", "cache", "record", "merge"}
      /\ (request.pc # "idle" => request.kind \in Kinds /\ request.now \in Nat)
      /\ (request.pc = "cache" => request.kind \notin Searches \union {"tile"})
  BY DEF ReadsInv, ReadsTyped
<1>4. ASSUME NEW kind \in Kinds, Begin(kind) PROVE ReadsInv'
  <2>1. PICK pc : pc = IF kind = "tile" \/ kind \in Searches THEN "record" ELSE "cache"  OBVIOUS
  <2>2. PICK q : q = request'  OBVIOUS
  <2>3. q = [kind |-> kind, pc |-> pc, now |-> moment, first |-> NoBoats, recs |-> NoBoats,
             had |-> cached, rows |-> filed, heard |-> {}, swept |-> {}]
    BY <1>4, <2>1, <2>2 DEF Begin, FirstRead, NoRequest
  <2>4. q.kind = kind /\ q.pc = pc /\ q.now = moment /\ q.had = cached /\ q.rows = filed /\ q.heard = {} /\ q.swept = {}
    BY <2>3
  <2>5. pc \in {"cache", "record"} /\ (pc = "record" <=> kind \in Searches \union {"tile"})  BY <2>1
  <2>6. ReadsTyped'  BY <1>1, <1>3, <2>2, <2>4, <2>5 DEF ReadsInv, ReadsTyped
  <2>7. ASSUME NEW b \in Boats PROVE BoatHolds(q, cached[b], filed[b], b)  BY <2>4, <2>5, ReadHolds
  <2> QED  BY <1>1, <1>2, <2>2, <2>6, <2>7, ReadsByBoat
<1>5. CASE ReadCache
  <2>1. PICK taken : taken = Restrict(cached, FromCache(request.kind, request.now))  OBVIOUS
  <2>2. PICK q : q = request'  OBVIOUS
  <2>3. request.pc = "cache" /\ q = FirstRead([request EXCEPT !.pc = "record", !.first = taken])
    BY <1>5, <2>1, <2>2 DEF ReadCache
  <2>4. /\ q.kind = request.kind /\ q.now = request.now /\ q.pc = "record" /\ q.first = taken
        /\ q.had = cached /\ q.rows = filed /\ q.heard = {} /\ q.swept = {}
    BY <2>3 DEF FirstRead
  <2>5. ReadsTyped'  BY <1>1, <1>3, <2>2, <2>3, <2>4 DEF ReadsInv, ReadsTyped
  <2>6. ASSUME NEW b \in Boats PROVE BoatHolds(q, cached[b], filed[b], b)
    <3>1. /\ b \in DOMAIN taken <=> b \in FromCache(request.kind, request.now)
          /\ b \in DOMAIN taken => taken[b] = cached[b]
      BY <2>1 DEF Restrict
    <3>2. b \in DOMAIN taken <=> CacheFinds(request.kind, cached[b], request.now)  BY <3>1, FromCacheIs
    <3>3. q.kind # "tile"  BY <1>3, <2>3, <2>4
    <3> QED  BY <2>4, <3>1, <3>2, <3>3, ReadHolds
  <2> QED  BY <1>1, <1>2, <2>2, <2>5, <2>6, ReadsByBoat
<1>6. CASE ReadRecord
  <2>1. PICK taken : taken = Restrict(filed, FromRecord(request.kind, request.now))  OBVIOUS
  <2>2. PICK q : q = request'  OBVIOUS
  <2>3. request.pc = "record" /\ q = [request EXCEPT !.pc = "merge", !.recs = taken]
    BY <1>6, <2>1, <2>2 DEF ReadRecord
  <2>4. /\ q.kind = request.kind /\ q.now = request.now /\ q.pc = "merge" /\ q.recs = taken /\ q.first = request.first
        /\ q.had = request.had /\ q.rows = request.rows /\ q.heard = request.heard /\ q.swept = request.swept
    BY <2>3
  <2>5. ReadsTyped'  BY <1>1, <1>3, <2>2, <2>3, <2>4 DEF ReadsInv, ReadsTyped
  <2>6. ASSUME NEW b \in Boats PROVE BoatHolds(q, cached[b], filed[b], b)
    <3>1. PICK c \in VesselStates, f \in VesselStates : c = cached[b] /\ f = filed[b]  BY DEF ReadsInv, ReadsTyped
    <3>2. BoatHolds(request, c, f, b)  BY <2>3, <3>1 DEF ReadsInv, RequestHolds
    <3>3. Behind(f, c)  BY <3>1 DEF ReadsInv, RecordFollows, BoatFollows
    <3>4. /\ b \in DOMAIN taken <=> b \in FromRecord(request.kind, request.now)
          /\ b \in DOMAIN taken => taken[b] = f
      BY <2>1, <3>1 DEF Restrict
    <3>5. b \in DOMAIN taken <=> MirrorFinds(request.kind, f, request.now) \/ SearchFinds(request.kind, f)
      BY <3>1, <3>4, FromRecordIs
    <3>6. Newer(f, f)  BY NewerItself
    <3>7. Newer(f, q.rows[b])  BY <2>4, <3>2 DEF BoatHolds
    <3>8. RowRead(q, f, c, f, b)  BY <2>4, <3>3, <3>4, <3>5, <3>6, <3>7 DEF RowRead
    <3>9. Quiet(q, b) <=> Quiet(request, b)  BY <2>4 DEF Quiet
    <3>10. request.pc # "cache"  BY <2>3
    <3>11. BoatHolds(q, c, f, b)  BY <2>4, <3>2, <3>8, <3>9, <3>10 DEF BoatHolds
    <3> QED  BY <3>1, <3>11
  <2> QED  BY <1>1, <1>2, <2>2, <2>5, <2>6, ReadsByBoat
<1>7. CASE Answer
  <2>1. request'.pc = "idle"  BY <1>7 DEF Answer, NoRequest
  <2>2. ReadsTyped'  BY <1>1, <2>1 DEF ReadsInv, ReadsTyped
  <2> QED  BY <1>2, <2>1, <2>2, ReadsByBoat
<1> QED  BY <1>4, <1>5, <1>6, <1>7

\* While a request is under way cache and record run forward of what it first
\* read, the sweep apart, and a boat neither heard nor swept only the flush moved.
THEOREM RequestsHold == ReadsSpec => []ReadsInv
<1>1. ReadsInit => ReadsInv
  <2> SUFFICES ASSUME ReadsInit PROVE ReadsInv  OBVIOUS
  <2>1. cached = [b \in Boats |-> Unknown] /\ filed = cached /\ moment = 0 /\ request.pc = "idle"
    BY DEF ReadsInit, NoRequest
  <2>2. ReadsTyped /\ RequestHolds  BY <2>1, NeverHeard DEF ReadsTyped, RequestHolds
  <2>3. RecordFollows  BY <2>1, NeverHeard DEF RecordFollows, BoatFollows, Behind, Known
  <2> QED  BY <2>2, <2>3 DEF ReadsInv
<1>2. ReadsInv /\ [ReadsNext]_readVars => ReadsInv'
  <2> SUFFICES ASSUME ReadsInv, [ReadsNext]_readVars PROVE ReadsInv'  OBVIOUS
  <2>1. CASE UNCHANGED readVars
    <3>1. UNCHANGED <<moment, cached, filed, request>>  BY <2>1 DEF readVars
    <3> QED  BY <3>1 DEF ReadsInv, ReadsTyped, RecordFollows, RequestHolds
  <2> QED  BY <2>1, ReportStep, WriteStep, SweepStep, PassStep, RequestSteps DEF ReadsNext
<1> QED  BY <1>1, <1>2, PTL DEF ReadsSpec

\* What is so of a boat when its request is answered: what the cache and the
\* record had of it at the first reading (c0 and r0), what they hold now (c and
\* f), and the row read in between.
MergeKnows(b, c0, r0, c, f, r) ==
  /\ c0 = request.had[b] /\ r0 = request.rows[b] /\ c = cached[b] /\ f = filed[b]
  /\ Behind(r0, c0) /\ Newer(r, r0)
  /\ b \notin request.swept => Newer(c, c0) /\ Behind(r, c)
  /\ b \notin request.heard => c \in {c0, Unknown}
  /\ b \notin request.heard \union request.swept => c = c0 /\ r \in {r0, f} /\ f \in {r0, Merged(c0, r0)} /\ Behind(r, c)
  /\ request.kind = "tile" /\ ~Known(c0) => r0 = Unknown \/ r0.seen < request.now - CacheAge
  /\ request.kind \notin Searches \union {"tile"} =>
       /\ b \in DOMAIN request.first <=> CacheFinds(request.kind, c0, request.now)
       /\ b \in DOMAIN request.first => request.first[b] = c0
  /\ b \in DOMAIN request.recs <=> MirrorFinds(request.kind, r, request.now) \/ SearchFinds(request.kind, r)
  /\ b \in DOMAIN request.recs => request.recs[b] = r /\ NewestState(b) = Merged(c, r)

LEMMA MergeFinds ==
    ASSUME ReadsInv, Answer, NEW b \in Boats
    PROVE  \E c0, r0, c, f, r \in VesselStates : MergeKnows(b, c0, r0, c, f, r)
<1>1. request.pc = "merge"  BY DEF Answer
<1>2. PICK c \in VesselStates, f \in VesselStates : c = cached[b] /\ f = filed[b]  BY DEF ReadsInv, ReadsTyped
<1>3. BoatHolds(request, c, f, b)  BY <1>1, <1>2 DEF ReadsInv, RequestHolds
<1>4. PICK c0 \in VesselStates, r0 \in VesselStates : c0 = request.had[b] /\ r0 = request.rows[b]
  BY <1>3 DEF BoatHolds
<1>5. PICK r \in VesselStates : RowRead(request, r, c, f, b)  BY <1>1, <1>3 DEF BoatHolds
<1>6. b \in DOMAIN request.recs => NewestState(b) = Merged(c, r)  BY <1>2, <1>5 DEF NewestState, RowRead
<1>7. Quiet(request, b) <=> b \notin request.heard \union request.swept  BY DEF Quiet
<1>8. Behind(r0, c0) /\ Newer(r, r0) /\ (b \notin request.swept => Newer(c, c0) /\ Behind(r, c))
  BY <1>3, <1>4, <1>5 DEF BoatHolds, RowRead
<1>9. b \notin request.heard \union request.swept =>
        c = c0 /\ r \in {r0, f} /\ f \in {r0, Merged(c0, r0)} /\ Behind(r, c)
  BY <1>3, <1>4, <1>5, <1>7, <1>8 DEF BoatHolds, RowRead
<1>10. MergeKnows(b, c0, r0, c, f, r)
  <2>1. b \notin request.heard => c \in {c0, Unknown}  BY <1>3, <1>4 DEF BoatHolds
  <2>2. request.kind = "tile" /\ ~Known(c0) => r0 = Unknown \/ r0.seen < request.now - CacheAge
    BY <1>3, <1>4 DEF BoatHolds
  <2>3. request.kind \notin Searches \union {"tile"} =>
          /\ b \in DOMAIN request.first <=> CacheFinds(request.kind, c0, request.now)
          /\ b \in DOMAIN request.first => request.first[b] = c0
    BY <1>1, <1>3, <1>4 DEF BoatHolds
  <2>4. /\ b \in DOMAIN request.recs <=> MirrorFinds(request.kind, r, request.now) \/ SearchFinds(request.kind, r)
        /\ b \in DOMAIN request.recs => request.recs[b] = r
    BY <1>5 DEF RowRead
  <2> QED  BY <1>2, <1>4, <1>6, <1>8, <1>9, <2>1, <2>2, <2>3, <2>4 DEF MergeKnows
<1> QED  BY <1>10

\* Which boats an answer has, and of what it makes their states.
LEMMA ListIs ==
    ASSUME Answer, request.kind \in {"area", "named"}, NEW b
    PROVE  /\ b \in DOMAIN answer' <=>
                b \in DOMAIN request.first \/ (b \in DOMAIN request.recs /\ ~Positioned(cached[b]))
           /\ b \in DOMAIN answer' =>
                answer'[b] = IF b \in DOMAIN request.recs /\ (b \notin DOMAIN request.first \/ NewestState(b) # cached[b])
                             THEN NewestState(b) ELSE request.first[b]
<1>1. answer' = ListAnswer  BY DEF Answer, Searches
<1>2. PICK extra : extra = {x \in DOMAIN request.recs : RecordCounts(x)}  OBVIOUS
<1>3. b \in extra <=> b \in DOMAIN request.recs /\ (b \in DOMAIN request.first \/ ~Positioned(cached[b]))
  BY <1>2 DEF RecordCounts
<1>4. /\ b \in DOMAIN answer' <=> b \in DOMAIN request.first \/ b \in extra
      /\ b \in DOMAIN answer' =>
           answer'[b] = IF b \in extra /\ (b \notin DOMAIN request.first \/ NewestState(b) # cached[b])
                        THEN NewestState(b) ELSE request.first[b]
  BY <1>1, <1>2 DEF ListAnswer
<1> QED  BY <1>3, <1>4

LEMMA TileIs ==
    ASSUME Answer, request.kind = "tile", NEW b \in Boats
    PROVE  /\ b \in DOMAIN answer' <=>
                CacheFinds("tile", cached[b], request.now) \/ (b \in DOMAIN request.recs /\ ~Known(cached[b]))
           /\ b \in DOMAIN answer' =>
                answer'[b] = IF CacheFinds("tile", cached[b], request.now) THEN cached[b] ELSE request.recs[b]
<1>1. answer' = TileAnswer  BY DEF Answer, Searches
<1>2. PICK f : f = Restrict(cached, FromCache("tile", request.now))  OBVIOUS
<1>3. PICK g : g = Restrict(request.recs, {x \in DOMAIN request.recs : ~Known(cached[x])})  OBVIOUS
<1>4. /\ b \in DOMAIN f <=> CacheFinds("tile", cached[b], request.now)
      /\ b \in DOMAIN f => f[b] = cached[b]
  BY <1>2, FromCacheIs DEF Restrict
<1>5. /\ b \in DOMAIN g <=> b \in DOMAIN request.recs /\ ~Known(cached[b])
      /\ b \in DOMAIN g => g[b] = request.recs[b]
  BY <1>3 DEF Restrict
<1>6. /\ b \in DOMAIN answer' <=> b \in DOMAIN f \/ b \in DOMAIN g
      /\ b \in DOMAIN answer' => answer'[b] = IF b \in DOMAIN f THEN f[b] ELSE g[b]
  BY <1>1, <1>2, <1>3 DEF TileAnswer, Either
<1> QED  BY <1>4, <1>5, <1>6

LEMMA NearIs == ASSUME Answer, request.kind = "near" PROVE answer' = request.first
  BY DEF Answer, Searches

LEMMA CentreIs ==
    ASSUME Answer, request.kind = "centre", NEW b
    PROVE  /\ b \in DOMAIN answer' <=> b \in DOMAIN request.first \/ b \in DOMAIN request.recs
           /\ b \in DOMAIN answer' => answer'[b] = IF b \in DOMAIN request.first THEN request.first[b] ELSE request.recs[b]
<1>1. answer' = CentreAnswer  BY DEF Answer, Searches
<1> QED  BY <1>1 DEF CentreAnswer, Either

LEMMA VesselIs ==
    ASSUME Answer, request.kind = "vessel", NEW b
    PROVE  /\ b \in DOMAIN answer' <=> b \in DOMAIN request.first \/ b \in DOMAIN request.recs
           /\ b \in DOMAIN answer' =>
                answer'[b] = IF b \notin DOMAIN request.first THEN request.recs[b]
                             ELSE IF b \notin DOMAIN request.recs THEN request.first[b]
                             ELSE Merged(request.first[b], request.recs[b])
<1>1. answer' = VesselAnswer  BY DEF Answer, Searches
<1> QED  BY <1>1 DEF VesselAnswer

LEMMA GetIs ==
    ASSUME Answer, request.kind = "get", NEW b
    PROVE  /\ b \in DOMAIN answer' <=> b \in DOMAIN request.first \/ b \in DOMAIN request.recs
           /\ b \in DOMAIN answer' => answer'[b] = IF b \in DOMAIN request.recs THEN NewestState(b) ELSE request.first[b]
<1>1. answer' = GetAnswer  BY DEF Answer, Searches
<1>2. PICK f : f = [x \in DOMAIN request.recs |-> NewestState(x)]  OBVIOUS
<1>3. /\ b \in DOMAIN f <=> b \in DOMAIN request.recs
      /\ b \in DOMAIN f => f[b] = NewestState(b)
  BY <1>2
<1>4. /\ b \in DOMAIN answer' <=> b \in DOMAIN f \/ b \in DOMAIN request.first
      /\ b \in DOMAIN answer' => answer'[b] = IF b \in DOMAIN f THEN f[b] ELSE request.first[b]
  BY <1>1, <1>2 DEF GetAnswer, Either
<1> QED  BY <1>3, <1>4

LEMMA SearchIs ==
    ASSUME Answer, request.kind \in Searches, NEW b
    PROVE  /\ b \in DOMAIN answer' <=>
                b \in DOMAIN request.recs /\ (request.kind = "search" => InBox(NewestState(b)))
           /\ b \in DOMAIN answer' => answer'[b] = NewestState(b)
<1>1. PICK f : f = PrefixAnswer  OBVIOUS
<1>2. /\ b \in DOMAIN f <=> b \in DOMAIN request.recs
      /\ b \in DOMAIN f => f[b] = NewestState(b)
  BY <1>1 DEF PrefixAnswer
<1>3. CASE request.kind = "prefix"
  <2>1. answer' = f  BY <1>1, <1>3 DEF Answer, Searches
  <2> QED  BY <1>2, <1>3, <2>1
<1>4. CASE request.kind = "search"
  <2>1. answer' = Restrict(f, {x \in DOMAIN request.recs : InBox(NewestState(x))})
    BY <1>1, <1>4 DEF Answer, Searches, NameAnswer
  <2>2. /\ b \in DOMAIN answer' <=> b \in DOMAIN request.recs /\ InBox(NewestState(b))
        /\ b \in DOMAIN answer' => answer'[b] = f[b]
    BY <2>1 DEF Restrict
  <2> QED  BY <1>2, <1>4, <2>2
<1> QED  BY <1>3, <1>4 DEF Searches

\* What a merge has a position or anything of.
LEMMA MergedHas ==
    ASSUME NEW c \in VesselStates, NEW r \in VesselStates, Behind(r, c)
    PROVE  /\ Positioned(Merged(c, r)) <=> Positioned(c) \/ Positioned(r)
           /\ Known(Merged(c, r)) <=> Known(c) \/ Known(r)
           /\ Positioned(c) => Merged(c, r) = c
           /\ Known(c) /\ ~Known(r) => Merged(c, r) = c
           /\ ~Known(c) => Merged(c, r) = r
<1>1. /\ Positioned(c) => Known(c)
      /\ Positioned(r) => Known(r)
      /\ (Known(c) <=> c.seen # -1) /\ (Known(r) <=> r.seen # -1)
  BY StateFields
<1>2. PICK n \in VesselStates : n = Merged(c, r) /\ Newer(n, c) /\ Newer(n, r)  BY MergedNewer
<1>3. /\ ~Known(c) => n = r
      /\ Known(c) /\ (Positioned(c) \/ ~Positioned(r)) => n = c
  BY <1>2, MergedIs
<1>4. Known(n) <=> Known(c) \/ Known(r)
  <2>1. n.seen >= c.seen /\ n.seen >= r.seen  BY <1>2 DEF Newer
  <2>2. n.seen \in Nat \union {-1} /\ c.seen \in Nat \union {-1} /\ r.seen \in Nat \union {-1} /\ (Known(n) <=> n.seen # -1)
    BY StateFields
  <2>3. Known(c) \/ Known(r) => Known(n)  BY <1>1, <2>1, <2>2
  <2>4. ~Known(c) /\ ~Known(r) => ~Known(n)  BY <1>3
  <2> QED  BY <2>3, <2>4
<1>5. Positioned(n) <=> Positioned(c) \/ Positioned(r)
  <2>1. Positioned(c) \/ Positioned(r) => Positioned(n)  BY <1>2 DEF Newer
  <2>2. ~Positioned(c) /\ ~Positioned(r) => ~Positioned(n)  BY <1>3
  <2> QED  BY <2>1, <2>2
<1> QED  BY <1>1, <1>2, <1>3, <1>4, <1>5

\* The answer of a boat neither heard nor swept since the request first read.
LEMMA AnsweredWith ==
    ASSUME ReadsInv, Answer, NEW b \in Boats, b \notin request.heard \union request.swept
    PROVE  AnswersInFull(b)
<1>1. request.kind \in Kinds  BY DEF Answer, ReadsInv, ReadsTyped
<1>2. PICK c0 \in VesselStates, r0 \in VesselStates, c \in VesselStates, f \in VesselStates, r \in VesselStates :
        MergeKnows(b, c0, r0, c, f, r)
  BY MergeFinds
<1>3. PICK t : t = request.now  OBVIOUS
<1>4. /\ c = cached[b] /\ c = c0 /\ r \in {request.rows[b], filed[b]} /\ Behind(r, c) /\ Newer(r, r0)
      /\ request.kind = "tile" /\ ~Known(c) => r0 = Unknown \/ r0.seen < t - CacheAge
      /\ request.kind \notin Searches \union {"tile"} =>
           /\ b \in DOMAIN request.first <=> CacheFinds(request.kind, c, t)
           /\ b \in DOMAIN request.first => request.first[b] = c
      /\ b \in DOMAIN request.recs <=> MirrorFinds(request.kind, r, t) \/ SearchFinds(request.kind, r)
      /\ b \in DOMAIN request.recs => request.recs[b] = r /\ NewestState(b) = Merged(c, r)
  BY <1>2, <1>3 DEF MergeKnows
<1>5. PICK n : n = Merged(c, r)  OBVIOUS
<1>6. /\ Positioned(n) <=> Positioned(c) \/ Positioned(r)
      /\ Known(n) <=> Known(c) \/ Known(r)
      /\ Positioned(c) => n = c
      /\ Known(c) /\ ~Known(r) => n = c
      /\ ~Known(c) => n = r
  BY <1>4, <1>5, MergedHas
<1>7. /\ Positioned(c) => Known(c)
      /\ Positioned(r) => Known(r)
      /\ InBox(c) => Positioned(c)
      /\ InBox(r) => Positioned(r)
  BY StateFields
<1>8. /\ HeldOr(c, r) = (IF Known(c) THEN c ELSE r)
      /\ Placed(c, r) = (IF Positioned(c) THEN c ELSE r)
  BY DEF HeldOr, Placed
<1> SUFFICES /\ b \in DOMAIN answer' <=> AskedFor(request.kind, c, r, t)
             /\ b \in DOMAIN answer' => answer'[b] = AnswerOf(request.kind, c, r)
  BY <1>3, <1>4 DEF AnswersInFull
<1>9. CASE request.kind \in {"area", "named"}
  <2>1. AnswerOf(request.kind, c, r) = n  BY <1>5, <1>9 DEF AnswerOf
  <2>2. /\ b \in DOMAIN answer' <=> b \in DOMAIN request.first \/ (b \in DOMAIN request.recs /\ ~Positioned(c))
        /\ b \in DOMAIN answer' =>
             answer'[b] = IF b \in DOMAIN request.recs /\ (b \notin DOMAIN request.first \/ NewestState(b) # c)
                          THEN NewestState(b) ELSE request.first[b]
    BY <1>4, <1>9, ListIs
  <2>3. /\ b \in DOMAIN request.first <=> CacheFinds(request.kind, c, t)
        /\ b \in DOMAIN request.first => request.first[b] = c
    BY <1>4, <1>9 DEF Searches
  <2>4. b \in DOMAIN request.first => Positioned(c)  BY <2>3, <1>7, <1>9 DEF CacheFinds, Shown
  <2>5. b \in DOMAIN answer' => answer'[b] = n  BY <2>2, <2>3, <2>4, <1>4, <1>5, <1>6
  <2>6. CASE request.kind = "named"
    <3>1. b \in DOMAIN request.first <=> Positioned(c)  BY <2>3, <2>6 DEF CacheFinds
    <3>2. b \in DOMAIN request.recs <=> Positioned(r)  BY <2>6, <1>4 DEF MirrorFinds, SearchFinds, Searches
    <3>3. AskedFor(request.kind, c, r, t) <=> Positioned(n)  BY <2>6, <1>5 DEF AskedFor
    <3> QED  BY <2>1, <2>2, <2>5, <3>1, <3>2, <3>3, <1>6
  <2>7. CASE request.kind = "area"
    <3>1. b \in DOMAIN request.first <=> Shown(c, t)  BY <2>3, <2>7 DEF CacheFinds
    <3>2. b \in DOMAIN request.recs <=> Shown(r, t) /\ r.seen < t - CacheAge
      BY <2>7, <1>4 DEF MirrorFinds, SearchFinds, Searches
    <3>3. AskedFor(request.kind, c, r, t) <=> Shown(Placed(c, r), t) /\ (Positioned(c) \/ r.seen < t - CacheAge)
      BY <2>7 DEF AskedFor
    <3>4. Shown(c, t) => Positioned(c)  BY <1>7 DEF Shown
    <3>5. b \in DOMAIN answer' <=> AskedFor(request.kind, c, r, t)  BY <2>2, <3>1, <3>2, <3>3, <3>4, <1>8
    <3> QED  BY <2>1, <2>5, <3>5
  <2> QED  BY <2>6, <2>7, <1>9
<1>10. CASE request.kind = "tile"
  <2>1. /\ b \in DOMAIN answer' <=> CacheFinds("tile", c, t) \/ (b \in DOMAIN request.recs /\ ~Known(c))
        /\ b \in DOMAIN answer' => answer'[b] = IF CacheFinds("tile", c, t) THEN c ELSE request.recs[b]
    BY <1>3, <1>4, <1>10, TileIs
  <2>2. CacheFinds("tile", c, t) <=> Shown(c, t)  BY DEF CacheFinds
  <2>3. b \in DOMAIN request.recs <=> Shown(r, t) /\ r.seen < t - CacheAge
    BY <1>4, <1>10 DEF MirrorFinds, SearchFinds, Searches
  <2>4. Shown(c, t) => Known(c)  BY <1>7 DEF Shown
  <2>5. ~Known(c) /\ Shown(r, t) => r.seen < t - CacheAge
    <3>1. c = c0 /\ r \in {r0, f} /\ f \in {r0, Merged(c0, r0)}  BY <1>2 DEF MergeKnows
    <3>2. ~Shown(Unknown, t)  BY NeverHeard DEF Shown
    <3>3. ~Known(c) => r = r0  BY <3>1 DEF Merged
    <3> QED  BY <3>2, <3>3, <1>4, <1>10
  <2>6. AskedFor(request.kind, c, r, t) <=> Shown(HeldOr(c, r), t)  BY <1>10 DEF AskedFor
  <2>7. AnswerOf(request.kind, c, r) = HeldOr(c, r)  BY <1>10 DEF AnswerOf
  <2>8. b \in DOMAIN answer' <=> AskedFor(request.kind, c, r, t)  BY <2>1, <2>2, <2>3, <2>4, <2>5, <2>6, <1>8
  <2> QED  BY <2>1, <2>2, <2>4, <2>7, <2>8, <1>4, <1>8
<1>11. CASE request.kind = "near"
  <2>1. /\ b \in DOMAIN request.first <=> InBox(c)
        /\ b \in DOMAIN request.first => request.first[b] = c
    BY <1>4, <1>11 DEF CacheFinds, Searches
  <2>2. AskedFor(request.kind, c, r, t) <=> InBox(c)  BY <1>11 DEF AskedFor
  <2>3. AnswerOf(request.kind, c, r) = HeldOr(c, r)  BY <1>11 DEF AnswerOf
  <2> QED  BY <2>1, <2>2, <2>3, <1>7, <1>8, <1>11, NearIs
<1>12. CASE request.kind = "centre"
  <2>1. /\ b \in DOMAIN request.first <=> Positioned(c)
        /\ b \in DOMAIN request.first => request.first[b] = c
    BY <1>4, <1>12 DEF CacheFinds, Searches
  <2>2. b \in DOMAIN request.recs <=> Positioned(r)  BY <1>4, <1>12 DEF MirrorFinds, SearchFinds, Searches
  <2>3. AskedFor(request.kind, c, r, t) <=> Positioned(n)  BY <1>5, <1>12 DEF AskedFor
  <2>4. AnswerOf(request.kind, c, r) = Placed(c, r)  BY <1>12 DEF AnswerOf
  <2> QED  BY <2>1, <2>2, <2>3, <2>4, <1>4, <1>6, <1>8, <1>12, CentreIs
<1>13. CASE request.kind \in {"vessel", "get"}
  <2>1. /\ b \in DOMAIN request.first <=> Known(c)
        /\ b \in DOMAIN request.first => request.first[b] = c
    BY <1>4, <1>13 DEF CacheFinds, Searches
  <2>2. b \in DOMAIN request.recs <=> Known(r)  BY <1>4, <1>13 DEF MirrorFinds, SearchFinds, Searches
  <2>3. AskedFor(request.kind, c, r, t) <=> Known(n)  BY <1>5, <1>13 DEF AskedFor
  <2>4. AnswerOf(request.kind, c, r) = n  BY <1>5, <1>13 DEF AnswerOf
  <2>5. CASE request.kind = "vessel"  BY <2>1, <2>2, <2>3, <2>4, <2>5, <1>4, <1>5, <1>6, VesselIs
  <2>6. CASE request.kind = "get"  BY <2>1, <2>2, <2>3, <2>4, <2>6, <1>4, <1>5, <1>6, GetIs
  <2> QED  BY <2>5, <2>6, <1>13
<1>14. CASE request.kind \in Searches
  <2>1. b \in DOMAIN request.recs <=> InBox(r)  BY <1>4, <1>14 DEF MirrorFinds, SearchFinds, Searches
  <2>2. AskedFor(request.kind, c, r, t) <=> InBox(r) /\ (request.kind = "search" => InBox(n))
    BY <1>5, <1>14 DEF AskedFor, Searches
  <2>3. AnswerOf(request.kind, c, r) = n  BY <1>5, <1>14 DEF AnswerOf, Searches
  <2> QED  BY <2>1, <2>2, <2>3, <1>4, <1>5, <1>14, SearchIs
<1> QED  BY <1>1, <1>9, <1>10, <1>11, <1>12, <1>13, <1>14 DEF Kinds

\* A boat asked for itself is found by the one reading or the other.
LEMMA StillAnswered ==
    ASSUME ReadsInv, Answer, NEW b \in Boats
    PROVE  StillAnswers(b)
<1>1. PICK c0 \in VesselStates, r0 \in VesselStates, c \in VesselStates, f \in VesselStates, r \in VesselStates :
        MergeKnows(b, c0, r0, c, f, r)
  BY MergeFinds
<1>2. PICK t : t = request.now  OBVIOUS
<1>3. /\ c = cached[b] /\ Behind(r0, c0) /\ Newer(r, r0)
      /\ b \notin request.heard => c \in {c0, Unknown}
      /\ request.kind \notin Searches \union {"tile"} => (b \in DOMAIN request.first <=> CacheFinds(request.kind, c0, t))
      /\ b \in DOMAIN request.recs <=> MirrorFinds(request.kind, r, t) \/ SearchFinds(request.kind, r)
  BY <1>1, <1>2 DEF MergeKnows
<1>4. /\ Positioned(Was(b)) <=> Positioned(c0) \/ Positioned(r0)
      /\ Known(Was(b)) <=> Known(c0) \/ Known(r0)
  BY <1>1, <1>3, MergedHas DEF MergeKnows, Was
<1>5. Positioned(r0) => Positioned(r)  BY <1>3 DEF Newer
<1>6. Known(r0) => Known(r)
  <2>1. r.seen >= r0.seen  BY <1>3 DEF Newer
  <2> QED  BY <2>1, StateFields
<1>7. CASE request.kind = "named"
  <2>1. b \in DOMAIN request.first <=> Positioned(c0)  BY <1>3, <1>7 DEF CacheFinds, Searches
  <2>2. b \in DOMAIN request.recs <=> Positioned(r)  BY <1>3, <1>7 DEF MirrorFinds, SearchFinds, Searches
  <2>3. b \notin request.heard /\ ~Positioned(c0) => ~Positioned(c)  BY <1>3, NeverHeard
  <2>4. b \in DOMAIN answer' <=> b \in DOMAIN request.first \/ (b \in DOMAIN request.recs /\ ~Positioned(c))
    BY <1>3, <1>7, ListIs
  <2> QED  BY <2>1, <2>2, <2>3, <2>4, <1>4, <1>5, <1>7 DEF StillAnswers
<1>8. CASE request.kind = "centre"
  <2>1. b \in DOMAIN request.first <=> Positioned(c0)  BY <1>3, <1>8 DEF CacheFinds, Searches
  <2>2. b \in DOMAIN request.recs <=> Positioned(r)  BY <1>3, <1>8 DEF MirrorFinds, SearchFinds, Searches
  <2> QED  BY <2>1, <2>2, <1>4, <1>5, <1>8, CentreIs DEF StillAnswers
<1>9. CASE request.kind \in {"vessel", "get"}
  <2>1. b \in DOMAIN request.first <=> Known(c0)  BY <1>3, <1>9 DEF CacheFinds, Searches
  <2>2. b \in DOMAIN request.recs <=> Known(r)  BY <1>3, <1>9 DEF MirrorFinds, SearchFinds, Searches
  <2>3. b \in DOMAIN answer' <=> b \in DOMAIN request.first \/ b \in DOMAIN request.recs  BY <1>9, VesselIs, GetIs
  <2> QED  BY <2>1, <2>2, <2>3, <1>4, <1>6, <1>9 DEF StillAnswers
<1>10. CASE request.kind \notin {"named", "centre", "vessel", "get"}  BY <1>10 DEF StillAnswers
<1> QED  BY <1>7, <1>8, <1>9, <1>10

\* No answer goes back behind what was known of its boat at the first reading.
LEMMA AnsweredNoOlder ==
    ASSUME ReadsInv, Answer, NEW b \in Boats
    PROVE  AnswersNothingOlder(b)
<1>1. PICK c0 \in VesselStates, r0 \in VesselStates, c \in VesselStates, f \in VesselStates, r \in VesselStates :
        MergeKnows(b, c0, r0, c, f, r)
  BY MergeFinds
<1>2. PICK t : t = request.now  OBVIOUS
<1>3. /\ c = cached[b] /\ Behind(r0, c0) /\ Newer(r, r0)
      /\ b \notin request.swept => Newer(c, c0) /\ Behind(r, c)
      /\ request.kind \notin Searches \union {"tile"} =>
           /\ b \in DOMAIN request.first <=> CacheFinds(request.kind, c0, t)
           /\ b \in DOMAIN request.first => request.first[b] = c0
      /\ b \in DOMAIN request.recs <=> MirrorFinds(request.kind, r, t) \/ SearchFinds(request.kind, r)
      /\ b \in DOMAIN request.recs => request.recs[b] = r /\ NewestState(b) = Merged(c, r)
  BY <1>1, <1>2 DEF MergeKnows
<1>4. PICK w \in VesselStates : w = Was(b) /\ w = Merged(c0, r0)  BY <1>1, MergedNewer DEF MergeKnows, Was
<1>5. /\ Positioned(c0) => w = c0
      /\ Known(c0) /\ ~Known(r0) => w = c0
      /\ ~Known(c0) => w = r0
      /\ Positioned(w) <=> Positioned(c0) \/ Positioned(r0)
  BY <1>3, <1>4, MergedHas
<1>6. /\ InBox(c0) => Positioned(c0)
      /\ InBox(c) => Positioned(c)
      /\ Positioned(c) => Known(c)
      /\ Positioned(c0) => Known(c0)
  BY StateFields
<1>7. Newer(c0, c0)  BY NewerItself
<1>8. \A x \in VesselStates : Newer(x, c0) /\ Newer(x, r0) => Newer(x, w)  BY <1>3, <1>4, NewerThanBoth
<1>9. PICK n \in VesselStates : n = Merged(c, r) /\ Newer(n, c) /\ Newer(n, r)  BY MergedNewer
<1>10. b \notin request.swept => Newer(n, w)
  <2>1. Newer(n, r0)  BY <1>3, <1>9, NewerYet
  <2>2. b \notin request.swept => Newer(n, c0)  BY <1>3, <1>9, NewerYet
  <2> QED  BY <2>1, <2>2, <1>8
<1>11. ~Known(r) => ~Known(r0)
  <2>1. r.seen >= r0.seen  BY <1>3 DEF Newer
  <2> QED  BY <2>1, StateFields
<1>12. b \in DOMAIN answer' /\ request.kind # "centre"
       /\ (request.kind \in {"near", "vessel"} \/ b \notin request.swept)
       => Newer(answer'[b], w)
  <2> SUFFICES ASSUME b \in DOMAIN answer', request.kind # "centre",
                      request.kind \in {"near", "vessel"} \/ b \notin request.swept
               PROVE  Newer(answer'[b], w)
    OBVIOUS
  <2>1. CASE request.kind \in {"area", "named"}
    <3>1. /\ b \in DOMAIN request.first \/ (b \in DOMAIN request.recs /\ ~Positioned(c))
          /\ answer'[b] = IF b \in DOMAIN request.recs /\ (b \notin DOMAIN request.first \/ NewestState(b) # c)
                          THEN NewestState(b) ELSE request.first[b]
      BY <1>3, <2>1, ListIs
    <3>2. b \in DOMAIN request.first => request.first[b] = c0 /\ CacheFinds(request.kind, c0, t)
      BY <1>3, <2>1 DEF Searches
    <3>3. CacheFinds(request.kind, c0, t) => Positioned(c0)  BY <1>6, <2>1 DEF CacheFinds, Shown
    <3>4. answer'[b] = n \/ (answer'[b] = c0 /\ w = c0)  BY <3>1, <3>2, <3>3, <1>3, <1>5, <1>9
    <3> QED  BY <3>4, <1>7, <1>10, <2>1
  <2>2. CASE request.kind = "tile"
    <3>1. CASE CacheFinds("tile", c, t)
      <4>1. answer'[b] = c /\ Positioned(c)  BY <1>2, <1>3, <1>6, <2>2, <3>1, TileIs DEF CacheFinds, Shown
      <4>2. n = c  BY <4>1, <1>3, <1>9, <2>2, MergedHas
      <4> QED  BY <4>1, <4>2, <1>10, <2>2
    <3>2. CASE ~CacheFinds("tile", c, t)
      <4>1. answer'[b] = request.recs[b] /\ b \in DOMAIN request.recs /\ ~Known(c)
        BY <1>2, <1>3, <2>2, <3>2, TileIs
      <4>2. n = r  BY <4>1, <1>9 DEF Merged
      <4> QED  BY <4>1, <4>2, <1>3, <1>10, <2>2
    <3> QED  BY <3>1, <3>2
  <2>3. CASE request.kind = "near"
    <3>1. answer'[b] = c0 /\ InBox(c0)  BY <1>3, <2>3, NearIs DEF CacheFinds, Searches
    <3> QED  BY <3>1, <1>5, <1>6, <1>7
  <2>4. CASE request.kind = "vessel"
    <3>1. /\ b \in DOMAIN request.first <=> Known(c0)
          /\ b \in DOMAIN request.first => request.first[b] = c0
          /\ b \in DOMAIN request.recs <=> Known(r)
      BY <1>3, <2>4 DEF CacheFinds, MirrorFinds, SearchFinds, Searches
    <3>2. PICK m \in VesselStates : m = Merged(c0, r) /\ Newer(m, c0) /\ Newer(m, r)  BY MergedNewer
    <3>3. Newer(m, w)  BY <3>2, <1>3, <1>8, NewerYet
    <3>4. \/ answer'[b] = m
          \/ answer'[b] = c0 /\ Known(c0) /\ ~Known(r)
          \/ answer'[b] = r /\ ~Known(c0)
      BY <1>3, <2>4, <3>1, <3>2, VesselIs
    <3> QED  BY <3>3, <3>4, <1>3, <1>5, <1>7, <1>11
  <2>5. CASE request.kind = "get"
    <3>1. /\ b \in DOMAIN request.first <=> Known(c0)
          /\ b \in DOMAIN request.first => request.first[b] = c0
          /\ b \in DOMAIN request.recs <=> Known(r)
      BY <1>3, <2>5 DEF CacheFinds, MirrorFinds, SearchFinds, Searches
    <3>2. answer'[b] = n \/ (answer'[b] = c0 /\ Known(c0) /\ ~Known(r))
      BY <1>3, <1>9, <2>5, <3>1, GetIs
    <3> QED  BY <3>2, <1>5, <1>7, <1>10, <1>11, <2>5
  <2>6. CASE request.kind \in Searches
    <3>1. answer'[b] = n  BY <1>3, <1>9, <2>6, SearchIs
    <3> QED  BY <3>1, <1>10, <2>6 DEF Searches
  <2>7. request.kind \in Kinds  BY DEF Answer, ReadsInv, ReadsTyped
  <2> QED  BY <2>1, <2>2, <2>3, <2>4, <2>5, <2>6, <2>7 DEF Kinds
<1>13. ASSUME request.kind = "centre", b \in DOMAIN answer', Positioned(w)
       PROVE  Positioned(answer'[b]) /\ answer'[b].posAt >= w.posAt
  <2>1. /\ b \in DOMAIN request.first <=> Positioned(c0)
        /\ b \in DOMAIN request.first => request.first[b] = c0
        /\ b \in DOMAIN request.recs <=> Positioned(r)
    BY <1>3, <1>13 DEF CacheFinds, MirrorFinds, SearchFinds, Searches
  <2>2. CASE Positioned(c0)
    <3>1. answer'[b] = c0 /\ w = c0  BY <1>5, <1>13, <2>1, <2>2, CentreIs
    <3> QED  BY <3>1, <2>2, <1>7 DEF Newer
  <2>3. CASE ~Positioned(c0)
    <3>1. answer'[b] = r /\ Positioned(r)  BY <1>3, <1>13, <2>1, <2>3, CentreIs
    <3>2. w.posAt = r0.posAt /\ Positioned(r0)
      BY <1>3, <1>4, <1>5, <1>13, <2>3, MergedIs, CompletedIs
    <3> QED  BY <3>1, <3>2, <1>3 DEF Newer
  <2> QED  BY <2>2, <2>3
<1> QED  BY <1>4, <1>12, <1>13 DEF AnswersNothingOlder, Newer

\* Between the two reads of a request its boats are reported, written and swept,
\* written or not: a boat neither heard nor swept is answered as the cache and
\* one row have it, a boat asked for itself is answered whatever moved it, but
\* for a named one heard that only the record had, and no answer is older than
\* the first reading, but where the sweep leaves the request the row it read
\* (serveVessels, vesselTile, serveVessel, serveVesselSearch, mcp.go).
THEOREM NewestIsAnswered == ReadsSpec => AnswersAreNewest
<1>1. ASSUME ReadsInv, [ReadsNext]_readVars, request.pc = "merge", request'.pc = "idle"
      PROVE  Answer
  <2>1. request' # request  BY <1>1
  <2>2. ASSUME NEW b \in Boats PROVE ~(Report(b) \/ Write(b) \/ SweepBoat(b))
    BY <1>1, NotedHeard, NotedSwept DEF Report, Write, SweepBoat
  <2>3. ~(\E kind \in Kinds : Begin(kind)) /\ ~ReadCache /\ ~ReadRecord  BY <1>1 DEF Begin, ReadCache, ReadRecord
  <2>4. ~Pass  BY <2>1 DEF Pass
  <2> QED  BY <1>1, <2>1, <2>2, <2>3, <2>4 DEF ReadsNext, readVars
<1>2. ReadsInv /\ [ReadsNext]_readVars =>
        [request.pc = "merge" /\ request'.pc = "idle" =>
           \A b \in Boats : /\ b \notin request.heard \union request.swept => AnswersInFull(b)
                            /\ StillAnswers(b) /\ AnswersNothingOlder(b)]_readVars
  BY <1>1, AnsweredWith, StillAnswered, AnsweredNoOlder
<1> QED  BY <1>2, RequestsHold, PTL DEF ReadsSpec, AnswersAreNewest

-----------------------------------------------------------------------------
(* Static states (statics.go, aishub.go). *)

\* Rows with the first and last time each was heard.
IsSpans(f) ==
  /\ f = [k \in DOMAIN f |-> f[k]]
  /\ \A k \in DOMAIN f : f[k] \in [first : Nat, last : Nat]

LEMMA EarlierAndLater ==
    ASSUME NEW a \in Nat, NEW b \in Nat
    PROVE  Min({a, b}) = (IF a <= b THEN a ELSE b) /\ Max({a, b}) = (IF a >= b THEN a ELSE b)
<1>1. PICK s \in {a, b} : \A y \in {a, b} : s <= y  OBVIOUS
<1>2. Min({a, b}) \in {a, b} /\ \A y \in {a, b} : Min({a, b}) <= y  BY <1>1 DEF Min
<1>3. PICK l \in {a, b} : \A y \in {a, b} : l >= y  OBVIOUS
<1>4. Max({a, b}) \in {a, b} /\ \A y \in {a, b} : Max({a, b}) >= y  BY <1>3 DEF Max
<1> QED  BY <1>2, <1>4

\* Every row of either, with the earlier first and the later last time.
Joins(h, f, g) ==
  /\ IsSpans(h) /\ DOMAIN h = DOMAIN f \union DOMAIN g
  /\ \A k \in DOMAIN g : k \notin DOMAIN f => h[k] = g[k]
  /\ \A k \in DOMAIN f : k \notin DOMAIN g => h[k] = f[k]
  /\ \A k \in DOMAIN f \intersect DOMAIN g :
       /\ h[k].first = IF f[k].first <= g[k].first THEN f[k].first ELSE g[k].first
       /\ h[k].last = IF f[k].last >= g[k].last THEN f[k].last ELSE g[k].last

LEMMA SpanningIs ==
    ASSUME NEW f, NEW g, IsSpans(f), IsSpans(g)
    PROVE  Joins(Spanning(f, g), f, g) /\ IsSpans(Spanning(f, g))
<1>1. PICK h : h = Spanning(f, g)  OBVIOUS
<1>2. h = [k \in DOMAIN f \union DOMAIN g |->
             IF k \notin DOMAIN f THEN g[k] ELSE IF k \notin DOMAIN g THEN f[k]
             ELSE [first |-> Min({f[k].first, g[k].first}), last |-> Max({f[k].last, g[k].last})]]
  BY <1>1 DEF Spanning
<1>3. DOMAIN h = DOMAIN f \union DOMAIN g  BY <1>2
<1>4. ASSUME NEW k \in DOMAIN f \intersect DOMAIN g
      PROVE  /\ h[k].first = IF f[k].first <= g[k].first THEN f[k].first ELSE g[k].first
             /\ h[k].last = IF f[k].last >= g[k].last THEN f[k].last ELSE g[k].last
             /\ h[k] \in [first : Nat, last : Nat]
  <2>1. f[k].first \in Nat /\ f[k].last \in Nat /\ g[k].first \in Nat /\ g[k].last \in Nat  BY DEF IsSpans
  <2>2. h[k] = [first |-> Min({f[k].first, g[k].first}), last |-> Max({f[k].last, g[k].last})]  BY <1>2
  <2>3. h[k] = [first |-> IF f[k].first <= g[k].first THEN f[k].first ELSE g[k].first,
                last |-> IF f[k].last >= g[k].last THEN f[k].last ELSE g[k].last]
    BY <2>1, <2>2, EarlierAndLater
  <2> QED  BY <2>1, <2>3
<1>5. /\ \A k \in DOMAIN g : k \notin DOMAIN f => h[k] = g[k]
      /\ \A k \in DOMAIN f : k \notin DOMAIN g => h[k] = f[k]
  BY <1>2
<1>6. IsSpans(h)
  <2>1. h = [k \in DOMAIN h |-> h[k]]  BY <1>2
  <2>2. \A k \in DOMAIN h : h[k] \in [first : Nat, last : Nat]  BY <1>3, <1>4, <1>5 DEF IsSpans
  <2> QED  BY <2>1, <2>2 DEF IsSpans
<1> QED  BY <1>1, <1>3, <1>4, <1>5, <1>6 DEF Joins

LEMMA SameSpans ==
    ASSUME NEW f, NEW g, IsSpans(f), IsSpans(g), DOMAIN f = DOMAIN g,
           \A k \in DOMAIN f : f[k].first = g[k].first /\ f[k].last = g[k].last
    PROVE  f = g
<1>1. \A k \in DOMAIN f : f[k] = g[k]
  <2> SUFFICES ASSUME NEW k \in DOMAIN f PROVE f[k] = g[k]  OBVIOUS
  <2>1. f[k] = [first |-> f[k].first, last |-> f[k].last]  BY DEF IsSpans
  <2>2. g[k] = [first |-> g[k].first, last |-> g[k].last]  BY DEF IsSpans
  <2> QED  BY <2>1, <2>2
<1> QED  BY <1>1 DEF IsSpans

\* Merging rows is associative and commutative, and merging again adds nothing.
LEMMA SpanningAssociates ==
    ASSUME NEW f, NEW g, NEW h, IsSpans(f), IsSpans(g), IsSpans(h)
    PROVE  Spanning(f, Spanning(g, h)) = Spanning(Spanning(f, g), h)
<1>1. PICK a : a = Spanning(g, h)  OBVIOUS
<1>2. PICK b : b = Spanning(f, g)  OBVIOUS
<1>3. Joins(a, g, h) /\ Joins(b, f, g) /\ IsSpans(a) /\ IsSpans(b)  BY <1>1, <1>2, SpanningIs
<1>4. PICK s : s = Spanning(f, a)  OBVIOUS
<1>5. PICK u : u = Spanning(b, h)  OBVIOUS
<1>6. Joins(s, f, a) /\ Joins(u, b, h) /\ IsSpans(s) /\ IsSpans(u)  BY <1>3, <1>4, <1>5, SpanningIs
<1>7. DOMAIN s = DOMAIN u  BY <1>3, <1>6 DEF Joins
<1>8. ASSUME NEW k \in DOMAIN s PROVE s[k].first = u[k].first /\ s[k].last = u[k].last
  <2>1. /\ k \in DOMAIN f => f[k].first \in Nat /\ f[k].last \in Nat
        /\ k \in DOMAIN g => g[k].first \in Nat /\ g[k].last \in Nat
        /\ k \in DOMAIN h => h[k].first \in Nat /\ h[k].last \in Nat
    BY DEF IsSpans
  <2>2. DOMAIN a = DOMAIN g \union DOMAIN h /\ DOMAIN b = DOMAIN f \union DOMAIN g
        /\ DOMAIN s = DOMAIN f \union DOMAIN a
    BY <1>3, <1>6 DEF Joins
  <2>3. /\ k \in DOMAIN g /\ k \notin DOMAIN h => a[k] = g[k]
        /\ k \notin DOMAIN g /\ k \in DOMAIN h => a[k] = h[k]
        /\ k \in DOMAIN g /\ k \in DOMAIN h =>
             /\ a[k].first = IF g[k].first <= h[k].first THEN g[k].first ELSE h[k].first
             /\ a[k].last = IF g[k].last >= h[k].last THEN g[k].last ELSE h[k].last
    BY <1>3 DEF Joins
  <2>4. /\ k \in DOMAIN f /\ k \notin DOMAIN g => b[k] = f[k]
        /\ k \notin DOMAIN f /\ k \in DOMAIN g => b[k] = g[k]
        /\ k \in DOMAIN f /\ k \in DOMAIN g =>
             /\ b[k].first = IF f[k].first <= g[k].first THEN f[k].first ELSE g[k].first
             /\ b[k].last = IF f[k].last >= g[k].last THEN f[k].last ELSE g[k].last
    BY <1>3 DEF Joins
  <2>5. /\ k \in DOMAIN f /\ k \notin DOMAIN a => s[k] = f[k]
        /\ k \notin DOMAIN f /\ k \in DOMAIN a => s[k] = a[k]
        /\ k \in DOMAIN f /\ k \in DOMAIN a =>
             /\ s[k].first = IF f[k].first <= a[k].first THEN f[k].first ELSE a[k].first
             /\ s[k].last = IF f[k].last >= a[k].last THEN f[k].last ELSE a[k].last
    BY <1>6 DEF Joins
  <2>6. /\ k \in DOMAIN b /\ k \notin DOMAIN h => u[k] = b[k]
        /\ k \notin DOMAIN b /\ k \in DOMAIN h => u[k] = h[k]
        /\ k \in DOMAIN b /\ k \in DOMAIN h =>
             /\ u[k].first = IF b[k].first <= h[k].first THEN b[k].first ELSE h[k].first
             /\ u[k].last = IF b[k].last >= h[k].last THEN b[k].last ELSE h[k].last
    BY <1>6 DEF Joins
  <2> QED  BY <2>1, <2>2, <2>3, <2>4, <2>5, <2>6
<1> QED  BY <1>1, <1>2, <1>4, <1>5, <1>6, <1>7, <1>8, SameSpans

LEMMA SpanningCommutes ==
    ASSUME NEW f, NEW g, IsSpans(f), IsSpans(g)
    PROVE  Spanning(f, g) = Spanning(g, f)
<1>1. PICK s : s = Spanning(f, g)  OBVIOUS
<1>2. PICK u : u = Spanning(g, f)  OBVIOUS
<1>3. Joins(s, f, g) /\ Joins(u, g, f)  BY <1>1, <1>2, SpanningIs
<1>4. IsSpans(s) /\ IsSpans(u) /\ DOMAIN s = DOMAIN u  BY <1>3 DEF Joins
<1>5. ASSUME NEW k \in DOMAIN s PROVE s[k].first = u[k].first /\ s[k].last = u[k].last
  <2>1. /\ k \in DOMAIN f => f[k].first \in Nat /\ f[k].last \in Nat
        /\ k \in DOMAIN g => g[k].first \in Nat /\ g[k].last \in Nat
    BY DEF IsSpans
  <2> QED  BY <1>3, <2>1 DEF Joins
<1> QED  BY <1>1, <1>2, <1>4, <1>5, SameSpans

LEMMA SpanningAgain ==
    ASSUME NEW f, IsSpans(f)
    PROVE  Spanning(f, f) = f
<1>1. PICK s : s = Spanning(f, f)  OBVIOUS
<1>2. Joins(s, f, f)  BY <1>1, SpanningIs
<1>3. IsSpans(s) /\ DOMAIN s = DOMAIN f /\ \A k \in DOMAIN s : s[k].first = f[k].first /\ s[k].last = f[k].last
  BY <1>2 DEF Joins
<1> QED  BY <1>1, <1>3, SameSpans

LEMMA SpanningNothing ==
    ASSUME NEW f, IsSpans(f)
    PROVE  Spanning(NoStatics, f) = f /\ Spanning(f, NoStatics) = f
<1>1. IsSpans(NoStatics) /\ DOMAIN NoStatics = {}  BY DEF IsSpans, NoStatics
<1>2. PICK s : s = Spanning(f, NoStatics)  OBVIOUS
<1>3. Joins(s, f, NoStatics)  BY <1>1, <1>2, SpanningIs
<1>4. IsSpans(s) /\ DOMAIN s = DOMAIN f /\ \A k \in DOMAIN f : s[k] = f[k]  BY <1>1, <1>3 DEF Joins
<1>5. s = f  BY <1>4, SameSpans
<1> QED  BY <1>1, <1>2, <1>5, SpanningCommutes

\* A subset of the rows, and a row of its own.
LEMMA PartOfSpans ==
    ASSUME NEW f, IsSpans(f), NEW D \in SUBSET DOMAIN f
    PROVE  /\ IsSpans(Restrict(f, D)) /\ DOMAIN Restrict(f, D) = D
           /\ \A k \in D : Restrict(f, D)[k] = f[k]
<1>1. Restrict(f, D) = [k \in D |-> f[k]]  BY DEF Restrict
<1> QED  BY <1>1 DEF IsSpans

LEMMA OneRowSpans ==
    ASSUME NEW k, NEW t \in Nat
    PROVE  IsSpans(At(k, t)) /\ DOMAIN At(k, t) = {k} /\ At(k, t)[k].first = t /\ At(k, t)[k].last = t
<1>1. At(k, t) = [x \in {k} |-> [first |-> t, last |-> t]]  BY DEF At
<1> QED  BY <1>1 DEF IsSpans


HubRows == [Hulks -> [at : 1..LastMoment, fields : Fields] \union {Nothing}]

StaticsTyped ==
  /\ time \in 1..LastMoment
  /\ IsSpans(gathered) /\ IsSpans(sending) /\ IsSpans(statics) /\ IsSpans(noted) /\ IsSpans(seed.left)
  /\ IsFiniteSet(DOMAIN gathered) /\ IsFiniteSet(DOMAIN sending)
  /\ hubRow \in HubRows /\ record \in HubRows /\ hubAt \in [Hulks -> 0..LastMoment]

StaticsInv == StaticsTyped /\ StatesAreKept

\* Every row heard stays, from as early and till as late.
Grows(n, m) ==
  /\ DOMAIN m \subseteq DOMAIN n
  /\ \A k \in DOMAIN m : n[k].first <= m[k].first /\ n[k].last >= m[k].last

LEMMA SpanningGrows ==
    ASSUME NEW f, NEW g, IsSpans(f), IsSpans(g)
    PROVE  Grows(Spanning(f, g), f) /\ Grows(Spanning(f, g), g)
<1>1. PICK s : s = Spanning(f, g)  OBVIOUS
<1>2. Joins(s, f, g)  BY <1>1, SpanningIs
<1>3. /\ \A k \in DOMAIN f : f[k].first \in Nat /\ f[k].last \in Nat
      /\ \A k \in DOMAIN g : g[k].first \in Nat /\ g[k].last \in Nat
  BY DEF IsSpans
<1> QED  BY <1>1, <1>2, <1>3 DEF Joins, Grows

\* A vessel's TIME passed over before stays accounted for.
LEMMA StillAccounted ==
    ASSUME StaticsTyped, SkippedRowsAreKept, IsSpans(noted'), Grows(noted', noted), passedOver \subseteq passedOver',
           NEW v \in Hulks, hubAt'[v] \in {0, hubAt[v]}, hubAt'[v] > 0
    PROVE  \E fields \in Fields :
             LET k == RowOf("aishub", v, fields, hubAt'[v]) IN
               \/ k \in DOMAIN noted' /\ hubAt'[v] \in noted'[k].first .. noted'[k].last
               \/ <<k, hubAt'[v]>> \in passedOver'
<1>1. PICK at \in 0..LastMoment : at = hubAt[v] /\ hubAt'[v] = at /\ at > 0  BY DEF StaticsTyped
<1>2. PICK fields \in Fields :
        LET k == RowOf("aishub", v, fields, at) IN
          \/ k \in DOMAIN noted /\ at \in noted[k].first .. noted[k].last
          \/ <<k, at>> \in passedOver
  BY <1>1 DEF SkippedRowsAreKept
<1>3. PICK k : k = RowOf("aishub", v, fields, at)  OBVIOUS
<1>4. k \in DOMAIN noted /\ at \in noted[k].first .. noted[k].last =>
        k \in DOMAIN noted' /\ at \in noted'[k].first .. noted'[k].last
  <2> SUFFICES ASSUME k \in DOMAIN noted, at \in noted[k].first .. noted[k].last
               PROVE  k \in DOMAIN noted' /\ at \in noted'[k].first .. noted'[k].last
    OBVIOUS
  <2>1. k \in DOMAIN noted' /\ noted'[k].first <= noted[k].first /\ noted'[k].last >= noted[k].last  BY DEF Grows
  <2>2. noted[k].first \in Nat /\ noted[k].last \in Nat /\ noted'[k].first \in Nat /\ noted'[k].last \in Nat
    BY <2>1 DEF StaticsTyped, IsSpans
  <2>3. at \in Nat /\ at >= noted[k].first /\ at <= noted[k].last  BY <2>2
  <2> QED  BY <2>1, <2>2, <2>3
<1> QED  BY <1>1, <1>2, <1>3, <1>4

\* What a message or a snapshot's row adds is waiting or passed over.
LEMMA GatheringStep ==
    ASSUME StaticsInv, NEW k, NEW t \in 1..LastMoment, Gathers(k, t), UNCHANGED <<statics, sending>>
    PROVE  /\ IsSpans(gathered') /\ IsSpans(noted') /\ IsFiniteSet(DOMAIN gathered')
           /\ NothingHeardIsLost' /\ Grows(noted', noted) /\ passedOver \subseteq passedOver'
           /\ on => \/ k \in DOMAIN noted' /\ t \in noted'[k].first .. noted'[k].last
                    \/ <<k, t>> \in passedOver'
<1> USE DEF StaticsInv
<1>1. IsSpans(gathered) /\ IsSpans(sending) /\ IsSpans(statics) /\ IsSpans(noted) /\ IsFiniteSet(DOMAIN gathered)
  BY DEF StaticsTyped
<1>2. NothingHeardIsLost  BY DEF StatesAreKept
<1>3. CASE Keeps(k, t)
  <2>1. gathered' = Spanning(gathered, At(k, t)) /\ noted' = Spanning(noted, At(k, t)) /\ UNCHANGED passedOver
    BY <1>3 DEF Gathers
  <2>2. PICK o : o = At(k, t)  OBVIOUS
  <2>3. IsSpans(o) /\ DOMAIN o = {k} /\ o[k].first = t /\ o[k].last = t  
    <3>1. t \in Nat  OBVIOUS
    <3> QED  BY <2>2, <3>1, OneRowSpans
  <2>4. IsSpans(gathered') /\ IsSpans(noted') /\ DOMAIN gathered' = DOMAIN gathered \union {k}
    BY <1>1, <2>1, <2>2, <2>3, SpanningIs DEF Joins
  <2>5. Grows(noted', noted) /\ Grows(noted', o)  BY <1>1, <2>1, <2>2, <2>3, SpanningGrows
  <2>6. k \in DOMAIN noted' /\ t \in noted'[k].first .. noted'[k].last
    <3>1. k \in DOMAIN noted' /\ noted'[k].first <= t /\ t <= noted'[k].last  BY <2>3, <2>5 DEF Grows
    <3>2. noted'[k].first \in Nat /\ noted'[k].last \in Nat  BY <2>4, <3>1 DEF IsSpans
    <3> QED  BY <3>1, <3>2
  <2>7. Spanning(statics', Spanning(sending', gathered')) = noted'
    <3>1. PICK a : a = Spanning(sending, gathered)  OBVIOUS
    <3>2. IsSpans(a)  BY <1>1, <3>1, SpanningIs
    <3>3. Spanning(sending, Spanning(gathered, o)) = Spanning(a, o)  BY <1>1, <2>3, <3>1, SpanningAssociates
    <3>4. Spanning(statics, Spanning(a, o)) = Spanning(Spanning(statics, a), o)
      BY <1>1, <2>3, <3>2, SpanningAssociates
    <3> QED  BY <1>2, <2>1, <2>2, <3>1, <3>3, <3>4 DEF NothingHeardIsLost
  <2>8. IsFiniteSet(DOMAIN gathered') /\ Cardinality(DOMAIN gathered') <= MaxStatics
    <3>1. Cardinality(DOMAIN gathered) \in Nat /\ MaxStatics \in Nat  BY <1>1, FS_CardinalityType, StaticsAssumption
    <3>2. IsFiniteSet(DOMAIN gathered \union {k})
          /\ Cardinality(DOMAIN gathered \union {k}) =
               IF k \in DOMAIN gathered THEN Cardinality(DOMAIN gathered) ELSE Cardinality(DOMAIN gathered) + 1
      BY <1>1, FS_AddElement
    <3>3. Cardinality(DOMAIN gathered) <= MaxStatics  BY <1>2 DEF NothingHeardIsLost
    <3>4. ~Full(gathered, k)  BY <1>3 DEF Keeps
    <3> QED  BY <2>4, <3>1, <3>2, <3>3, <3>4 DEF Full
  <2> QED  BY <2>1, <2>4, <2>5, <2>6, <2>7, <2>8 DEF NothingHeardIsLost
<1>4. CASE ~Keeps(k, t)
  <2>1. UNCHANGED <<gathered, noted>>
        /\ passedOver' = IF on THEN passedOver \union {<<k, t>>} ELSE passedOver
    BY <1>4 DEF Gathers
  <2>2. Grows(noted, noted)  BY <1>1 DEF Grows, IsSpans
  <2> QED  BY <1>1, <1>2, <2>1, <2>2 DEF NothingHeardIsLost
<1> QED  BY <1>3, <1>4

\* The same rows, elsewhere.
LEMMA RowsMove ==
    ASSUME StaticsInv, IsSpans(gathered'), IsSpans(sending'), IsSpans(statics'), IsFiniteSet(DOMAIN gathered'),
           IsFiniteSet(DOMAIN sending'), Cardinality(DOMAIN gathered') <= MaxStatics, IsSpans(seed.left'), IsSpans(noted'),
           Spanning(statics', Spanning(sending', gathered')) = noted', Grows(noted', noted),
           UNCHANGED <<time, hubRow, hubAt, record, passedOver>>
    PROVE  StaticsInv'
<1> USE DEF StaticsInv
<1>1. StaticsTyped'  BY DEF StaticsTyped
<1>2. NothingHeardIsLost'  BY DEF NothingHeardIsLost
<1>3. SkippedRowsAreKept'
  <2> SUFFICES ASSUME NEW v \in Hulks, hubAt'[v] > 0
               PROVE  \E fields \in Fields :
                        LET k == RowOf("aishub", v, fields, hubAt'[v]) IN
                          \/ k \in DOMAIN noted' /\ hubAt'[v] \in noted'[k].first .. noted'[k].last
                          \/ <<k, hubAt'[v]>> \in passedOver'
    BY DEF SkippedRowsAreKept, RowOf
  <2> QED  BY StillAccounted DEF StatesAreKept
<1> QED  BY <1>1, <1>2, <1>3 DEF StatesAreKept

LEMMA NothingGrows ==
    ASSUME StaticsTyped
    PROVE  Grows(noted, noted) /\ IsSpans(NoStatics) /\ DOMAIN NoStatics = {}
<1>1. IsSpans(NoStatics) /\ DOMAIN NoStatics = {}  BY DEF IsSpans, NoStatics
<1>2. IsSpans(noted)  BY DEF StaticsTyped
<1> QED  BY <1>1, <1>2 DEF Grows, IsSpans

LEMMA FlushSteps ==
    ASSUME StaticsInv, TakeStatics \/ SendStatics
    PROVE  StaticsInv'
<1> USE DEF StaticsInv
<1>1. IsSpans(gathered) /\ IsSpans(sending) /\ IsSpans(statics) /\ IsSpans(noted) /\ IsFiniteSet(DOMAIN gathered)
      /\ IsFiniteSet(DOMAIN sending) /\ IsSpans(seed.left) /\ Spanning(statics, Spanning(sending, gathered)) = noted
      /\ Cardinality(DOMAIN gathered) <= MaxStatics
  BY DEF StaticsTyped, StatesAreKept, NothingHeardIsLost
<1>2. Grows(noted, noted) /\ IsSpans(NoStatics) /\ DOMAIN NoStatics = {}  BY NothingGrows
<1>3. CASE TakeStatics
  <2>1. sending = NoStatics /\ sending' = gathered /\ gathered' = NoStatics
        /\ UNCHANGED <<time, statics, hubRow, hubAt, record, seed, noted, passedOver>>
    BY <1>3 DEF TakeStatics
  <2>2. Spanning(sending', gathered') = Spanning(sending, gathered)
    BY <1>1, <2>1, SpanningNothing
  <2>3. IsFiniteSet(DOMAIN gathered') /\ Cardinality(DOMAIN gathered') <= MaxStatics /\ IsFiniteSet(DOMAIN sending')
    <3>1. IsFiniteSet({}) /\ Cardinality({}) = 0  BY FS_EmptySet
    <3> QED  BY <1>1, <1>2, <2>1, <3>1, StaticsAssumption
  <2> QED  BY <1>1, <1>2, <2>1, <2>2, <2>3, RowsMove
<1>4. CASE SendStatics
  <2>1. statics' = Spanning(statics, sending) /\ sending' = NoStatics
        /\ UNCHANGED <<time, gathered, hubRow, hubAt, record, seed, noted, passedOver>>
    BY <1>4 DEF SendStatics
  <2>2. IsSpans(statics') /\ IsFiniteSet(DOMAIN sending')  BY <1>1, <1>2, <2>1, SpanningIs, FS_EmptySet
  <2>3. Spanning(statics', Spanning(sending', gathered')) = noted'
    <3>1. Spanning(sending', gathered') = gathered  BY <1>1, <2>1, SpanningNothing
    <3>2. Spanning(Spanning(statics, sending), gathered) = noted  BY <1>1, SpanningAssociates
    <3> QED  BY <2>1, <3>1, <3>2
  <2> QED  BY <1>1, <1>2, <2>1, <2>2, <2>3, RowsMove
<1> QED  BY <1>3, <1>4

\* A failed insert: what does not fit back is given up, unless it landed.
LEMMA FailingStep ==
    ASSUME StaticsInv, FailStatics
    PROVE  StaticsInv'
<1> USE DEF StaticsInv
<1>1. IsSpans(gathered) /\ IsSpans(sending) /\ IsSpans(statics) /\ IsSpans(noted) /\ IsFiniteSet(DOMAIN gathered)
      /\ IsFiniteSet(DOMAIN sending) /\ IsSpans(seed.left) /\ Spanning(statics, Spanning(sending, gathered)) = noted
      /\ Cardinality(DOMAIN gathered) <= MaxStatics
  BY DEF StaticsTyped, StatesAreKept, NothingHeardIsLost
<1>2. IsSpans(NoStatics) /\ DOMAIN NoStatics = {}  BY NothingGrows
<1>3. PICK refit \in Fitting, landed \in BOOLEAN :
        /\ gathered' = PutBack(refit)
        /\ statics' = IF landed THEN Spanning(statics, sending) ELSE statics
        /\ LET lost == IF landed THEN {} ELSE DOMAIN sending \ refit IN
             /\ noted' = [k \in (DOMAIN noted \ lost) \union (lost \intersect DOMAIN statics) |->
                            IF k \in lost THEN statics[k] ELSE noted[k]]
             /\ passedOver' = passedOver \union (lost \X (1..LastMoment))
  BY DEF FailStatics
<1>4. sending' = NoStatics /\ UNCHANGED <<time, hubRow, hubAt, record, seed>>  BY DEF FailStatics
<1>5. PICK lost : lost = IF landed THEN {} ELSE DOMAIN sending \ refit  OBVIOUS
<1>6. PICK part : part = Restrict(sending, refit)  OBVIOUS
<1>7. /\ refit \subseteq DOMAIN sending /\ DOMAIN sending \intersect DOMAIN gathered \subseteq refit
      /\ Cardinality(refit \union DOMAIN gathered) <= MaxStatics
      /\ IsFiniteSet(refit \union DOMAIN gathered)
  <2>1. /\ refit \subseteq DOMAIN sending /\ DOMAIN sending \intersect DOMAIN gathered \subseteq refit
        /\ Cardinality(refit \union DOMAIN gathered) <= MaxStatics
    BY DEF Fitting
  <2>2. IsFiniteSet(refit)  BY <1>1, <2>1, FS_Subset
  <2>3. IsFiniteSet(refit \union DOMAIN gathered)  BY <1>1, <2>2, FS_Union
  <2> QED  BY <2>1, <2>3
<1>8. IsSpans(part) /\ DOMAIN part = refit /\ \A k \in refit : part[k] = sending[k]  BY <1>1, <1>6, <1>7, PartOfSpans
<1>9. gathered' = Spanning(gathered, part)  BY <1>3, <1>6 DEF PutBack
<1>10. IsSpans(gathered') /\ DOMAIN gathered' = DOMAIN gathered \union refit /\ Joins(gathered', gathered, part)
  <2>1. PICK whole : whole = Spanning(gathered, part)  OBVIOUS
  <2>2. IsSpans(whole) /\ Joins(whole, gathered, part)  BY <1>1, <1>8, <2>1, SpanningIs
  <2>3. DOMAIN whole = DOMAIN gathered \union refit  BY <1>8, <2>2 DEF Joins
  <2>4. gathered' = whole  BY <1>9, <2>1
  <2> QED  BY <2>2, <2>3, <2>4
<1>11. IsSpans(statics')  BY <1>1, <1>3, SpanningIs
<1>12. /\ noted' = [k \in (DOMAIN noted \ lost) \union (lost \intersect DOMAIN statics) |->
                      IF k \in lost THEN statics[k] ELSE noted[k]]
       /\ passedOver' = passedOver \union (lost \X (1..LastMoment))
  BY <1>3, <1>5
<1>13. IsSpans(noted')
  <2>1. DOMAIN noted' = (DOMAIN noted \ lost) \union (lost \intersect DOMAIN statics)  BY <1>12
  <2>2. \A k \in DOMAIN noted' : noted'[k] = IF k \in lost THEN statics[k] ELSE noted[k]  BY <1>12, <2>1
  <2>3. noted' = [k \in DOMAIN noted' |-> noted'[k]]  BY <1>12
  <2>4. \A k \in DOMAIN noted' : noted'[k] \in [first : Nat, last : Nat]  BY <1>1, <2>1, <2>2 DEF IsSpans
  <2> QED  BY <2>3, <2>4 DEF IsSpans
<1>14. Spanning(statics', gathered') = noted'
  <2>1. CASE landed
    <3>1. statics' = Spanning(statics, sending) /\ lost = {}  BY <2>1, <1>3, <1>5
    <3>2. noted' = noted  BY <3>1, <1>1, <1>12 DEF IsSpans
    <3>3. Spanning(sending, part) = sending
      <4>1. PICK s : s = Spanning(sending, part)  OBVIOUS
      <4>2. Joins(s, sending, part)  BY <4>1, <1>1, <1>8, SpanningIs
      <4>3. IsSpans(s) /\ DOMAIN s = DOMAIN sending
            /\ \A k \in DOMAIN s : s[k].first = sending[k].first /\ s[k].last = sending[k].last
        BY <4>2, <1>7, <1>8 DEF Joins
      <4> QED  BY <4>1, <4>3, <1>1, SameSpans
    <3>4. Spanning(gathered, part) = Spanning(part, gathered)  BY <1>1, <1>8, SpanningCommutes
    <3>5. Spanning(sending, Spanning(part, gathered)) = Spanning(Spanning(sending, part), gathered)
      BY <1>1, <1>8, SpanningAssociates
    <3>6. Spanning(sending, gathered') = Spanning(sending, gathered)  BY <3>3, <3>4, <3>5, <1>9
    <3>7. Spanning(statics, Spanning(sending, gathered')) = Spanning(Spanning(statics, sending), gathered')
      BY <1>1, <1>10, SpanningAssociates
    <3> QED  BY <3>1, <3>2, <3>6, <3>7, <1>1
  <2>2. CASE ~landed
    <3>1. statics' = statics /\ lost = DOMAIN sending \ refit  BY <2>2, <1>3, <1>5
    <3>2. PICK a : a = Spanning(sending, gathered)  OBVIOUS
    <3>3. Joins(a, sending, gathered) /\ IsSpans(a)  BY <3>2, <1>1, SpanningIs
    <3>4. Joins(noted, statics, a)  BY <3>2, <3>3, <1>1, SpanningIs
    <3>5. PICK g : g = gathered'  OBVIOUS
    <3>6. Joins(g, gathered, part) /\ IsSpans(g)  BY <3>5, <1>10
    <3>7. PICK u : u = Spanning(statics, g)  OBVIOUS
    <3>8. Joins(u, statics, g) /\ IsSpans(u)  BY <3>6, <3>7, <1>1, SpanningIs
    <3>9. PICK n : n = noted'  OBVIOUS
    <3>10. /\ DOMAIN n = (DOMAIN noted \ lost) \union (lost \intersect DOMAIN statics)
           /\ \A k \in DOMAIN n : n[k] = IF k \in lost THEN statics[k] ELSE noted[k]
      BY <3>9, <1>12
    <3>11. DOMAIN a = DOMAIN sending \union DOMAIN gathered /\ DOMAIN g = DOMAIN gathered \union refit
           /\ DOMAIN noted = DOMAIN statics \union DOMAIN a /\ DOMAIN u = DOMAIN statics \union DOMAIN g
      BY <3>3, <3>4, <3>6, <3>8, <1>8 DEF Joins
    <3>12. \A k \in lost : k \notin DOMAIN g  BY <3>1, <3>11, <1>7
    <3>13. \A k : k \notin lost => (k \in DOMAIN a <=> k \in DOMAIN g)  BY <3>1, <3>11, <1>7
    <3>14. DOMAIN u = DOMAIN n  BY <3>10, <3>11, <3>12, <3>13
    <3>15. ASSUME NEW k \in DOMAIN u PROVE u[k].first = n[k].first /\ u[k].last = n[k].last
      <4>1. CASE k \in lost
        <5>1. k \in DOMAIN statics /\ u[k] = statics[k]  BY <4>1, <3>11, <3>12, <3>8 DEF Joins
        <5> QED  BY <4>1, <5>1, <3>10, <3>14
      <4>2. CASE k \notin lost
        <5>1. /\ k \in DOMAIN sending => sending[k].first \in Nat /\ sending[k].last \in Nat
              /\ k \in DOMAIN gathered => gathered[k].first \in Nat /\ gathered[k].last \in Nat
          BY <1>1 DEF IsSpans
        <5>2. k \in DOMAIN sending <=> k \in refit  BY <4>2, <3>1, <1>7
        <5>3. k \in refit => part[k] = sending[k]  BY <1>8
        <5>4. k \in DOMAIN a => a[k].first = g[k].first /\ a[k].last = g[k].last
          BY <5>1, <5>2, <5>3, <3>3, <3>6, <3>11, <1>8 DEF Joins
        <5>5. n[k] = noted[k] /\ k \in DOMAIN noted  BY <4>2, <3>10, <3>14
        <5>6. k \in DOMAIN a <=> k \in DOMAIN g  BY <4>2, <3>13
        <5>7. CASE k \in DOMAIN a /\ k \in DOMAIN statics
          BY <5>4, <5>5, <5>6, <5>7, <3>4, <3>8 DEF Joins
        <5>8. CASE k \in DOMAIN a /\ k \notin DOMAIN statics
          BY <5>4, <5>5, <5>6, <5>8, <3>4, <3>8 DEF Joins
        <5>9. CASE k \notin DOMAIN a
          BY <5>5, <5>6, <5>9, <3>4, <3>8, <3>11 DEF Joins
        <5> QED  BY <5>7, <5>8, <5>9
      <4> QED  BY <4>1, <4>2
    <3>16. u = n
      <4>1. IsSpans(n)  BY <3>9, <1>13
      <4> QED  BY <4>1, <3>8, <3>14, <3>15, SameSpans
    <3> QED  BY <3>1, <3>5, <3>7, <3>9, <3>16
  <2> QED  BY <2>1, <2>2
<1>15. NothingHeardIsLost'
  <2>1. Spanning(sending', gathered') = gathered'  BY <1>4, <1>10, SpanningNothing
  <2>2. Cardinality(DOMAIN gathered') <= MaxStatics
    <3>1. DOMAIN gathered' = refit \union DOMAIN gathered  BY <1>10
    <3> QED  BY <3>1, <1>7
  <2> QED  BY <2>1, <2>2, <1>14 DEF NothingHeardIsLost
<1>16. StaticsTyped'
  <2>1. DOMAIN gathered' = refit \union DOMAIN gathered  BY <1>10
  <2>2. IsFiniteSet(DOMAIN gathered')  BY <2>1, <1>7
  <2>3. IsFiniteSet(DOMAIN sending') /\ IsSpans(sending')  BY <1>2, <1>4, FS_EmptySet
  <2> QED  BY <2>2, <2>3, <1>4, <1>10, <1>11, <1>13 DEF StaticsTyped
<1>17. SkippedRowsAreKept'
  <2> SUFFICES ASSUME NEW v \in Hulks, hubAt'[v] > 0
               PROVE  \E fields \in Fields :
                        LET k == RowOf("aishub", v, fields, hubAt'[v]) IN
                          \/ k \in DOMAIN noted' /\ hubAt'[v] \in noted'[k].first .. noted'[k].last
                          \/ <<k, hubAt'[v]>> \in passedOver'
    BY DEF SkippedRowsAreKept, RowOf
  <2>1. PICK at \in 0..LastMoment : at = hubAt[v] /\ hubAt'[v] = at /\ at > 0  BY <1>4 DEF StaticsTyped
  <2>2. PICK fields \in Fields :
          LET k == RowOf("aishub", v, fields, at) IN
            \/ k \in DOMAIN noted /\ at \in noted[k].first .. noted[k].last
            \/ <<k, at>> \in passedOver
    BY <2>1 DEF StatesAreKept, SkippedRowsAreKept
  <2>3. PICK k : k = RowOf("aishub", v, fields, at)  OBVIOUS
  <2>4. at \in 1..LastMoment  BY <2>1, StaticsAssumption
  <2>5. \/ k \in DOMAIN noted' /\ at \in noted'[k].first .. noted'[k].last
        \/ <<k, at>> \in passedOver'
    <3>1. CASE k \in lost  BY <3>1, <2>4, <1>12
    <3>2. CASE k \notin lost
      <4>1. k \in DOMAIN noted => k \in DOMAIN noted' /\ noted'[k] = noted[k]  BY <3>2, <1>12
      <4> QED  BY <4>1, <2>2, <2>3, <1>12
    <3> QED  BY <3>1, <3>2
  <2> QED  BY <2>1, <2>3, <2>5
<1> QED  BY <1>15, <1>16, <1>17 DEF StatesAreKept

\* The process ends: the table is all that is left, and AISHub's rows are taken
\* anew.
LEMMA EndingStep ==
    ASSUME StaticsInv, EndsClean \/ EndsAbruptly
    PROVE  StaticsInv'
<1> USE DEF StaticsInv
<1>1. IsSpans(gathered) /\ IsSpans(sending) /\ IsSpans(statics)  BY DEF StaticsTyped
<1>2. IsSpans(NoStatics) /\ DOMAIN NoStatics = {}  BY NothingGrows
<1>3. PICK table : EndProcess(table) /\ IsSpans(table)
  <2>1. IsSpans(Spanning(statics, Spanning(sending, gathered)))  BY <1>1, SpanningIs
  <2> QED  BY <1>1, <2>1 DEF EndsClean, EndsAbruptly
<1>4. statics' = table /\ noted' = table /\ gathered' = NoStatics /\ sending' = NoStatics
      /\ hubAt' = [v \in Hulks |-> 0] /\ seed' = NotSeeding /\ UNCHANGED <<time, hubRow, record>>
  BY <1>3 DEF EndProcess
<1>5. IsFiniteSet({}) /\ Cardinality({}) = 0 /\ MaxStatics \in Nat /\ LastMoment \in Nat
  BY FS_EmptySet, StaticsAssumption
<1>6. StaticsTyped'  BY <1>2, <1>3, <1>4, <1>5 DEF StaticsTyped, NotSeeding
<1>7. NothingHeardIsLost'
  <2>1. Spanning(NoStatics, NoStatics) = NoStatics /\ Spanning(table, NoStatics) = table
    BY <1>2, <1>3, SpanningNothing
  <2> QED  BY <2>1, <1>2, <1>4, <1>5 DEF NothingHeardIsLost
<1>8. SkippedRowsAreKept'  BY <1>4 DEF SkippedRowsAreKept
<1> QED  BY <1>6, <1>7, <1>8 DEF StatesAreKept

LEMMA RecordRowsTyped ==
    ASSUME StaticsTyped
    PROVE  IsSpans(RecordRows)
<1>1. PICK known : known = {v \in Hulks : record[v] # Nothing}  OBVIOUS
<1>2. \A v \in known : record[v].at \in Nat  BY <1>1, StaticsAssumption DEF StaticsTyped, HubRows
<1>3. PICK keys : keys = {RowOf("record", v, record[v].fields, record[v].at) : v \in known}  OBVIOUS
<1>4. PICK who : who = [k \in keys |-> CHOOSE u \in known : RowOf("record", u, record[u].fields, record[u].at) = k]
  OBVIOUS
<1>5. \A k \in keys : who[k] \in known
  <2> SUFFICES ASSUME NEW k \in keys PROVE who[k] \in known  OBVIOUS
  <2>1. \E u \in known : RowOf("record", u, record[u].fields, record[u].at) = k  BY <1>3
  <2> QED  BY <2>1, <1>4
<1>6. RecordRows = [k \in keys |-> [first |-> record[who[k]].at, last |-> record[who[k]].at]]
  BY <1>1, <1>3, <1>4 DEF RecordRows
<1>7. \A k \in DOMAIN RecordRows : RecordRows[k] \in [first : Nat, last : Nat]  BY <1>2, <1>5, <1>6
<1> QED  BY <1>6, <1>7 DEF IsSpans

LEMMA SeedSteps ==
    ASSUME StaticsInv, BeginSeed \/ SeedSome \/ FailSeed \/ EndSeed
    PROVE  StaticsInv'
<1> USE DEF StaticsInv
<1>1. IsSpans(gathered) /\ IsSpans(sending) /\ IsSpans(statics) /\ IsSpans(noted) /\ IsFiniteSet(DOMAIN gathered)
      /\ IsFiniteSet(DOMAIN sending) /\ IsSpans(seed.left) /\ Spanning(statics, Spanning(sending, gathered)) = noted
      /\ Cardinality(DOMAIN gathered) <= MaxStatics
  BY DEF StaticsTyped, StatesAreKept, NothingHeardIsLost
<1>2. Grows(noted, noted) /\ IsSpans(NoStatics)  BY NothingGrows
<1>3. CASE BeginSeed \/ FailSeed \/ EndSeed
  <2>1. UNCHANGED <<time, gathered, sending, statics, hubRow, hubAt, record, noted, passedOver>>
        /\ seed'.left \in {RecordRows, NoStatics}
    BY <1>3 DEF BeginSeed, FailSeed, EndSeed, NotSeeding
  <2>2. IsSpans(seed'.left)  BY <1>2, <2>1, RecordRowsTyped
  <2> QED  BY <1>1, <1>2, <2>1, <2>2, RowsMove
<1>4. CASE SeedSome
  <2>1. PICK some \in SUBSET DOMAIN seed.left :
          /\ statics' = Spanning(statics, Restrict(seed.left, some))
          /\ noted' = Spanning(noted, Restrict(seed.left, some))
          /\ seed' = [seed EXCEPT !.left = Restrict(@, DOMAIN @ \ some)]
    BY <1>4 DEF SeedSome
  <2>2. UNCHANGED <<time, gathered, sending, hubRow, hubAt, record, passedOver>>  BY <1>4 DEF SeedSome
  <2>3. PICK part : part = Restrict(seed.left, some) /\ IsSpans(part)  BY <1>1, PartOfSpans
  <2>4. PICK rest \in SUBSET DOMAIN seed.left : rest = DOMAIN seed.left \ some  OBVIOUS
  <2>5. IsSpans(Restrict(seed.left, rest))  BY <1>1, PartOfSpans
  <2>6. IsSpans(seed'.left)  BY <2>1, <2>4, <2>5
  <2>7. IsSpans(statics') /\ IsSpans(noted') /\ Grows(noted', noted)
    BY <1>1, <2>1, <2>3, SpanningIs, SpanningGrows
  <2>8. Spanning(statics', Spanning(sending', gathered')) = noted'
    <3>1. PICK a : a = Spanning(sending, gathered) /\ IsSpans(a)  BY <1>1, SpanningIs
    <3>2. Spanning(Spanning(statics, part), a) = Spanning(statics, Spanning(part, a))
      BY <1>1, <2>3, <3>1, SpanningAssociates
    <3>3. Spanning(part, a) = Spanning(a, part)  BY <2>3, <3>1, SpanningCommutes
    <3>4. Spanning(statics, Spanning(a, part)) = Spanning(Spanning(statics, a), part)
      BY <1>1, <2>3, <3>1, SpanningAssociates
    <3> QED  BY <1>1, <2>1, <2>2, <2>3, <3>1, <3>2, <3>3, <3>4
  <2> QED  BY <1>1, <2>2, <2>6, <2>7, <2>8, RowsMove
<1> QED  BY <1>3, <1>4

\* Messages, snapshots and the record.
LEMMA HearingSteps ==
    ASSUME StaticsInv, NEW v \in Hulks,
           \/ \E fields \in Fields : \/ \E t \in 1..time : Message(v, fields, t)
                                     \/ HubHears(v, fields) \/ RecordFolds(v, fields)
           \/ SnapshotRow(v)
    PROVE  StaticsInv'
<1> USE DEF StaticsInv
<1>1. IsSpans(gathered) /\ IsSpans(sending) /\ IsSpans(statics) /\ IsSpans(noted) /\ IsFiniteSet(DOMAIN gathered)
      /\ IsFiniteSet(DOMAIN sending) /\ IsSpans(seed.left) /\ Spanning(statics, Spanning(sending, gathered)) = noted
      /\ Cardinality(DOMAIN gathered) <= MaxStatics
  BY DEF StaticsTyped, StatesAreKept, NothingHeardIsLost
<1>2. time \in 1..LastMoment /\ LastMoment \in Nat /\ hubRow \in HubRows /\ record \in HubRows
      /\ hubAt \in [Hulks -> 0..LastMoment]
  BY StaticsAssumption DEF StaticsTyped
<1>3. ASSUME NEW fields \in Fields, NEW t \in 1..time, Message(v, fields, t) PROVE StaticsInv'
  <2>1. t \in 1..LastMoment  BY <1>2
  <2>2. PICK k : k = RowOf("live", v, fields, t)  OBVIOUS
  <2>3. Gathers(k, t) /\ UNCHANGED <<time, sending, statics, hubRow, hubAt, record, seed>>  BY <1>3, <2>2 DEF Message
  <2>4. /\ IsSpans(gathered') /\ IsSpans(noted') /\ IsFiniteSet(DOMAIN gathered')
        /\ NothingHeardIsLost' /\ Grows(noted', noted) /\ passedOver \subseteq passedOver'
    BY <2>1, <2>3, GatheringStep
  <2>5. StaticsTyped'  BY <2>3, <2>4 DEF StaticsTyped
  <2>6. SkippedRowsAreKept'
    <3> SUFFICES ASSUME NEW w \in Hulks, hubAt'[w] > 0
                 PROVE  \E f \in Fields :
                          LET r == RowOf("aishub", w, f, hubAt'[w]) IN
                            \/ r \in DOMAIN noted' /\ hubAt'[w] \in noted'[r].first .. noted'[r].last
                            \/ <<r, hubAt'[w]>> \in passedOver'
      BY DEF SkippedRowsAreKept, RowOf
    <3> QED  BY <2>3, <2>4, StillAccounted DEF StatesAreKept
  <2> QED  BY <2>4, <2>5, <2>6 DEF StatesAreKept
<1>4. ASSUME NEW fields \in Fields, HubHears(v, fields) \/ RecordFolds(v, fields) PROVE StaticsInv'
  <2>1. [at |-> time, fields |-> fields] \in [at : 1..LastMoment, fields : Fields]  BY <1>2
  <2>2. UNCHANGED <<time, gathered, sending, statics, hubAt, seed, noted, passedOver>>
        /\ hubRow' \in {hubRow, [hubRow EXCEPT ![v] = [at |-> time, fields |-> fields]]}
        /\ record' \in {record, [record EXCEPT ![v] = [at |-> time, fields |-> fields]]}
    BY <1>4 DEF HubHears, RecordFolds
  <2>3. hubRow' \in HubRows /\ record' \in HubRows  BY <1>2, <2>1, <2>2 DEF HubRows
  <2>4. StaticsTyped'  BY <2>2, <2>3 DEF StaticsTyped
  <2> QED  BY <2>2, <2>4 DEF StatesAreKept, NothingHeardIsLost, SkippedRowsAreKept, RowOf
<1>5. CASE SnapshotRow(v)
  <2>1. PICK row \in [at : 1..LastMoment, fields : Fields] : row = hubRow[v]
    BY <1>2, <1>5 DEF SnapshotRow, HubRows
  <2>2. row.at \in 1..LastMoment /\ row.fields \in Fields  BY <2>1
  <2>3. PICK k : k = RowOf("aishub", v, row.fields, row.at)  OBVIOUS
  <2>4. Gathers(k, row.at) /\ hubAt' = [hubAt EXCEPT ![v] = row.at] /\ on
        /\ UNCHANGED <<time, sending, statics, hubRow, record, seed>>
    BY <1>5, <2>1, <2>3 DEF SnapshotRow, Moved
  <2>5. /\ IsSpans(gathered') /\ IsSpans(noted') /\ IsFiniteSet(DOMAIN gathered')
        /\ NothingHeardIsLost' /\ Grows(noted', noted) /\ passedOver \subseteq passedOver'
        /\ \/ k \in DOMAIN noted' /\ row.at \in noted'[k].first .. noted'[k].last
           \/ <<k, row.at>> \in passedOver'
    BY <2>2, <2>4, GatheringStep
  <2>6. hubAt' \in [Hulks -> 0..LastMoment] /\ hubAt'[v] = row.at /\ \A w \in Hulks \ {v} : hubAt'[w] = hubAt[w]
    BY <1>2, <2>2, <2>4
  <2>7. StaticsTyped'  BY <2>4, <2>5, <2>6 DEF StaticsTyped
  <2>8. SkippedRowsAreKept'
    <3> SUFFICES ASSUME NEW w \in Hulks, hubAt'[w] > 0
                 PROVE  \E f \in Fields :
                          LET r == RowOf("aishub", w, f, hubAt'[w]) IN
                            \/ r \in DOMAIN noted' /\ hubAt'[w] \in noted'[r].first .. noted'[r].last
                            \/ <<r, hubAt'[w]>> \in passedOver'
      BY DEF SkippedRowsAreKept, RowOf
    <3>1. CASE w = v  BY <3>1, <2>2, <2>3, <2>5, <2>6
    <3>2. CASE w # v  BY <3>2, <2>5, <2>6, StillAccounted DEF StatesAreKept
    <3> QED  BY <3>1, <3>2
  <2> QED  BY <2>5, <2>7, <2>8 DEF StatesAreKept
<1> QED  BY <1>3, <1>4, <1>5

\* Every static state heard is in the table, on its way or waiting, with the
\* first and last time it was heard, less what the bound drops and what goes
\* with a process; and a snapshot's row is skipped only once it is accounted
\* for (noteStaticPacket, ingestAishub, insertStatics).
THEOREM StaticsAreKept == StaticsSpec => []StatesAreKept
<1>1. StaticsInit => StaticsInv
  <2> SUFFICES ASSUME StaticsInit PROVE StaticsInv  OBVIOUS
  <2>1. time = 1 /\ gathered = NoStatics /\ sending = NoStatics /\ statics = NoStatics /\ noted = NoStatics
        /\ hubRow = [v \in Hulks |-> Nothing] /\ hubAt = [v \in Hulks |-> 0] /\ record = [v \in Hulks |-> Nothing]
        /\ seed.left = NoStatics
    BY DEF StaticsInit, NotSeeding
  <2>2. IsSpans(NoStatics) /\ DOMAIN NoStatics = {}  BY DEF IsSpans, NoStatics
  <2>3. IsFiniteSet({}) /\ Cardinality({}) = 0 /\ MaxStatics \in Nat /\ LastMoment \in Nat /\ LastMoment > 0
    BY FS_EmptySet, StaticsAssumption
  <2>4. StaticsTyped  BY <2>1, <2>2, <2>3 DEF StaticsTyped, HubRows
  <2>5. Spanning(NoStatics, NoStatics) = NoStatics  BY <2>2, SpanningNothing
  <2>6. NothingHeardIsLost  BY <2>1, <2>2, <2>3, <2>5 DEF NothingHeardIsLost
  <2>7. SkippedRowsAreKept  BY <2>1 DEF SkippedRowsAreKept
  <2> QED  BY <2>4, <2>6, <2>7 DEF StaticsInv, StatesAreKept
<1>2. StaticsInv /\ [StaticsNext]_staticsVars => StaticsInv'
  <2> SUFFICES ASSUME StaticsInv, [StaticsNext]_staticsVars PROVE StaticsInv'  OBVIOUS
  <2>1. CASE PruneHub
    <3>1. UNCHANGED <<time, gathered, sending, statics, hubRow, record, seed, noted, passedOver>>
          /\ hubAt' = [v \in Hulks |-> IF hubAt[v] < time - BadAge THEN 0 ELSE hubAt[v]]
      BY <2>1 DEF PruneHub
    <3>2. hubAt \in [Hulks -> 0..LastMoment] /\ LastMoment \in Nat
      BY StaticsAssumption DEF StaticsInv, StaticsTyped
    <3>3. hubAt' \in [Hulks -> 0..LastMoment] /\ \A v \in Hulks : hubAt'[v] \in {0, hubAt[v]}  BY <3>1, <3>2
    <3>4. StaticsTyped'  BY <3>1, <3>3 DEF StaticsInv, StaticsTyped
    <3>5. SkippedRowsAreKept'
      <4> SUFFICES ASSUME NEW v \in Hulks, hubAt'[v] > 0
                   PROVE  \E fields \in Fields :
                            LET k == RowOf("aishub", v, fields, hubAt'[v]) IN
                              \/ k \in DOMAIN noted' /\ hubAt'[v] \in noted'[k].first .. noted'[k].last
                              \/ <<k, hubAt'[v]>> \in passedOver'
        BY DEF SkippedRowsAreKept, RowOf
      <4>1. hubAt'[v] = hubAt[v]  BY <3>3
      <4> QED  BY <4>1, <3>1 DEF StaticsInv, StatesAreKept, SkippedRowsAreKept
    <3> QED  BY <3>1, <3>4, <3>5 DEF StaticsInv, StatesAreKept, NothingHeardIsLost
  <2>2. CASE Attach \/ MomentPasses \/ UNCHANGED staticsVars
    <3>1. UNCHANGED <<gathered, sending, statics, hubRow, hubAt, record, seed, noted, passedOver>>
      BY <2>2 DEF Attach, MomentPasses, staticsVars
    <3>2. time' \in 1..LastMoment
      BY <2>2, StaticsAssumption DEF Attach, MomentPasses, staticsVars, StaticsInv, StaticsTyped
    <3> QED  BY <3>1, <3>2 DEF StaticsInv, StaticsTyped, StatesAreKept, NothingHeardIsLost, SkippedRowsAreKept, RowOf
  <2> QED  BY <2>1, <2>2, HearingSteps, FlushSteps, FailingStep, EndingStep, SeedSteps DEF StaticsNext
<1>3. StaticsInv => StatesAreKept  BY DEF StaticsInv
<1> QED  BY <1>1, <1>2, <1>3, PTL DEF StaticsSpec
=============================================================================
