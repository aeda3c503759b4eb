----------------------------- MODULE LoadsProofs -----------------------------
(* Theorems about the days of receptions: converted from the tables of old, *)
(* loaded, replayed and binned, the coverage map that is read from what was   *)
(* binned, and the raw archive given to the adapters again.                 *)
EXTENDS Conversion, HistoryLoads, CoverageTiles, RawReplay, TLAPS, FiniteSetTheorems, SequenceTheorems

-----------------------------------------------------------------------------
(* Sets of naturals: their least, and their largest when they are bounded.  *)

LEMMA LeastNatural ==
    ASSUME NEW S \in SUBSET Nat, S # {}
    PROVE  \E x \in S : \A y \in S : x <= y
<1>1. PICK x \in S : \A y \in S : ~ (<<y, x>> \in OpToRel(<, Nat))  BY NatLessThanWellFounded, WFMin
<1>2. ASSUME NEW y \in S PROVE x <= y
  <2>1. ~(<<y, x>> \in OpToRel(<, Nat))  BY <1>1
  <2> QED BY <2>1 DEF OpToRel
<1> QED  BY <1>2

LEMMA LargestBounded ==
    ASSUME NEW S \in SUBSET Nat, S # {}, NEW n \in Nat, \A x \in S : x <= n
    PROVE  Max(S) \in S /\ \A x \in S : x <= Max(S)
<1> DEFINE U == {m \in Nat : \A x \in S : x <= m}
<1>1. PICK m \in U : \A k \in U : m <= k
  <2>1. U \in SUBSET Nat /\ U # {}  OBVIOUS
  <2> HIDE DEF U
  <2> QED BY <2>1, LeastNatural
<1>2. m \in S
  <2> SUFFICES ASSUME m \notin S PROVE FALSE
    OBVIOUS
  <2>1. \A x \in S : x <= m - 1 /\ m - 1 \in Nat  OBVIOUS
  <2>2. m - 1 \in U  BY <2>1
  <2> QED  BY <1>1, <2>2
<1>3. \E x \in S : \A y \in S : x >= y  BY <1>2
<1> QED  BY <1>3 DEF Max

LEMMA FiniteIsBounded ==
    ASSUME NEW S \in SUBSET Nat, IsFiniteSet(S)
    PROVE  \E n \in Nat : \A x \in S : x <= n
<1> DEFINE Bounded(T) == \E n \in Nat : \A x \in T : x <= n
           C == {T \in FiniteSubsetsOf(S) : ~Bounded(T)}
<1> SUFFICES ASSUME ~Bounded(S) PROVE FALSE
  OBVIOUS
<1>1. C \subseteq FiniteSubsetsOf(S) /\ C # {}  BY DEF FiniteSubsetsOf
<1>2. PICK T \in C : \A U \in C : <<U, T>> \notin StrictSubsetOrdering(S)
  <2> HIDE DEF C
  <2> QED  BY <1>1, FS_StrictSubsetOrderingWellFounded, WFMin
<1>3. T \in SUBSET S /\ IsFiniteSet(T) /\ ~Bounded(T)  BY <1>2 DEF FiniteSubsetsOf
<1>4. PICK x \in T : TRUE  BY <1>3
<1>5. T \ {x} \in SUBSET S /\ IsFiniteSet(T \ {x})  BY <1>3, FS_RemoveElement
<1>6. <<T \ {x}, T>> \in StrictSubsetOrdering(S)  BY <1>3, <1>4, <1>5 DEF StrictSubsetOrdering
<1>7. Bounded(T \ {x})  BY <1>2, <1>5, <1>6 DEF FiniteSubsetsOf
<1>8. PICK n \in Nat : \A y \in T \ {x} : y <= n  BY <1>7
<1>9. x \in Nat  BY <1>3, <1>4
<1>10. \A y \in T : y <= n + x  BY <1>3, <1>8, <1>9
<1> QED  BY <1>3, <1>8, <1>9, <1>10

LEMMA EarlierAndLater ==
    ASSUME NEW a \in Nat, NEW b \in Nat
    PROVE  Min({a, b}) = (IF a <= b THEN a ELSE b) /\ Max({a, b}) = (IF a >= b THEN a ELSE b)
<1>1. PICK s \in {a, b} : \A y \in {a, b} : s <= y  OBVIOUS
<1>2. Min({a, b}) \in {a, b} /\ \A y \in {a, b} : Min({a, b}) <= y  BY <1>1 DEF Min
<1>3. PICK l \in {a, b} : \A y \in {a, b} : l >= y  OBVIOUS
<1>4. Max({a, b}) \in {a, b} /\ \A y \in {a, b} : Max({a, b}) >= y  BY <1>3 DEF Max
<1> QED  BY <1>2, <1>4

-----------------------------------------------------------------------------
(* The conversion of receptions (convert.go). *)

Converters == [pc : {"idle", "count", "read", "write"}, days : SUBSET ConvertDays, count : Nat,
               todo : SUBSET Nat, run : Nat]

ConvertTyped ==
  /\ layout \in {"first", "current"} /\ legacy \in BOOLEAN
  /\ heard \in [ConvertDays -> Nat] /\ converted \in [ConvertDays -> Nat]
  /\ first \in [ConvertDays -> SUBSET Nat] /\ rewritten \in [ConvertDays -> SUBSET (Nat \X Nat)]
  /\ converter \in Converters

\* A cleanup that has dropped a table leaves no way back to the first layout.
NoWayBack == reads # OldTables
Cleaning ==
  /\ cleaner \notin {"idle", "positions_15m"} => NoWayBack
  /\ ~legacy => NoWayBack
  /\ NoWayBack \/ cleaner # "idle" =>
       /\ layout = "current" /\ converter.pc = "idle"
       /\ legacy => \A d \in ConvertDays : converted[d] = heard[d]
  /\ converter.pc = "idle" <=> converter.days = {}
  /\ \A d \in ConvertDays : first[d] = 1..heard[d] \/ (first[d] = {} /\ NoWayBack)

\* A day recorded with the rows it has now, or cleaned up, has each once.
OneRow(d, t) == \E r \in rewritten[d] : {s \in rewritten[d] : s[1] = t} = {r}
DaysRecorded ==
  \A d \in ConvertDays :
    /\ converted[d] <= heard[d]
    /\ ~legacy \/ converted[d] = heard[d] => \A t \in 1..heard[d] : OneRow(d, t)

\* A day in hand is short of rows until it is recorded, and what was counted of
\* it is written once or still to be written.
InHand ==
  /\ \A d \in converter.days : converted[d] < heard[d]
  /\ converter.pc \in {"read", "write"} => converter.count <= heard[Day]
  /\ converter.pc = "read" => rewritten[Day] = {}
  /\ converter.pc = "write" =>
       /\ \A t \in 1..converter.count : t \in converter.todo \/ OneRow(Day, t)
       /\ \A t \in converter.todo, r \in rewritten[Day] : r[1] # t

ConvertInv == ConvertTyped /\ Cleaning /\ DaysRecorded /\ InHand

LEMMA FirstOf ==
    ASSUME NEW S \in SUBSET Nat, S # {}
    PROVE  Min(S) \in S
  BY LeastNatural DEF Min

LEMMA HowMany ==
    ASSUME NEW n \in Nat
    PROVE  Cardinality(1..n) = n
  BY FS_Interval

\* Nothing is left to convert once a table is gone.
LEMMA ConvertedAll ==
    ASSUME ConvertInv, NoWayBack \/ cleaner # "idle"
    PROVE  Unconverted = {}
<1> SUFFICES ASSUME NEW d \in Unconverted PROVE FALSE
  OBVIOUS
<1>1. /\ d \in ConvertDays /\ legacy /\ first[d] # {} /\ converted[d] # Cardinality(first[d])
      /\ heard[d] \in Nat
  BY DEF Unconverted, ConvertInv, ConvertTyped
<1>2. converted[d] = heard[d] /\ first[d] = 1..heard[d]  BY <1>1 DEF ConvertInv, Cleaning
<1> QED  BY <1>1, <1>2, HowMany

LEMMA DaySetOn ==
    ASSUME ConvertInv, converter.pc # "idle"
    PROVE  /\ Day \in ConvertDays /\ Day \in converter.days /\ legacy /\ ~NoWayBack /\ cleaner = "idle"
           /\ heard[Day] \in Nat /\ first[Day] = 1..heard[Day] /\ converted[Day] < heard[Day]
<1>1. converter.days \in SUBSET ConvertDays /\ converter.days # {} /\ legacy /\ ~NoWayBack /\ cleaner = "idle"
  BY DEF ConvertInv, ConvertTyped, Converters, Cleaning
<1>2. converter.days \in SUBSET Nat  BY <1>1, ConversionAssumption
<1>3. Day \in converter.days  BY <1>1, <1>2, FirstOf DEF Day
<1> QED  BY <1>1, <1>3 DEF ConvertInv, ConvertTyped, Cleaning, InHand

\* The server's side.
LEMMA ServerSteps ==
    ASSUME ConvertInv, (\E d \in ConvertDays : Hear(d)) \/ Deploy \/ RollBack
    PROVE  ConvertInv'
<1>1. ConvertTyped /\ Cleaning /\ DaysRecorded /\ InHand  BY DEF ConvertInv
<1>2. ASSUME NEW d \in ConvertDays, Hear(d) PROVE ConvertInv'
  <2>1. PICK n \in Nat : n = heard[d]  BY <1>1 DEF ConvertTyped
  <2>2. /\ layout = "first" /\ heard' = [heard EXCEPT ![d] = n + 1] /\ first' = [first EXCEPT ![d] = @ \union {n + 1}]
        /\ UNCHANGED <<layout, rewritten, converted, legacy, reads, converter, cleaner, tries>>
    BY <1>2, <2>1 DEF Hear
  <2>3. ~NoWayBack /\ cleaner = "idle" /\ legacy  BY <1>1, <2>2 DEF Cleaning
  <2>4. /\ heard' \in [ConvertDays -> Nat] /\ heard'[d] = n + 1
        /\ \A e \in ConvertDays : e # d => heard'[e] = heard[e] /\ first'[e] = first[e]
        /\ first' \in [ConvertDays -> SUBSET Nat] /\ first'[d] = first[d] \union {n + 1}
    BY <1>1, <2>1, <2>2 DEF ConvertTyped
  <2>5. ConvertTyped'  BY <1>1, <2>2, <2>4 DEF ConvertTyped
  <2>6. Cleaning'
    <3>1. first[d] = 1..n  BY <1>1, <2>1, <2>3 DEF Cleaning
    <3>2. first'[d] = 1..heard'[d]  BY <2>4, <3>1
    <3>3. \A e \in ConvertDays : first'[e] = 1..heard'[e]  BY <1>1, <2>3, <2>4, <3>2 DEF Cleaning
    <3> QED  BY <1>1, <2>2, <2>3, <3>3 DEF Cleaning, NoWayBack
  <2>7. \A e \in ConvertDays : heard[e] \in Nat /\ converted[e] \in Nat /\ heard[e] <= heard'[e]
    BY <1>1, <2>1, <2>4 DEF ConvertTyped
  <2>8. DaysRecorded'
    <3>1. ASSUME NEW e \in ConvertDays, e # d
          PROVE  converted'[e] <= heard'[e] /\ (~legacy' \/ converted'[e] = heard'[e] => \A t \in 1..heard'[e] : OneRow(e, t)')
      BY <1>1, <2>2, <2>4, <3>1 DEF DaysRecorded, OneRow
    <3>2. converted'[d] < heard'[d] /\ legacy'  BY <1>1, <2>1, <2>2, <2>3, <2>4, <2>7 DEF DaysRecorded
    <3>3. converted'[d] \in Nat /\ heard'[d] \in Nat  BY <2>2, <2>4, <2>7
    <3>4. converted'[d] <= heard'[d] /\ converted'[d] # heard'[d]  BY <3>2, <3>3
    <3> QED  BY <3>1, <3>2, <3>4 DEF DaysRecorded
  <2>9. InHand'
    <3>1. ASSUME NEW e \in converter'.days PROVE converted'[e] < heard'[e]
      <4>1. e \in ConvertDays /\ converted[e] < heard[e]  BY <1>1, <2>2, <3>1 DEF InHand, ConvertTyped, Converters
      <4> QED  BY <2>2, <2>4, <2>7, <4>1
    <3>2. Day' = Day  BY <2>2 DEF Day
    <3>3. ASSUME converter.pc \in {"read", "write"} PROVE converter.count <= heard'[Day]
      <4>1. Day \in ConvertDays /\ converter.count <= heard[Day] /\ converter.count \in Nat
        BY <1>1, <3>3, DaySetOn DEF InHand, ConvertTyped, Converters
      <4> QED  BY <2>4, <2>7, <4>1
    <3> QED  BY <1>1, <2>2, <3>1, <3>2, <3>3 DEF InHand, OneRow
  <2> QED  BY <2>5, <2>6, <2>8, <2>9 DEF ConvertInv
<1>3. CASE Deploy
  <2>1. /\ layout' = "current"
        /\ UNCHANGED <<heard, first, rewritten, converted, legacy, reads, converter, cleaner>>
    BY <1>3 DEF Deploy
  <2>2. ConvertTyped' /\ Cleaning'  BY <1>1, <2>1 DEF ConvertTyped, Cleaning, NoWayBack
  <2>3. DaysRecorded' /\ InHand'  BY <1>1, <2>1 DEF DaysRecorded, OneRow, InHand, Day
  <2> QED  BY <2>2, <2>3 DEF ConvertInv
<1>4. CASE RollBack
  <2>1. /\ layout' = "first" /\ cleaner = "idle" /\ reads = OldTables /\ legacy
        /\ UNCHANGED <<heard, first, rewritten, converted, legacy, reads, converter, cleaner>>
    BY <1>4 DEF RollBack
  <2>2. ConvertTyped' /\ Cleaning'  BY <1>1, <2>1 DEF ConvertTyped, Cleaning, NoWayBack
  <2>3. DaysRecorded' /\ InHand'  BY <1>1, <2>1 DEF DaysRecorded, OneRow, InHand, Day
  <2> QED  BY <2>2, <2>3 DEF ConvertInv
<1> QED  BY <1>2, <1>3, <1>4

\* A step of the converter that leaves the ledger and the rows of other days.
LEMMA ConverterSteps ==
    ASSUME ConvertInv, ConvertBegin \/ CountDay \/ ReadRows \/ WriteBatch \/ RecordDay \/ ConvertStops
    PROVE  ConvertInv'
<1>1. ConvertTyped /\ Cleaning /\ DaysRecorded /\ InHand  BY DEF ConvertInv
<1>2. UNCHANGED <<layout, heard, first, legacy, reads, cleaner>>
  BY DEF ConvertBegin, CountDay, ReadRows, WriteBatch, RecordDay, ConvertStops
<1>3. /\ heard \in [ConvertDays -> Nat] /\ converted \in [ConvertDays -> Nat]
      /\ rewritten \in [ConvertDays -> SUBSET (Nat \X Nat)] /\ first \in [ConvertDays -> SUBSET Nat]
  BY <1>1 DEF ConvertTyped
<1>4. PICK c \in Converters : c = converter  BY <1>1 DEF ConvertTyped
<1>5. CASE ConvertBegin
  <2>1. converter.pc = "idle" /\ Unconverted # {} /\ converter' = [c EXCEPT !.pc = "count", !.days = Unconverted]
        /\ UNCHANGED <<rewritten, converted>>
    BY <1>4, <1>5 DEF ConvertBegin
  <2>2. PICK U \in SUBSET ConvertDays : U = Unconverted  BY DEF Unconverted
  <2>3. PICK a \in Converters : a = [c EXCEPT !.pc = "count", !.days = U] /\ a.pc = "count" /\ a.days = U
    <3>1. [c EXCEPT !.pc = "count", !.days = U] \in Converters  BY DEF Converters
    <3>2. PICK a \in Converters : a = [c EXCEPT !.pc = "count", !.days = U]  BY <3>1
    <3>3. a.pc = "count" /\ a.days = U  BY <3>2 DEF Converters
    <3> QED  BY <3>2, <3>3
  <2>4. ~NoWayBack /\ cleaner = "idle" /\ legacy  BY <1>1, <2>1, ConvertedAll DEF Cleaning
  <2>5. ASSUME NEW d \in U PROVE converted[d] < heard[d]
    <3>1. heard[d] \in Nat /\ converted[d] \in Nat /\ first[d] = 1..heard[d] /\ converted[d] # Cardinality(first[d])
      BY <1>1, <1>3, <2>2, <2>4 DEF Unconverted, Cleaning
    <3>2. converted[d] # heard[d] /\ converted[d] <= heard[d]  BY <1>1, <3>1, HowMany DEF DaysRecorded
    <3> QED  BY <3>1, <3>2
  <2>6. ConvertTyped' /\ Cleaning'
    BY <1>1, <1>2, <2>1, <2>2, <2>3, <2>4 DEF ConvertTyped, Cleaning, NoWayBack
  <2>7. DaysRecorded'  BY <1>1, <1>2, <2>1 DEF DaysRecorded, OneRow
  <2>8. InHand'  BY <1>2, <2>1, <2>2, <2>3, <2>5 DEF InHand
  <2> QED  BY <2>6, <2>7, <2>8 DEF ConvertInv
<1>6. CASE converter.pc # "idle" /\ ~ConvertBegin
  <2>1. /\ Day \in ConvertDays /\ Day \in c.days /\ legacy /\ ~NoWayBack /\ cleaner = "idle"
        /\ heard[Day] \in Nat /\ first[Day] = 1..heard[Day] /\ converted[Day] < heard[Day]
    BY <1>4, <1>6, DaySetOn
  <2>2. PICK d \in ConvertDays : d = Day /\ d \in c.days /\ converted[d] < heard[d]  BY <2>1
  \* The day's rows changed, the others' not.
  <2>3. ASSUME NEW a \in Converters, converter' = a, a.pc = "idle" <=> a.days = {},
               NEW W \in SUBSET (Nat \X Nat), rewritten' = [rewritten EXCEPT ![d] = W], converted' = converted
        PROVE  /\ ConvertTyped' /\ Cleaning' /\ DaysRecorded' /\ rewritten'[d] = W
    <3>1. /\ rewritten' \in [ConvertDays -> SUBSET (Nat \X Nat)] /\ rewritten'[d] = W
          /\ \A e \in ConvertDays : e # d => rewritten'[e] = rewritten[e]
      BY <1>3, <2>3
    <3>2. ConvertTyped'  BY <1>1, <1>2, <2>3, <3>1 DEF ConvertTyped
    <3>3. Cleaning'  BY <1>1, <1>2, <2>1, <2>3 DEF Cleaning, NoWayBack
    <3>4. converted[d] # heard[d]  BY <1>3, <2>2
    <3>5. DaysRecorded'
      <4>1. ASSUME NEW e \in ConvertDays
            PROVE  converted'[e] <= heard'[e] /\ (~legacy' \/ converted'[e] = heard'[e] => \A t \in 1..heard'[e] : OneRow(e, t)')
        <5>1. CASE e = d  BY <1>1, <1>2, <2>1, <2>3, <3>4, <5>1 DEF DaysRecorded
        <5>2. CASE e # d  BY <1>1, <1>2, <2>3, <3>1, <5>2 DEF DaysRecorded, OneRow
        <5> QED  BY <5>1, <5>2
      <4> QED  BY <4>1 DEF DaysRecorded
    <3> QED  BY <3>1, <3>2, <3>3, <3>5
  <2>4. CASE CountDay
    <3>1. rewritten' = [rewritten EXCEPT ![d] = {}] /\ converted' = converted
          /\ converter' = [c EXCEPT !.pc = "read", !.count = heard[d]] /\ c.pc = "count"
      BY <1>4, <2>1, <2>2, <2>4, HowMany DEF CountDay, Emptied
    <3>2. PICK a \in Converters : a = [c EXCEPT !.pc = "read", !.count = heard[d]] /\ a.pc = "read" /\ a.days = c.days
                                  /\ a.count = heard[d]
      <4>1. [c EXCEPT !.pc = "read", !.count = heard[d]] \in Converters  BY <1>3 DEF Converters
      <4>2. PICK a \in Converters : a = [c EXCEPT !.pc = "read", !.count = heard[d]]  BY <4>1
      <4>3. a.pc = "read" /\ a.days = c.days /\ a.count = heard[d]  BY <4>2 DEF Converters
      <4> QED  BY <4>2, <4>3
    <3>3. ConvertTyped' /\ Cleaning' /\ DaysRecorded' /\ rewritten'[d] = {}  BY <2>2, <2>3, <3>1, <3>2
    <3>4. Day' = d  BY <1>4, <2>2, <3>1, <3>2 DEF Day
    <3>5. InHand'
      <4>1. \A e \in converter'.days : converted'[e] < heard'[e]  BY <1>1, <1>2, <1>4, <3>1, <3>2 DEF InHand
      <4>2. converter'.pc = "read" /\ converter'.count <= heard'[Day'] /\ rewritten'[Day'] = {}
        BY <1>2, <1>3, <3>1, <3>2, <3>3, <3>4
      <4> QED  BY <4>1, <4>2 DEF InHand
    <3> QED  BY <3>3, <3>5 DEF ConvertInv
  <2>5. CASE ReadRows
    <3>1. UNCHANGED <<rewritten, converted>> /\ c.pc = "read"
          /\ converter' = [c EXCEPT !.pc = "write", !.todo = first[d], !.run = @ + 1]
      BY <1>4, <2>2, <2>5 DEF ReadRows
    <3>2. PICK a \in Converters : /\ a = [c EXCEPT !.pc = "write", !.todo = first[d], !.run = @ + 1]
                                  /\ a.pc = "write" /\ a.days = c.days /\ a.count = c.count /\ a.todo = first[d]
      <4>1. [c EXCEPT !.pc = "write", !.todo = first[d], !.run = @ + 1] \in Converters
        <5>1. first[d] \in SUBSET Nat /\ c.run + 1 \in Nat  BY <1>3 DEF Converters
        <5> QED  BY <5>1 DEF Converters
      <4>2. PICK a \in Converters : a = [c EXCEPT !.pc = "write", !.todo = first[d], !.run = @ + 1]  BY <4>1
      <4>3. a.pc = "write" /\ a.days = c.days /\ a.count = c.count /\ a.todo = first[d]  BY <4>2 DEF Converters
      <4> QED  BY <4>2, <4>3
    <3>3. rewritten' = [rewritten EXCEPT ![d] = rewritten[d]]  BY <1>3, <3>1
    <3>4. c.pc # "idle"  BY <3>1
    <3>5. rewritten[d] \in SUBSET (Nat \X Nat) /\ (a.pc = "idle" <=> a.days = {})  BY <1>3, <2>2, <3>2
    <3>6. ConvertTyped' /\ Cleaning' /\ DaysRecorded'  BY <2>3, <3>1, <3>2, <3>3, <3>5
    <3>7. Day' = d  BY <1>4, <2>2, <3>1, <3>2 DEF Day
    <3>8. c.count <= heard[d] /\ rewritten[d] = {} /\ c.count \in Nat  BY <1>1, <1>4, <2>2, <3>1 DEF InHand, Converters
    <3>9. \A t \in 1..c.count : t \in first[d]  BY <2>1, <2>2, <3>8
    <3>10. \A e \in converter'.days : converted'[e] < heard'[e]  BY <1>1, <1>2, <1>4, <3>1, <3>2 DEF InHand
    <3>11. InHand'  BY <1>2, <3>1, <3>2, <3>7, <3>8, <3>9, <3>10 DEF InHand
    <3> QED  BY <3>6, <3>11 DEF ConvertInv
  <2>6. CASE WriteBatch
    <3>1. PICK t \in Nat : t = Min(c.todo) /\ t \in c.todo
      <4>1. c.todo \in SUBSET Nat /\ c.todo # {}  BY <1>4, <2>6 DEF WriteBatch, Converters
      <4> QED  BY <4>1, FirstOf
    <3>2. PICK n \in Nat : n = c.run  BY DEF Converters
    <3>3. /\ rewritten' = [rewritten EXCEPT ![d] = rewritten[d] \union {<<t, n>>}] /\ converted' = converted
          /\ converter' = [c EXCEPT !.todo = @ \ {t}] /\ c.pc = "write"
      BY <1>3, <1>4, <2>2, <2>6, <3>1, <3>2 DEF WriteBatch
    <3>4. PICK a \in Converters : /\ a = [c EXCEPT !.todo = @ \ {t}]
                                  /\ a.pc = "write" /\ a.days = c.days /\ a.count = c.count /\ a.todo = c.todo \ {t}
      <4>1. [c EXCEPT !.todo = @ \ {t}] \in Converters  BY DEF Converters
      <4>2. PICK a \in Converters : a = [c EXCEPT !.todo = @ \ {t}]  BY <4>1
      <4>3. a.pc = "write" /\ a.days = c.days /\ a.count = c.count /\ a.todo = c.todo \ {t}
        BY <3>3, <4>2 DEF Converters
      <4> QED  BY <4>2, <4>3
    <3>5. PICK W \in SUBSET (Nat \X Nat) : W = rewritten[d] \union {<<t, n>>}
      <4>1. rewritten[d] \union {<<t, n>>} \in SUBSET (Nat \X Nat)  BY <1>3, <3>1, <3>2
      <4> QED  BY <4>1
    <3>6. ConvertTyped' /\ Cleaning' /\ DaysRecorded' /\ rewritten'[d] = W
      <4>1. a.pc = "idle" <=> a.days = {}  BY <2>2, <3>4
      <4> QED  BY <2>3, <3>3, <3>4, <3>5, <4>1
    <3>7. Day' = d  BY <1>4, <2>2, <3>3, <3>4 DEF Day
    <3>8. /\ \A u \in 1..c.count : u \in c.todo \/ OneRow(d, u)
          /\ \A u \in c.todo, r \in rewritten[d] : r[1] # u
          /\ c.count <= heard[d]
      BY <1>1, <1>4, <2>2, <3>3 DEF InHand
    <3>9. ASSUME NEW u \in 1..c.count PROVE u \in c.todo \ {t} \/ OneRow(d, u)'
      <4>1. CASE u = t
        <5>1. {s \in W : s[1] = u} = {<<t, n>>}  BY <3>1, <3>5, <3>8, <4>1
        <5> QED  BY <3>5, <3>6, <5>1 DEF OneRow
      <4>2. CASE u # t /\ OneRow(d, u)
        <5>1. {s \in W : s[1] = u} = {s \in rewritten[d] : s[1] = u}  BY <3>5, <4>2
        <5> QED  BY <3>5, <3>6, <4>2, <5>1 DEF OneRow
      <4> QED  BY <3>8, <4>1, <4>2
    <3>10. \A u \in c.todo \ {t}, r \in W : r[1] # u  BY <3>5, <3>8
    <3>11. \A e \in converter'.days : converted'[e] < heard'[e]  BY <1>1, <1>2, <1>4, <3>3, <3>4 DEF InHand
    <3>12. InHand'
      <4>1. converter' = a  BY <3>3, <3>4
      <4>2. \A u \in 1..a.count : u \in a.todo \/ OneRow(d, u)'  BY <3>4, <3>9
      <4>3. \A u \in a.todo, r \in rewritten'[d] : r[1] # u  BY <3>4, <3>6, <3>10
      <4>4. a.count <= heard'[d] /\ a.pc = "write"  BY <1>2, <3>4, <3>8
      <4> QED  BY <3>7, <3>11, <4>1, <4>2, <4>3, <4>4 DEF InHand, OneRow
    <3> QED  BY <3>6, <3>12 DEF ConvertInv
  <2>7. CASE RecordDay
    <3>1. /\ converted' = [converted EXCEPT ![d] = c.count] /\ c.pc = "write" /\ c.todo = {} /\ rewritten' = rewritten
          /\ converter' = [c EXCEPT !.pc = IF c.days = {d} THEN "idle" ELSE "count", !.days = @ \ {d}, !.count = 0]
      BY <1>4, <2>2, <2>7 DEF RecordDay, CountBefore
    <3>2. PICK a \in Converters : /\ a = converter' /\ a.days = c.days \ {d}
                                  /\ a.pc = IF c.days = {d} THEN "idle" ELSE "count"
      <4>1. [c EXCEPT !.pc = IF c.days = {d} THEN "idle" ELSE "count", !.days = @ \ {d}, !.count = 0] \in Converters
        BY DEF Converters
      <4>2. PICK a \in Converters : a = [c EXCEPT !.pc = IF c.days = {d} THEN "idle" ELSE "count", !.days = @ \ {d}, !.count = 0]
        BY <4>1
      <4>3. a.days = c.days \ {d} /\ a.pc = IF c.days = {d} THEN "idle" ELSE "count"  BY <4>2 DEF Converters
      <4> QED  BY <3>1, <4>2, <4>3
    <3>3. /\ \A u \in 1..c.count : OneRow(d, u)
          /\ c.count <= heard[d] /\ c.count \in Nat
      BY <1>1, <1>4, <2>2, <3>1 DEF InHand, Converters
    <3>4. /\ converted' \in [ConvertDays -> Nat] /\ converted'[d] = c.count
          /\ \A e \in ConvertDays : e # d => converted'[e] = converted[e]
      BY <1>3, <3>1, <3>3
    <3>5. ConvertTyped'  BY <1>1, <1>2, <3>1, <3>2, <3>4 DEF ConvertTyped
    <3>6. Cleaning'
      <4>1. a.pc = "idle" <=> a.days = {}  BY <2>2, <3>2
      <4> QED  BY <1>1, <1>2, <2>1, <3>2, <4>1 DEF Cleaning, NoWayBack
    <3>7. DaysRecorded'
      <4>1. ASSUME NEW e \in ConvertDays
            PROVE  converted'[e] <= heard'[e] /\ (~legacy' \/ converted'[e] = heard'[e] => \A t \in 1..heard'[e] : OneRow(e, t)')
        <5>1. CASE e = d  BY <1>2, <2>1, <3>1, <3>3, <3>4, <5>1 DEF OneRow
        <5>2. CASE e # d  BY <1>1, <1>2, <3>1, <3>4, <5>2 DEF DaysRecorded, OneRow
        <5> QED  BY <5>1, <5>2
      <4> QED  BY <4>1 DEF DaysRecorded
    <3>8. InHand'
      <4>1. \A e \in a.days : e \in c.days /\ e # d /\ e \in ConvertDays  BY <3>2 DEF Converters
      <4>2. \A e \in a.days : converted'[e] < heard'[e]  BY <1>1, <1>2, <1>4, <3>4, <4>1 DEF InHand
      <4> QED  BY <3>2, <4>2 DEF InHand
    <3> QED  BY <3>5, <3>6, <3>7, <3>8 DEF ConvertInv
  <2>8. CASE ConvertStops
    <3>1. UNCHANGED <<rewritten, converted>>
          /\ converter' = [c EXCEPT !.pc = "idle", !.days = {}, !.count = 0, !.todo = {}]
      BY <1>4, <2>8 DEF ConvertStops
    <3>2. PICK a \in Converters : a = converter' /\ a.pc = "idle" /\ a.days = {}
      <4>1. [c EXCEPT !.pc = "idle", !.days = {}, !.count = 0, !.todo = {}] \in Converters  BY DEF Converters
      <4>2. PICK a \in Converters : a = [c EXCEPT !.pc = "idle", !.days = {}, !.count = 0, !.todo = {}]  BY <4>1
      <4>3. a.pc = "idle" /\ a.days = {}  BY <4>2 DEF Converters
      <4> QED  BY <3>1, <4>2, <4>3
    <3>3. ConvertTyped' /\ Cleaning'  BY <1>1, <1>2, <2>1, <3>1, <3>2 DEF ConvertTyped, Cleaning, NoWayBack
    <3>4. DaysRecorded'  BY <1>1, <1>2, <3>1 DEF DaysRecorded, OneRow
    <3>5. InHand'  BY <3>2 DEF InHand
    <3> QED  BY <3>3, <3>4, <3>5 DEF ConvertInv
  <2> QED  BY <1>6, <2>4, <2>5, <2>6, <2>7, <2>8
<1> QED
  BY <1>5, <1>6 DEF CountDay, ReadRows, WriteBatch, RecordDay, ConvertStops

\* The cleanup.
LEMMA CleanupSteps ==
    ASSUME ConvertInv,
           CleanBegin \/ (\E t \in OldTables, next \in OldTables \union {"rows"} : DropTable(t, next))
             \/ DeleteFirst \/ DropColumns \/ CleanStops
    PROVE  ConvertInv'
<1>1. ConvertTyped /\ Cleaning /\ DaysRecorded /\ InHand  BY DEF ConvertInv
<1>2. UNCHANGED <<layout, heard, rewritten, converter>>
  BY DEF CleanBegin, DropTable, DeleteFirst, DropColumns, CleanStops
<1>3. UNCHANGED <<converted, legacy>> => DaysRecorded'  BY <1>1, <1>2 DEF DaysRecorded, OneRow
<1>4. converter.pc = "idle" => InHand'  BY <1>1, <1>2 DEF InHand, Cleaning
<1>5. CASE CleanBegin
  <2>1. /\ layout = "current" /\ converter.pc = "idle" /\ legacy /\ Unconverted = {} /\ cleaner' = "positions_15m"
        /\ UNCHANGED <<first, converted, legacy, reads>>
    BY <1>5 DEF CleanBegin
  <2>2. ASSUME NEW d \in ConvertDays PROVE converted[d] = heard[d]
    <3>1. heard[d] \in Nat /\ converted[d] \in Nat /\ converted[d] <= heard[d]
      BY <1>1 DEF ConvertTyped, DaysRecorded
    <3>2. CASE first[d] = 1..heard[d]
      <4>1. first[d] = {} \/ converted[d] = Cardinality(first[d])  BY <2>1 DEF Unconverted
      <4>2. first[d] = {} => heard[d] = 0
        <5>1. heard[d] # 0 => 1 \in 1..heard[d]  BY <3>1
        <5> QED  BY <3>2, <5>1
      <4> QED  BY <3>1, <3>2, <4>1, <4>2, HowMany
    <3>3. CASE NoWayBack  BY <1>1, <2>1, <3>3 DEF Cleaning
    <3> QED  BY <1>1, <3>2, <3>3 DEF Cleaning
  <2>3. ConvertTyped' /\ Cleaning'  BY <1>1, <1>2, <2>1, <2>2 DEF ConvertTyped, Cleaning, NoWayBack
  <2> QED  BY <1>3, <1>4, <2>1, <2>3 DEF ConvertInv
<1>6. ASSUME NEW t \in OldTables, NEW next \in OldTables \union {"rows"}, DropTable(t, next) PROVE ConvertInv'
  <2>1. cleaner = t /\ reads' = reads \ {t} /\ UNCHANGED <<first, converted, legacy>>  BY <1>6 DEF DropTable
  <2>2. NoWayBack'  BY <2>1 DEF NoWayBack
  <2>3. cleaner # "idle"  BY <2>1 DEF OldTables
  <2>4. /\ layout = "current" /\ converter.pc = "idle" /\ (legacy => \A d \in ConvertDays : converted[d] = heard[d])
    BY <1>1, <2>3 DEF Cleaning
  <2>5. ConvertTyped' /\ Cleaning'  BY <1>1, <1>2, <2>1, <2>2, <2>4 DEF ConvertTyped, Cleaning
  <2> QED  BY <1>3, <1>4, <2>1, <2>4, <2>5 DEF ConvertInv
<1>7. CASE DeleteFirst
  <2>1. cleaner = "rows" /\ first' = [d \in ConvertDays |-> {}] /\ UNCHANGED <<converted, legacy, reads>>
    BY <1>7 DEF DeleteFirst
  <2>2. NoWayBack /\ layout = "current" /\ converter.pc = "idle" /\ (legacy => \A d \in ConvertDays : converted[d] = heard[d])
    BY <1>1, <2>1 DEF Cleaning
  <2>3. ConvertTyped'  BY <1>1, <1>2, <2>1 DEF ConvertTyped
  <2>4. Cleaning'  BY <1>1, <1>2, <2>1, <2>2 DEF Cleaning, NoWayBack
  <2> QED  BY <1>3, <1>4, <2>1, <2>2, <2>3, <2>4 DEF ConvertInv
<1>8. CASE DropColumns
  <2>1. cleaner = "columns" /\ legacy' = FALSE /\ converted' = Uncount /\ UNCHANGED <<first, reads>>
    BY <1>8 DEF DropColumns
  <2>2. NoWayBack /\ layout = "current" /\ converter.pc = "idle" /\ (legacy => \A d \in ConvertDays : converted[d] = heard[d])
    BY <1>1, <2>1 DEF Cleaning
  <2>3. converted' \in [ConvertDays -> Nat] /\ \A d \in ConvertDays : converted'[d] = 0  BY <2>1 DEF Uncount
  <2>4. ConvertTyped' /\ Cleaning'  BY <1>1, <1>2, <2>1, <2>2, <2>3 DEF ConvertTyped, Cleaning, NoWayBack
  <2>5. ASSUME NEW d \in ConvertDays PROVE converted'[d] <= heard'[d] /\ \A t \in 1..heard'[d] : OneRow(d, t)'
    <3>1. \A t \in 1..heard[d] : OneRow(d, t)  BY <1>1, <2>2 DEF DaysRecorded
    <3>2. heard[d] \in Nat  BY <1>1 DEF ConvertTyped
    <3> QED  BY <1>2, <2>3, <3>1, <3>2 DEF OneRow
  <2>6. DaysRecorded'  BY <2>5 DEF DaysRecorded
  <2> QED  BY <1>4, <2>2, <2>4, <2>6 DEF ConvertInv
<1>9. CASE CleanStops
  <2>1. cleaner' = "idle" /\ UNCHANGED <<first, converted, legacy, reads>> /\ cleaner # "idle"  BY <1>9 DEF CleanStops
  <2>2. converter.pc = "idle"  BY <1>1, <2>1 DEF Cleaning
  <2>3. ConvertTyped' /\ Cleaning'  BY <1>1, <1>2, <2>1 DEF ConvertTyped, Cleaning, NoWayBack
  <2> QED  BY <1>3, <1>4, <2>1, <2>2, <2>3 DEF ConvertInv
<1> QED  BY <1>5, <1>6, <1>7, <1>8, <1>9

\* Days are recorded with rows counted before they were read, and nothing the
\* cleanup drops is missing from what was rewritten.
THEOREM ConversionHolds == ConvertSpec => []ConvertInv
<1>1. ConvertInit => ConvertInv
  <2> SUFFICES ASSUME ConvertInit PROVE ConvertInv
    OBVIOUS
  <2>1. /\ layout = "first" /\ legacy = TRUE /\ reads = OldTables /\ cleaner = "idle"
        /\ converter = [pc |-> "idle", days |-> {}, count |-> 0, todo |-> {}, run |-> 0]
        /\ heard \in [ConvertDays -> Nat] /\ converted \in [ConvertDays -> Nat]
        /\ first \in [ConvertDays -> SUBSET Nat] /\ rewritten \in [ConvertDays -> SUBSET (Nat \X Nat)]
        /\ \A d \in ConvertDays : heard[d] = 0 /\ converted[d] = 0 /\ first[d] = {}
    BY DEF ConvertInit, Uncount
  <2>2. [pc |-> "idle", days |-> {}, count |-> 0, todo |-> {}, run |-> 0] \in Converters  BY DEF Converters
  <2>3. \A d \in ConvertDays : first[d] = 1..heard[d]  BY <2>1
  <2> QED  BY <2>1, <2>2, <2>3 DEF ConvertInv, ConvertTyped, Cleaning, NoWayBack, DaysRecorded, InHand
<1>2. ConvertInv /\ [ConvertNext]_convertVars => ConvertInv'
  <2> SUFFICES ASSUME ConvertInv, [ConvertNext]_convertVars PROVE ConvertInv'
    OBVIOUS
  <2>1. CASE UNCHANGED convertVars
    BY <2>1 DEF convertVars, ConvertInv, ConvertTyped, Cleaning, NoWayBack, DaysRecorded, OneRow, InHand, Day
  <2>2. CASE DropTable("positions_15m", "positions_old") \/ DropTable("positions_old", "coverage") \/ DropTable("coverage", "rows")
    <3>1. \E t \in OldTables, next \in OldTables \union {"rows"} : DropTable(t, next)  BY <2>2 DEF OldTables
    <3> QED  BY <3>1, CleanupSteps
  <2> QED  BY <2>1, <2>2, ServerSteps, ConverterSteps, CleanupSteps DEF ConvertNext
<1> QED  BY <1>1, <1>2, PTL DEF ConvertSpec

\* However the conversion and the cleanup stop and are run again beside servers
\* of both layouts, no transmission heard is without a row, and a day with
\* nothing left to convert serves each once (convertDay, cleanup).
THEOREM TransmissionsAreServedOnce == ConvertSpec => []ServedOnce
<1>1. ASSUME ConvertInv PROVE ServedOnce
  <2> SUFFICES ASSUME NEW d \in ConvertDays, NEW t \in 1..heard[d]
               PROVE  /\ t \in first[d] \/ (\E r \in rewritten[d] : r[1] = t)
                      /\ d \notin Unconverted => TimesServed(d, t) = 1
    BY DEF ServedOnce
  <2>1. heard[d] \in Nat /\ converted[d] \in Nat /\ rewritten[d] \subseteq Nat \X Nat  BY <1>1 DEF ConvertInv, ConvertTyped
  <2>2. ~legacy \/ converted[d] = heard[d] => OneRow(d, t)  BY <1>1 DEF ConvertInv, DaysRecorded
  <2>3. first[d] = 1..heard[d] \/ OneRow(d, t)
    <3>1. first[d] # 1..heard[d] => ~legacy \/ converted[d] = heard[d]  BY <1>1 DEF ConvertInv, Cleaning
    <3> QED  BY <2>2, <3>1
  <2>4. t \in first[d] \/ (\E r \in rewritten[d] : r[1] = t)
    <3>1. OneRow(d, t) => \E r \in rewritten[d] : r[1] = t  BY DEF OneRow
    <3> QED  BY <2>3, <3>1
  <2>5. ASSUME d \notin Unconverted PROVE TimesServed(d, t) = 1
    <3>1. ~legacy \/ converted[d] = heard[d]
      <4>1. CASE first[d] = 1..heard[d]
        <5>1. first[d] # {}  BY <4>1
        <5>2. ~legacy \/ converted[d] = Cardinality(first[d])  BY <2>5, <5>1 DEF Unconverted
        <5> QED  BY <2>1, <4>1, <5>2, HowMany
      <4>2. CASE NoWayBack  BY <1>1, <4>2 DEF ConvertInv, Cleaning
      <4> QED  BY <1>1, <4>1, <4>2 DEF ConvertInv, Cleaning
    <3>2. InView(d) = rewritten[d]
      <4>1. heard[d] # 0  BY <2>1
      <4> QED  BY <3>1, <4>1 DEF InView
    <3>3. PICK r \in rewritten[d] : {s \in rewritten[d] : s[1] = t} = {r}  BY <2>2, <3>1 DEF OneRow
    <3>4. {s \in InView(d) : s[1] = t} = {r}  BY <3>2, <3>3
    <3> QED  BY <3>4, FS_Singleton DEF TimesServed
  <2> QED  BY <2>4, <2>5
<1> QED  BY <1>1, ConversionHolds, PTL

-----------------------------------------------------------------------------
(* The days loaded, replayed and binned (history.go, replay_clickhouse.go,  *)
(* coveragemap.go).                                                         *)

LoadSteps == {"begin", "delete", "read", "batch1", "batch2", "rebuild", "rebuilding", "finish"}
Rebuilds == {"rebuild", "rebuilding", "reload"}
LoadRows == [etag : Nat, complete : BOOLEAN, matched : BOOLEAN]

LoadsTyped ==
  /\ DOMAIN rows = LoadDays /\ DOMAIN rollups = Rollups
  /\ \A t \in Rollups : DOMAIN rollups[t] = LoadDays
  /\ copies \in [LoadDays -> Nat] /\ published \in [LoadDays -> Nat \ {0}]
  /\ loads \in [LoadDays -> LoadRows]
  /\ covered \subseteq LoadDays
  /\ loader.pc \in {"idle", "file"} \union LoadSteps

\* A replay runs once all of coverage is filled in, a filler on a day that is not.
OthersTyped ==
  /\ replay.pc \in {"idle", "delete", "insert"} \union Rebuilds
  /\ replay.pc # "idle" => replay.day \in LoadDays /\ covered = LoadDays
  /\ replay.pc \in {"rebuild", "rebuilding"} =>
       replay.table \in Rollups /\ replay.todo # {} /\ replay.todo \subseteq Beside(replay.day)
  /\ filler.pc \in {"idle", "binning", "ledger"}
  /\ filler.pc # "idle" => filler.day \in LoadDays \ covered
  /\ loader.pc = "rebuilding" /\ loader.table = "station_coverage" => filler.pc # "binning"

\* The files left of a pass, one a day, and the one in hand: begun before
\* exactly when history_loads has it.
PassListed ==
  /\ \A f \in loader.todo : f.day \in LoadDays /\ f.etag \in Nat \ {0} /\ (f.seen <=> loads[f.day] # NoLoad)
  /\ \A f, g \in loader.todo : f.day = g.day => f = g
  /\ \A d \in LoadDays : loads[d] = NoLoad \/ loads[d].etag > 0
  /\ loader.pc \in LoadSteps =>
       /\ loader.day \in LoadDays /\ loader.etag \in Nat \ {0}
       /\ \A f \in loader.todo : f.day # loader.day
       /\ loader.pc = "begin" => (loader.again <=> loads[loader.day] # NoLoad)
       /\ loader.pc # "begin" => loads[loader.day].etag = loader.etag /\ ~loads[loader.day].complete
       /\ loader.pc = "delete" => loader.again
       /\ loader.pc \in {"rebuild", "rebuilding"} => loader.again /\ loader.table \in Rollups

UnderLoad(d) == InLoad(d) /\ loader.pc # "begin"
Replayed(d) == replay.pc \in Rebuilds /\ d \in Beside(replay.day)

\* A load and a replay are at one day together only where they crossed.
OneAtATime(d) == d \notin crossed => ~(UnderLoad(d) /\ InReplay(d))

\* The network's copies are there but between a replay's delete and insert.
NetHeld(d) == ~InReplay(d) \/ Replayed(d) => Net(d) \in rows[d]

BatchesOf(run, etag, matched) ==
  {[kind |-> "archive", run |-> run, etag |-> etag, matched |-> matched, batch |-> n] : n \in {1, 2}}

\* What of a file is in receptions, at each step of its load and after it.
ArchiveHeld(d) ==
  /\ loads[d] = NoLoad => Archived(d) = {}
  /\ UnderLoad(d) =>
       /\ loader.pc \in {"read", "batch1"} => Archived(d) = {}
       /\ loader.pc = "batch2" => Archived(d) = {Batch(1, d)}
       /\ loader.pc \in {"rebuild", "rebuilding", "finish"} => Archived(d) = {Batch(1, d), Batch(2, d)}
  /\ d \notin crossed =>
       /\ UnderLoad(d) /\ loader.pc \notin {"delete", "read"} => loader.beside /\ loader.matched = copies[d]
       /\ loads[d].complete =>
            /\ loads[d].matched
            /\ \E r \in Archived(d) : /\ Archived(d) = BatchesOf(r.run, loads[d].etag, r.matched)
                                      /\ InReplay(d) \/ r.matched = copies[d]

\* A table owes receptions nothing when the day's load is over, or deletes
\* nothing, or has rebuilt it.
Even(t, d) ==
  \/ loads[d] = NoLoad \/ loads[d].complete
  \/ UnderLoad(d) /\ (\/ ~loader.again \/ loader.pc = "finish"
                      \/ /\ loader.pc \in {"rebuild", "rebuilding"}
                         /\ t = "positions_1m" /\ loader.table = "station_coverage")

\* Coverage has what receptions have, less what the binning under way read.
CoverageFollows(d) ==
  /\ rollups["station_coverage"][d] \subseteq rows[d]
  /\ d \in covered \/ (filler.pc = "ledger" /\ filler.day = d) => rollups["station_coverage"][d] = rows[d]
  /\ filler.pc = "binning" /\ filler.day = d =>
       filler.read \subseteq rows[d] /\ rows[d] \subseteq rollups["station_coverage"][d] \union filler.read

LoadedTables(d) ==
  d \notin crossed /\ ~InReplay(d) =>
    /\ Even("positions_1m", d) => rollups["positions_1m"][d] = rows[d]
    /\ Even("station_coverage", d) => CoverageFollows(d)
    /\ UnderLoad(d) /\ loader.pc = "rebuilding" =>
         loader.read = rows[d] /\ rollups[loader.table][d] \subseteq rows[d]

\* The days a replay has rebuilt, and the one it is at.
ReplayedTables(d) ==
  d \notin crossed /\ Replayed(d) =>
    /\ replay.pc = "reload" \/ d \notin replay.todo => \A t \in Rollups : rollups[t][d] = rows[d]
    /\ replay.pc # "reload" /\ d = Min(replay.todo) =>
         /\ replay.table = "station_coverage" => rollups["positions_1m"][d] = rows[d]
         /\ replay.pc = "rebuilding" => replay.read = rows[d] /\ rollups[replay.table][d] \subseteq rows[d]

DayHolds(d) == OneAtATime(d) /\ NetHeld(d) /\ ArchiveHeld(d) /\ LoadedTables(d) /\ ReplayedTables(d)

LoadsInv == LoadsTyped /\ OthersTyped /\ PassListed /\ \A d \in LoadDays : DayHolds(d)

LEMMA LeastOfDays ==
    ASSUME NEW S \in SUBSET LoadDays, S # {}
    PROVE  Min(S) \in S /\ Max(S) \in S
<1>1. S \in SUBSET Nat /\ IsFiniteSet(S)  BY LoadsAssumption, FS_Subset
<1>2. PICK n \in Nat : \A x \in S : x <= n  BY <1>1, FiniteIsBounded
<1>3. \E x \in S : \A y \in S : x <= y  BY <1>1, LeastNatural
<1>4. Min(S) \in S  BY <1>3 DEF Min
<1> QED  BY <1>1, <1>2, <1>4, LargestBounded

\* A day none of the three is at stays as it is.
LoaderAway(d) == loader' = loader \/ ~UnderLoad(d)'
ReplayAway(d) == (replay' = replay /\ halfway' = halfway) \/ ((InReplay(d)' <=> InReplay(d)) /\ ~Replayed(d)')
FillsDay(d) == filler.pc # "idle" /\ filler.day = d
FillerAway(d) ==
  \/ filler' = filler /\ covered' = covered
  \/ ~FillsDay(d) /\ ~FillsDay(d)' /\ (d \in covered' => d \in covered)
DayLeft(d) ==
  /\ rows'[d] = rows[d] /\ \A t \in Rollups : rollups'[t][d] = rollups[t][d]
  /\ copies'[d] = copies[d] /\ loads'[d] = loads[d] /\ crossed \subseteq crossed'

LEMMA DayStands ==
    ASSUME NEW d \in LoadDays, DayHolds(d), OthersTyped, PassListed,
           DayLeft(d), LoaderAway(d), ReplayAway(d), FillerAway(d)
    PROVE  DayHolds(d)'
<1>1. Archived(d)' = Archived(d) /\ Net(d)' = Net(d)  BY DEF DayLeft, Archived, Net
<1>2. UnderLoad(d)' => loader' = loader /\ UnderLoad(d)  BY DEF LoaderAway, UnderLoad, InLoad
<1>3. (InReplay(d)' <=> InReplay(d)) /\ (Replayed(d)' => replay' = replay /\ Replayed(d))
  BY DEF ReplayAway, Replayed, InReplay, Rebuilds
<1>4. OneAtATime(d)'  BY <1>2, <1>3 DEF DayHolds, OneAtATime, DayLeft
<1>5. NetHeld(d)'  BY <1>1, <1>3 DEF DayHolds, NetHeld, DayLeft
<1>6. ArchiveHeld(d)'  BY <1>1, <1>2, <1>3 DEF DayHolds, ArchiveHeld, DayLeft, Batch
<1>7. CoverageFollows(d) => CoverageFollows(d)'
  <2>1. filler'.pc # "idle" /\ filler'.day = d => filler' = filler  BY DEF FillerAway, FillsDay
  <2>2. d \in covered' => d \in covered  BY DEF FillerAway, FillsDay
  <2> QED  BY <2>1, <2>2 DEF CoverageFollows, DayLeft, Rollups
<1>8. LoadedTables(d)'
  <2>1. \A t : Even(t, d)' => Even(t, d)  BY <1>2 DEF Even, DayLeft
  <2>2. UnderLoad(d)' /\ loader'.pc = "rebuilding" => loader.table \in Rollups
    BY <1>2 DEF PassListed, UnderLoad, LoadSteps
  <2> QED  BY <1>2, <1>3, <1>7, <2>1, <2>2 DEF DayHolds, LoadedTables, DayLeft, Rollups
<1>9. ReplayedTables(d)'
  <2>1. Replayed(d)' /\ replay'.pc # "reload" => replay.table \in Rollups
    BY <1>3 DEF OthersTyped, Replayed, Rebuilds
  <2> QED  BY <1>3, <2>1 DEF DayHolds, ReplayedTables, DayLeft, Rollups
<1> QED  BY <1>4, <1>5, <1>6, <1>8, <1>9 DEF DayHolds

\* The other days of a step of the loader, of the replay and of the filler.
LEMMA OthersStand ==
    ASSUME LoadsInv, NEW D, \A d \in LoadDays \ D : DayLeft(d) /\ LoaderAway(d) /\ ReplayAway(d) /\ FillerAway(d)
    PROVE  \A d \in LoadDays \ D : DayHolds(d)'
  BY DayStands DEF LoadsInv

\* The steps of the loader that move nothing.
LEMMA PassSteps ==
    ASSUME LoadsInv, ListFiles \/ StageFile \/ FailFile \/ (\E d \in LoadDays : Publish(d)) \/ UNCHANGED loadsVars
    PROVE  LoadsInv'
<1> USE DEF LoadsInv
<1>1. UNCHANGED <<rows, rollups, copies, loads, covered, replay, filler, crossed, halfway>>
  BY DEF ListFiles, StageFile, FailFile, Publish, loadsVars
<1>2. loader' = loader \/ loader'.pc \in {"idle", "file", "begin"}
  <2>1. ListFiles => loader'.pc = "file"
    <3> SUFFICES ASSUME ListFiles PROVE loader'.pc = "file"  OBVIOUS
    <3>1. PICK D : loader' = [loader EXCEPT !.pc = "file", !.todo = D]  BY DEF ListFiles
    <3> QED  BY <3>1 DEF PassListed
  <2>2. StageFile => loader'.pc = "begin"
    <3> SUFFICES ASSUME StageFile PROVE loader'.pc = "begin"  OBVIOUS
    <3>1. PICK f \in loader.todo :
            loader' = [loader EXCEPT !.pc = "begin", !.todo = @ \ {f}, !.day = f.day, !.etag = f.etag, !.again = f.seen, !.run = @ + 1]
      BY DEF StageFile
    <3> QED  BY <3>1
  <2>3. FailFile => loader'.pc \in {"idle", "file"}  BY DEF FailFile, FileOver, Resting
  <2>4. (\E d \in LoadDays : Publish(d)) \/ UNCHANGED loadsVars => loader' = loader  BY DEF Publish, loadsVars
  <2> QED  BY <2>1, <2>2, <2>3, <2>4
<1>3. published' \in [LoadDays -> Nat \ {0}]
  <2>1. CASE \E d \in LoadDays : Publish(d)
    <3>1. PICK d \in LoadDays : published' = [published EXCEPT ![d] = @ + 1]  BY <2>1 DEF Publish
    <3> QED  BY <3>1 DEF LoadsTyped
  <2>2. CASE published' = published  BY <2>2 DEF LoadsTyped
  <2> QED  BY <2>1, <2>2 DEF ListFiles, StageFile, FailFile, loadsVars
<1>4. LoadsTyped' /\ OthersTyped'
  <2>1. loader'.pc \in {"idle", "file"} \union LoadSteps /\ (loader' = loader \/ loader'.pc # "rebuilding")
    BY <1>2 DEF LoadsTyped, LoadSteps
  <2> QED  BY <1>1, <1>3, <2>1 DEF LoadsTyped, OthersTyped, Beside
<1>5. PassListed'
  <2>1. CASE ListFiles
    <3>1. PICK D \in SUBSET LoadDays : loader' = [loader EXCEPT !.pc = "file",
            !.todo = {[day |-> d, etag |-> published[d], seen |-> loads[d] # NoLoad] : d \in D}]
      BY <2>1 DEF ListFiles
    <3>2. loader'.pc = "file"
          /\ loader'.todo = {[day |-> d, etag |-> published[d], seen |-> loads[d] # NoLoad] : d \in D}
      BY <3>1 DEF PassListed
    <3>3. ASSUME NEW f \in loader'.todo
          PROVE  f.day \in D /\ f = [day |-> f.day, etag |-> published[f.day], seen |-> loads[f.day] # NoLoad]
                 /\ f.etag = published[f.day] /\ (f.seen <=> loads[f.day] # NoLoad)
      <4>1. PICK d \in D : f = [day |-> d, etag |-> published[d], seen |-> loads[d] # NoLoad]  BY <3>2
      <4>2. f.day = d /\ f.etag = published[d] /\ (f.seen <=> loads[d] # NoLoad)  BY <4>1
      <4> QED  BY <4>1, <4>2
    <3>4. \A f \in loader'.todo : f.day \in LoadDays /\ f.etag \in Nat \ {0} /\ (f.seen <=> loads[f.day] # NoLoad)
      BY <3>3 DEF LoadsTyped
    <3>5. \A f, g \in loader'.todo : f.day = g.day => f = g  BY <3>3
    <3> QED  BY <1>1, <3>2, <3>4, <3>5 DEF PassListed, LoadSteps
  <2>2. CASE StageFile
    <3>1. PICK f \in loader.todo :
            loader' = [loader EXCEPT !.pc = "begin", !.todo = @ \ {f}, !.day = f.day, !.etag = f.etag, !.again = f.seen, !.run = @ + 1]
      BY <2>2 DEF StageFile
    <3>2. loader'.pc = "begin" /\ loader'.todo = loader.todo \ {f} /\ loader'.day = f.day /\ loader'.etag = f.etag
          /\ (loader'.again <=> f.seen)
      BY <3>1
    <3> QED  BY <1>1, <3>2 DEF PassListed, LoadSteps
  <2>3. CASE FailFile
    <3>1. loader'.pc \in {"idle", "file"} /\ loader'.todo = loader.todo  BY <2>3 DEF FailFile, FileOver, Resting
    <3> QED  BY <1>1, <3>1 DEF PassListed, LoadSteps
  <2>4. CASE (\E d \in LoadDays : Publish(d)) \/ UNCHANGED loadsVars
    <3>1. loader' = loader  BY <2>4 DEF Publish, loadsVars
    <3> QED  BY <1>1, <3>1 DEF PassListed, LoadSteps
  <2> QED  BY <2>1, <2>2, <2>3, <2>4
<1>6. \A d \in LoadDays : DayHolds(d)'
  <2>1. ASSUME NEW d \in LoadDays PROVE DayLeft(d) /\ LoaderAway(d) /\ ReplayAway(d) /\ FillerAway(d)
    <3>1. loader' = loader \/ ~UnderLoad(d)'  BY <1>2 DEF UnderLoad, InLoad
    <3> QED  BY <1>1, <3>1 DEF DayLeft, LoaderAway, ReplayAway, FillerAway
  <2> QED  BY <2>1, DayStands
<1> QED  BY <1>4, <1>5, <1>6

\* A replay under way has the day in hand.
LEMMA ReplayedIsInReplay == \A d : Replayed(d) => InReplay(d)
  BY DEF Replayed, InReplay, Rebuilds

\* A file is recorded begun: what its tables owed was settled before, and the
\* earlier rows go first where there are any.
LEMMA BeginStep ==
    ASSUME LoadsInv, BeginFile
    PROVE  LoadsInv'
<1> USE DEF LoadsInv
<1>1. loader.pc = "begin" /\ loader.day \in LoadDays /\ loader.etag \in Nat \ {0}  BY DEF BeginFile, PassListed, LoadSteps
<1>2. PICK d \in LoadDays : d = loader.day  BY <1>1
<1>3. /\ loads' = [loads EXCEPT ![d] = [etag |-> loader.etag, complete |-> FALSE, matched |-> FALSE /\ loader.beside]]
      /\ loader' = [loader EXCEPT !.pc = IF loader.again THEN "delete" ELSE "read"]
      /\ crossed' = crossed \union {e \in {d} : InReplay(e)}
      /\ UNCHANGED <<rows, rollups, copies, published, covered, replay, filler, halfway, tally>>
  BY <1>2 DEF BeginFile, Recorded
<1>4. PICK row : row = [etag |-> loader.etag, complete |-> FALSE, matched |-> FALSE /\ loader.beside]  OBVIOUS
<1>5. row \in LoadRows /\ row.etag = loader.etag /\ ~row.complete /\ row # NoLoad
  <2>1. row.etag = loader.etag /\ ~row.complete /\ row \in LoadRows  BY <1>1, <1>4 DEF LoadRows
  <2>2. NoLoad.etag = 0  BY DEF NoLoad
  <2> QED  BY <1>1, <2>1, <2>2
<1>6. loads'[d] = row /\ \A e \in LoadDays \ {d} : loads'[e] = loads[e]  BY <1>3, <1>4 DEF LoadsTyped
<1>7. /\ loader'.pc = IF loader.again THEN "delete" ELSE "read"
      /\ loader'.day = d /\ loader'.etag = loader.etag /\ loader'.todo = loader.todo
      /\ loader'.again = loader.again
  BY <1>2, <1>3
<1>8. LoadsTyped' /\ OthersTyped'
  <2>1. loads' \in [LoadDays -> LoadRows]  BY <1>3, <1>4, <1>5 DEF LoadsTyped
  <2>2. loader'.pc \in {"delete", "read"}  BY <1>7
  <2> QED  BY <1>3, <2>1, <2>2 DEF LoadsTyped, OthersTyped, LoadSteps, Beside
<1>9. PassListed'
  <2>1. \A f \in loader.todo : f.day # d  BY <1>1, <1>2 DEF PassListed, LoadSteps
  <2>2. loader'.pc = "delete" => loader.again  BY <1>7
  <2>3. loader'.pc \in {"delete", "read"}  BY <1>7
  <2> QED  BY <1>1, <1>2, <1>5, <1>6, <1>7, <2>1, <2>2, <2>3 DEF PassListed
<1>10. \A e \in LoadDays \ {d} : DayHolds(e)'
  <2>1. ASSUME NEW e \in LoadDays \ {d} PROVE DayLeft(e) /\ LoaderAway(e) /\ ReplayAway(e) /\ FillerAway(e)
    <3>1. ~UnderLoad(e)'  BY <1>7 DEF UnderLoad, InLoad
    <3> QED  BY <1>3, <1>6, <3>1 DEF DayLeft, LoaderAway, ReplayAway, FillerAway
  <2> QED  BY <2>1, OthersStand
<1>11. DayHolds(d)'
  <2>1. Archived(d)' = Archived(d) /\ Net(d)' = Net(d) /\ (InReplay(d)' <=> InReplay(d)) /\ (Replayed(d)' <=> Replayed(d))
    BY <1>3 DEF Archived, Net, InReplay, Replayed, Beside
  <2>2. d \notin crossed' => d \notin crossed /\ ~InReplay(d)  BY <1>3
  <2>3. OneAtATime(d)'  BY <2>1, <2>2 DEF OneAtATime
  <2>4. NetHeld(d)'  BY <1>3, <2>1 DEF NetHeld, DayHolds
  <2>5. loader'.pc = "read" => loads[d] = NoLoad /\ ~loader.again
    BY <1>1, <1>2, <1>7 DEF PassListed, LoadSteps
  <2>6. loader'.pc \in {"delete", "read"}  BY <1>7
  <2>7. ArchiveHeld(d)'  BY <1>5, <1>6, <2>1, <2>5, <2>6 DEF ArchiveHeld, DayHolds
  <2>8. \A t : Even(t, d)' => Even(t, d)
    <3>1. ~loader'.again => loads[d] = NoLoad  BY <1>1, <1>2, <1>7 DEF PassListed, LoadSteps
    <3> QED  BY <1>5, <1>6, <2>6, <3>1 DEF Even
  <2>9. CoverageFollows(d)' <=> CoverageFollows(d)  BY <1>3 DEF CoverageFollows
  <2>10. LoadedTables(d)'  BY <1>3, <2>2, <2>6, <2>8, <2>9 DEF LoadedTables, DayHolds
  <2>11. ReplayedTables(d)'  BY <2>1, <2>2, ReplayedIsInReplay DEF ReplayedTables
  <2> QED  BY <2>3, <2>4, <2>7, <2>10, <2>11 DEF DayHolds
<1> QED  BY <1>8, <1>9, <1>10, <1>11

\* The steps of a load under way that leave history_loads alone: what else of
\* the invariant they could disturb.
LEMMA UnderWay ==
    ASSUME LoadsInv, loader.pc \in LoadSteps \ {"begin"}, loader'.pc \in LoadSteps \ {"begin", "delete"},
           loader'.day = loader.day, loader'.etag = loader.etag, loader'.todo = loader.todo,
           loader'.again = loader.again, loader'.pc \in {"rebuild", "rebuilding"} => loader.again /\ loader'.table \in Rollups,
           loader'.pc = "rebuilding" /\ loader'.table = "station_coverage" => filler.pc # "binning",
           UNCHANGED <<copies, published, loads, covered, replay, filler, crossed, halfway>>,
           DOMAIN rows' = LoadDays, DOMAIN rollups' = Rollups, \A t \in Rollups : DOMAIN rollups'[t] = LoadDays,
           \A e \in LoadDays \ {loader.day} : rows'[e] = rows[e] /\ \A t \in Rollups : rollups'[t][e] = rollups[t][e],
           loader.day \in LoadDays => DayHolds(loader.day)'
    PROVE  LoadsInv'
<1> USE DEF LoadsInv
<1>1. LoadsTyped'  BY DEF LoadsTyped
<1>2. OthersTyped'  BY DEF OthersTyped, Beside
<1>3. PassListed'  BY DEF PassListed
<1>4. \A e \in LoadDays \ {loader.day} : DayHolds(e)'
  <2>1. ASSUME NEW e \in LoadDays \ {loader.day} PROVE DayLeft(e) /\ LoaderAway(e) /\ ReplayAway(e) /\ FillerAway(e)
    <3>1. ~UnderLoad(e)'  BY DEF UnderLoad, InLoad
    <3> QED  BY <3>1 DEF DayLeft, LoaderAway, ReplayAway, FillerAway
  <2> QED  BY <2>1, OthersStand
<1> QED  BY <1>1, <1>2, <1>3, <1>4

\* The day under a load, as the invariant has it.
LEMMA DayUnderLoad ==
    ASSUME LoadsInv, loader.pc \in LoadSteps \ {"begin"}
    PROVE  /\ loader.day \in LoadDays /\ UnderLoad(loader.day) /\ DayHolds(loader.day)
           /\ loads[loader.day] # NoLoad /\ ~loads[loader.day].complete
           /\ loader.day \notin crossed => ~InReplay(loader.day)
<1>1. loader.day \in LoadDays /\ loader.etag > 0 /\ loads[loader.day].etag = loader.etag /\ ~loads[loader.day].complete
  BY DEF LoadsInv, PassListed
<1>2. NoLoad.etag = 0  BY DEF NoLoad
<1>3. UnderLoad(loader.day)  BY DEF UnderLoad, InLoad, LoadSteps
<1> QED  BY <1>1, <1>2, <1>3 DEF LoadsInv, DayHolds, OneAtATime

LEMMA DeleteStep ==
    ASSUME LoadsInv, DeleteEarlier
    PROVE  LoadsInv'
<1>1. PICK d : d = loader.day  OBVIOUS
<1>2. loader.pc = "delete" /\ loader.again /\ d \in LoadDays /\ UnderLoad(d) /\ DayHolds(d)
      /\ loads[d] # NoLoad /\ ~loads[d].complete /\ (d \notin crossed => ~InReplay(d))
  BY <1>1, DayUnderLoad DEF DeleteEarlier, LoadsInv, PassListed, LoadSteps
<1>3. /\ rows' = [rows EXCEPT ![d] = @ \ Archived(d)] /\ loader' = [loader EXCEPT !.pc = "read"]
      /\ UNCHANGED <<rollups, copies, published, loads, covered, replay, filler, crossed, halfway, tally>>
  BY <1>1 DEF DeleteEarlier
<1>4. /\ loader'.pc = "read" /\ loader'.day = d /\ loader'.etag = loader.etag /\ loader'.todo = loader.todo
      /\ loader'.again = loader.again
  BY <1>1, <1>3
<1>5. DOMAIN rows' = LoadDays /\ rows'[d] = rows[d] \ Archived(d) /\ \A e \in LoadDays \ {d} : rows'[e] = rows[e]
  BY <1>2, <1>3 DEF LoadsInv, LoadsTyped
<1>6. DayHolds(d)'
  <2>1. Archived(d)' = {} /\ Net(d)' = Net(d) /\ (InReplay(d)' <=> InReplay(d)) /\ (Replayed(d)' <=> Replayed(d))
    BY <1>3, <1>5 DEF Archived, Net, InReplay, Replayed, Beside
  <2>2. OneAtATime(d)'  BY <1>2, <1>3, <2>1 DEF OneAtATime
  <2>3. Net(d) \notin Archived(d)  BY DEF Archived, Net
  <2>4. NetHeld(d)'  BY <1>2, <1>5, <2>1, <2>3 DEF NetHeld, DayHolds
  <2>5. ArchiveHeld(d)'  BY <1>2, <1>3, <1>4, <2>1 DEF ArchiveHeld
  <2>6. ~Even("positions_1m", d)' /\ ~Even("station_coverage", d)'  BY <1>2, <1>3, <1>4 DEF Even
  <2>7. LoadedTables(d)'  BY <1>4, <2>6 DEF LoadedTables
  <2>8. ReplayedTables(d)'  BY <1>2, <1>3, <2>1, ReplayedIsInReplay DEF ReplayedTables
  <2> QED  BY <2>2, <2>4, <2>5, <2>7, <2>8 DEF DayHolds
<1> QED  BY <1>1, <1>2, <1>3, <1>4, <1>5, <1>6, UnderWay DEF LoadSteps, LoadsInv, LoadsTyped

LEMMA ReadStep ==
    ASSUME LoadsInv, ReadDay
    PROVE  LoadsInv'
<1>1. PICK d : d = loader.day  OBVIOUS
<1>2. loader.pc = "read" /\ d \in LoadDays /\ UnderLoad(d) /\ DayHolds(d)
      /\ loads[d] # NoLoad /\ ~loads[d].complete /\ (d \notin crossed => ~InReplay(d))
  BY <1>1, DayUnderLoad DEF ReadDay, LoadSteps
<1>3. /\ loader' = [loader EXCEPT !.pc = "batch1", !.matched = copies[d], !.beside = Net(d) \in rows[d]]
      /\ UNCHANGED <<rows, rollups, copies, published, loads, covered, replay, filler, crossed, halfway, tally>>
  BY <1>1 DEF ReadDay
<1>4. /\ loader'.pc = "batch1" /\ loader'.day = d /\ loader'.etag = loader.etag /\ loader'.todo = loader.todo
      /\ loader'.again = loader.again /\ loader'.matched = copies[d] /\ (loader'.beside <=> Net(d) \in rows[d])
  <2>1. PICK held : held = (Net(d) \in rows[d])  OBVIOUS
  <2>2. loader' = [loader EXCEPT !.pc = "batch1", !.matched = copies[d], !.beside = held]  BY <1>3, <2>1
  <2>3. loader'.beside = held  BY <2>2
  <2>4. loader'.beside <=> Net(d) \in rows[d]  BY <2>1, <2>3
  <2> QED  BY <1>1, <2>2, <2>4
<1>5. DayHolds(d)'
  <2>1. Archived(d)' = Archived(d) /\ Net(d)' = Net(d) /\ (InReplay(d)' <=> InReplay(d)) /\ (Replayed(d)' <=> Replayed(d))
    BY <1>3 DEF Archived, Net, InReplay, Replayed, Beside
  <2>2. OneAtATime(d)'  BY <1>2, <1>3, <2>1 DEF OneAtATime
  <2>3. NetHeld(d)'  BY <1>2, <1>3, <2>1 DEF NetHeld, DayHolds
  <2>4. d \notin crossed => Net(d) \in rows[d]  BY <1>2 DEF NetHeld, DayHolds
  <2>5. ArchiveHeld(d)'  BY <1>2, <1>3, <1>4, <2>1, <2>4 DEF ArchiveHeld, DayHolds
  <2>6. \A t : Even(t, d)' => Even(t, d)  BY <1>2, <1>3, <1>4 DEF Even
  <2>7. CoverageFollows(d)' <=> CoverageFollows(d)  BY <1>3 DEF CoverageFollows
  <2>8. LoadedTables(d)'  BY <1>2, <1>3, <1>4, <2>1, <2>6, <2>7 DEF LoadedTables, DayHolds
  <2>9. ReplayedTables(d)'  BY <1>2, <1>3, <2>1, ReplayedIsInReplay DEF ReplayedTables
  <2> QED  BY <2>2, <2>3, <2>5, <2>8, <2>9 DEF DayHolds
<1> QED  BY <1>1, <1>2, <1>3, <1>4, <1>5, UnderWay DEF LoadSteps, LoadsInv, LoadsTyped

\* A batch goes into receptions and both tables at once.
LEMMA BatchStep ==
    ASSUME LoadsInv, NEW n \in {1, 2}, InsertBatch(n)
    PROVE  LoadsInv'
<1>1. PICK d : d = loader.day  OBVIOUS
<1>2. loader.pc = <<"batch1", "batch2">>[n]  BY DEF InsertBatch
<1>3. loader.pc \in {"batch1", "batch2"} /\ d \in LoadDays /\ UnderLoad(d) /\ DayHolds(d)
      /\ loads[d] # NoLoad /\ ~loads[d].complete /\ (d \notin crossed => ~InReplay(d))
  BY <1>1, <1>2, DayUnderLoad DEF LoadSteps
<1>4. PICK b : b = Batch(n, d)  OBVIOUS
<1>5. /\ rows' = [e \in LoadDays |-> rows[e] \union (IF e \in {d} THEN {b} ELSE {})]
      /\ rollups' = [t \in Rollups |-> [e \in LoadDays |-> rollups[t][e] \union (IF e \in {d} THEN {b} ELSE {})]]
      /\ loader' = [loader EXCEPT !.pc = IF n = 1 THEN "batch2" ELSE IF loader.again THEN "rebuild" ELSE "finish",
                                  !.table = "positions_1m"]
      /\ UNCHANGED <<copies, published, loads, covered, replay, filler, crossed, halfway, tally>>
  BY <1>1, <1>4 DEF InsertBatch, Put, Batch
<1>6. /\ loader'.pc = IF n = 1 THEN "batch2" ELSE IF loader.again THEN "rebuild" ELSE "finish"
      /\ loader'.table = "positions_1m"
      /\ loader'.day = d /\ loader'.etag = loader.etag /\ loader'.todo = loader.todo /\ loader'.run = loader.run
      /\ loader'.again = loader.again /\ loader'.matched = loader.matched /\ loader'.beside = loader.beside
  BY <1>1, <1>5
<1>7. /\ DOMAIN rows' = LoadDays /\ rows'[d] = rows[d] \union {b} /\ \A e \in LoadDays \ {d} : rows'[e] = rows[e]
      /\ DOMAIN rollups' = Rollups /\ \A t \in Rollups : DOMAIN rollups'[t] = LoadDays
      /\ \A t \in Rollups : rollups'[t][d] = rollups[t][d] \union {b} /\ \A e \in LoadDays \ {d} : rollups'[t][e] = rollups[t][e]
  BY <1>3, <1>5
<1>8. DayHolds(d)'
  <2>1. b.kind = "archive" /\ b = [kind |-> "archive", run |-> loader.run, etag |-> loader.etag, matched |-> loader.matched, batch |-> n]
    BY <1>4 DEF Batch
  <2>2. /\ Archived(d)' = Archived(d) \union {b} /\ Net(d)' = Net(d)
        /\ (InReplay(d)' <=> InReplay(d)) /\ (Replayed(d)' <=> Replayed(d))
    BY <1>5, <1>7, <2>1 DEF Archived, Net, InReplay, Replayed, Beside
  <2>3. OneAtATime(d)'  BY <1>3, <1>5, <2>2 DEF OneAtATime
  <2>4. NetHeld(d)'  BY <1>3, <1>7, <2>2 DEF NetHeld, DayHolds
  <2>5. \A k : Batch(k, d)' = Batch(k, d)  BY <1>6 DEF Batch
  <2>6. ArchiveHeld(d)'
    <3>1. /\ n = 1 => loader.pc = "batch1" /\ loader'.pc = "batch2"
          /\ n = 2 => loader.pc = "batch2" /\ loader'.pc \in {"rebuild", "finish"}
      BY <1>2, <1>6
    <3>2. n = 1 => Archived(d)' = {Batch(1, d)}  BY <1>3, <1>4, <2>2, <3>1 DEF ArchiveHeld, DayHolds
    <3>3. n = 2 => Archived(d)' = {Batch(1, d), Batch(2, d)}  BY <1>3, <1>4, <2>2, <3>1 DEF ArchiveHeld, DayHolds
    <3>4. d \notin crossed => loader.beside /\ loader.matched = copies[d]
      BY <1>3 DEF ArchiveHeld, DayHolds
    <3>5. loads'[d] = loads[d] /\ crossed' = crossed /\ copies' = copies  BY <1>5
    <3>6. Batch(1, d)' = Batch(1, d) /\ Batch(2, d)' = Batch(2, d)  BY <2>5
    <3> QED  BY <1>3, <1>6, <3>1, <3>2, <3>3, <3>4, <3>5, <3>6 DEF ArchiveHeld
  <2>7. \A t : Even(t, d)' => Even(t, d)  BY <1>3, <1>5, <1>6 DEF Even
  <2>8. CoverageFollows(d) => CoverageFollows(d)'  BY <1>5, <1>7 DEF CoverageFollows, Rollups
  <2>9. LoadedTables(d)'  BY <1>3, <1>5, <1>6, <1>7, <2>2, <2>7, <2>8 DEF LoadedTables, DayHolds, Rollups
  <2>10. ReplayedTables(d)'  BY <1>3, <1>5, <2>2, ReplayedIsInReplay DEF ReplayedTables
  <2> QED  BY <2>3, <2>4, <2>6, <2>9, <2>10 DEF DayHolds
<1>9. loader'.pc \in LoadSteps \ {"begin", "delete"} /\ loader.pc \in LoadSteps \ {"begin"}
  BY <1>3, <1>6 DEF LoadSteps
<1>10. loader'.pc \in {"rebuild", "rebuilding"} => loader.again /\ loader'.table \in Rollups  BY <1>6 DEF Rollups
<1>11. ~(loader'.pc = "rebuilding" /\ loader'.table = "station_coverage")  BY <1>6
<1> QED  BY <1>1, <1>5, <1>6, <1>7, <1>8, <1>9, <1>10, <1>11, UnderWay

\* A table of the day is emptied and receptions read.
LEMMA RebuildStep ==
    ASSUME LoadsInv, RebuildDay
    PROVE  LoadsInv'
<1>1. PICK d : d = loader.day  OBVIOUS
<1>2. PICK table : table = loader.table  OBVIOUS
<1>3. loader.pc = "rebuild" /\ loader.again /\ table \in Rollups /\ d \in LoadDays /\ UnderLoad(d) /\ DayHolds(d)
      /\ loads[d] # NoLoad /\ ~loads[d].complete /\ (d \notin crossed => ~InReplay(d))
      /\ (table = "station_coverage" => filler.pc # "binning")
  BY <1>1, <1>2, DayUnderLoad DEF RebuildDay, Unbinned, LoadsInv, PassListed, LoadSteps
<1>4. /\ rollups' = [rollups EXCEPT ![table][d] = {}] /\ loader' = [loader EXCEPT !.pc = "rebuilding", !.read = rows[d]]
      /\ UNCHANGED <<rows, copies, published, loads, covered, replay, filler, crossed, halfway, tally>>
  BY <1>1, <1>2 DEF RebuildDay
<1>5. /\ loader'.pc = "rebuilding" /\ loader'.read = rows[d] /\ loader'.table = table /\ loader'.day = d
      /\ loader'.etag = loader.etag /\ loader'.todo = loader.todo /\ loader'.run = loader.run
      /\ loader'.again = loader.again /\ loader'.matched = loader.matched /\ loader'.beside = loader.beside
  BY <1>1, <1>2, <1>4
<1>6. /\ DOMAIN rollups' = Rollups /\ \A t \in Rollups : DOMAIN rollups'[t] = LoadDays
      /\ \A t \in Rollups, e \in LoadDays : rollups'[t][e] = IF t = table /\ e = d THEN {} ELSE rollups[t][e]
  BY <1>3, <1>4 DEF LoadsInv, LoadsTyped
<1>7. DayHolds(d)'
  <2>1. Archived(d)' = Archived(d) /\ Net(d)' = Net(d) /\ (InReplay(d)' <=> InReplay(d)) /\ (Replayed(d)' <=> Replayed(d))
    BY <1>4 DEF Archived, Net, InReplay, Replayed, Beside
  <2>2. OneAtATime(d)'  BY <1>3, <1>4, <2>1 DEF OneAtATime
  <2>3. NetHeld(d)'  BY <1>3, <1>4, <2>1 DEF NetHeld, DayHolds
  <2>4. Batch(1, d)' = Batch(1, d) /\ Batch(2, d)' = Batch(2, d)  BY <1>5 DEF Batch
  <2>5. ArchiveHeld(d)'  BY <1>3, <1>4, <1>5, <2>1, <2>4 DEF ArchiveHeld, DayHolds
  <2>6. Even("positions_1m", d)' => table = "station_coverage" /\ Even("positions_1m", d)
    BY <1>2, <1>3, <1>4, <1>5 DEF Even
  <2>7. ~Even("station_coverage", d)'  BY <1>3, <1>4, <1>5 DEF Even
  <2>8. LoadedTables(d)'
    <3>1. "positions_1m" # "station_coverage" /\ "positions_1m" \in Rollups  BY DEF Rollups
    <3>2. Even("positions_1m", d)' /\ d \notin crossed => rollups'["positions_1m"][d] = rows[d]
      BY <1>3, <1>6, <2>6, <3>1 DEF LoadedTables, DayHolds
    <3>3. rollups'[table][d] = {}  BY <1>3, <1>6
    <3> QED  BY <1>4, <1>5, <2>1, <2>7, <3>2, <3>3 DEF LoadedTables
  <2>9. ReplayedTables(d)'  BY <1>3, <1>4, <2>1, ReplayedIsInReplay DEF ReplayedTables
  <2> QED  BY <2>2, <2>3, <2>5, <2>8, <2>9 DEF DayHolds
<1> QED  BY <1>1, <1>3, <1>4, <1>5, <1>6, <1>7, UnderWay DEF LoadSteps, LoadsInv, LoadsTyped

\* What was read goes into the emptied table: the day's table is whole.
LEMMA RebuiltStep ==
    ASSUME LoadsInv, RebuiltDay
    PROVE  LoadsInv'
<1>1. PICK d : d = loader.day  OBVIOUS
<1>2. PICK table : table = loader.table  OBVIOUS
<1>3. loader.pc = "rebuilding" /\ loader.again /\ table \in Rollups /\ d \in LoadDays /\ UnderLoad(d) /\ DayHolds(d)
      /\ loads[d] # NoLoad /\ ~loads[d].complete /\ (d \notin crossed => ~InReplay(d))
      /\ (table = "station_coverage" => filler.pc # "binning")
  BY <1>1, <1>2, DayUnderLoad DEF RebuiltDay, LoadsInv, PassListed, OthersTyped, LoadSteps
<1>4. /\ rollups' = [rollups EXCEPT ![table][d] = @ \union loader.read]
      /\ loader' = IF table = "positions_1m" THEN [loader EXCEPT !.pc = "rebuild", !.table = "station_coverage", !.read = {}]
                   ELSE [loader EXCEPT !.pc = "finish", !.read = {}]
      /\ UNCHANGED <<rows, copies, published, loads, covered, replay, filler, crossed, halfway, tally>>
  BY <1>1, <1>2 DEF RebuiltDay
<1>5. /\ table = "positions_1m" => loader'.pc = "rebuild" /\ loader'.table = "station_coverage"
      /\ table # "positions_1m" => loader'.pc = "finish"
      /\ loader'.day = d
      /\ loader'.etag = loader.etag /\ loader'.todo = loader.todo /\ loader'.run = loader.run
      /\ loader'.again = loader.again /\ loader'.matched = loader.matched /\ loader'.beside = loader.beside
  BY <1>1, <1>4
<1>6. /\ DOMAIN rollups' = Rollups /\ \A t \in Rollups : DOMAIN rollups'[t] = LoadDays
      /\ \A t \in Rollups, e \in LoadDays :
           rollups'[t][e] = IF t = table /\ e = d THEN rollups[t][e] \union loader.read ELSE rollups[t][e]
  BY <1>3, <1>4 DEF LoadsInv, LoadsTyped
<1>7. table \in {"positions_1m", "station_coverage"}  BY <1>3 DEF Rollups
<1>8. DayHolds(d)'
  <2>1. Archived(d)' = Archived(d) /\ Net(d)' = Net(d) /\ (InReplay(d)' <=> InReplay(d)) /\ (Replayed(d)' <=> Replayed(d))
    BY <1>4 DEF Archived, Net, InReplay, Replayed, Beside
  <2>2. OneAtATime(d)'  BY <1>3, <1>4, <2>1 DEF OneAtATime
  <2>3. NetHeld(d)'  BY <1>3, <1>4, <2>1 DEF NetHeld, DayHolds
  <2>4. Batch(1, d)' = Batch(1, d) /\ Batch(2, d)' = Batch(2, d)  BY <1>5 DEF Batch
  <2>5. loader'.pc \in {"rebuild", "finish"}  BY <1>5
  <2>6. ArchiveHeld(d)'  BY <1>3, <1>4, <1>5, <2>1, <2>4, <2>5 DEF ArchiveHeld, DayHolds
  <2>7. d \notin crossed => rollups'[table][d] = rows[d]
    <3>1. d \notin crossed => loader.read = rows[d] /\ rollups[table][d] \subseteq rows[d]
      BY <1>2, <1>3 DEF LoadedTables, DayHolds
    <3> QED  BY <1>3, <1>6, <3>1
  <2>8. table = "station_coverage" /\ d \notin crossed => rollups'["positions_1m"][d] = rows[d]
    <3>1. table = "station_coverage" => Even("positions_1m", d)  BY <1>2, <1>3 DEF Even
    <3>2. "positions_1m" \in Rollups /\ "positions_1m" # "station_coverage"  BY DEF Rollups
    <3> QED  BY <1>3, <1>6, <3>1, <3>2 DEF LoadedTables, DayHolds
  <2>9. Even("station_coverage", d)' => table = "station_coverage"
    BY <1>3, <1>4, <1>5, <1>7 DEF Even
  <2>10. table = "station_coverage" /\ d \notin crossed => CoverageFollows(d)'
    BY <1>3, <1>4, <2>7 DEF CoverageFollows
  <2>11. LoadedTables(d)'
    <3>1. d \notin crossed => rollups'["positions_1m"][d] = rows[d]  BY <1>7, <2>7, <2>8
    <3> QED  BY <1>4, <2>5, <2>9, <2>10, <3>1 DEF LoadedTables
  <2>12. ReplayedTables(d)'  BY <1>3, <1>4, <2>1, ReplayedIsInReplay DEF ReplayedTables
  <2> QED  BY <2>2, <2>3, <2>6, <2>11, <2>12 DEF DayHolds
<1>9. loader'.pc \in LoadSteps \ {"begin", "delete"} /\ loader.pc \in LoadSteps \ {"begin"} /\ loader'.pc # "rebuilding"
  BY <1>3, <1>5 DEF LoadSteps
<1>10. loader'.pc \in {"rebuild", "rebuilding"} => loader.again /\ loader'.table \in Rollups
  BY <1>3, <1>5, <1>7 DEF Rollups
<1> QED  BY <1>1, <1>3, <1>4, <1>5, <1>6, <1>8, <1>9, <1>10, UnderWay DEF LoadsInv, LoadsTyped

\* The file is recorded complete, with its batches and its tables whole.
LEMMA FinishStep ==
    ASSUME LoadsInv, FinishFile
    PROVE  LoadsInv'
<1> USE DEF LoadsInv
<1>1. PICK d : d = loader.day  OBVIOUS
<1>2. loader.pc = "finish" /\ d \in LoadDays /\ UnderLoad(d) /\ DayHolds(d) /\ loader.etag \in Nat \ {0}
      /\ loads[d] # NoLoad /\ ~loads[d].complete /\ (d \notin crossed => ~InReplay(d))
  BY <1>1, DayUnderLoad DEF FinishFile, PassListed, LoadSteps
<1>3. PICK row : row = [etag |-> loader.etag, complete |-> TRUE, matched |-> TRUE /\ loader.beside]  OBVIOUS
<1>4. row \in LoadRows /\ row.etag = loader.etag /\ row.complete /\ (row.matched <=> loader.beside) /\ row # NoLoad
  <2>1. row.etag = loader.etag /\ row.complete /\ (row.matched <=> loader.beside)  BY <1>3
  <2>2. row \in LoadRows  BY <1>2, <1>3 DEF LoadRows
  <2>3. NoLoad.etag = 0  BY DEF NoLoad
  <2> QED  BY <1>2, <2>1, <2>2, <2>3
<1>5. /\ loads' = [loads EXCEPT ![d] = row] /\ loader'.pc \in {"idle", "file"} /\ loader'.todo = loader.todo
      /\ UNCHANGED <<rows, rollups, copies, published, covered, replay, filler, crossed, halfway, tally>>
  BY <1>1, <1>3 DEF FinishFile, Recorded, FileOver, Resting
<1>6. loads'[d] = row /\ \A e \in LoadDays \ {d} : loads'[e] = loads[e]  BY <1>2, <1>5 DEF LoadsTyped
<1>7. \A e : ~UnderLoad(e)'  BY <1>5 DEF UnderLoad, InLoad
<1>8. LoadsTyped'  BY <1>4, <1>5 DEF LoadsTyped
<1>9. OthersTyped'  BY <1>5 DEF OthersTyped, Beside
<1>10. PassListed'
  <2>1. \A f \in loader.todo : f.day # d  BY <1>1, <1>2 DEF PassListed, LoadSteps
  <2> QED  BY <1>2, <1>4, <1>5, <1>6, <2>1 DEF PassListed, LoadSteps
<1>11. \A e \in LoadDays \ {d} : DayHolds(e)'
  <2>1. ASSUME NEW e \in LoadDays \ {d} PROVE DayLeft(e) /\ LoaderAway(e) /\ ReplayAway(e) /\ FillerAway(e)
    BY <1>5, <1>6, <1>7 DEF DayLeft, LoaderAway, ReplayAway, FillerAway
  <2> QED  BY <2>1, OthersStand
<1>12. DayHolds(d)'
  <2>1. Archived(d)' = Archived(d) /\ Net(d)' = Net(d) /\ (InReplay(d)' <=> InReplay(d)) /\ (Replayed(d)' <=> Replayed(d))
    BY <1>5 DEF Archived, Net, InReplay, Replayed, Beside
  <2>2. OneAtATime(d)'  BY <1>7 DEF OneAtATime
  <2>3. NetHeld(d)'  BY <1>2, <1>5, <2>1 DEF NetHeld, DayHolds
  <2>4. ArchiveHeld(d)'
    <3>1. Archived(d) = {Batch(1, d), Batch(2, d)} /\ (d \notin crossed => loader.beside /\ loader.matched = copies[d])
      BY <1>2 DEF ArchiveHeld, DayHolds
    <3>2. PICK r : r = Batch(1, d)  OBVIOUS
    <3>3. r.run = loader.run /\ r.matched = loader.matched /\ r \in Archived(d)  BY <3>1, <3>2 DEF Batch
    <3>4. Archived(d) = BatchesOf(r.run, loader.etag, r.matched)  BY <3>1, <3>3 DEF Batch, BatchesOf
    <3>5. d \notin crossed' => r.matched = copies'[d] /\ loads'[d].matched  BY <1>4, <1>5, <1>6, <3>1, <3>3
    <3>6. r \in Archived(d)' /\ Archived(d)' = BatchesOf(r.run, loads'[d].etag, r.matched)
      BY <1>4, <1>6, <2>1, <3>3, <3>4
    <3> QED  BY <1>4, <1>6, <1>7, <3>5, <3>6 DEF ArchiveHeld
  <2>5. Even("positions_1m", d) /\ Even("station_coverage", d)  BY <1>2 DEF Even
  <2>6. CoverageFollows(d)' <=> CoverageFollows(d)  BY <1>5 DEF CoverageFollows
  <2>7. LoadedTables(d)'  BY <1>2, <1>5, <1>7, <2>5, <2>6 DEF LoadedTables, DayHolds
  <2>8. ReplayedTables(d)'  BY <1>2, <1>5, <2>1, ReplayedIsInReplay DEF ReplayedTables
  <2> QED  BY <2>2, <2>3, <2>4, <2>7, <2>8 DEF DayHolds
<1> QED  BY <1>8, <1>9, <1>10, <1>11, <1>12

\* The first backfill of coverage, a day at a time.
LEMMA FillSteps ==
    ASSUME LoadsInv, FillDay \/ FilledDay \/ FillRecorded \/ FillFails
    PROVE  LoadsInv'
<1> USE DEF LoadsInv
<1>1. UNCHANGED <<rows, copies, published, loads, loader, replay, crossed, halfway>>
  BY DEF FillDay, FilledDay, FillRecorded, FillFails
<1>2. PICK d \in LoadDays \ covered :
        /\ \/ filler.pc = "idle" /\ filler'.pc = "binning" /\ filler'.read = rows[d]
              /\ covered' = covered /\ rollups' = rollups
              /\ ~(loader.pc = "rebuilding" /\ loader.table = "station_coverage")
           \/ filler.pc = "binning" /\ filler.day = d /\ filler'.pc = "ledger" /\ covered' = covered
              /\ rollups' = [rollups EXCEPT !["station_coverage"][d] = @ \union filler.read]
           \/ filler.pc = "ledger" /\ filler.day = d /\ filler'.pc = "idle" /\ covered' = covered \union {d} /\ rollups' = rollups
           \/ filler.pc # "idle" /\ filler.day = d /\ filler'.pc = "idle" /\ covered' = covered /\ rollups' = rollups
        /\ filler'.pc # "idle" => filler'.day = d
  <2>1. CASE FillDay
    <3>1. PICK d : d = Max(LoadDays \ covered)  OBVIOUS
    <3>2. d \in LoadDays \ covered  BY <2>1, <3>1, LeastOfDays DEF FillDay
    <3> QED  BY <2>1, <3>1, <3>2 DEF FillDay
  <2>2. CASE FilledDay
    <3>1. PICK d : d = filler.day  OBVIOUS
    <3>2. d \in LoadDays \ covered /\ filler.pc = "binning"  BY <2>2, <3>1 DEF FilledDay, OthersTyped
    <3>3. filler'.pc = "ledger" /\ filler'.day = d  BY <2>2, <3>1 DEF FilledDay
    <3>4. covered' = covered /\ rollups' = [rollups EXCEPT !["station_coverage"][d] = @ \union filler.read]
      BY <2>2, <3>1 DEF FilledDay
    <3> QED  BY <3>1, <3>2, <3>3, <3>4
  <2>3. CASE FillRecorded  BY <2>3 DEF FillRecorded, OthersTyped
  <2>4. CASE FillFails  BY <2>4 DEF FillFails, OthersTyped
  <2> QED  BY <2>1, <2>2, <2>3, <2>4
<1>3. replay.pc = "idle"  BY <1>2 DEF OthersTyped
<1>4. /\ DOMAIN rollups' = Rollups /\ \A t \in Rollups : DOMAIN rollups'[t] = LoadDays
      /\ \A t \in Rollups, e \in LoadDays : t = "positions_1m" \/ e # d => rollups'[t][e] = rollups[t][e]
  <2>1. CASE rollups' = rollups  BY <2>1 DEF LoadsTyped
  <2>2. CASE rollups' = [rollups EXCEPT !["station_coverage"][d] = @ \union filler.read]
    BY <2>2 DEF LoadsTyped, Rollups
  <2> QED  BY <1>2, <2>1, <2>2
<1>5. LoadsTyped'  BY <1>1, <1>2, <1>4 DEF LoadsTyped
<1>6. OthersTyped'  BY <1>1, <1>2, <1>3 DEF OthersTyped, Beside
<1>7. PassListed'  BY <1>1 DEF PassListed
<1>8. \A e \in LoadDays \ {d} : DayHolds(e)'
  <2>1. ASSUME NEW e \in LoadDays \ {d} PROVE DayLeft(e) /\ LoaderAway(e) /\ ReplayAway(e) /\ FillerAway(e)
    <3>1. ~FillsDay(e) /\ ~FillsDay(e)' /\ (e \in covered' => e \in covered)  BY <1>2 DEF FillsDay
    <3> QED  BY <1>1, <1>4, <3>1 DEF DayLeft, LoaderAway, ReplayAway, FillerAway
  <2> QED  BY <2>1, OthersStand
<1>9. DayHolds(d)'
  <2>1. DayHolds(d)  BY <1>2
  <2>2. Archived(d)' = Archived(d) /\ Net(d)' = Net(d) /\ (InReplay(d)' <=> InReplay(d)) /\ (Replayed(d)' <=> Replayed(d))
        /\ (UnderLoad(d)' <=> UnderLoad(d)) /\ \A t : Even(t, d)' <=> Even(t, d)
    BY <1>1 DEF Archived, Net, InReplay, Replayed, Beside, UnderLoad, InLoad, Even
  <2>3. OneAtATime(d)' /\ NetHeld(d)'  BY <1>1, <2>1, <2>2 DEF OneAtATime, NetHeld, DayHolds
  <2>4. Batch(1, d)' = Batch(1, d) /\ Batch(2, d)' = Batch(2, d)  BY <1>1 DEF Batch
  <2>5. ArchiveHeld(d)'  BY <1>1, <2>1, <2>2, <2>4 DEF ArchiveHeld, DayHolds
  <2>6. CoverageFollows(d) => CoverageFollows(d)'
    <3>1. CASE filler.pc = "binning" /\ filler.day = d /\ filler'.pc = "ledger" /\ covered' = covered
               /\ rollups' = [rollups EXCEPT !["station_coverage"][d] = @ \union filler.read]
      <4>1. rollups'["station_coverage"][d] = rollups["station_coverage"][d] \union filler.read
        BY <1>2, <3>1 DEF LoadsTyped, Rollups
      <4> QED  BY <1>1, <3>1, <4>1 DEF CoverageFollows
    <3>2. CASE filler.pc = "idle" /\ filler'.pc = "binning" /\ filler'.read = rows[d] /\ covered' = covered /\ rollups' = rollups
      BY <1>1, <1>2, <3>2 DEF CoverageFollows
    <3>3. CASE filler.pc = "ledger" /\ filler.day = d /\ filler'.pc = "idle" /\ rollups' = rollups
      BY <1>1, <1>2, <3>3 DEF CoverageFollows
    <3>4. CASE filler'.pc = "idle" /\ covered' = covered /\ rollups' = rollups
      BY <1>1, <1>2, <3>4 DEF CoverageFollows
    <3> QED  BY <1>2, <3>1, <3>2, <3>3, <3>4
  <2>7. UnderLoad(d) /\ loader.pc = "rebuilding" => rollups'[loader.table][d] = rollups[loader.table][d]
    <3>1. UnderLoad(d) /\ loader.pc = "rebuilding" => loader.table \in Rollups
      BY DEF PassListed, LoadSteps
    <3>2. loader.pc = "rebuilding" /\ loader.table = "station_coverage" => rollups' = rollups
      BY <1>2 DEF OthersTyped
    <3> QED  BY <1>2, <1>4, <3>1, <3>2 DEF Rollups
  <2>8. rollups'["positions_1m"][d] = rollups["positions_1m"][d]  BY <1>2, <1>4 DEF Rollups
  <2>9. LoadedTables(d)'  BY <1>1, <2>1, <2>2, <2>6, <2>7, <2>8 DEF LoadedTables, DayHolds
  <2>10. ReplayedTables(d)'  BY <1>1, <1>3 DEF ReplayedTables, Replayed, Rebuilds
  <2> QED  BY <2>3, <2>5, <2>9, <2>10 DEF DayHolds
<1> QED  BY <1>5, <1>6, <1>7, <1>8, <1>9

\* The steps of a replay leave the loader and the filler as they are, which
\* rests: the first backfill is over.
LEMMA ReplayWay ==
    ASSUME LoadsInv, UNCHANGED <<published, covered, loader, filler>>, NEW x \in LoadDays,
           \A d \in LoadDays \ Beside(x) : DayLeft(d) /\ ReplayAway(d),
           \A d \in Beside(x) : DayHolds(d)'
    PROVE  \A d \in LoadDays : DayHolds(d)'
<1>1. \A d \in LoadDays \ Beside(x) : DayHolds(d)'
  <2>1. ASSUME NEW d \in LoadDays \ Beside(x) PROVE DayLeft(d) /\ LoaderAway(d) /\ ReplayAway(d) /\ FillerAway(d)
    BY DEF LoaderAway, FillerAway
  <2> QED  BY <2>1, OthersStand
<1> QED  BY <1>1

LEMMA ReplayBegins ==
    ASSUME LoadsInv, NEW x \in LoadDays, ReplayBegin(x)
    PROVE  LoadsInv'
<1> USE DEF LoadsInv
<1>1. replay.pc = "idle" /\ covered = LoadDays /\ replay'.pc = "delete" /\ replay'.day = x
      /\ crossed' = crossed \union {e \in Beside(x) : InLoad(e)}
      /\ UNCHANGED <<rows, rollups, copies, published, loads, covered, loader, filler, halfway>>
  BY DEF ReplayBegin, NoReplay
<1>2. LoadsTyped' /\ PassListed'  BY <1>1 DEF LoadsTyped, PassListed
<1>3. OthersTyped'  BY <1>1 DEF OthersTyped, Rebuilds
<1>4. \A d : ~Replayed(d)' /\ (InReplay(d)' <=> d \in halfway \/ d \in Beside(x)) /\ (InReplay(d) <=> d \in halfway)
  BY <1>1 DEF Replayed, InReplay, Rebuilds, Beside
<1>5. ASSUME NEW d \in LoadDays \ Beside(x) PROVE DayLeft(d) /\ ReplayAway(d)
  BY <1>1, <1>4 DEF DayLeft, ReplayAway
<1>6. ASSUME NEW d \in Beside(x) PROVE DayHolds(d)'
  <2>1. d \in LoadDays /\ DayHolds(d) /\ InReplay(d)' /\ ~Replayed(d)'  BY <1>4 DEF Beside
  <2>2. (UnderLoad(d)' <=> UnderLoad(d)) /\ Archived(d)' = Archived(d) /\ Batch(1, d)' = Batch(1, d) /\ Batch(2, d)' = Batch(2, d)
    BY <1>1 DEF UnderLoad, InLoad, Archived, Batch
  <2>3. OneAtATime(d)'  BY <1>1, <2>2 DEF OneAtATime, UnderLoad
  <2>4. NetHeld(d)' /\ LoadedTables(d)' /\ ReplayedTables(d)'  BY <2>1 DEF NetHeld, LoadedTables, ReplayedTables
  <2>5. ArchiveHeld(d)'  BY <1>1, <2>1, <2>2 DEF ArchiveHeld, DayHolds
  <2> QED  BY <2>3, <2>4, <2>5 DEF DayHolds
<1>7. \A d \in LoadDays : DayHolds(d)'  BY <1>1, <1>5, <1>6, ReplayWay
<1> QED  BY <1>2, <1>3, <1>7

\* The network's copies go and come: of the archive's nothing moves.
LEMMA SwapSteps ==
    ASSUME LoadsInv, SwapOut \/ SwapIn \/ ReplayStops
    PROVE  LoadsInv'
<1> USE DEF LoadsInv
<1>1. PICK x : x = replay.day  OBVIOUS
<1>2. replay.pc # "idle" /\ x \in LoadDays /\ covered = LoadDays
  BY <1>1 DEF SwapOut, SwapIn, ReplayStops, OthersTyped
<1>3. /\ UNCHANGED <<published, loads, covered, loader, filler, crossed>> /\ replay'.day = x /\ replay'.pc \in {"insert", "rebuild", "delete"}
      /\ halfway \subseteq halfway' /\ halfway' \subseteq halfway \union Beside(x)
      /\ replay'.pc = "rebuild" => replay'.todo = Beside(x) /\ replay'.table = "positions_1m"
  <2>1. CASE SwapOut  BY <2>1, <1>1 DEF SwapOut
  <2>2. CASE SwapIn
    <3>1. PICK all : all = Beside(x)  OBVIOUS
    <3>2. replay' = [replay EXCEPT !.pc = "rebuild", !.todo = all, !.table = "positions_1m"]
          /\ UNCHANGED <<published, loads, covered, loader, filler, crossed, halfway>>
      BY <2>2, <1>1, <3>1 DEF SwapIn, Rebuilt
    <3>3. replay'.pc = "rebuild" /\ replay'.todo = all /\ replay'.table = "positions_1m" /\ replay'.day = x
      BY <1>1, <3>2
    <3> QED  BY <3>1, <3>2, <3>3
  <2>3. CASE ReplayStops  BY <2>3, <1>1 DEF ReplayStops, NoReplay
  <2> QED  BY <2>1, <2>2, <2>3
<1>4. /\ DOMAIN rows' = LoadDays /\ DOMAIN rollups' = Rollups /\ (\A t \in Rollups : DOMAIN rollups'[t] = LoadDays)
      /\ copies' \in [LoadDays -> Nat]
      /\ \A d \in LoadDays \ Beside(x) : rows'[d] = rows[d] /\ copies'[d] = copies[d] /\ \A t \in Rollups : rollups'[t][d] = rollups[t][d]
      /\ \A d \in Beside(x) : /\ {r \in rows'[d] : r.kind = "archive"} = Archived(d)
                              /\ replay'.pc = "rebuild" => [kind |-> "net", copies |-> copies'[d]] \in rows'[d]
  <2>1. CASE SwapOut
    <3>1. rows' = [d \in LoadDays |-> IF d \in Beside(x) THEN Archived(d) ELSE rows[d]]
          /\ copies' = [d \in LoadDays |-> IF d \in Beside(x) THEN copies[d] + 1 ELSE copies[d]]
          /\ rollups' = rollups /\ replay'.pc = "insert"
      BY <2>1, <1>1 DEF SwapOut
    <3> QED  BY <3>1 DEF LoadsTyped, Archived, Beside
  <2>2. CASE SwapIn
    <3>1. PICK later : later = copies'  OBVIOUS
    <3>2. /\ later = [d \in LoadDays |-> IF d \in Beside(x) THEN copies[d] + 1 ELSE copies[d]]
          /\ rows' = [d \in LoadDays |-> rows[d] \union (IF d \in Beside(x) THEN {[kind |-> "net", copies |-> later[d]]} ELSE {})]
          /\ rollups' = [t \in Rollups |-> [d \in LoadDays |-> rollups[t][d] \union (IF d \in Beside(x) THEN {[kind |-> "net", copies |-> later[d]]} ELSE {})]]
      BY <2>2, <1>1, <3>1 DEF SwapIn, Put
    <3>3. ASSUME NEW d \in Beside(x) PROVE {r \in rows'[d] : r.kind = "archive"} = Archived(d)
      <4>1. d \in LoadDays /\ rows'[d] = rows[d] \union {[kind |-> "net", copies |-> later[d]]}  BY <3>2 DEF Beside
      <4> QED  BY <4>1 DEF Archived
    <3>4. ASSUME NEW d \in Beside(x) PROVE [kind |-> "net", copies |-> later[d]] \in rows'[d]
      BY <3>2 DEF Beside
    <3>5. later \in [LoadDays -> Nat]  BY <3>2 DEF LoadsTyped
    <3>6. \A d \in LoadDays \ Beside(x) : rows'[d] = rows[d] /\ later[d] = copies[d] /\ \A t \in Rollups : rollups'[t][d] = rollups[t][d]
      BY <3>2
    <3>7. DOMAIN rows' = LoadDays /\ DOMAIN rollups' = Rollups /\ (\A t \in Rollups : DOMAIN rollups'[t] = LoadDays)
      BY <3>2
    <3> QED  BY <3>1, <3>3, <3>4, <3>5, <3>6, <3>7
  <2>3. CASE ReplayStops
    <3>1. rows' = rows /\ rollups' = rollups /\ copies' = copies /\ replay'.pc = "delete"
      BY <2>3 DEF ReplayStops, NoReplay
    <3> QED  BY <3>1 DEF LoadsTyped, Archived
  <2> QED  BY <2>1, <2>2, <2>3
<1>5. LoadsTyped' /\ PassListed'  BY <1>3, <1>4 DEF LoadsTyped, PassListed
<1>6. OthersTyped'
  <2>1. Beside(x) \subseteq LoadDays /\ x \in Beside(x)  BY <1>2, LoadsAssumption DEF Beside
  <2> QED  BY <1>2, <1>3, <2>1 DEF OthersTyped, Rebuilds, Rollups, Beside
<1>7. \A d : (InReplay(d)' <=> InReplay(d)) /\ (Replayed(d)' <=> replay'.pc = "rebuild" /\ d \in Beside(x))
  BY <1>1, <1>2, <1>3 DEF InReplay, Replayed, Rebuilds, Beside
<1>8. ASSUME NEW d \in LoadDays \ Beside(x) PROVE DayLeft(d) /\ ReplayAway(d)
  BY <1>3, <1>4, <1>7 DEF DayLeft, ReplayAway
<1>9. ASSUME NEW d \in Beside(x) PROVE DayHolds(d)'
  <2>1. d \in LoadDays /\ DayHolds(d) /\ InReplay(d) /\ InReplay(d)'  BY <1>1, <1>2, <1>7 DEF Beside, InReplay
  <2>2. (UnderLoad(d)' <=> UnderLoad(d)) /\ Archived(d)' = Archived(d) /\ Batch(1, d)' = Batch(1, d) /\ Batch(2, d)' = Batch(2, d)
    BY <1>3, <1>4 DEF UnderLoad, InLoad, Archived, Batch
  <2>3. OneAtATime(d)'  BY <1>3, <2>1, <2>2 DEF OneAtATime, DayHolds
  <2>4. NetHeld(d)'  BY <1>4, <1>7, <2>1 DEF NetHeld, Net
  <2>5. LoadedTables(d)'  BY <2>1 DEF LoadedTables
  <2>6. ReplayedTables(d)'  BY <1>3, <1>7 DEF ReplayedTables
  <2>7. d \notin crossed => ~UnderLoad(d)  BY <2>1 DEF OneAtATime, DayHolds
  <2>8. ArchiveHeld(d)'  BY <1>3, <2>1, <2>2, <2>7 DEF ArchiveHeld, DayHolds
  <2> QED  BY <2>3, <2>4, <2>5, <2>6, <2>8 DEF DayHolds
<1>10. \A d \in LoadDays : DayHolds(d)'  BY <1>2, <1>3, <1>8, <1>9, ReplayWay
<1> QED  BY <1>5, <1>6, <1>10

\* The rebuild of a day after a replay: receptions as they are read.
LEMMA ReplayRebuilds ==
    ASSUME LoadsInv, ReplayRebuild \/ ReplayRebuilt
    PROVE  LoadsInv'
<1> USE DEF LoadsInv
<1>1. PICK x : x = Min(replay.todo)  OBVIOUS
<1>2. PICK table : table = replay.table  OBVIOUS
<1>3. PICK day : day = replay.day  OBVIOUS
<1>4. replay.pc \in {"rebuild", "rebuilding"} /\ table \in {"positions_1m", "station_coverage"}
      /\ day \in LoadDays /\ covered = LoadDays /\ replay.todo \subseteq Beside(day)
  BY <1>2, <1>3 DEF ReplayRebuild, ReplayRebuilt, OthersTyped, Rollups
<1>5. x \in replay.todo /\ x \in Beside(day) /\ x \in LoadDays
  <2>1. replay.todo \in SUBSET LoadDays /\ replay.todo # {}  BY <1>4 DEF OthersTyped, Beside
  <2> QED  BY <1>1, <1>4, <2>1, LeastOfDays
<1>6. UNCHANGED <<rows, copies, published, loads, covered, loader, filler, crossed, halfway, tally>>
  BY DEF ReplayRebuild, ReplayRebuilt
<1>7. \/ /\ replay.pc = "rebuild" /\ replay'.pc = "rebuilding" /\ replay'.read = rows[x]
         /\ replay'.table = table /\ replay'.todo = replay.todo /\ replay'.day = day
         /\ rollups' = [rollups EXCEPT ![table][x] = {}]
      \/ /\ replay.pc = "rebuilding" /\ replay'.day = day
         /\ rollups' = [rollups EXCEPT ![table][x] = @ \union replay.read]
         /\ table = "positions_1m" => replay'.pc = "rebuild" /\ replay'.todo = replay.todo /\ replay'.table = "station_coverage"
         /\ table # "positions_1m" => /\ replay'.pc = IF replay.todo = {x} THEN "reload" ELSE "rebuild"
                                      /\ replay'.todo = replay.todo \ {x} /\ replay'.table = "positions_1m"
  <2>1. CASE ReplayRebuild
    <3>1. replay.pc = "rebuild" /\ replay' = [replay EXCEPT !.pc = "rebuilding", !.read = rows[x]]
          /\ rollups' = [rollups EXCEPT ![table][x] = {}]
      BY <2>1, <1>1, <1>2 DEF ReplayRebuild
    <3> QED  BY <3>1, <1>2, <1>3
  <2>2. CASE ReplayRebuilt
    <3>1. replay.pc = "rebuilding" /\ rollups' = [rollups EXCEPT ![table][x] = @ \union replay.read]
          /\ replay' = IF table = "positions_1m" THEN [replay EXCEPT !.pc = "rebuild", !.table = "station_coverage", !.read = {}]
                       ELSE [replay EXCEPT !.pc = IF replay.todo = {x} THEN "reload" ELSE "rebuild",
                                           !.todo = @ \ {x}, !.table = "positions_1m", !.read = {}]
      BY <2>2, <1>1, <1>2 DEF ReplayRebuilt
    <3>2. table = "positions_1m" => replay'.pc = "rebuild" /\ replay'.todo = replay.todo /\ replay'.table = "station_coverage"
      BY <3>1
    <3>3. table # "positions_1m" => /\ replay'.pc = IF replay.todo = {x} THEN "reload" ELSE "rebuild"
                                    /\ replay'.todo = replay.todo \ {x} /\ replay'.table = "positions_1m"
      BY <3>1
    <3>4. replay'.day = day  BY <3>1, <1>3
    <3> QED  BY <3>1, <3>2, <3>3, <3>4
  <2> QED  BY <2>1, <2>2
<1>8. /\ DOMAIN rollups' = Rollups /\ \A t \in Rollups : DOMAIN rollups'[t] = LoadDays
      /\ \A t \in Rollups, d \in LoadDays : t # table \/ d # x => rollups'[t][d] = rollups[t][d]
      /\ rollups'[table][x] = IF replay.pc = "rebuild" THEN {} ELSE rollups[table][x] \union replay.read
  <2>1. table \in Rollups  BY <1>4 DEF Rollups
  <2>2. CASE rollups' = [rollups EXCEPT ![table][x] = {}] /\ replay.pc = "rebuild"  BY <1>5, <2>1, <2>2 DEF LoadsTyped
  <2>3. CASE rollups' = [rollups EXCEPT ![table][x] = @ \union replay.read] /\ replay.pc = "rebuilding"
    BY <1>5, <2>1, <2>3 DEF LoadsTyped
  <2> QED  BY <1>7, <2>2, <2>3
<1>9. LoadsTyped' /\ PassListed'  BY <1>6, <1>8 DEF LoadsTyped, PassListed
<1>10. replay'.pc \in Rebuilds /\ replay'.day = day  BY <1>4, <1>7 DEF Rebuilds
<1>11. OthersTyped'
  <2>1. replay'.pc \in {"rebuild", "rebuilding"} =>
          replay'.table \in Rollups /\ replay'.todo # {} /\ replay'.todo \subseteq Beside(day)
    BY <1>4, <1>5, <1>7 DEF Rollups
  <2> QED  BY <1>4, <1>6, <1>10, <2>1 DEF OthersTyped, Beside
<1>12. \A d : (InReplay(d)' <=> InReplay(d)) /\ (Replayed(d)' <=> Replayed(d)) /\ (Replayed(d) <=> d \in Beside(day))
  BY <1>3, <1>4, <1>6, <1>10 DEF InReplay, Replayed, Rebuilds, Beside
<1>13. ASSUME NEW d \in LoadDays \ Beside(day) PROVE DayLeft(d) /\ ReplayAway(d)
  BY <1>5, <1>6, <1>8, <1>12 DEF DayLeft, ReplayAway
<1>14. ASSUME NEW d \in Beside(day) PROVE DayHolds(d)'
  <2>1. d \in LoadDays /\ DayHolds(d) /\ Replayed(d) /\ InReplay(d)'  BY <1>12, ReplayedIsInReplay DEF Beside
  <2>2. (UnderLoad(d)' <=> UnderLoad(d)) /\ Archived(d)' = Archived(d) /\ Net(d)' = Net(d)
        /\ Batch(1, d)' = Batch(1, d) /\ Batch(2, d)' = Batch(2, d)
    BY <1>6 DEF UnderLoad, InLoad, Archived, Batch, Net
  <2>3. OneAtATime(d)' /\ NetHeld(d)'  BY <1>6, <1>12, <2>1, <2>2 DEF OneAtATime, NetHeld, DayHolds
  <2>4. ArchiveHeld(d)'  BY <1>6, <1>12, <2>1, <2>2 DEF ArchiveHeld, DayHolds
  <2>5. LoadedTables(d)'  BY <2>1 DEF LoadedTables
  <2>6. ReplayedTables(d)'
    <3> SUFFICES ASSUME d \notin crossed
                 PROVE  /\ replay'.pc = "reload" \/ d \notin replay'.todo => \A t \in Rollups : rollups'[t][d] = rows[d]
                        /\ replay'.pc # "reload" /\ d = Min(replay'.todo) =>
                             /\ replay'.table = "station_coverage" => rollups'["positions_1m"][d] = rows[d]
                             /\ replay'.pc = "rebuilding" => replay'.read = rows[d] /\ rollups'[replay'.table][d] \subseteq rows[d]
      BY <1>6 DEF ReplayedTables
    <3>1. /\ d \notin replay.todo => \A t \in Rollups : rollups[t][d] = rows[d]
          /\ d = x => /\ table = "station_coverage" => rollups["positions_1m"][d] = rows[d]
                      /\ replay.pc = "rebuilding" => replay.read = rows[d] /\ rollups[table][d] \subseteq rows[d]
      BY <1>1, <1>2, <1>4, <2>1 DEF ReplayedTables, DayHolds
    <3>2. Rollups = {"positions_1m", "station_coverage"}  BY DEF Rollups
    <3>3. d # x => \A t \in Rollups : rollups'[t][d] = rollups[t][d]  BY <1>8, <2>1
    <3>4. d = x /\ replay.pc = "rebuilding" => rollups'[table][d] = rows[d]  BY <1>8, <3>1
    <3>5. d = x /\ table = "station_coverage" => rollups'["positions_1m"][d] = rows[d]
      BY <1>8, <2>1, <3>1, <3>2
    <3>6. CASE replay.pc = "rebuild"
      <4>1. replay'.pc = "rebuilding" /\ replay'.read = rows[x] /\ replay'.table = table /\ replay'.todo = replay.todo
        BY <1>7, <3>6
      <4>2. d = x => rollups'[table][d] = {}  BY <1>8, <3>6
      <4> QED  BY <1>1, <1>5, <3>1, <3>3, <3>5, <4>1, <4>2
    <3>7. CASE replay.pc = "rebuilding"
      <4>1. CASE table = "positions_1m"
        <5>1. replay'.pc = "rebuild" /\ replay'.todo = replay.todo  BY <1>7, <3>7, <4>1
        <5> QED  BY <1>1, <1>5, <3>1, <3>3, <3>4, <3>7, <4>1, <5>1
      <4>2. CASE table = "station_coverage"
        <5>1. /\ replay'.pc = IF replay.todo = {x} THEN "reload" ELSE "rebuild"
              /\ replay'.todo = replay.todo \ {x} /\ replay'.table = "positions_1m"
          BY <1>7, <3>7, <4>2
        <5>2. replay'.pc = "reload" \/ d \notin replay'.todo => \A t \in Rollups : rollups'[t][d] = rows[d]
          <6>1. CASE d = x  BY <3>2, <3>4, <3>5, <3>7, <4>2, <6>1
          <6>2. CASE d # x  BY <3>1, <3>3, <5>1, <6>2
          <6> QED  BY <6>1, <6>2
        <5> QED  BY <5>1, <5>2
      <4> QED  BY <1>4, <4>1, <4>2
    <3> QED  BY <1>4, <3>6, <3>7
  <2> QED  BY <2>3, <2>4, <2>5, <2>6 DEF DayHolds
<1>15. \A d \in LoadDays : DayHolds(d)'  BY <1>4, <1>6, <1>13, <1>14, ReplayWay
<1> QED  BY <1>9, <1>11, <1>15

\* The end of a replay: days loaded from an archive beside what it replaced
\* are to be loaded again, and the tables of all its days are rebuilt.
LEMMA ReplayEnds ==
    ASSUME LoadsInv, ReplayEnd
    PROVE  LoadsInv'
<1> USE DEF LoadsInv
<1>1. PICK x : x = replay.day  OBVIOUS
<1>2. replay.pc = "reload" /\ x \in LoadDays /\ covered = LoadDays /\ filler.pc = "idle"
  BY <1>1 DEF ReplayEnd, OthersTyped
<1>3. /\ loads' = MarkedToReload /\ halfway' = halfway \ Beside(x) /\ replay'.pc = "idle"
      /\ UNCHANGED <<rows, rollups, copies, published, covered, loader, filler, crossed, tally>>
  BY <1>1 DEF ReplayEnd, NoReplay
<1>4. /\ loads' \in [LoadDays -> LoadRows]
      /\ \A d \in LoadDays \ Beside(x) : loads'[d] = loads[d]
      /\ \A d \in LoadDays : /\ loads'[d].etag = loads[d].etag
                             /\ loads'[d].complete => loads'[d] = loads[d]
                             /\ d \in Beside(x) /\ loads[d].complete /\ loads[d].matched => ~loads'[d].complete
                             /\ loads'[d] = NoLoad <=> loads[d] = NoLoad
  <2>1. loads' = [d \in LoadDays |-> IF d \in Beside(x) /\ loads[d].complete /\ loads[d].matched
                                     THEN [loads[d] EXCEPT !.complete = FALSE] ELSE loads[d]]
    BY <1>1, <1>3 DEF MarkedToReload
  <2>2. ASSUME NEW d \in LoadDays
        PROVE  /\ loads'[d] \in LoadRows
               /\ loads'[d].etag = loads[d].etag
               /\ loads'[d].complete => loads'[d] = loads[d]
               /\ d \in Beside(x) /\ loads[d].complete /\ loads[d].matched => ~loads'[d].complete
               /\ loads'[d] = NoLoad <=> loads[d] = NoLoad
               /\ d \notin Beside(x) => loads'[d] = loads[d]
    <3>1. loads[d] \in LoadRows  BY DEF LoadsTyped
    <3>2. CASE d \in Beside(x) /\ loads[d].complete /\ loads[d].matched
      <4>1. loads'[d] = [loads[d] EXCEPT !.complete = FALSE]  BY <2>1, <3>2
      <4>2. loads'[d] \in LoadRows /\ loads'[d].etag = loads[d].etag /\ ~loads'[d].complete
        BY <3>1, <4>1 DEF LoadRows
      <4>3. NoLoad.etag = 0 /\ ~NoLoad.complete  BY DEF NoLoad
      <4>4. loads[d] # NoLoad /\ loads[d].etag > 0  BY <3>2, <4>3 DEF PassListed
      <4>5. loads'[d] # NoLoad  BY <4>2, <4>3, <4>4
      <4> QED  BY <3>2, <4>2, <4>4, <4>5
    <3>3. CASE ~(d \in Beside(x) /\ loads[d].complete /\ loads[d].matched)
      <4>1. loads'[d] = loads[d]  BY <2>1, <3>3
      <4> QED  BY <3>1, <3>3, <4>1
    <3> QED  BY <3>2, <3>3
  <2>3. \A d \in LoadDays : loads'[d] \in LoadRows  BY <2>2
  <2>4. loads' = [d \in LoadDays |-> loads'[d]]  BY <2>1
  <2>5. loads' \in [LoadDays -> LoadRows]  BY <2>3, <2>4
  <2> QED  BY <2>2, <2>5
<1>5. LoadsTyped'  BY <1>3, <1>4 DEF LoadsTyped
<1>6. PassListed'
  <2>1. \A d \in LoadDays : loads'[d] = NoLoad \/ loads'[d].etag > 0  BY <1>4 DEF PassListed
  <2>2. loader.day \in LoadDays /\ ~loads[loader.day].complete => ~loads'[loader.day].complete  BY <1>4
  <2> QED  BY <1>3, <1>4, <2>1, <2>2 DEF PassListed
<1>7. OthersTyped'  BY <1>2, <1>3 DEF OthersTyped, Rebuilds
<1>8. \A d : ~Replayed(d)' /\ (InReplay(d)' <=> d \in halfway \ Beside(x)) /\ (InReplay(d) <=> d \in halfway \union Beside(x))
  BY <1>1, <1>2, <1>3 DEF InReplay, Replayed, Rebuilds, Beside
<1>9. ASSUME NEW d \in LoadDays \ Beside(x) PROVE DayLeft(d) /\ ReplayAway(d)
  BY <1>3, <1>4, <1>8 DEF DayLeft, ReplayAway
<1>10. ASSUME NEW d \in Beside(x) PROVE DayHolds(d)'
  <2>1. d \in LoadDays /\ DayHolds(d) /\ Replayed(d) /\ InReplay(d) /\ ~InReplay(d)' /\ ~Replayed(d)'
    BY <1>1, <1>2, <1>8 DEF Beside, Replayed, Rebuilds
  <2>2. (UnderLoad(d)' <=> UnderLoad(d)) /\ Archived(d)' = Archived(d) /\ Net(d)' = Net(d)
        /\ Batch(1, d)' = Batch(1, d) /\ Batch(2, d)' = Batch(2, d)
    BY <1>3 DEF UnderLoad, InLoad, Archived, Batch, Net
  <2>3. OneAtATime(d)'  BY <2>1 DEF OneAtATime
  <2>4. NetHeld(d)'  BY <1>3, <2>1, <2>2 DEF NetHeld, DayHolds
  <2>5. d \notin crossed => ~loads'[d].complete
    <3>1. d \notin crossed /\ loads[d].complete => loads[d].matched  BY <2>1 DEF ArchiveHeld, DayHolds
    <3>2. loads'[d].complete => loads[d].complete  BY <1>4, <2>1
    <3> QED  BY <1>4, <2>1, <3>1, <3>2
  <2>6. ArchiveHeld(d)'  BY <1>3, <1>4, <2>1, <2>2, <2>5 DEF ArchiveHeld, DayHolds
  <2>7. d \notin crossed => \A t \in Rollups : rollups[t][d] = rows[d]
    BY <1>2, <2>1 DEF ReplayedTables, DayHolds
  <2>8. d \notin crossed => ~UnderLoad(d)  BY <2>1 DEF OneAtATime, DayHolds
  <2>9. d \notin crossed => CoverageFollows(d)'
    BY <1>2, <1>3, <2>7 DEF CoverageFollows, Rollups
  <2>10. LoadedTables(d)'  BY <1>3, <2>2, <2>7, <2>8, <2>9 DEF LoadedTables, Rollups
  <2>11. ReplayedTables(d)'  BY <2>1 DEF ReplayedTables
  <2> QED  BY <2>3, <2>4, <2>6, <2>10, <2>11 DEF DayHolds
<1>11. \A d \in LoadDays : DayHolds(d)'  BY <1>2, <1>3, <1>9, <1>10, ReplayWay
<1> QED  BY <1>5, <1>6, <1>7, <1>11

\* What a settled day has: its file whole and once, its tables as receptions.
LEMMA SettledDays ==
    ASSUME LoadsInv
    PROVE  LoadsSettle
<1>1. ArchiveCopiesMatch
  <2> SUFFICES ASSUME NEW d \in LoadDays, Settled(d), loads[d].complete
               PROVE  /\ {r.batch : r \in Archived(d)} = {1, 2} /\ Cardinality(Archived(d)) = 2
                      /\ \A r \in Archived(d) : r.etag = loads[d].etag /\ r.matched = copies[d]
    BY DEF ArchiveCopiesMatch
  <2>1. d \notin crossed /\ ~InReplay(d) /\ ArchiveHeld(d)  BY DEF Settled, LoadsInv, DayHolds
  <2>2. PICK r \in Archived(d) : Archived(d) = BatchesOf(r.run, loads[d].etag, r.matched) /\ r.matched = copies[d]
    BY <2>1 DEF ArchiveHeld
  <2>3. PICK one, two :
          /\ one = [kind |-> "archive", run |-> r.run, etag |-> loads[d].etag, matched |-> r.matched, batch |-> 1]
          /\ two = [kind |-> "archive", run |-> r.run, etag |-> loads[d].etag, matched |-> r.matched, batch |-> 2]
    OBVIOUS
  <2>4. Archived(d) = {one, two}  BY <2>2, <2>3 DEF BatchesOf
  <2>5. /\ one.batch = 1 /\ two.batch = 2 /\ one.etag = loads[d].etag /\ two.etag = loads[d].etag
        /\ one.matched = copies[d] /\ two.matched = copies[d]
    BY <2>2, <2>3
  <2>6. one # two  BY <2>5
  <2>7. IsFiniteSet({one}) /\ Cardinality({one}) = 1  BY FS_Singleton
  <2>8. Cardinality({one} \union {two}) = 2
    <3>1. two \notin {one}  BY <2>6
    <3>2. Cardinality({one} \union {two}) = Cardinality({one}) + 1  BY <2>7, <3>1, FS_AddElement
    <3> QED  BY <2>7, <3>2
  <2>9. {one, two} = {one} \union {two}  OBVIOUS
  <2> QED  BY <2>4, <2>5, <2>8, <2>9
<1>2. RollupsHoldReceptions
  <2> SUFFICES ASSUME NEW d \in LoadDays, Settled(d)
               PROVE  /\ rollups["positions_1m"][d] = rows[d]
                      /\ rollups["station_coverage"][d] \subseteq rows[d]
                      /\ d \in covered => rollups["station_coverage"][d] = rows[d]
    BY DEF RollupsHoldReceptions
  <2>1. LoadedTables(d) /\ d \notin crossed /\ ~InReplay(d)  BY DEF Settled, LoadsInv, DayHolds
  <2>2. Even("positions_1m", d) /\ Even("station_coverage", d)  BY DEF Settled, Even
  <2> QED  BY <2>1, <2>2 DEF LoadedTables, CoverageFollows
<1> QED  BY <1>1, <1>2 DEF LoadsSettle

\* Day by day, what a file's load has put in receptions and what the tables
\* beside them owe, at every step of a load, a replay and a binning.
THEOREM LoadsHold == LoadsSpec => []LoadsInv
<1>1. LoadsInit => LoadsInv
  <2> SUFFICES ASSUME LoadsInit PROVE LoadsInv  OBVIOUS
  <2>1. /\ copies = [d \in LoadDays |-> 0] /\ rows = [d \in LoadDays |-> {Net(d)}]
        /\ rollups = [t \in Rollups |-> [d \in LoadDays |-> IF t = "positions_1m" THEN {Net(d)} ELSE {}]]
        /\ published = [d \in LoadDays |-> 1] /\ loads = [d \in LoadDays |-> NoLoad]
        /\ covered = {} /\ crossed = {} /\ halfway = {}
        /\ loader.pc = "idle" /\ loader.todo = {} /\ replay.pc = "idle" /\ filler.pc = "idle"
    BY DEF LoadsInit, Resting, NoReplay
  <2>2. NoLoad \in LoadRows /\ ~NoLoad.complete  BY DEF NoLoad, LoadRows
  <2>3. LoadsTyped  BY <2>1, <2>2 DEF LoadsTyped
  <2>4. OthersTyped  BY <2>1 DEF OthersTyped
  <2>5. PassListed  BY <2>1 DEF PassListed, LoadSteps
  <2>6. ASSUME NEW d \in LoadDays PROVE DayHolds(d)
    <3>1. ~InReplay(d) /\ ~UnderLoad(d) /\ ~Replayed(d)  BY <2>1 DEF InReplay, UnderLoad, InLoad, Replayed, Rebuilds
    <3>2. rows[d] = {Net(d)} /\ Archived(d) = {}  BY <2>1 DEF Archived, Net
    <3>3. rollups["positions_1m"][d] = rows[d] /\ rollups["station_coverage"][d] = {}  BY <2>1 DEF Rollups
    <3>4. NetHeld(d)  BY <3>2 DEF NetHeld
    <3>5. ArchiveHeld(d)  BY <2>1, <2>2, <3>1, <3>2 DEF ArchiveHeld
    <3>6. LoadedTables(d)  BY <2>1, <3>1, <3>3 DEF LoadedTables, CoverageFollows
    <3> QED  BY <3>1, <3>4, <3>5, <3>6 DEF DayHolds, OneAtATime, ReplayedTables
  <2> QED  BY <2>3, <2>4, <2>5, <2>6 DEF LoadsInv
<1>2. LoadsInv /\ [LoadsNext]_loadsVars => LoadsInv'
  <2> SUFFICES ASSUME LoadsInv, [LoadsNext]_loadsVars PROVE LoadsInv'  OBVIOUS
  <2>1. CASE \E d \in LoadDays : ReplayBegin(d)  BY <2>1, ReplayBegins
  <2>2. CASE (\E d \in LoadDays : Publish(d)) \/ ListFiles \/ StageFile \/ FailFile \/ UNCHANGED loadsVars
    BY <2>2, PassSteps
  <2>3. CASE BeginFile \/ DeleteEarlier \/ ReadDay \/ RebuildDay \/ RebuiltDay \/ FinishFile
    BY <2>3, BeginStep, DeleteStep, ReadStep, RebuildStep, RebuiltStep, FinishStep
  <2>4. CASE InsertBatch(1) \/ InsertBatch(2)  BY <2>4, BatchStep
  <2>5. CASE Replay \/ ReplayStops  BY <2>5, SwapSteps, ReplayRebuilds, ReplayEnds DEF Replay
  <2>6. CASE Fill \/ FillFails  BY <2>6, FillSteps DEF Fill
  <2> QED  BY <2>1, <2>2, <2>3, <2>4, <2>5, <2>6 DEF LoadsNext, Load
<1> QED  BY <1>1, <1>2, PTL DEF LoadsSpec

\* Once a day's loads and replays are done, its receptions are whole and the
\* tables kept beside them agree, however loads and binnings interleave, fail
\* and start over (loadHistoryFile, coverageBackfill), and replays begun after
\* the backfill fail and are run again beside the loads of other days
\* (replayDay); nothing is said of a day a load and a replay had in hand at
\* once, nor of one a stopped replay has left and not been run again for.
THEOREM LoadsComeOut == LoadsSpec => []LoadsSettle
<1>1. LoadsInv => LoadsSettle  BY SettledDays
<1> QED  BY <1>1, LoadsHold, PTL

-----------------------------------------------------------------------------
(* The coverage map and its tiles (coveragemap.go, tiles.go).               *)

\* A fold over a set takes it apart by choice; what it gives is a sum
\* nonetheless, by the least set of which it would not be.
LEMMA SmallestSet ==
    ASSUME NEW S, IsFiniteSet(S), NEW C \in SUBSET SUBSET S, C # {}
    PROVE  \E T \in C : \A U \in C : Cardinality(T) <= Cardinality(U)
<1> DEFINE Sz == {Cardinality(T) : T \in C}
<1>1. \A T \in C : Cardinality(T) \in Nat  BY FS_Subset, FS_CardinalityType
<1>2. Sz \in SUBSET Nat /\ Sz # {}  BY <1>1
<1>3. PICK x \in Sz : \A y \in Sz : x <= y
  <2> HIDE DEF Sz
  <2> QED  BY <1>2, LeastNatural
<1> QED  BY <1>3

\* One step of the fold: the sum of a set is that of the others, and its first.
First(T) == CHOOSE y \in T : TRUE
Onward(it, w, T) == IF T = {} THEN 0 ELSE it[T \ {First(T)}] + w[First(T)]
Sums(it, w) == it = [T \in SUBSET DOMAIN w |-> Onward(it, w, T)]

Weights(w) == IsFiniteSet(DOMAIN w) /\ \A s \in DOMAIN w : w[s] \in Nat

LEMMA FirstIn == \A T : T # {} => First(T) \in T
  BY DEF First

LEMMA OneLess ==
    ASSUME NEW S, IsFiniteSet(S), NEW T \in SUBSET S, NEW x \in T
    PROVE  Cardinality(T \ {x}) = Cardinality(T) - 1 /\ Cardinality(T) \in Nat /\ Cardinality(T \ {x}) \in Nat
<1>1. IsFiniteSet(T)  BY FS_Subset
<1>2. IsFiniteSet(T \ {x})  BY <1>1, FS_Subset
<1> QED  BY <1>1, <1>2, FS_RemoveElement, FS_CardinalityType

LEMMA SumsThere ==
    ASSUME NEW w, Weights(w)
    PROVE  \E it : Sums(it, w)
<1> DEFINE S == DOMAIN w
           Small(n) == {T \in SUBSET S : Cardinality(T) <= n}
           Partly(it, n) == it = [T \in Small(n) |-> Onward(it, w, T)]
           Missing == {n \in Nat : ~ \E it : Partly(it, n)}
<1>1. IsFiniteSet(S) /\ \A T \in SUBSET S : IsFiniteSet(T) /\ Cardinality(T) \in Nat
  BY FS_Subset, FS_CardinalityType DEF Weights
<1>2. Missing = {}
  <2> SUFFICES ASSUME Missing # {} PROVE FALSE  OBVIOUS
  <2>1. PICK n \in Missing : \A k \in Missing : n <= k
    <3>1. Missing \in SUBSET Nat  OBVIOUS
    <3> HIDE DEF Missing
    <3> QED  BY <3>1, LeastNatural
  <2>2. n \in Nat /\ ~ \E it : Partly(it, n)  BY <2>1
  <2>3. CASE n = 0
    <3>1. \A T \in Small(0) : T = {}  BY <1>1, FS_EmptySet
    <3>2. PICK it : it = [T \in Small(0) |-> 0]  OBVIOUS
    <3>3. [T \in Small(0) |-> Onward(it, w, T)] = [T \in Small(0) |-> 0]  BY <3>1 DEF Onward
    <3>4. Partly(it, 0)  BY <3>2, <3>3
    <3> QED  BY <2>2, <2>3, <3>4
  <2>4. CASE n # 0
    <3>1. n - 1 \in Nat /\ n - 1 \notin Missing
      <4>1. n - 1 \in Nat /\ ~(n <= n - 1)  BY <2>2, <2>4
      <4> HIDE DEF Missing
      <4> QED  BY <2>1, <4>1
    <3>2. PICK it : Partly(it, n - 1)  BY <3>1
    <3>3. PICK more : more = [T \in Small(n) |-> Onward(it, w, T)]  OBVIOUS
    <3>4. \A T \in Small(n - 1) : T \in Small(n) /\ more[T] = it[T]
      <4>1. \A T \in Small(n - 1) : T \in Small(n)  BY <1>1, <2>2
      <4>2. \A T \in Small(n - 1) : it[T] = Onward(it, w, T)  BY <3>2
      <4> QED  BY <3>3, <4>1, <4>2
    <3>5. ASSUME NEW T \in Small(n) PROVE Onward(it, w, T) = Onward(more, w, T)
      <4>1. CASE T = {}  BY <4>1 DEF Onward
      <4>2. CASE T # {}
        <5>1. PICK x : x = First(T) /\ x \in T  BY <4>2, FirstIn
        <5>2. Cardinality(T \ {x}) <= n - 1 /\ T \ {x} \in SUBSET S  BY <1>1, <2>2, <5>1, OneLess
        <5>3. more[T \ {x}] = it[T \ {x}]  BY <3>4, <5>2
        <5> QED  BY <4>2, <5>1, <5>3 DEF Onward
      <4> QED  BY <4>1, <4>2
    <3>6. [T \in Small(n) |-> Onward(it, w, T)] = [T \in Small(n) |-> Onward(more, w, T)]
      <4> HIDE DEF Small
      <4> QED  BY <3>5
    <3>7. Partly(more, n)  BY <3>3, <3>6
    <3> QED  BY <2>2, <3>7
  <2> QED  BY <2>3, <2>4
<1>3. PICK n \in Nat : n = Cardinality(S)  BY <1>1
<1>4. PICK it : Partly(it, n)  BY <1>2
<1>5. Small(n) = SUBSET S
  <2>1. \A T \in SUBSET S : Cardinality(T) <= n  BY <1>1, <1>3, FS_Subset
  <2> QED  BY <2>1
<1>6. Sums(it, w)  BY <1>4, <1>5 DEF Sums
<1> QED  BY <1>6

LEMMA SumsStep ==
    ASSUME NEW w, NEW it, Sums(it, w)
    PROVE  it[{}] = 0 /\ \A T \in SUBSET DOMAIN w : T # {} => it[T] = it[T \ {First(T)}] + w[First(T)]
<1>1. \A T \in SUBSET DOMAIN w : it[T] = Onward(it, w, T)  BY DEF Sums
<1> QED  BY <1>1 DEF Onward

LEMMA SumsTyped ==
    ASSUME NEW w, Weights(w), NEW it, Sums(it, w)
    PROVE  \A T \in SUBSET DOMAIN w : it[T] \in Nat
<1> DEFINE C == {T \in SUBSET DOMAIN w : it[T] \notin Nat}
<1> SUFFICES ASSUME C # {} PROVE FALSE  OBVIOUS
<1>1. IsFiniteSet(DOMAIN w) /\ C \in SUBSET SUBSET DOMAIN w  BY DEF Weights
<1>2. PICK T \in C : \A U \in C : Cardinality(T) <= Cardinality(U)
  <2> HIDE DEF C
  <2> QED  BY <1>1, SmallestSet
<1>3. T # {}
  <2>1. it[{}] = 0  BY SumsStep
  <2>2. it[T] # 0  BY <1>2
  <2> QED  BY <2>1, <2>2
<1>4. PICK x \in T : x = First(T)  BY <1>3, FirstIn
<1>5. T \ {x} \notin C
  <2>1. ~(Cardinality(T) <= Cardinality(T \ {x}))  BY <1>1, <1>2, OneLess
  <2> QED  BY <1>2, <2>1
<1>6. it[T \ {x}] \in Nat /\ w[x] \in Nat  BY <1>2, <1>4, <1>5 DEF Weights
<1>7. it[T] = it[T \ {x}] + w[x]  BY <1>2, <1>3, <1>4, SumsStep
<1> QED  BY <1>2, <1>6, <1>7

\* Whichever is taken first.
LEMMA SumsAdd ==
    ASSUME NEW w, Weights(w), NEW it, Sums(it, w)
    PROVE  \A T \in SUBSET DOMAIN w : \A a \in DOMAIN w \ T : it[T \union {a}] = it[T] + w[a]
<1> DEFINE C == {T \in SUBSET DOMAIN w : \E a \in DOMAIN w \ T : it[T \union {a}] # it[T] + w[a]}
<1> SUFFICES ASSUME C # {} PROVE FALSE  OBVIOUS
<1>1. IsFiniteSet(DOMAIN w) /\ C \in SUBSET SUBSET DOMAIN w  BY DEF Weights
<1>2. PICK T \in C : \A U \in C : Cardinality(T) <= Cardinality(U)
  <2> HIDE DEF C
  <2> QED  BY <1>1, SmallestSet
<1>3. PICK a \in DOMAIN w \ T : it[T \union {a}] # it[T] + w[a]  BY <1>2
<1>4. PICK x : x = First(T \union {a}) /\ x \in T \union {a}  BY FirstIn
<1>5. it[T \union {a}] = it[(T \union {a}) \ {x}] + w[x]  BY <1>2, <1>3, <1>4, SumsStep
<1>6. CASE x = a
  <2>1. (T \union {a}) \ {x} = T  BY <1>3, <1>6
  <2> QED  BY <1>3, <1>5, <1>6, <2>1
<1>7. CASE x # a
  <2>1. PICK U : U = T \ {x}  OBVIOUS
  <2>2. x \in T /\ x \in DOMAIN w \ U /\ a \in DOMAIN w \ U /\ U \in SUBSET DOMAIN w  BY <1>2, <1>3, <1>4, <1>7, <2>1
  <2>3. U \notin C
    <3>1. ~(Cardinality(T) <= Cardinality(U))  BY <1>1, <1>2, <2>1, <2>2, OneLess
    <3> QED  BY <1>2, <3>1
  <2>4. it[U \union {x}] = it[U] + w[x] /\ it[U \union {a}] = it[U] + w[a]  BY <2>2, <2>3
  <2>5. U \union {x} = T /\ (T \union {a}) \ {x} = U \union {a}  BY <1>7, <2>1, <2>2
  <2>6. it[U] \in Nat /\ w[x] \in Nat /\ w[a] \in Nat  BY <2>2, SumsTyped DEF Weights
  <2>7. PICK p, q, r : p = it[U] /\ q = w[x] /\ r = w[a] /\ p \in Nat /\ q \in Nat /\ r \in Nat  BY <2>6
  <2>8. it[T] = p + q /\ it[T \union {a}] = (p + r) + q  BY <1>5, <2>4, <2>5, <2>7
  <2> QED  BY <1>3, <2>7, <2>8
<1> QED  BY <1>6, <1>7

LEMMA SumsAgree ==
    ASSUME NEW w, Weights(w), NEW it, Sums(it, w), NEW v, NEW also, Sums(also, v),
           DOMAIN v \subseteq DOMAIN w, \A s \in DOMAIN v : v[s] = w[s]
    PROVE  \A T \in SUBSET DOMAIN v : also[T] = it[T]
<1> DEFINE C == {T \in SUBSET DOMAIN v : also[T] # it[T]}
<1> SUFFICES ASSUME C # {} PROVE FALSE  OBVIOUS
<1>1. IsFiniteSet(DOMAIN v) /\ C \in SUBSET SUBSET DOMAIN v  BY FS_Subset DEF Weights
<1>2. PICK T \in C : \A U \in C : Cardinality(T) <= Cardinality(U)
  <2> HIDE DEF C
  <2> QED  BY <1>1, SmallestSet
<1>3. T # {}  BY SumsStep
<1>4. PICK x \in T : x = First(T)  BY <1>3, FirstIn
<1>5. T \ {x} \notin C
  <2>1. ~(Cardinality(T) <= Cardinality(T \ {x}))  BY <1>1, <1>2, OneLess
  <2> QED  BY <1>2, <2>1
<1>6. also[T \ {x}] = it[T \ {x}] /\ v[x] = w[x]  BY <1>2, <1>4, <1>5
<1>7. also[T] = also[T \ {x}] + v[x] /\ it[T] = it[T \ {x}] + w[x]  BY <1>2, <1>3, <1>4, SumsStep
<1> QED  BY <1>2, <1>6, <1>7

LEMMA SizesAreSums ==
    ASSUME NEW w, Weights(w)
    PROVE  \E it : Sums(it, w) /\ Sizes(w) = it[DOMAIN w]
<1> DEFINE Is(it) == Sums(it, w)
<1>1. \E it : Is(it)  BY SumsThere
<1>2. Sizes(w) = (CHOOSE it : Is(it))[DOMAIN w]  BY DEF Sizes, FoldSet, MapThenFoldSet, Sums, Onward, First
<1>3. Is(CHOOSE it : Is(it))
  <2> HIDE DEF Is
  <2> QED  BY <1>1
<1> QED  BY <1>2, <1>3

Without(w, a) == [s \in DOMAIN w \ {a} |-> w[s]]

\* The sum of what a function gives, whatever the order of the fold.
LEMMA SizesAdd ==
    ASSUME NEW w, Weights(w)
    PROVE  Sizes(w) \in Nat /\ (DOMAIN w = {} => Sizes(w) = 0)
           /\ \A a \in DOMAIN w : Sizes(w) = Sizes(Without(w, a)) + w[a] /\ Weights(Without(w, a))
<1>1. PICK it : Sums(it, w) /\ Sizes(w) = it[DOMAIN w]  BY SizesAreSums
<1>2. Sizes(w) \in Nat /\ (DOMAIN w = {} => Sizes(w) = 0)  BY <1>1, SumsTyped, SumsStep
<1>3. ASSUME NEW a \in DOMAIN w
      PROVE  Sizes(w) = Sizes(Without(w, a)) + w[a] /\ Weights(Without(w, a))
  <2>1. PICK v : v = Without(w, a)  OBVIOUS
  <2>2. DOMAIN v = DOMAIN w \ {a} /\ \A s \in DOMAIN v : v[s] = w[s]  BY <2>1 DEF Without
  <2>3. Weights(v)  BY <2>2, FS_Subset DEF Weights
  <2>4. PICK also : Sums(also, v) /\ Sizes(v) = also[DOMAIN v]  BY <2>3, SizesAreSums
  <2>5. also[DOMAIN v] = it[DOMAIN v]
    <3>1. DOMAIN v \subseteq DOMAIN w  BY <2>2
    <3> QED  BY <1>1, <2>2, <2>4, <3>1, SumsAgree
  <2>6. it[DOMAIN v \union {a}] = it[DOMAIN v] + w[a]  BY <1>1, <2>2, SumsAdd
  <2>7. DOMAIN v \union {a} = DOMAIN w  BY <2>2
  <2> QED  BY <1>1, <2>1, <2>3, <2>4, <2>5, <2>6, <2>7
<1> QED  BY <1>2, <1>3

\* A station's cells are part of the sum of all kept.
LEMMA SizeOfParts ==
    ASSUME NEW f, IsFiniteSet(DOMAIN f), \A s \in DOMAIN f : f[s].size \in Nat
    PROVE  SizeOf(f) \in Nat /\ (DOMAIN f = {} => SizeOf(f) = 0)
           /\ \A a \in DOMAIN f : SizeOf(f) = SizeOf(Without(f, a)) + f[a].size
<1>1. ASSUME NEW g, NEW w, w = [s \in DOMAIN g |-> g[s].size] PROVE SizeOf(g) = Sizes(w)
  <2> DEFINE F(T, it) == IF T = {} THEN 0 ELSE LET x == CHOOSE y \in T : TRUE IN it[T \ {x}] + g[x].size
             G(T, it) == IF T = {} THEN 0 ELSE LET x == CHOOSE y \in T : TRUE IN it[T \ {x}] + w[x]
             IsF(it) == it = [T \in SUBSET DOMAIN g |-> F(T, it)]
             IsG(it) == it = [T \in SUBSET DOMAIN g |-> G(T, it)]
  <2>1. ASSUME NEW T \in SUBSET DOMAIN g, NEW it PROVE F(T, it) = G(T, it)
    <3>1. CASE T = {}  BY <3>1
    <3>2. CASE T # {}
      <4>1. PICK x : x = CHOOSE y \in T : TRUE  OBVIOUS
      <4>2. x \in T  BY <3>2, <4>1
      <4>3. g[x].size = w[x]  BY <1>1, <4>2
      <4> QED  BY <3>2, <4>1, <4>3
    <3> QED  BY <3>1, <3>2
  <2>2. \A it : IsF(it) <=> IsG(it)
    <3> HIDE DEF F, G
    <3> QED  BY <2>1
  <2>3. SizeOf(g) = (CHOOSE it : IsF(it))[DOMAIN g]  BY DEF SizeOf, FoldSet, MapThenFoldSet
  <2>4. DOMAIN w = DOMAIN g  BY <1>1
  <2>5. Sizes(w) = (CHOOSE it : IsG(it))[DOMAIN g]  BY <2>4 DEF Sizes, FoldSet, MapThenFoldSet
  <2>6. (CHOOSE it : IsF(it)) = (CHOOSE it : IsG(it))
    <3> HIDE DEF IsF, IsG
    <3> QED  BY <2>2
  <2> QED  BY <2>3, <2>5, <2>6
<1>2. PICK w : w = [s \in DOMAIN f |-> f[s].size]  OBVIOUS
<1>3. DOMAIN w = DOMAIN f /\ Weights(w)  BY <1>2 DEF Weights
<1>4. SizeOf(f) = Sizes(w)  BY <1>1, <1>2
<1>5. ASSUME NEW a \in DOMAIN f PROVE SizeOf(f) = SizeOf(Without(f, a)) + f[a].size
  <2>1. Without(w, a) = [s \in DOMAIN Without(f, a) |-> Without(f, a)[s].size]  BY <1>2 DEF Without
  <2>2. SizeOf(Without(f, a)) = Sizes(Without(w, a))  BY <1>1, <2>1
  <2>3. w[a] = f[a].size /\ a \in DOMAIN w  BY <1>2
  <2> QED  BY <1>3, <1>4, <2>2, <2>3, SizesAdd
<1> QED  BY <1>3, <1>4, <1>5, SizesAdd

KeptOnly(f, R) == [s \in R |-> f[s]]
KeptAnd(f, R, a, d) == [s \in R \union {a} |-> IF s = a THEN d ELSE f[s]]

\* What is kept beside a station's cells, and these.
LEMMA KeptWith ==
    ASSUME NEW f, NEW R \in SUBSET DOMAIN f, IsFiniteSet(DOMAIN f), \A s \in DOMAIN f : f[s].size \in Nat,
           NEW h, h = KeptOnly(f, R), NEW a, NEW d, d.size \in Nat,
           NEW g, g = KeptAnd(f, R, a, d)
    PROVE  SizeOf(g) <= d.size + SizeOf(h) /\ SizeOf(g) \in Nat
<1>1. DOMAIN h = R /\ IsFiniteSet(R) /\ \A s \in R : h[s].size \in Nat  BY FS_Subset DEF KeptOnly
<1>2. DOMAIN g = R \union {a} /\ IsFiniteSet(R \union {a}) /\ g[a] = d /\ \A s \in DOMAIN g : g[s].size \in Nat
  BY <1>1, FS_AddElement DEF KeptAnd, KeptOnly
<1>3. SizeOf(g) = SizeOf(Without(g, a)) + d.size /\ SizeOf(g) \in Nat  BY <1>2, SizeOfParts
<1>4. SizeOf(h) \in Nat  BY <1>1, SizeOfParts
<1>5. PICK k : k = Without(g, a)  OBVIOUS
<1>6. DOMAIN k = R \ {a} /\ IsFiniteSet(R \ {a}) /\ \A s \in DOMAIN k : k[s] = f[s]
  BY <1>1, <1>2, <1>5, FS_Subset DEF Without, KeptAnd
<1>7. SizeOf(k) \in Nat  BY <1>6, SizeOfParts
<1>8. SizeOf(k) <= SizeOf(h)
  <2>1. CASE a \notin R
    <3>1. k = h  BY <1>2, <1>5, <2>1 DEF Without, KeptAnd, KeptOnly
    <3> QED  BY <1>4, <3>1
  <2>2. CASE a \in R
    <3>1. k = Without(h, a)  BY <1>1, <1>2, <1>5, <2>2 DEF Without, KeptAnd, KeptOnly
    <3>2. SizeOf(h) = SizeOf(k) + h[a].size /\ h[a].size \in Nat  BY <1>1, <2>2, <3>1, SizeOfParts
    <3> QED  BY <1>7, <3>2
  <2> QED  BY <2>1, <2>2
<1> QED  BY <1>3, <1>4, <1>5, <1>7, <1>8

\* A load stands for what was read at its time: what was built under it since,
\* kept or drawn, was read no earlier.
ReadSince(load) ==
  /\ \A k \in DOMAIN tiles : k[2] = load.loaded => tiles[k] >= load.read
  /\ \A s \in DOMAIN kept : kept[s].loaded = load.loaded => kept[s].read >= load.read
  /\ \A v \in Visitors : visitor[v].pc \in {"keep", "tile"} /\ visitor[v].d.loaded = load.loaded
                         => visitor[v].d.read >= load.read

LoadTyped(load) ==
  load.loaded \in 0..net.loaded /\ load.read \in 0..edits /\ load.size \in Nat /\ load.listed \subseteq Heards

StationTyped(d) == d.loaded \in 0..net.loaded /\ d.read \in 0..edits /\ d.size \in Nat

NetTyped ==
  /\ cells \in [Heards -> 0..CellsMax] /\ edits \in Nat
  /\ LoadTyped(net) /\ net.loaded \in Nat
  /\ netLoad.pc \in {"idle", "stations", "publish", "clear"}
  /\ netLoad.pc \in {"stations", "publish"} =>
       /\ netLoad.d.loaded = net.loaded + 1 /\ netLoad.d.read \in 0..edits
       /\ netLoad.d.size \in Nat /\ netLoad.d.listed \subseteq Heards

KeptTyped ==
  /\ DOMAIN kept \subseteq Heards /\ \A s \in DOMAIN kept : StationTyped(kept[s])
  /\ \A k \in DOMAIN tiles : k[2] \in 0..net.loaded /\ tiles[k] \in 0..edits

\* A request's cells are of the load it was asked under.
VisitorHolds(v) ==
  /\ visitor[v].pc \in {"away", "asked", "read", "keep", "tile"}
  /\ visitor[v].pc # "away" =>
       visitor[v].of \in Heards /\ LoadTyped(visitor[v].net) /\ ReadSince(visitor[v].net)
  /\ visitor[v].pc \in {"keep", "tile"} =>
       StationTyped(visitor[v].d) /\ visitor[v].d.loaded = visitor[v].net.loaded

CoverageInv ==
  /\ NetTyped /\ KeptTyped /\ DOMAIN visitor = Visitors
  /\ ReadSince(net) /\ \A v \in Visitors : VisitorHolds(v)
  /\ KeptForTheLoad

LEMMA BoundTyped ==
    ASSUME NetTyped
    PROVE  Limit \in Nat
<1>1. PICK n \in Nat : n = net.size  BY DEF NetTyped, LoadTyped
<1>2. Max({n, 1}) \in Nat  BY EarlierAndLater
<1>3. PICK m \in Nat : m = Max({net.size, 1})  BY <1>1, <1>2
<1>4. Share \in Nat  BY CoverageAssumption
<1> QED  BY <1>3, <1>4 DEF Limit

\* A request moves on, and what it leaves kept or drawn is no older than the
\* loads it is asked for by.
LEMMA VisitorMoves ==
    ASSUME CoverageInv, UNCHANGED <<cells, edits, netLoad, net>>, KeptTyped', KeptForTheLoad',
           \A load : LoadTyped(load) /\ ReadSince(load) => ReadSince(load)',
           NEW v \in Visitors, NEW q, visitor' = [visitor EXCEPT ![v] = q],
           q.pc \in {"away", "asked", "read", "keep", "tile"},
           q.pc # "away" => q.of \in Heards /\ (q.net = net \/ (visitor[v].pc # "away" /\ q.net = visitor[v].net)),
           q.pc \in {"keep", "tile"} => StationTyped(q.d) /\ q.d.loaded = q.net.loaded
    PROVE  CoverageInv'
<1>1. NetTyped'  BY DEF CoverageInv, NetTyped, LoadTyped
<1>2. DOMAIN visitor' = Visitors /\ visitor'[v] = q /\ \A w \in Visitors \ {v} : visitor'[w] = visitor[w]
  BY DEF CoverageInv
<1>3. ReadSince(net)'
  <2>1. PICK load : load = net  OBVIOUS
  <2>2. LoadTyped(load) /\ ReadSince(load)  BY <2>1 DEF CoverageInv, NetTyped
  <2>3. ReadSince(load)' /\ net' = load  BY <2>1, <2>2
  <2> QED  BY <2>3 DEF ReadSince
<1>4. ASSUME NEW w \in Visitors PROVE VisitorHolds(w)'
  <2>1. CASE w = v
    <3>1. q.pc # "away" => LoadTyped(q.net)' /\ ReadSince(q.net)'
      <4> SUFFICES ASSUME q.pc # "away" PROVE LoadTyped(q.net)' /\ ReadSince(q.net)'  OBVIOUS
      <4>1. PICK load : load = q.net  OBVIOUS
      <4>2. LoadTyped(load) /\ ReadSince(load)
        <5>1. CASE load = net  BY <5>1 DEF CoverageInv, NetTyped
        <5>2. CASE visitor[v].pc # "away" /\ load = visitor[v].net  BY <5>2 DEF CoverageInv, VisitorHolds
        <5> QED  BY <4>1, <5>1, <5>2
      <4>3. LoadTyped(load)' /\ ReadSince(load)'  BY <4>2 DEF LoadTyped
      <4> QED  BY <4>1, <4>3
    <3>2. q.pc \in {"keep", "tile"} => StationTyped(q.d)'  BY DEF StationTyped
    <3> QED  BY <1>2, <2>1, <3>1, <3>2 DEF VisitorHolds, LoadTyped, ReadSince, StationTyped
  <2>2. CASE w # v
    <3>1. PICK r : r = visitor[w]  OBVIOUS
    <3>2. visitor'[w] = r  BY <1>2, <2>2, <3>1
    <3>3. VisitorHolds(w)  BY DEF CoverageInv
    <3>4. r.pc # "away" => LoadTyped(r.net)' /\ ReadSince(r.net)'
      <4> SUFFICES ASSUME r.pc # "away" PROVE LoadTyped(r.net)' /\ ReadSince(r.net)'  OBVIOUS
      <4>1. PICK load : load = r.net  OBVIOUS
      <4>2. LoadTyped(load) /\ ReadSince(load)  BY <3>1, <3>3, <4>1 DEF VisitorHolds
      <4>3. LoadTyped(load)' /\ ReadSince(load)'  BY <4>2 DEF LoadTyped
      <4> QED  BY <4>1, <4>3
    <3>5. r.pc \in {"keep", "tile"} => StationTyped(r.d)'  BY <3>1, <3>3 DEF StationTyped, VisitorHolds
    <3> QED  BY <3>1, <3>2, <3>3, <3>4, <3>5 DEF VisitorHolds, LoadTyped, ReadSince, StationTyped
  <2> QED  BY <2>1, <2>2
<1> QED  BY <1>1, <1>2, <1>3, <1>4 DEF CoverageInv

\* It leaves what is kept and drawn as it was.
LEMMA VisitorWalks ==
    ASSUME CoverageInv, UNCHANGED <<cells, edits, netLoad, net, kept, tiles>>,
           NEW v \in Visitors, NEW q, visitor' = [visitor EXCEPT ![v] = q],
           q.pc \in {"away", "asked", "read", "keep", "tile"},
           q.pc # "away" => q.of \in Heards /\ (q.net = net \/ (visitor[v].pc # "away" /\ q.net = visitor[v].net)),
           q.pc \in {"keep", "tile"} => StationTyped(q.d) /\ q.d.loaded = q.net.loaded,
           q.pc \in {"keep", "tile"} =>
             \A load : LoadTyped(load) /\ ReadSince(load) /\ q.d.loaded = load.loaded => q.d.read >= load.read
    PROVE  CoverageInv'
<1>1. KeptTyped'  BY DEF CoverageInv, KeptTyped, StationTyped
<1>2. KeptForTheLoad'  BY DEF CoverageInv, KeptForTheLoad, Limit
<1>3. \A w \in Visitors : visitor'[w] = IF w = v THEN q ELSE visitor[w]  BY DEF CoverageInv
<1>4. ASSUME NEW load, LoadTyped(load), ReadSince(load) PROVE ReadSince(load)'
  <2>1. ASSUME NEW w \in Visitors, visitor'[w].pc \in {"keep", "tile"}, visitor'[w].d.loaded = load.loaded
        PROVE  visitor'[w].d.read >= load.read
    <3>1. CASE w = v  BY <1>3, <1>4, <2>1, <3>1
    <3>2. CASE w # v  BY <1>3, <1>4, <2>1, <3>2 DEF ReadSince
    <3> QED  BY <3>1, <3>2
  <2> QED  BY <1>4, <2>1 DEF ReadSince
<1> QED  BY <1>1, <1>2, <1>4, VisitorMoves

LEMMA AskerSteps ==
    ASSUME CoverageInv, NEW v \in Visitors, Ask(v) \/ FindKept(v) \/ Admit(v) \/ GiveUp(v) \/ ReadStation(v)
    PROVE  CoverageInv'
<1>1. PICK p : p = visitor[v]  OBVIOUS
<1>2. VisitorHolds(v) /\ DOMAIN visitor = Visitors /\ NetTyped /\ KeptTyped  BY DEF CoverageInv
<1>3. p.pc # "away" => p.of \in Heards  BY <1>1, <1>2 DEF VisitorHolds
<1>4. CASE Ask(v)
  <2>1. PICK s \in net.listed : visitor' = [visitor EXCEPT ![v] = [Away EXCEPT !.pc = "asked", !.of = s, !.net = net]]
    BY <1>4 DEF Ask
  <2>2. PICK q : q = [Away EXCEPT !.pc = "asked", !.of = s, !.net = net]  OBVIOUS
  <2>3. q.pc = "asked" /\ q.of = s /\ q.net = net  BY <2>2 DEF Away
  <2>4. s \in Heards  BY <1>2 DEF NetTyped, LoadTyped
  <2>5. UNCHANGED <<cells, edits, netLoad, net, kept, tiles>> /\ visitor' = [visitor EXCEPT ![v] = q]
    BY <1>4, <2>1, <2>2 DEF Ask
  <2> QED  BY <2>3, <2>4, <2>5, VisitorWalks
<1>5. CASE FindKept(v)
  <2>1. PICK d : d = kept[p.of]  OBVIOUS
  <2>2. PICK q : q = [p EXCEPT !.pc = "tile", !.d = d]  OBVIOUS
  <2>3. p.pc = "asked" /\ p.of \in DOMAIN kept /\ d.loaded = p.net.loaded
        /\ UNCHANGED <<cells, edits, netLoad, net, kept, tiles>>
    BY <1>1, <1>5, <2>1 DEF FindKept, Cached
  <2>4. visitor' = [visitor EXCEPT ![v] = q]  BY <1>1, <1>5, <2>1, <2>2 DEF FindKept, Sees
  <2>5. q.pc = "tile" /\ q.of = p.of /\ q.net = p.net /\ q.d = d  BY <2>2
  <2>6. StationTyped(d)  BY <1>2, <2>1, <2>3 DEF KeptTyped
  <2>7. \A load : ReadSince(load) /\ d.loaded = load.loaded => d.read >= load.read  BY <2>1, <2>3 DEF ReadSince
  <2> QED  BY <1>1, <1>3, <2>3, <2>4, <2>5, <2>6, <2>7, VisitorWalks
<1>6. CASE Admit(v)
  <2>1. PICK q : q = [p EXCEPT !.pc = "read"]  OBVIOUS
  <2>2. p.pc = "asked" /\ UNCHANGED <<cells, edits, netLoad, net, kept, tiles>> /\ visitor' = [visitor EXCEPT ![v] = q]
    BY <1>1, <1>6, <2>1 DEF Admit, Moves
  <2>3. q.pc = "read" /\ q.of = p.of /\ q.net = p.net  BY <2>1
  <2> QED  BY <1>1, <1>3, <2>2, <2>3, VisitorWalks
<1>7. CASE GiveUp(v)
  <2>1. PICK q : q = Away  OBVIOUS
  <2>2. UNCHANGED <<cells, edits, netLoad, net, kept, tiles>> /\ visitor' = [visitor EXCEPT ![v] = q] /\ q.pc = "away"
    BY <1>7, <2>1 DEF GiveUp, Answered, Away
  <2> QED  BY <2>2, VisitorWalks
<1>8. CASE ReadStation(v)
  <2>1. PICK d : d = [NoNet EXCEPT !.loaded = p.net.loaded, !.read = edits, !.size = cells[p.of]]  OBVIOUS
  <2>2. PICK q : q = [p EXCEPT !.pc = "keep", !.d = d]  OBVIOUS
  <2>3. p.pc = "read" /\ UNCHANGED <<cells, edits, netLoad, net, kept, tiles>> /\ visitor' = [visitor EXCEPT ![v] = q]
    BY <1>1, <1>8, <2>1, <2>2 DEF ReadStation
  <2>4. q.pc = "keep" /\ q.of = p.of /\ q.net = p.net /\ q.d = d  BY <2>2
  <2>5. d.loaded = p.net.loaded /\ d.read = edits /\ d.size = cells[p.of]  BY <2>1 DEF NoNet
  <2>6. edits \in Nat /\ cells[p.of] \in Nat
    BY <1>2, <1>3, <2>3, CoverageAssumption DEF NetTyped
  <2>7. LoadTyped(p.net)  BY <1>1, <1>2, <2>3 DEF VisitorHolds
  <2>8. StationTyped(d)  BY <2>5, <2>6, <2>7 DEF StationTyped, LoadTyped
  <2>9. \A load : LoadTyped(load) => d.read >= load.read  BY <2>5, <2>6 DEF LoadTyped
  <2> QED  BY <1>1, <1>3, <2>3, <2>4, <2>5, <2>8, <2>9, VisitorWalks
<1> QED  BY <1>4, <1>5, <1>6, <1>7, <1>8

LEMMA KeepStep ==
    ASSUME CoverageInv, NEW v \in Visitors, Keep(v)
    PROVE  CoverageInv'
<1>1. PICK p, d : p = visitor[v] /\ d = p.d  OBVIOUS
<1>2. VisitorHolds(v) /\ DOMAIN visitor = Visitors /\ NetTyped /\ KeptTyped /\ KeptForTheLoad  BY DEF CoverageInv
<1>3. p.pc = "keep" /\ p.of \in Heards /\ LoadTyped(p.net) /\ StationTyped(d) /\ d.loaded = p.net.loaded
  BY <1>1, <1>2 DEF Keep, VisitorHolds
<1>4. UNCHANGED <<cells, edits, netLoad, net, tiles>>  BY DEF Keep
<1>5. PICK q : q = IF d.size = 0 THEN Away ELSE [p EXCEPT !.pc = "tile"]  OBVIOUS
<1>6. visitor' = [visitor EXCEPT ![v] = q]
  <2>1. IF d.size = 0 THEN visitor' = [visitor EXCEPT ![v] = Away] ELSE visitor' = [visitor EXCEPT ![v].pc = "tile"]
    BY <1>1 DEF Keep, Answered, Moves
  <2> QED  BY <1>1, <1>5, <2>1
<1>7. q.pc = "away" \/ (q.pc = "tile" /\ q.of = p.of /\ q.net = p.net /\ q.d = d)
  <2>1. CASE d.size = 0  BY <1>5, <2>1 DEF Away
  <2>2. CASE d.size # 0
    <3>1. q = [p EXCEPT !.pc = "tile"]  BY <1>5, <2>2
    <3> QED  BY <1>1, <3>1
  <2> QED  BY <2>1, <2>2
<1>8. \A w \in Visitors : visitor'[w] = IF w = v THEN q ELSE visitor[w]  BY <1>2, <1>6
<1>9. \/ kept' = kept
      \/ \E rest \in Rests(d) : /\ net = p.net
                                /\ kept' = [s \in rest \union {p.of} |-> IF s = p.of THEN d ELSE kept[s]]
  BY <1>1 DEF Keep, StillTheLoad
<1>10. KeptTyped' /\ KeptForTheLoad' /\ \A s \in DOMAIN kept' : kept'[s] = d \/ (s \in DOMAIN kept /\ kept'[s] = kept[s])
  <2>1. CASE kept' = kept
    BY <1>2, <1>4, <2>1 DEF KeptTyped, KeptForTheLoad, Limit, StationTyped
  <2>2. CASE \E rest \in Rests(d) : /\ net = p.net
                                    /\ kept' = [s \in rest \union {p.of} |-> IF s = p.of THEN d ELSE kept[s]]
    <3>1. PICK rest \in Rests(d) : /\ net = p.net
                                   /\ kept' = [s \in rest \union {p.of} |-> IF s = p.of THEN d ELSE kept[s]]
      BY <2>2
    <3>2. PICK K : K = kept'  OBVIOUS
    <3>3. rest \subseteq DOMAIN kept /\ (rest = {} \/ d.size + SizeOf([s \in rest |-> kept[s]]) <= Limit)
      BY <3>1 DEF Rests
    <3>4. DOMAIN K = rest \union {p.of} /\ \A s \in DOMAIN K : K[s] = d \/ (s \in DOMAIN kept /\ K[s] = kept[s])
      BY <3>1, <3>2, <3>3
    <3>5. DOMAIN K \subseteq Heards /\ \A s \in DOMAIN K : StationTyped(K[s])  BY <1>2, <1>3, <3>3, <3>4 DEF KeptTyped
    <3>6. KeptTyped'  BY <1>2, <1>4, <3>2, <3>5 DEF KeptTyped, StationTyped
    <3>7. netLoad.pc # "clear" => \A s \in DOMAIN K : K[s].loaded = net.loaded
      BY <1>2, <1>3, <3>1, <3>4 DEF KeptForTheLoad
    <3>8. SizeOf(K) <= Limit \/ Cardinality(DOMAIN K) = 1
      <4>1. CASE rest = {}
        <5>1. DOMAIN K = {p.of}  BY <3>4, <4>1
        <5> QED  BY <5>1, FS_Singleton
      <4>2. CASE d.size + SizeOf([s \in rest |-> kept[s]]) <= Limit
        <5>1. IsFiniteSet(DOMAIN kept) /\ (\A s \in DOMAIN kept : kept[s].size \in Nat) /\ d.size \in Nat
          BY <1>2, <1>3, CoverageAssumption, FS_Subset DEF KeptTyped, StationTyped
        <5>2. PICK f, a : f = kept /\ a = p.of  OBVIOUS
        <5>3. K = KeptAnd(f, rest, a, d)  BY <3>1, <3>2, <5>2 DEF KeptAnd
        <5>4. PICK h, z : h = KeptOnly(f, rest) /\ z = SizeOf(h)  OBVIOUS
        <5>5. SizeOf(K) <= d.size + z /\ SizeOf(K) \in Nat
          <6>1. rest \in SUBSET DOMAIN f /\ IsFiniteSet(DOMAIN f) /\ (\A s \in DOMAIN f : f[s].size \in Nat)
            BY <3>3, <5>1, <5>2
          <6>2. d.size \in Nat  BY <5>1
          <6> HIDE <1>1, <5>2
          <6> QED  BY <5>3, <5>4, <6>1, <6>2, KeptWith
        <5>6. z \in Nat
          <6>1. IsFiniteSet(DOMAIN h) /\ \A s \in DOMAIN h : h[s].size \in Nat  BY <3>3, <5>1, <5>2, <5>4, FS_Subset DEF KeptOnly
          <6>2. SizeOf(h) \in Nat  BY <6>1, SizeOfParts
          <6> QED  BY <5>4, <6>2
        <5>7. d.size + z <= Limit  BY <4>2, <5>2, <5>4 DEF KeptOnly
        <5>8. Limit \in Nat  BY <1>2, BoundTyped
        <5> QED  BY <5>1, <5>5, <5>6, <5>7, <5>8
      <4> QED  BY <3>3, <4>1, <4>2
    <3>9. KeptForTheLoad'  BY <1>4, <3>2, <3>7, <3>8 DEF KeptForTheLoad, Limit
    <3> QED  BY <3>2, <3>4, <3>6, <3>9
  <2> QED  BY <1>9, <2>1, <2>2
<1>11. ASSUME NEW load, LoadTyped(load), ReadSince(load) PROVE ReadSince(load)'
  <2>1. d.loaded = load.loaded => d.read >= load.read  BY <1>1, <1>3, <1>11 DEF ReadSince
  <2>2. \A s \in DOMAIN kept' : kept'[s].loaded = load.loaded => kept'[s].read >= load.read
    BY <1>10, <1>11, <2>1 DEF ReadSince
  <2>3. \A w \in Visitors : visitor'[w].pc \in {"keep", "tile"} /\ visitor'[w].d.loaded = load.loaded
                            => visitor'[w].d.read >= load.read
    BY <1>7, <1>8, <1>11, <2>1 DEF ReadSince
  <2> QED  BY <1>4, <1>11, <2>2, <2>3 DEF ReadSince
<1> QED  BY <1>1, <1>3, <1>4, <1>6, <1>7, <1>10, <1>11, VisitorMoves

LEMMA DrawStep ==
    ASSUME CoverageInv, NEW v \in Visitors, Draw(v)
    PROVE  CoverageInv' /\ tiles'[Key(v)] >= visitor[v].net.read
<1>1. PICK p, d, k : p = visitor[v] /\ d = p.d /\ k = Key(v)  OBVIOUS
<1>2. VisitorHolds(v) /\ DOMAIN visitor = Visitors /\ NetTyped /\ KeptTyped /\ KeptForTheLoad  BY DEF CoverageInv
<1>3. p.pc = "tile" /\ StationTyped(d) /\ d.loaded = p.net.loaded /\ LoadTyped(p.net) /\ ReadSince(p.net)
  BY <1>1, <1>2 DEF Draw, VisitorHolds
<1>4. UNCHANGED <<cells, edits, netLoad, net, kept>> /\ visitor' = [visitor EXCEPT ![v] = Away]
  BY DEF Draw, Answered
<1>5. k[2] = d.loaded  BY <1>1 DEF Key
<1>6. \/ k \in DOMAIN tiles /\ tiles' = tiles
      \/ tiles' = [j \in DOMAIN tiles \union {k} |-> IF j = k THEN d.read ELSE tiles[j]]
  BY <1>1 DEF Draw
<1>7. k \in DOMAIN tiles' /\ \A j \in DOMAIN tiles' : (j \in DOMAIN tiles /\ tiles'[j] = tiles[j]) \/ (j = k /\ tiles'[j] = d.read)
  BY <1>6
<1>8. KeptTyped'  BY <1>2, <1>3, <1>4, <1>5, <1>7 DEF KeptTyped, StationTyped
<1>9. KeptForTheLoad'  BY <1>2, <1>4 DEF KeptForTheLoad, Limit
<1>10. \A w \in Visitors : visitor'[w] = IF w = v THEN Away ELSE visitor[w]  BY <1>2, <1>4
<1>11. ASSUME NEW load, LoadTyped(load), ReadSince(load) PROVE ReadSince(load)'
  <2>1. d.loaded = load.loaded => d.read >= load.read  BY <1>1, <1>3, <1>11 DEF ReadSince
  <2>2. \A j \in DOMAIN tiles' : j[2] = load.loaded => tiles'[j] >= load.read
    BY <1>5, <1>7, <1>11, <2>1 DEF ReadSince
  <2>3. \A w \in Visitors : visitor'[w].pc \in {"keep", "tile"} /\ visitor'[w].d.loaded = load.loaded
                            => visitor'[w].d.read >= load.read
    <3>1. Away.pc = "away"  BY DEF Away
    <3> QED  BY <1>10, <1>11, <3>1 DEF ReadSince
  <2> QED  BY <1>4, <1>11, <2>2, <2>3 DEF ReadSince
<1>12. tiles'[k] >= p.net.read
  <2>1. d.read >= p.net.read  BY <1>1, <1>3 DEF ReadSince
  <2>2. k \in DOMAIN tiles => tiles[k] >= p.net.read  BY <1>3, <1>5 DEF ReadSince
  <2> QED  BY <1>7, <2>1, <2>2
<1>13. CoverageInv'
  <2>1. PICK q : q = Away  OBVIOUS
  <2>2. q.pc = "away" /\ visitor' = [visitor EXCEPT ![v] = q]  BY <1>4, <2>1 DEF Away
  <2> QED  BY <1>4, <1>8, <1>9, <1>11, <2>2, VisitorMoves
<1> QED  BY <1>1, <1>12, <1>13

\* The cells change, or the network's load goes on: no request moves.
LEMMA NetworkSteps ==
    ASSUME CoverageInv,
           (\E s \in Heards : Rebin(s)) \/ ReadCells \/ ReadStations \/ LoadFails \/ PublishNet \/ ClearStations
    PROVE  CoverageInv'
<1>1. NetTyped /\ KeptTyped /\ KeptForTheLoad /\ DOMAIN visitor = Visitors /\ ReadSince(net)
      /\ \A v \in Visitors : VisitorHolds(v)
  BY DEF CoverageInv
<1>2. UNCHANGED <<tiles, visitor>> /\ (kept' = kept \/ (kept' = [s \in {} |-> NoNet] /\ ClearStations))
  BY DEF Rebin, ReadCells, ReadStations, LoadFails, PublishNet, ClearStations
<1>3. net' = net \/ (PublishNet /\ net' = netLoad.d)
  BY DEF Rebin, ReadCells, ReadStations, LoadFails, PublishNet, ClearStations
<1>4. edits' \in {edits, edits + 1} /\ edits' \in Nat
  BY <1>1 DEF Rebin, ReadCells, ReadStations, LoadFails, PublishNet, ClearStations, NetTyped
<1>5. edits \in Nat /\ edits' >= edits /\ net.loaded \in Nat /\ net'.loaded \in Nat /\ net'.loaded >= net.loaded
  BY <1>1, <1>3, <1>4 DEF PublishNet, NetTyped
<1>0. (\A x \in 0..edits : x \in 0..edits') /\ (\A x \in 0..net.loaded : x \in 0..net'.loaded)
  <2>1. PICK a, b, l, m : a = edits /\ b = edits' /\ l = net.loaded /\ m = net'.loaded  OBVIOUS
  <2>2. a \in Nat /\ b \in Nat /\ b >= a /\ l \in Nat /\ m \in Nat /\ m >= l  BY <1>4, <1>5, <2>1
  <2>3. (\A x \in 0..a : x \in 0..b) /\ (\A x \in 0..l : x \in 0..m)  BY <2>2
  <2> QED  BY <2>1, <2>3
<1>6. \A s \in DOMAIN kept' : s \in DOMAIN kept /\ kept'[s] = kept[s]  BY <1>2
<1>7. KeptTyped'
  <2>1. \A d : StationTyped(d) => StationTyped(d)'  BY <1>0 DEF StationTyped
  <2>2. ASSUME NEW s \in DOMAIN kept' PROVE StationTyped(kept[s])'
    <3>1. PICK d : d = kept[s]  OBVIOUS
    <3>2. StationTyped(d) /\ kept'[s] = d  BY <1>1, <1>6, <2>2, <3>1 DEF KeptTyped
    <3>3. StationTyped(d)'  BY <2>1, <3>2
    <3> QED  BY <3>2, <3>3 DEF StationTyped
  <2>3. \A k \in DOMAIN tiles : k[2] \in 0..net'.loaded /\ tiles[k] \in 0..edits'  BY <1>0, <1>1 DEF KeptTyped
  <2> QED  BY <1>1, <1>2, <1>6, <2>2, <2>3 DEF KeptTyped
<1>8. \A load : ReadSince(load) => ReadSince(load)'  BY <1>2, <1>6 DEF ReadSince
<1>9. \A load : LoadTyped(load) => LoadTyped(load)'  BY <1>0 DEF LoadTyped
<1>10. ASSUME NEW v \in Visitors PROVE VisitorHolds(v)'
  <2>1. PICK r : r = visitor[v] /\ visitor'[v] = r  BY <1>2
  <2>2. VisitorHolds(v)  BY <1>1
  <2>3. r.pc # "away" => LoadTyped(r.net)' /\ ReadSince(r.net)'
    <3> SUFFICES ASSUME r.pc # "away" PROVE LoadTyped(r.net)' /\ ReadSince(r.net)'  OBVIOUS
    <3>1. PICK load : load = r.net  OBVIOUS
    <3>2. LoadTyped(load) /\ ReadSince(load)  BY <2>1, <2>2, <3>1 DEF VisitorHolds
    <3>3. LoadTyped(load)' /\ ReadSince(load)'  BY <1>8, <1>9, <3>2
    <3> QED  BY <3>1, <3>3
  <2>4. r.pc \in {"keep", "tile"} => StationTyped(r.d)'  BY <1>0, <2>1, <2>2 DEF StationTyped, VisitorHolds
  <2> QED  BY <2>1, <2>2, <2>3, <2>4 DEF VisitorHolds, LoadTyped, ReadSince, StationTyped
<1>11. NetTyped' /\ ReadSince(net)' /\ (netLoad'.pc # "clear" => net' = net)
  <2>1. CASE PublishNet
    <3>1. netLoad.pc = "publish" /\ net' = netLoad.d /\ netLoad'.pc = "clear" /\ UNCHANGED <<cells, edits>>
      BY <2>1 DEF PublishNet
    <3>2. PICK load : load = netLoad.d  OBVIOUS
    <3>3. load.loaded = net.loaded + 1 /\ load.read \in 0..edits /\ load.size \in Nat /\ load.listed \subseteq Heards
      BY <1>1, <3>1, <3>2 DEF NetTyped
    <3>4. LoadTyped(load)' /\ net' = load  BY <1>5, <3>1, <3>2, <3>3 DEF LoadTyped
    <3>5. ReadSince(load)
      <4>1. \A k \in DOMAIN tiles : k[2] # load.loaded  BY <1>1, <1>5, <3>3 DEF KeptTyped
      <4>2. \A s \in DOMAIN kept : kept[s].loaded # load.loaded
        BY <1>1, <1>5, <3>3 DEF KeptTyped, StationTyped
      <4>3. \A v \in Visitors : visitor[v].pc \in {"keep", "tile"} => visitor[v].d.loaded # load.loaded
        BY <1>1, <1>5, <3>3 DEF VisitorHolds, StationTyped
      <4> QED  BY <4>1, <4>2, <4>3 DEF ReadSince
    <3>6. ReadSince(load)'  BY <1>8, <3>5
    <3>7. NetTyped'  BY <1>1, <1>5, <3>1, <3>4 DEF NetTyped, LoadTyped
    <3> QED  BY <3>1, <3>4, <3>6, <3>7 DEF ReadSince
  <2>2. CASE ~PublishNet
    <3>1. net' = net  BY <1>3, <2>2
    <3>2. ReadSince(net)'
      <4>1. PICK load : load = net  OBVIOUS
      <4>2. ReadSince(load)' /\ net' = load  BY <1>1, <1>8, <3>1, <4>1
      <4> QED  BY <4>2 DEF ReadSince
    <3>3. LoadTyped(net)'  BY <1>0, <1>1, <3>1 DEF LoadTyped, NetTyped
    <3>4. cells' \in [Heards -> 0..CellsMax]
      BY <1>1 DEF Rebin, ReadCells, ReadStations, LoadFails, PublishNet, ClearStations, NetTyped
    <3>5. netLoad'.pc \in {"idle", "stations", "publish", "clear"}
          /\ (netLoad'.pc \in {"stations", "publish"} =>
                /\ netLoad'.d.loaded = net.loaded + 1 /\ netLoad'.d.read \in 0..edits
                /\ netLoad'.d.size \in Nat /\ netLoad'.d.listed \subseteq Heards)
      <4>1. CASE ReadCells
        <5>1. IsFiniteSet(DOMAIN cells) /\ \A s \in DOMAIN cells : cells[s] \in Nat
          BY <1>1, CoverageAssumption DEF NetTyped
        <5>2. PICK n \in Nat : n = Sizes(cells)  BY <5>1, SizesAdd DEF Weights
        <5>3. netLoad'.pc = "stations"
              /\ netLoad'.d = [NoNet EXCEPT !.loaded = net.loaded + 1, !.read = edits, !.size = n]
          BY <4>1, <5>2 DEF ReadCells
        <5>4. netLoad'.d.loaded = net.loaded + 1 /\ netLoad'.d.read = edits /\ netLoad'.d.size = n /\ netLoad'.d.listed = {}
          BY <5>3 DEF NoNet
        <5> QED  BY <1>5, <5>3, <5>4
      <4>2. CASE ReadStations
        <5>1. netLoad.pc = "stations" /\ netLoad'.pc = "publish"
              /\ netLoad'.d = [netLoad.d EXCEPT !.listed = {s \in Heards : cells[s] > 0}]
          BY <4>2 DEF ReadStations
        <5>2. PICK d : d = netLoad.d  OBVIOUS
        <5>3. d.loaded = net.loaded + 1 /\ d.read \in 0..edits /\ d.size \in Nat  BY <1>1, <5>1, <5>2 DEF NetTyped
        <5>4. PICK h : h = netLoad'.d  OBVIOUS
        <5>5. h.loaded = d.loaded /\ h.read = d.read /\ h.size = d.size  BY <5>1, <5>2, <5>4
        <5>6. h.listed \subseteq Heards
          <6>1. h = [d EXCEPT !.listed = {s \in Heards : cells[s] > 0}]  BY <5>1, <5>2, <5>4
          <6> QED  BY <1>1, <6>1 DEF NetTyped
        <5> QED  BY <5>1, <5>3, <5>4, <5>5, <5>6
      <4>3. CASE LoadFails \/ ClearStations
        <5>1. CASE LoadFails  BY <5>1 DEF LoadFails
        <5>2. CASE ClearStations
          <6>1. PICK n, old : n = netLoad' /\ old = netLoad  OBVIOUS
          <6>2. n = [old EXCEPT !.pc = "idle"]  BY <5>2, <6>1 DEF ClearStations
          <6>3. n.pc = "idle"  BY <6>2
          <6> QED  BY <6>1, <6>3
        <5> QED  BY <4>3, <5>1, <5>2
      <4>4. CASE \E s \in Heards : Rebin(s)  BY <1>1, <4>4 DEF Rebin, NetTyped
      <4> QED  BY <2>2, <4>1, <4>2, <4>3, <4>4
    <3>6. NetTyped'  BY <1>1, <1>4, <1>5, <3>1, <3>3, <3>4, <3>5 DEF NetTyped
    <3> QED  BY <3>1, <3>2, <3>6
  <2> QED  BY <2>1, <2>2
<1>12. KeptForTheLoad'
  <2> SUFFICES ASSUME netLoad'.pc # "clear" PROVE KeptForTheLoad'  BY DEF KeptForTheLoad
  <2>1. net' = net  BY <1>11
  <2>2. CASE ClearStations
    <3>1. kept' = [s \in {} |-> NoNet]  BY <2>2 DEF ClearStations
    <3>2. SizeOf(kept)' = 0 /\ DOMAIN kept' = {}
      <4>1. PICK f : f = kept'  OBVIOUS
      <4>2. DOMAIN f = {} /\ IsFiniteSet(DOMAIN f)  BY <3>1, <4>1, FS_EmptySet
      <4>3. SizeOf(f) = 0  BY <4>2, SizeOfParts
      <4> QED  BY <4>1, <4>2, <4>3
    <3>3. Limit' \in Nat  BY <1>1, <2>1, BoundTyped DEF Limit
    <3> QED  BY <3>2, <3>3 DEF KeptForTheLoad
  <2>3. CASE ~ClearStations
    <3>1. kept' = kept  BY <1>2, <2>3
    <3>2. netLoad.pc # "clear"
      BY <2>3 DEF Rebin, ReadCells, ReadStations, LoadFails, PublishNet
    <3> QED  BY <1>1, <2>1, <3>1, <3>2 DEF KeptForTheLoad, Limit
  <2> QED  BY <2>2, <2>3
<1> QED  BY <1>1, <1>2, <1>7, <1>10, <1>11, <1>12 DEF CoverageInv

LEMMA CoverageStep ==
    ASSUME CoverageInv, [CoverageNext]_coverageVars
    PROVE  CoverageInv'
<1>1. CASE UNCHANGED coverageVars
  BY <1>1 DEF coverageVars, CoverageInv, NetTyped, KeptTyped, LoadTyped, StationTyped, ReadSince, VisitorHolds,
              KeptForTheLoad, Limit
<1>2. CASE CoverageNext  BY <1>2, NetworkSteps, AskerSteps, KeepStep, DrawStep DEF CoverageNext
<1> QED  BY <1>1, <1>2

\* What was kept, drawn or found under a load of the network was read since
\* that load's cells were.
THEOREM CoverageHolds == CoverageSpec => []CoverageInv
<1>1. CoverageInit => CoverageInv
  <2> SUFFICES ASSUME CoverageInit PROVE CoverageInv  OBVIOUS
  <2>1. cells \in [Heards -> 0..CellsMax] /\ edits = 0 /\ netLoad.pc = "idle" /\ net = NoNet
        /\ kept = [s \in {} |-> NoNet] /\ tiles = [k \in {} |-> 0] /\ visitor = [v \in Visitors |-> Away]
    BY DEF CoverageInit
  <2>2. net.loaded = 0 /\ net.read = 0 /\ net.size = 0 /\ net.listed = {}  BY <2>1 DEF NoNet
  <2>4. NetTyped /\ KeptTyped  BY <2>1, <2>2 DEF NetTyped, KeptTyped, LoadTyped
  <2>5. \A v \in Visitors : visitor[v].pc = "away"  BY <2>1 DEF Away
  <2>6. ReadSince(net) /\ \A v \in Visitors : VisitorHolds(v)  BY <2>1, <2>5 DEF ReadSince, VisitorHolds
  <2>7. KeptForTheLoad
    <3>1. PICK f : f = kept  OBVIOUS
    <3>2. DOMAIN f = {} /\ IsFiniteSet(DOMAIN f)  BY <2>1, <3>1, FS_EmptySet
    <3>3. SizeOf(f) = 0  BY <3>2, SizeOfParts
    <3>4. Limit \in Nat  BY <2>4, BoundTyped
    <3> QED  BY <3>1, <3>2, <3>3, <3>4 DEF KeptForTheLoad
  <2> QED  BY <2>1, <2>4, <2>6, <2>7 DEF CoverageInv
<1> QED  BY <1>1, CoverageStep, PTL DEF CoverageSpec

\* No tile is older than the network load it was asked under, whoever built it,
\* and no station is kept past the load it was read for, nor more than the
\* bound of them (coverageMap, stationData, tileCache).
THEOREM CoverageIsFollowed == CoverageSpec => CoverageFollowsTheLoad
<1>1. ASSUME CoverageInv, CoverageInv', [CoverageNext]_coverageVars, NEW v \in Visitors,
             visitor[v].pc = "tile", visitor'[v].pc = "away"
      PROVE  tiles'[Key(v)] >= visitor[v].net.read
  <2>1. CASE Draw(v)  BY <1>1, <2>1, DrawStep
  <2>2. CASE ~Draw(v)
    <3>1. visitor' # visitor  BY <1>1
    <3>2. PICK w \in Visitors : Ask(w) \/ FindKept(w) \/ Admit(w) \/ GiveUp(w) \/ ReadStation(w) \/ Keep(w) \/ Draw(w)
      BY <1>1, <3>1
      DEF CoverageNext, coverageVars, Rebin, ReadCells, ReadStations, LoadFails, PublishNet, ClearStations
    <3>3. DOMAIN visitor = Visitors  BY <1>1 DEF CoverageInv
    <3>4. \A u \in Visitors \ {w} : visitor'[u] = visitor[u]
      BY <3>2, <3>3 DEF Ask, FindKept, Sees, Admit, Moves, GiveUp, Answered, ReadStation, Keep, Draw
    <3>5. w = v  BY <1>1, <3>4
    <3> QED  BY <1>1, <2>2, <3>2, <3>5 DEF Ask, FindKept, Admit, GiveUp, ReadStation, Keep
  <2> QED  BY <2>1, <2>2
<1>2. CoverageInv' => KeptForTheLoad'  BY DEF CoverageInv
<1>3. CoverageInv /\ CoverageInv' /\ [CoverageNext]_coverageVars
      => [/\ KeptForTheLoad'
          /\ \A v \in Visitors : visitor[v].pc = "tile" /\ visitor'[v].pc = "away" => tiles'[Key(v)] >= visitor[v].net.read]_coverageVars
  BY <1>1, <1>2
<1> QED  BY <1>3, CoverageHolds, PTL DEF CoverageSpec, CoverageFollowsTheLoad

-----------------------------------------------------------------------------
(* The raw archive: admitted under order, filed by source and hour, merged.  *)

\* What a record of the archive is given to the adapters as, when it is replayed.
GivenAgain(rx) == Fed(rx.id, rx.recv, Dispatched(rx.source, rx), Buffered(rx))

Records == [id : Nat, recv : Nat, source : Sources, shape : Shapes, marks : Seq({"published", "buffered"})]
Given == [id : Nat, recv : Nat, adapter : Sources \union {"catcher", "lines"}, buffered : BOOLEAN]

RawTyped ==
  /\ hours \in [Sources -> [HourRange -> Seq(Records)]]
  /\ unwritten \in Seq(Records) /\ live \in Seq(Given) /\ replaying.out \in Seq(Given)
  /\ DOMAIN replaying.left = Sources

\* Every turn at admit takes a time of its own.
ClockInv ==
  /\ instant \in Nat /\ sent \in Nat /\ sent <= Received /\ IsFiniteSet(waiting)
  /\ instant = sent + Len(live) /\ Len(live) + Cardinality(waiting) <= sent
  /\ \A w \in waiting : w.kind \in Inputs /\ w.id \in Nat

\* Live in the order of its times.
LiveInv ==
  /\ \A i \in DOMAIN live : live[i].recv \in Nat /\ live[i].recv < instant
  /\ \A i, j \in DOMAIN live : i < j => live[i].recv < live[j].recv

\* A record is of its source and its hour, and of what live was given.
ArchivedAs(rx, given, now) == rx.recv \in Nat /\ rx.recv < now /\ \E i \in DOMAIN given : given[i] = GivenAgain(rx)
RecordHolds(rx) == ArchivedAs(rx, live, instant)

\* Files and queue are in the order of their times, and no time is in two.
FilesInv ==
  /\ \A s \in Sources, h \in HourRange : \A i \in DOMAIN hours[s][h] :
       LET rx == hours[s][h][i] IN
       /\ RecordHolds(rx) /\ rx.source = s /\ HourOfTick(rx.recv) = h
       /\ \A j \in DOMAIN hours[s][h] : i < j => rx.recv < hours[s][h][j].recv
       /\ \A j \in DOMAIN unwritten : rx.recv < unwritten[j].recv
  /\ \A i \in DOMAIN unwritten :
       /\ RecordHolds(unwritten[i])
       /\ \A j \in DOMAIN unwritten : i < j => unwritten[i].recv < unwritten[j].recv
  /\ \A s, r \in Sources, h \in HourRange : \A i \in DOMAIN hours[s][h], j \in DOMAIN hours[r][h] :
       hours[s][h][i].recv = hours[r][h][j].recv => s = r

\* Nothing live was given is missing from the archive and its queue.
NothingMissing ==
  \A k \in DOMAIN live :
    \/ \E i \in DOMAIN unwritten : GivenAgain(unwritten[i]) = live[k]
    \/ \E s \in Sources, h \in HourRange : \E i \in DOMAIN hours[s][h] : GivenAgain(hours[s][h][i]) = live[k]

\* A replay gave what live gave from its floor on, without a gap; what is left
\* to read is later, and all of the range that it has still to give.
MergeInv ==
  replaying.pc = "merging" =>
    /\ replaying.floor \in Nat /\ replaying.to \in Nat
    /\ \A i \in DOMAIN unwritten : unwritten[i].recv >= replaying.to
    /\ replaying.floor <= replaying.to /\ replaying.to <= instant
    /\ \A s \in Sources : \A p \in replaying.left[s] :
         p \in HourRange \X Nat /\ p[2] \in DOMAIN hours[s][p[1]] /\ RecordAt(s, p).recv >= replaying.floor
    /\ \E from \in 0 .. Len(live) :
         /\ from + Len(replaying.out) <= Len(live)
         /\ \A i \in DOMAIN live : i <= from <=> live[i].recv < replaying.floor
         /\ \A i \in DOMAIN replaying.out : replaying.out[i] = live[from + i] /\ live[from + i].recv < replaying.to
         /\ \A s \in Sources : \A p \in replaying.left[s] :
              \A i \in 1 .. from + Len(replaying.out) : live[i].recv < RecordAt(s, p).recv
         /\ \A i \in DOMAIN live : i > from + Len(replaying.out) /\ live[i].recv < replaying.to =>
              \E s \in Sources : \E p \in replaying.left[s] : GivenAgain(RecordAt(s, p)) = live[i]

RawInv == RawTyped /\ ClockInv /\ LiveInv /\ FilesInv /\ NothingMissing /\ MergeInv

\* An hour of ticks holds its own: a later one is of a later hour, or the same.
LEMMA HoursOfTicks ==
    ASSUME NEW a \in Nat
    PROVE  /\ HourOfTick(a) \in Nat /\ HourOfTick(a) * HourTicks <= a
           /\ \A b \in Nat : a <= b => HourOfTick(a) <= HourOfTick(b)
<1>1. PICK n \in Nat \ {0} : n = HourTicks  BY RawAssumption
<1>2. ASSUME NEW c \in Nat
      PROVE  HourOfTick(c) \in Nat /\ \E m \in 0..n-1 : c = n * HourOfTick(c) + m
  <2>1. PICK q : q = c \div n  OBVIOUS
  <2>2. c % n \in 0..n-1 /\ c = n * q + (c % n) /\ q \in Int  BY <2>1
  <2>3. q \in Nat
    <3> SUFFICES ASSUME q <= -1 PROVE FALSE  BY <2>2
    <3>1. n * q <= -n  BY <2>2
    <3> QED  BY <2>2, <3>1
  <2> QED  BY <1>1, <2>1, <2>2, <2>3 DEF HourOfTick
<1>3. PICK p \in Nat, m \in 0..n-1 : p = HourOfTick(a) /\ a = n * p + m  BY <1>2
<1>4. p * n <= a  BY <1>3
<1>5. ASSUME NEW b \in Nat, a <= b PROVE HourOfTick(a) <= HourOfTick(b)
  <2>1. PICK q \in Nat, k \in 0..n-1 : q = HourOfTick(b) /\ b = n * q + k  BY <1>2
  <2>2. CASE q <= p - 1
    <3>1. PICK u \in Nat : u = p - 1 - q  BY <2>2
    <3>2. p = q + 1 + u  BY <3>1
    <3>3. n * p = n * q + n + n * u  BY <3>2
    <3>4. n * u >= 0  OBVIOUS
    <3>5. n * p >= n * q + n  BY <3>3, <3>4
    <3> QED  BY <1>3, <1>5, <2>1, <3>5
  <2> QED  BY <1>3, <2>1, <2>2
<1> QED  BY <1>1, <1>3, <1>4, <1>5

\* The marks come off as they went on.
LEMMA MarksComeOff ==
    ASSUME NEW k \in Inputs, NEW rx, rx.marks = Marks(k)
    PROVE  (Buffered(rx) <=> k.buffered) /\ (Published(rx) <=> k.via = "publish")
           /\ Marks(k) \in Seq({"published", "buffered"})
<1>1. k.buffered \in BOOLEAN /\ (k.buffered => k.via = "publish")  BY RawAssumption
<1>2. "published" # "buffered"  OBVIOUS
<1>3. CASE k.via = "publish" /\ k.buffered
  <2>1. Marks(k) = <<"published">> \o <<"buffered">>  BY <1>3 DEF Marks
  <2>2. <<"published">> \o <<"buffered">> = <<"published", "buffered">>
    <3>1. PICK p, b : p = <<"published">> /\ b = <<"buffered">>  OBVIOUS
    <3>2. p \in Seq({"published", "buffered"}) /\ b \in Seq({"published", "buffered"}) /\ Len(p) = 1 /\ Len(b) = 1
          /\ p[1] = "published" /\ b[1] = "buffered"
      BY <3>1
    <3>3. PICK c : c = p \o b  OBVIOUS
    <3>4. c \in Seq({"published", "buffered"}) /\ Len(c) = 2 /\ c[1] = "published" /\ c[2] = "buffered"
      BY <3>2, <3>3, ConcatProperties
    <3>5. PICK e : e = <<"published", "buffered">>  OBVIOUS
    <3>6. e \in Seq({"published", "buffered"}) /\ Len(e) = 2 /\ e[1] = "published" /\ e[2] = "buffered"  BY <3>5
    <3>7. c = e
      <4>1. \A i \in 1..Len(c) : c[i] = e[i]  BY <3>4, <3>6
      <4> QED  BY <3>4, <3>6, <4>1, SeqEqual
    <3> QED  BY <3>1, <3>3, <3>5, <3>7
  <2>3. rx.marks = <<"published", "buffered">>  BY <2>1, <2>2
  <2> QED  BY <1>3, <2>1, <2>2, <2>3 DEF Buffered, Published, EndsWith
<1>4. CASE k.via = "publish" /\ ~k.buffered
  <2>1. Marks(k) = <<"published">> \o <<>>  BY <1>4 DEF Marks
  <2>2. <<"published">> \o <<>> = <<"published">>  OBVIOUS
  <2>3. rx.marks = <<"published">>  BY <2>1, <2>2
  <2> QED  BY <1>4, <2>1, <2>2, <2>3 DEF Buffered, Published, EndsWith
<1>5. CASE k.via # "publish"
  <2>1. Marks(k) = <<>> \o <<>>  BY <1>1, <1>5 DEF Marks
  <2>2. <<>> \o <<>> = <<>>  OBVIOUS
  <2>3. rx.marks = <<>>  BY <2>1, <2>2
  <2> QED  BY <1>1, <1>5, <2>1, <2>2, <2>3 DEF Buffered, Published, EndsWith
<1> QED  BY <1>3, <1>4, <1>5

\* What admit stamps goes to the same adapter when it is replayed.
LEMMA ReplayedAsLive ==
    ASSUME NEW w, w.kind \in Inputs, w.id \in Nat, instant \in Nat
    PROVE  /\ Record(w) \in Records /\ Record(w).recv = instant
           /\ Fed(w.id, Stamp(w), LiveAdapter(w.kind), w.kind.buffered) = GivenAgain(Record(w))
           /\ GivenAgain(Record(w)) \in Given
<1>1. PICK k \in Inputs : k = w.kind  OBVIOUS
<1>2. PICK rx : rx = Record(w)  OBVIOUS
<1>3. rx.id = w.id /\ rx.recv = instant /\ rx.source = k.source /\ rx.shape = k.shape /\ rx.marks = Marks(k)
  BY <1>1, <1>2 DEF Record, Stamp
<1>4. (Buffered(rx) <=> k.buffered) /\ (Published(rx) <=> k.via = "publish") /\ Marks(k) \in Seq({"published", "buffered"})
  BY <1>3, MarksComeOff
<1>5. k.via \in Vias /\ k.shape \in Shapes /\ k.buffered \in BOOLEAN /\ k.source \in Sources
  BY RawAssumption DEF Sources
<1>6. rx \in Records
  <2>1. rx = [id |-> w.id, recv |-> instant, source |-> k.source, shape |-> k.shape, marks |-> Marks(k)]
    BY <1>1, <1>2 DEF Record, Stamp
  <2> QED  BY <1>4, <1>5, <2>1 DEF Records
<1>7. Dispatched(rx.source, rx) = LiveAdapter(k)
  <2>1. CASE k.via = "publish"  BY <1>4, <2>1 DEF Dispatched, LiveAdapter
  <2>2. CASE k.via = "feed"
    <3>1. k.source \in Feeds  BY <2>2 DEF Feeds
    <3> QED  BY <1>3, <1>4, <2>2, <3>1 DEF Dispatched, LiveAdapter
  <2>3. CASE k.via \in {"receive", "socket"}
    <3>1. k.source \notin Feeds
      <4> SUFFICES ASSUME NEW j \in Inputs, j.via = "feed", j.source = k.source PROVE FALSE  BY DEF Feeds
      <4> QED  BY <2>3, RawAssumption
    <3>2. k.source \in Stationed <=> k.via = "receive"
      <4>1. CASE k.via = "receive"  BY <4>1 DEF Stationed
      <4>2. CASE k.via = "socket"
        <5> SUFFICES ASSUME NEW j \in Inputs, j.via \in {"receive", "publish"}, j.source = k.source PROVE FALSE
          BY <4>2 DEF Stationed
        <5> QED  BY <4>2, RawAssumption
      <4> QED  BY <2>3, <4>1, <4>2
    <3> QED  BY <1>3, <1>4, <2>3, <3>1, <3>2 DEF Dispatched, LiveAdapter
  <2> QED  BY <1>5, <2>1, <2>2, <2>3 DEF Vias
<1>8. Buffered(rx) = k.buffered
  <2>1. Buffered(rx) \in BOOLEAN  BY DEF Buffered, EndsWith
  <2> QED  BY <1>4, <1>5, <2>1
<1>9. LiveAdapter(k) \in Sources \union {"catcher", "lines"}  BY <1>5 DEF LiveAdapter
<1>10. GivenAgain(rx) = Fed(w.id, instant, LiveAdapter(k), k.buffered)  BY <1>3, <1>7, <1>8 DEF GivenAgain
<1>11. GivenAgain(rx) \in Given  BY <1>5, <1>9, <1>10 DEF Given, Fed
<1> QED  BY <1>1, <1>2, <1>3, <1>6, <1>10, <1>11 DEF Stamp

\* Time passes, and receptions come and go: the archive and the replay stand.
LEMMA ArchiveStands ==
    ASSUME RawInv, UNCHANGED <<hours, unwritten, live, replaying>>, instant' \in Nat, instant' >= instant
    PROVE  RawTyped' /\ LiveInv' /\ FilesInv' /\ NothingMissing' /\ MergeInv'
<1>1. instant \in Nat  BY DEF RawInv, ClockInv
<1>2. RawTyped'  BY DEF RawInv, RawTyped
<1>3. LiveInv'  BY <1>1 DEF RawInv, LiveInv
<1>4. \A rx : RecordHolds(rx) => RecordHolds(rx)'  BY <1>1 DEF RecordHolds, ArchivedAs
<1>5. FilesInv'
  <2>1. ASSUME NEW s \in Sources, NEW h \in HourRange, NEW i \in DOMAIN hours[s][h] PROVE RecordHolds(hours[s][h][i])'
    <3>1. PICK rx : rx = hours[s][h][i]  OBVIOUS
    <3>2. RecordHolds(rx)'  BY <1>4, <3>1 DEF RawInv, FilesInv
    <3> QED  BY <3>1, <3>2
  <2>2. ASSUME NEW i \in DOMAIN unwritten PROVE RecordHolds(unwritten[i])'
    <3>1. PICK rx : rx = unwritten[i]  OBVIOUS
    <3>2. RecordHolds(rx)'  BY <1>4, <3>1 DEF RawInv, FilesInv
    <3> QED  BY <3>1, <3>2
  <2>3. FilesInv  BY DEF RawInv
  <2> QED  BY <2>1, <2>2, <2>3 DEF FilesInv
<1>6. NothingMissing'  BY DEF RawInv, NothingMissing
<1>7. MergeInv'
  <2> SUFFICES ASSUME replaying.pc = "merging" PROVE MergeInv'  BY DEF MergeInv
  <2>1. MergeInv /\ replaying.to \in Nat /\ replaying.to <= instant  BY DEF RawInv, MergeInv
  <2>2. replaying.to <= instant'  BY <1>1, <2>1
  <2> QED  BY <2>1, <2>2 DEF MergeInv, RecordAt
<1> QED  BY <1>2, <1>3, <1>5, <1>6, <1>7

LEMMA WaitingSteps ==
    ASSUME RawInv,
           \/ \E k \in Inputs : Start(k)
           \/ \E w \in waiting : TurnAway(w)
           \/ CloseIntake \/ StopServing \/ StartServing
    PROVE  RawInv'
<1>1. UNCHANGED <<hours, unwritten, live, replaying>>
  BY DEF Start, TurnAway, CloseIntake, StopServing, StartServing
<1>2. live \in Seq(Given) /\ Len(live) \in Nat /\ instant \in Nat /\ sent \in Nat /\ IsFiniteSet(waiting)
      /\ Cardinality(waiting) \in Nat
  BY FS_CardinalityType DEF RawInv, RawTyped, ClockInv
<1>3. ClockInv' /\ instant' \in Nat /\ instant' >= instant
  <2>1. CASE \E k \in Inputs : Start(k)
    <3>1. PICK k \in Inputs : Start(k)  BY <2>1
    <3>2. PICK w : w = [id |-> sent + 1, kind |-> k, taken |-> instant]  OBVIOUS
    <3>3. waiting' = waiting \union {w} /\ sent' = sent + 1 /\ sent < Received /\ instant' = instant + 1
      BY <3>1, <3>2 DEF Start
    <3>4. IsFiniteSet(waiting') /\ Cardinality(waiting') <= Cardinality(waiting) + 1 /\ Cardinality(waiting') \in Nat
      <4>1. IsFiniteSet(waiting \union {w})
            /\ (Cardinality(waiting \union {w}) = Cardinality(waiting) \/ Cardinality(waiting \union {w}) = Cardinality(waiting) + 1)
        BY <1>2, FS_AddElement
      <4> QED  BY <1>2, <3>3, <4>1
    <3>5. Received \in Nat  BY RawAssumption
    <3>6. \A v \in waiting' : v.kind \in Inputs /\ v.id \in Nat  BY <1>2, <3>2, <3>3 DEF RawInv, ClockInv
    <3> QED  BY <1>1, <1>2, <3>3, <3>4, <3>5, <3>6 DEF RawInv, ClockInv
  <2>2. CASE \E w \in waiting : TurnAway(w)
    <3>1. PICK w \in waiting : TurnAway(w)  BY <2>2
    <3>2. waiting' = waiting \ {w} /\ UNCHANGED <<instant, sent>>  BY <3>1 DEF TurnAway
    <3>3. IsFiniteSet(waiting') /\ Cardinality(waiting') = Cardinality(waiting) - 1
      BY <1>2, <3>2, FS_RemoveElement
    <3> QED  BY <1>1, <1>2, <3>2, <3>3 DEF RawInv, ClockInv
  <2>3. CASE CloseIntake \/ StartServing
    <3>1. UNCHANGED <<instant, waiting, sent>>  BY <2>3 DEF CloseIntake, StartServing
    <3> QED  BY <1>1, <1>2, <3>1 DEF RawInv, ClockInv
  <2>4. CASE StopServing
    <3>1. UNCHANGED <<instant, sent>> /\ waiting' = {}  BY <2>4 DEF StopServing
    <3>2. IsFiniteSet(waiting') /\ Cardinality(waiting') = 0  BY <3>1, FS_EmptySet
    <3> QED  BY <1>1, <1>2, <3>1, <3>2 DEF RawInv, ClockInv
  <2> QED  BY <2>1, <2>2, <2>3, <2>4
<1> QED  BY <1>1, <1>3, ArchiveStands DEF RawInv

LEMMA AdmitStep ==
    ASSUME RawInv, NEW w \in waiting, AdmitOne(w)
    PROVE  RawInv'
<1>1. RawTyped /\ ClockInv /\ LiveInv /\ FilesInv /\ NothingMissing /\ MergeInv  BY DEF RawInv
<1>2. PICK rx, g : rx = Record(w) /\ g = GivenAgain(rx)  OBVIOUS
<1>3. rx \in Records /\ rx.recv = instant /\ g \in Given
      /\ g = Fed(w.id, Stamp(w), LiveAdapter(w.kind), w.kind.buffered) /\ instant \in Nat
  BY <1>1, <1>2, ReplayedAsLive DEF ClockInv
<1>4. g.recv = instant  BY <1>2, <1>3 DEF GivenAgain, Fed
<1>5. unwritten' = Append(unwritten, rx) /\ live' = Append(live, g) /\ instant' = instant + 1
      /\ waiting' = waiting \ {w} /\ UNCHANGED <<hours, sent, replaying>>
  BY <1>2, <1>3 DEF AdmitOne
<1>6. PICK n \in Nat : n = Len(live) /\ DOMAIN live = 1..n  BY <1>1, LenProperties DEF RawTyped
<1>7. PICK m \in Nat : m = Len(unwritten) /\ DOMAIN unwritten = 1..m  BY <1>1, LenProperties DEF RawTyped
<1>8. live' \in Seq(Given) /\ Len(live') = n + 1 /\ DOMAIN live' = 1..n+1
      /\ (\A i \in 1..n : live'[i] = live[i]) /\ live'[n+1] = g
  BY <1>1, <1>3, <1>5, <1>6, AppendProperties, LenProperties DEF RawTyped
<1>9. unwritten' \in Seq(Records) /\ DOMAIN unwritten' = 1..m+1
      /\ (\A i \in 1..m : unwritten'[i] = unwritten[i]) /\ unwritten'[m+1] = rx
  BY <1>1, <1>3, <1>5, <1>7, AppendProperties, LenProperties DEF RawTyped
<1>10. RawTyped'  BY <1>1, <1>5, <1>8, <1>9 DEF RawTyped
<1>11. ClockInv'
  <2>1. IsFiniteSet(waiting') /\ Cardinality(waiting') = Cardinality(waiting) - 1 /\ Cardinality(waiting) \in Nat
    BY <1>1, <1>5, FS_RemoveElement, FS_CardinalityType DEF ClockInv
  <2> QED  BY <1>1, <1>5, <1>6, <1>8, <2>1 DEF ClockInv
<1>12. \A i \in 1..n : live[i].recv \in Nat /\ live[i].recv < instant  BY <1>1, <1>6 DEF LiveInv
<1>13. LiveInv'
  <2>1. \A i \in 1..n+1 : live'[i].recv \in Nat /\ live'[i].recv < instant'  BY <1>3, <1>4, <1>5, <1>8, <1>12
  <2>2. ASSUME NEW i \in 1..n+1, NEW j \in 1..n+1, i < j PROVE live'[i].recv < live'[j].recv
    <3>1. CASE j \in 1..n  BY <1>1, <1>6, <1>8, <2>2, <3>1 DEF LiveInv
    <3>2. CASE j = n + 1
      <4>1. i \in 1..n  BY <2>2, <3>2
      <4> QED  BY <1>4, <1>8, <1>12, <3>2, <4>1
    <3> QED  BY <3>1, <3>2
  <2> QED  BY <1>8, <2>1, <2>2 DEF LiveInv
<1>14. \A x : RecordHolds(x) => RecordHolds(x)'
  <2> SUFFICES ASSUME NEW x, RecordHolds(x) PROVE RecordHolds(x)'  OBVIOUS
  <2>1. PICK i \in 1..n : live[i] = GivenAgain(x)  BY <1>6 DEF RecordHolds, ArchivedAs
  <2>2. i \in DOMAIN live' /\ live'[i] = GivenAgain(x)  BY <1>6, <1>8, <2>1
  <2>3. x.recv \in Nat /\ x.recv < instant'  BY <1>3, <1>5 DEF RecordHolds, ArchivedAs
  <2>4. PICK q \in DOMAIN live' : live'[q] = GivenAgain(x)  BY <2>2
  <2>5. GivenAgain(x)' = GivenAgain(x)  BY DEF GivenAgain, Fed, Dispatched, Published, Buffered, EndsWith
  <2> QED  BY <2>3, <2>4, <2>5 DEF RecordHolds, ArchivedAs
<1>15. RecordHolds(rx)'
  <2>1. n + 1 \in DOMAIN live' /\ live'[n+1] = GivenAgain(rx)  BY <1>2, <1>8
  <2>2. GivenAgain(rx)' = GivenAgain(rx)  BY DEF GivenAgain, Fed, Dispatched, Published, Buffered, EndsWith
  <2>3. \E i \in DOMAIN live' : live'[i] = GivenAgain(rx)'  BY <2>1, <2>2
  <2> QED  BY <1>3, <1>5, <2>3 DEF RecordHolds, ArchivedAs
<1>16. FilesInv'
  <2>1. \A s \in Sources, h \in HourRange : \A i \in DOMAIN hours[s][h] :
          /\ RecordHolds(hours[s][h][i])' /\ hours[s][h][i].recv < instant
          /\ \A j \in DOMAIN unwritten' : hours[s][h][i].recv < unwritten'[j].recv
    <3> SUFFICES ASSUME NEW s \in Sources, NEW h \in HourRange, NEW i \in DOMAIN hours[s][h]
                 PROVE  /\ RecordHolds(hours[s][h][i])' /\ hours[s][h][i].recv < instant
                        /\ \A j \in DOMAIN unwritten' : hours[s][h][i].recv < unwritten'[j].recv
      OBVIOUS
    <3>1. PICK x : x = hours[s][h][i]  OBVIOUS
    <3>2. RecordHolds(x) /\ \A j \in DOMAIN unwritten : x.recv < unwritten[j].recv  BY <1>1, <3>1 DEF FilesInv
    <3>3. RecordHolds(x)' /\ x.recv < instant  BY <1>14, <3>2 DEF RecordHolds, ArchivedAs
    <3>4. \A j \in DOMAIN unwritten' : x.recv < unwritten'[j].recv  BY <1>3, <1>7, <1>9, <3>2, <3>3
    <3>5. hours'[s][h][i] = x  BY <1>5, <3>1
    <3> QED  BY <1>5, <3>1, <3>3, <3>4, <3>5 DEF RecordHolds, ArchivedAs
  <2>2. \A i \in DOMAIN unwritten' : RecordHolds(unwritten[i])'
    <3> SUFFICES ASSUME NEW i \in DOMAIN unwritten' PROVE RecordHolds(unwritten[i])'  OBVIOUS
    <3>1. PICK x : x = unwritten'[i]  OBVIOUS
    <3>2. CASE i \in 1..m
      <4>1. x = unwritten[i] /\ RecordHolds(x)  BY <1>1, <1>7, <1>9, <3>1, <3>2 DEF FilesInv
      <4>2. RecordHolds(x)'  BY <1>14, <4>1
      <4> QED  BY <3>1, <4>2 DEF RecordHolds, ArchivedAs
    <3>3. CASE i = m + 1
      <4>1. x = rx  BY <1>9, <3>1, <3>3
      <4> QED  BY <1>15, <3>1, <4>1 DEF RecordHolds, ArchivedAs
    <3> QED  BY <1>9, <3>2, <3>3
  <2>3. ASSUME NEW i \in DOMAIN unwritten', NEW j \in DOMAIN unwritten', i < j
        PROVE  unwritten'[i].recv < unwritten'[j].recv
    <3>1. CASE j \in 1..m  BY <1>1, <1>7, <1>9, <2>3, <3>1 DEF FilesInv
    <3>2. CASE j = m + 1
      <4>1. i \in 1..m  BY <1>9, <2>3, <3>2
      <4>2. unwritten[i].recv < instant  BY <1>1, <1>7, <4>1 DEF FilesInv, RecordHolds, ArchivedAs
      <4> QED  BY <1>3, <1>9, <3>2, <4>1, <4>2
    <3> QED  BY <1>9, <3>1, <3>2
  <2> QED  BY <1>1, <1>5, <2>1, <2>2, <2>3 DEF FilesInv
<1>17. NothingMissing'
  <2> SUFFICES ASSUME NEW k \in 1..n+1
               PROVE  \/ \E i \in DOMAIN unwritten' : GivenAgain(unwritten'[i]) = live'[k]
                      \/ \E s \in Sources, h \in HourRange : \E i \in DOMAIN hours[s][h] : GivenAgain(hours[s][h][i]) = live'[k]
    BY <1>5, <1>8 DEF NothingMissing
  <2>1. CASE k = n + 1
    <3>1. m + 1 \in DOMAIN unwritten' /\ GivenAgain(unwritten'[m+1]) = live'[k]  BY <1>2, <1>8, <1>9, <2>1
    <3> QED  BY <3>1
  <2>2. CASE k \in 1..n
    <3>1. live'[k] = live[k]  BY <1>8, <2>2
    <3>2. CASE \E i \in DOMAIN unwritten : GivenAgain(unwritten[i]) = live[k]
      <4>1. PICK i \in 1..m : GivenAgain(unwritten[i]) = live[k]  BY <1>7, <3>2
      <4>2. i \in DOMAIN unwritten' /\ GivenAgain(unwritten'[i]) = live'[k]  BY <1>9, <3>1, <4>1
      <4> QED  BY <4>2
    <3>3. CASE \E s \in Sources, h \in HourRange : \E i \in DOMAIN hours[s][h] : GivenAgain(hours[s][h][i]) = live[k]
      BY <3>1, <3>3
    <3> QED  BY <1>1, <1>6, <2>2, <3>2, <3>3 DEF NothingMissing
  <2> QED  BY <2>1, <2>2
<1>18. MergeInv'
  <2> SUFFICES ASSUME replaying.pc = "merging" PROVE MergeInv'  BY <1>5 DEF MergeInv
  <2>1. PICK floor, to, out, left :
          floor \in Nat /\ to \in Nat /\ floor = replaying.floor /\ to = replaying.to /\ out = replaying.out /\ left = replaying.left
    BY <1>1 DEF MergeInv
  <2>2. floor <= to /\ to <= instant  BY <1>1, <2>1 DEF MergeInv
  <2>3. out \in Seq(Given)  BY <1>1, <2>1 DEF RawTyped
  <2>4. PICK z \in Nat : z = Len(out) /\ DOMAIN out = 1..z  BY <2>3, LenProperties
  <2>5. PICK from \in 0..n :
          /\ from + z <= n
          /\ \A i \in 1..n : i <= from <=> live[i].recv < floor
          /\ \A i \in 1..z : out[i] = live[from + i] /\ live[from + i].recv < to
          /\ \A s \in Sources : \A p \in left[s] : \A i \in 1 .. from + z : live[i].recv < RecordAt(s, p).recv
          /\ \A i \in 1..n : i > from + z /\ live[i].recv < to =>
               \E s \in Sources : \E p \in left[s] : GivenAgain(RecordAt(s, p)) = live[i]
    BY <1>1, <1>6, <2>1, <2>4 DEF MergeInv
  <2>6. \A s, p : RecordAt(s, p)' = RecordAt(s, p)  BY <1>5 DEF RecordAt
  <2>7. \A i \in DOMAIN unwritten' : unwritten'[i].recv >= to
    <3>1. \A i \in 1..m : unwritten[i].recv >= to  BY <1>1, <1>7, <2>1 DEF MergeInv
    <3> QED  BY <1>3, <1>9, <2>2, <3>1
  <2>8. \A i \in 1..n+1 : i <= from <=> live'[i].recv < floor
    <3>1. ~(n + 1 <= from) /\ ~(live'[n+1].recv < floor)  BY <1>3, <1>4, <1>6, <1>8, <2>1, <2>2, <2>5
    <3> QED  BY <1>8, <2>5, <3>1
  <2>9. \A i \in 1..z : out[i] = live'[from + i] /\ live'[from + i].recv < to
    <3> SUFFICES ASSUME NEW i \in 1..z PROVE out[i] = live'[from + i] /\ live'[from + i].recv < to  OBVIOUS
    <3>1. from + i \in 1..n  BY <2>5
    <3> QED  BY <1>8, <2>5, <3>1
  <2>10. \A s \in Sources : \A p \in left[s] : \A i \in 1 .. from + z : live'[i].recv < RecordAt(s, p)'.recv
    <3> SUFFICES ASSUME NEW s \in Sources, NEW p \in left[s], NEW i \in 1 .. from + z
                 PROVE  live'[i].recv < RecordAt(s, p)'.recv
      OBVIOUS
    <3>1. i \in 1..n  BY <2>5
    <3> QED  BY <1>8, <2>5, <2>6, <3>1
  <2>11. \A i \in 1..n+1 : i > from + z /\ live'[i].recv < to =>
               \E s \in Sources : \E p \in left[s] : GivenAgain(RecordAt(s, p)') = live'[i]
    <3> SUFFICES ASSUME NEW i \in 1..n+1, i > from + z, live'[i].recv < to
                 PROVE  \E s \in Sources : \E p \in left[s] : GivenAgain(RecordAt(s, p)') = live'[i]
      OBVIOUS
    <3>1. i \in 1..n /\ live'[i] = live[i]  BY <1>3, <1>4, <1>6, <1>8, <2>1, <2>2
    <3> QED  BY <2>5, <2>6, <3>1
  <2>12. from \in 0..Len(live') /\ from + z <= Len(live')  BY <1>8, <2>5
  <2>13. \A s \in Sources : \A p \in left[s] :
           p \in HourRange \X Nat /\ p[2] \in DOMAIN hours'[s][p[1]] /\ RecordAt(s, p)'.recv >= floor
    BY <1>1, <1>5, <2>1, <2>6 DEF MergeInv
  <2>14. floor = replaying'.floor /\ to = replaying'.to /\ out = replaying'.out /\ left = replaying'.left
    BY <1>5, <2>1
  <2>15. to <= instant'  BY <1>3, <1>5, <2>1, <2>2
  <2> QED  BY <1>8, <2>1, <2>2, <2>4, <2>7, <2>8, <2>9, <2>10, <2>11, <2>12, <2>13, <2>14, <2>15 DEF MergeInv
<1> QED  BY <1>10, <1>11, <1>13, <1>16, <1>17, <1>18 DEF RawInv

\* The writer moves the head of its queue to the end of its file.
LEMMA HandleStep ==
    ASSUME RawInv, HandleRecord
    PROVE  RawInv'
<1>1. RawTyped /\ ClockInv /\ LiveInv /\ FilesInv /\ NothingMissing /\ MergeInv  BY DEF RawInv
<1>2. UNCHANGED <<instant, waiting, live, sent, replaying>> /\ unwritten # <<>>  BY DEF HandleRecord
<1>3. PICK rx, src, hour : rx = Head(unwritten) /\ src = rx.source /\ hour = HourOfTick(rx.recv)  OBVIOUS
<1>4. PICK m \in Nat : m = Len(unwritten) /\ m > 0 /\ DOMAIN unwritten = 1..m /\ rx = unwritten[1] /\ rx \in Records
  BY <1>1, <1>2, <1>3, EmptySeq, LenProperties, HeadTailProperties DEF RawTyped
<1>5. unwritten' \in Seq(Records) /\ DOMAIN unwritten' = 1..m-1 /\ \A i \in 1..m-1 : unwritten'[i] = unwritten[i+1]
  BY <1>1, <1>2, <1>4, HeadTailProperties, LenProperties DEF RawTyped, HandleRecord
<1>6. src \in Sources /\ RecordHolds(rx)  BY <1>1, <1>3, <1>4 DEF Records, FilesInv
<1>7. hour \in HourRange
  <2>1. Cardinality(waiting) \in Nat /\ Len(live) \in Nat /\ Received \in Nat
    BY <1>1, FS_CardinalityType, LenProperties, RawAssumption DEF ClockInv, RawTyped
  <2>2. rx.recv \in Nat /\ rx.recv <= MaxClock /\ MaxClock \in Nat
    BY <1>1, <1>6, <2>1 DEF RecordHolds, ArchivedAs, ClockInv, MaxClock
  <2> QED  BY <1>3, <2>2, HoursOfTicks DEF HourRange
<1>8. PICK f, c : f = hours[src][hour] /\ f \in Seq(Records) /\ c = Len(f) /\ c \in Nat /\ DOMAIN f = 1..c
  <2>1. hours[src][hour] \in Seq(Records)  BY <1>1, <1>6, <1>7 DEF RawTyped
  <2>2. PICK f : f = hours[src][hour]  OBVIOUS
  <2>3. f \in Seq(Records) /\ Len(f) \in Nat /\ DOMAIN f = 1..Len(f)  BY <2>1, <2>2, LenProperties
  <2> QED  BY <2>2, <2>3
<1>9. PICK g : g = Append(f, rx)  OBVIOUS
<1>10. g \in Seq(Records) /\ DOMAIN g = 1..c+1 /\ (\A i \in 1..c : g[i] = f[i]) /\ g[c+1] = rx
  BY <1>4, <1>8, <1>9, AppendProperties, LenProperties
<1>11. hours' = [hours EXCEPT ![src][hour] = g]  BY <1>3, <1>8, <1>9, <1>1, <1>6, <1>7 DEF HandleRecord, RawTyped
<1>12. hours' \in [Sources -> [HourRange -> Seq(Records)]]
       /\ \A s \in Sources, h \in HourRange : hours'[s][h] = IF s = src /\ h = hour THEN g ELSE hours[s][h]
  BY <1>1, <1>6, <1>7, <1>10, <1>11 DEF RawTyped
<1>13. \A s \in Sources, h \in HourRange : \A i \in DOMAIN hours[s][h] :
         i \in DOMAIN hours'[s][h] /\ hours'[s][h][i] = hours[s][h][i]
  <2> SUFFICES ASSUME NEW s \in Sources, NEW h \in HourRange, NEW i \in DOMAIN hours[s][h]
               PROVE  i \in DOMAIN hours'[s][h] /\ hours'[s][h][i] = hours[s][h][i]
    OBVIOUS
  <2>1. CASE s = src /\ h = hour
    <3>1. i \in 1..c /\ i \in 1..c+1 /\ hours[s][h] = f /\ hours'[s][h] = g  BY <1>8, <1>12, <2>1
    <3> QED  BY <1>10, <3>1
  <2>2. CASE ~(s = src /\ h = hour)  BY <1>12, <2>2
  <2> QED  BY <2>1, <2>2
<1>14. \A s \in Sources, h \in HourRange : \A i \in DOMAIN hours'[s][h] :
         \/ i \in DOMAIN hours[s][h] /\ hours'[s][h][i] = hours[s][h][i]
         \/ s = src /\ h = hour /\ hours'[s][h][i] = rx /\ i = c + 1
  BY <1>8, <1>10, <1>12
<1>15. RawTyped'  BY <1>1, <1>2, <1>5, <1>12 DEF RawTyped
<1>16. ClockInv' /\ LiveInv'  BY <1>1, <1>2 DEF ClockInv, LiveInv
<1>17. \A x : RecordHolds(x) => RecordHolds(x)'
  BY <1>2 DEF RecordHolds, ArchivedAs, GivenAgain, Fed, Dispatched, Published, Buffered, EndsWith
<1>18. \A i \in 1..m : RecordHolds(unwritten[i]) /\ (i > 1 => rx.recv < unwritten[i].recv)
  BY <1>1, <1>4 DEF FilesInv
<1>19. FilesInv'
  <2>1. ASSUME NEW s \in Sources, NEW h \in HourRange, NEW i \in DOMAIN hours'[s][h]
        PROVE  \A x : x = hours'[s][h][i] =>
               /\ RecordHolds(x)' /\ x.source = s /\ HourOfTick(x.recv) = h
               /\ \A j \in DOMAIN hours'[s][h] : i < j => x.recv < hours'[s][h][j].recv
               /\ \A j \in DOMAIN unwritten' : x.recv < unwritten'[j].recv
    <3>1. TAKE x
    <3> HAVE x = hours'[s][h][i]
    <3>2. CASE i \in DOMAIN hours[s][h] /\ x = hours[s][h][i]
      <4>1. /\ RecordHolds(x) /\ x.source = s /\ HourOfTick(x.recv) = h
            /\ \A j \in DOMAIN hours[s][h] : i < j => x.recv < hours[s][h][j].recv
            /\ \A j \in 1..m : x.recv < unwritten[j].recv
        BY <1>1, <1>4, <3>2 DEF FilesInv
      <4>2. RecordHolds(x)'  BY <1>17, <4>1
      <4>3. \A j \in DOMAIN unwritten' : x.recv < unwritten'[j].recv
        <5> SUFFICES ASSUME NEW j \in 1..m-1 PROVE x.recv < unwritten'[j].recv  BY <1>5
        <5>1. j + 1 \in 1..m  BY <1>4
        <5> QED  BY <1>5, <4>1, <5>1
      <4>4. ASSUME NEW j \in DOMAIN hours'[s][h], i < j PROVE x.recv < hours'[s][h][j].recv
        <5>1. CASE j \in DOMAIN hours[s][h] /\ hours'[s][h][j] = hours[s][h][j]  BY <4>1, <4>4, <5>1
        <5>2. CASE hours'[s][h][j] = rx
          <6>1. 1 \in 1..m /\ rx = unwritten[1]  BY <1>4
          <6> QED  BY <4>1, <5>2, <6>1
        <5> QED  BY <1>14, <5>1, <5>2
      <4> QED  BY <3>1, <4>1, <4>2, <4>3, <4>4 DEF RecordHolds, ArchivedAs
    <3>3. CASE s = src /\ h = hour /\ x = rx /\ i = c + 1
      <4>1. RecordHolds(x)'  BY <1>6, <1>17, <3>3
      <4>2. \A j \in DOMAIN unwritten' : x.recv < unwritten'[j].recv
        <5> SUFFICES ASSUME NEW j \in 1..m-1 PROVE x.recv < unwritten'[j].recv  BY <1>5
        <5>1. j + 1 \in 1..m /\ j + 1 > 1  BY <1>4
        <5> QED  BY <1>5, <1>18, <3>3, <5>1
      <4>3. \A j \in DOMAIN hours'[s][h] : ~(i < j)  BY <1>8, <1>10, <1>12, <3>3
      <4> QED  BY <1>3, <3>1, <3>3, <4>1, <4>2, <4>3 DEF RecordHolds, ArchivedAs
    <3> QED  BY <1>14, <3>1, <3>2, <3>3
  <2>2. ASSUME NEW i \in DOMAIN unwritten'
        PROVE  RecordHolds(unwritten[i])' /\ \A j \in DOMAIN unwritten' : i < j => unwritten'[i].recv < unwritten'[j].recv
    <3>1. i \in 1..m-1 /\ i + 1 \in 1..m  BY <1>4, <1>5
    <3>2. PICK x : x = unwritten'[i] /\ x = unwritten[i+1]  BY <1>5, <3>1
    <3>3. RecordHolds(x)'  BY <1>17, <1>18, <3>1, <3>2
    <3>4. ASSUME NEW j \in 1..m-1, i < j PROVE x.recv < unwritten'[j].recv
      <4>1. j + 1 \in 1..m /\ i + 1 < j + 1  BY <1>4, <3>1, <3>4
      <4> QED  BY <1>1, <1>4, <1>5, <3>1, <3>2, <4>1 DEF FilesInv
    <3> QED  BY <1>5, <3>2, <3>3, <3>4 DEF RecordHolds, ArchivedAs
  <2>3. ASSUME NEW s \in Sources, NEW r \in Sources, NEW h \in HourRange,
               NEW i \in DOMAIN hours'[s][h], NEW j \in DOMAIN hours'[r][h],
               hours'[s][h][i].recv = hours'[r][h][j].recv
        PROVE  s = r
    <3>1. ASSUME NEW t \in Sources, NEW k \in DOMAIN hours[t][h]
          PROVE  hours[t][h][k].recv \in Nat /\ hours[t][h][k].recv < rx.recv
      BY <1>1, <1>4 DEF FilesInv, RecordHolds, ArchivedAs
    <3>2. rx.recv \in Nat  BY <1>6 DEF RecordHolds, ArchivedAs
    <3>3. CASE i \in DOMAIN hours[s][h] /\ hours'[s][h][i] = hours[s][h][i]
               /\ j \in DOMAIN hours[r][h] /\ hours'[r][h][j] = hours[r][h][j]
      BY <1>1, <2>3, <3>3 DEF FilesInv
    <3> QED  BY <1>14, <2>3, <3>1, <3>2, <3>3
  <2> QED  BY <2>1, <2>2, <2>3 DEF FilesInv
<1>20. NothingMissing'
  <2> SUFFICES ASSUME NEW k \in DOMAIN live
               PROVE  \/ \E i \in DOMAIN unwritten' : GivenAgain(unwritten'[i]) = live[k]
                      \/ \E s \in Sources, h \in HourRange : \E i \in DOMAIN hours'[s][h] : GivenAgain(hours'[s][h][i]) = live[k]
    BY <1>2 DEF NothingMissing, GivenAgain, Fed, Dispatched, Published, Buffered, EndsWith
  <2>1. CASE \E i \in DOMAIN unwritten : GivenAgain(unwritten[i]) = live[k]
    <3>1. PICK i \in 1..m : GivenAgain(unwritten[i]) = live[k]  BY <1>4, <2>1
    <3>2. CASE i = 1
      <4>1. c + 1 \in DOMAIN hours'[src][hour] /\ hours'[src][hour][c+1] = rx  BY <1>6, <1>7, <1>8, <1>10, <1>12
      <4>2. GivenAgain(hours'[src][hour][c+1]) = live[k]  BY <1>4, <3>1, <3>2, <4>1
      <4> QED  BY <1>6, <1>7, <4>1, <4>2
    <3>3. CASE i # 1
      <4>1. PICK j \in 1..m-1 : i = j + 1  BY <1>4, <3>1, <3>3
      <4>2. j \in DOMAIN unwritten' /\ unwritten'[j] = unwritten[i]  BY <1>5, <4>1
      <4> QED  BY <3>1, <4>2
    <3> QED  BY <3>2, <3>3
  <2>2. CASE \E s \in Sources, h \in HourRange : \E i \in DOMAIN hours[s][h] : GivenAgain(hours[s][h][i]) = live[k]
    <3>1. PICK s, h, i : s \in Sources /\ h \in HourRange /\ i \in DOMAIN hours[s][h] /\ GivenAgain(hours[s][h][i]) = live[k]
      BY <2>2
    <3>2. i \in DOMAIN hours'[s][h] /\ hours'[s][h][i] = hours[s][h][i]  BY <1>13, <3>1
    <3> QED  BY <3>1, <3>2
  <2> QED  BY <1>1, <2>1, <2>2 DEF NothingMissing
<1>21. MergeInv'
  <2> SUFFICES ASSUME replaying.pc = "merging" PROVE MergeInv'  BY <1>2 DEF MergeInv
  <2>1. PICK floor, to, out, left :
          floor \in Nat /\ to \in Nat /\ floor = replaying.floor /\ to = replaying.to /\ out = replaying.out /\ left = replaying.left
    BY <1>1 DEF MergeInv
  <2>2. floor <= to /\ to <= instant
        /\ \A s \in Sources : \A p \in left[s] :
             p \in HourRange \X Nat /\ p[2] \in DOMAIN hours[s][p[1]] /\ RecordAt(s, p).recv >= floor
    BY <1>1, <2>1 DEF MergeInv
  <2>3. PICK from \in 0..Len(live) :
          /\ from + Len(out) <= Len(live)
          /\ \A i \in DOMAIN live : i <= from <=> live[i].recv < floor
          /\ \A i \in DOMAIN out : out[i] = live[from + i] /\ live[from + i].recv < to
          /\ \A s \in Sources : \A p \in left[s] : \A i \in 1 .. from + Len(out) : live[i].recv < RecordAt(s, p).recv
          /\ \A i \in DOMAIN live : i > from + Len(out) /\ live[i].recv < to =>
               \E s \in Sources : \E p \in left[s] : GivenAgain(RecordAt(s, p)) = live[i]
    BY <1>1, <2>1 DEF MergeInv
  <2>4. \A s \in Sources : \A p \in left[s] : p[2] \in DOMAIN hours'[s][p[1]] /\ RecordAt(s, p)' = RecordAt(s, p)
    BY <1>13, <2>2 DEF RecordAt
  <2>5. \A i \in DOMAIN unwritten' : unwritten'[i].recv >= to
    <3> SUFFICES ASSUME NEW i \in 1..m-1 PROVE unwritten'[i].recv >= to  BY <1>5
    <3>1. i + 1 \in 1..m  BY <1>4
    <3> QED  BY <1>1, <1>4, <1>5, <2>1, <3>1 DEF MergeInv
  <2>6. floor = replaying'.floor /\ to = replaying'.to /\ out = replaying'.out /\ left = replaying'.left
    BY <1>2, <2>1
  <2>7. \A s \in Sources : \A p \in left[s] :
           p \in HourRange \X Nat /\ p[2] \in DOMAIN hours'[s][p[1]] /\ RecordAt(s, p)'.recv >= floor
    BY <2>2, <2>4
  <2>8. \A s \in Sources : \A p \in left[s] : \A i \in 1 .. from + Len(out) : live[i].recv < RecordAt(s, p)'.recv
    BY <2>3, <2>4
  <2>9. \A i \in DOMAIN live : i > from + Len(out) /\ live[i].recv < to =>
               \E s \in Sources : \E p \in left[s] : GivenAgain(RecordAt(s, p)') = live[i]
    BY <2>3, <2>4
  <2>10. /\ replaying'.floor \in Nat /\ replaying'.to \in Nat /\ \A i \in DOMAIN unwritten' : unwritten'[i].recv >= replaying'.to
         /\ replaying'.floor <= replaying'.to /\ replaying'.to <= instant'
    BY <1>2, <2>1, <2>2, <2>5, <2>6
  <2>11. \A s \in Sources : \A p \in replaying'.left[s] :
           p \in HourRange \X Nat /\ p[2] \in DOMAIN hours'[s][p[1]] /\ RecordAt(s, p)'.recv >= replaying'.floor
    BY <2>6, <2>7
  <2>12. /\ from \in 0..Len(live') /\ from + Len(replaying'.out) <= Len(live')
         /\ \A i \in DOMAIN live' : i <= from <=> live'[i].recv < replaying'.floor
         /\ \A i \in DOMAIN replaying'.out : replaying'.out[i] = live'[from + i] /\ live'[from + i].recv < replaying'.to
    BY <1>2, <2>3, <2>6
  <2>13. \A s \in Sources : \A p \in replaying'.left[s] : \A i \in 1 .. from + Len(replaying'.out) : live'[i].recv < RecordAt(s, p)'.recv
    BY <1>2, <2>6, <2>8
  <2>14. \A i \in DOMAIN live' : i > from + Len(replaying'.out) /\ live'[i].recv < replaying'.to =>
           \E s \in Sources : \E p \in replaying'.left[s] : GivenAgain(RecordAt(s, p))' = live'[i]
    BY <1>2, <2>6, <2>9 DEF GivenAgain, Fed, Dispatched, Published, Buffered, EndsWith
  <2> QED  BY <2>10, <2>11, <2>12, <2>13, <2>14 DEF MergeInv, GivenAgain, Fed, Dispatched, Published, Buffered, EndsWith
<1> QED  BY <1>15, <1>16, <1>19, <1>20, <1>21 DEF RawInv

\* What a reader is to read of the files of its source.
LEMMA PlacesOfReader ==
    ASSUME NEW s, NEW floor, NEW to, NEW p
    PROVE  p \in ReaderOf(s, floor, to) <=>
             /\ \E h, i : p = <<h, i>>
             /\ p[1] \in HourRange /\ p[1] >= HourOfTick(floor) /\ p[1] * HourTicks < to
             /\ p[2] \in DOMAIN hours[s][p[1]] /\ RecordAt(s, p).recv >= floor
  BY DEF ReaderOf, RecordAt

\* What a file holds is typed, and is of live.
LEMMA FiledOf ==
    ASSUME RawInv, NEW s \in Sources, NEW h \in HourRange, NEW i \in DOMAIN hours[s][h]
    PROVE  /\ h \in Nat /\ i \in Nat /\ hours[s][h][i].recv \in Nat /\ hours[s][h][i].recv < instant
           /\ hours[s][h][i].source = s /\ HourOfTick(hours[s][h][i].recv) = h
           /\ hours[s][h][i] \in Records
           /\ \E k \in DOMAIN live : live[k] = GivenAgain(hours[s][h][i])
<1>1. PICK f : f = hours[s][h] /\ f \in Seq(Records)  BY DEF RawInv, RawTyped
<1>2. DOMAIN f = 1..Len(f) /\ Len(f) \in Nat  BY <1>1, LenProperties
<1>3. i \in Nat /\ f[i] \in Records  BY <1>1, <1>2
<1>4. RecordHolds(f[i]) /\ f[i].source = s /\ HourOfTick(f[i].recv) = h  BY <1>1 DEF RawInv, FilesInv
<1> QED  BY <1>1, <1>3, <1>4 DEF HourRange, RecordHolds, ArchivedAs

\* A replay that starts has all of its range to read, as it is past and on disk.
LEMMA ReplayStartStep ==
    ASSUME RawInv, NEW day \in 0 .. MaxClock \div DayTicks, ReplayStarts(day)
    PROVE  RawInv'
<1>1. RawTyped /\ ClockInv /\ LiveInv /\ FilesInv /\ NothingMissing /\ MergeInv  BY DEF RawInv
<1>2. UNCHANGED <<instant, waiting, serving, unwritten, hours, live, sent, ends>>  BY DEF ReplayStarts
<1>3. PICK ticks : ticks = DayTicks /\ ticks \in Nat
  <2>1. DayHours \in Nat /\ HourTicks \in Nat  BY RawAssumption
  <2> QED  BY <2>1 DEF DayTicks
<1>4. PICK base : base = day * ticks /\ base \in Nat
  <2>1. day \in Nat  OBVIOUS
  <2> QED  BY <1>3, <2>1
<1>5. PICK to : to = (day + 1) * ticks /\ to = base + ticks /\ to \in Nat  BY <1>3, <1>4
<1>6. PICK floor : floor = (IF base > Warmup THEN base - Warmup ELSE 0) /\ floor \in Nat /\ floor <= to
  <2>1. Warmup \in Nat  BY RawAssumption
  <2> QED  BY <1>3, <1>4, <1>5, <2>1
<1>7. PICK left : left = [s \in Sources |-> ReaderOf(s, floor, to)]  OBVIOUS
<1>8. /\ to <= instant /\ \A i \in DOMAIN unwritten : unwritten[i].recv >= to
      /\ replaying' = [pc |-> "merging", floor |-> floor, to |-> to, left |-> left, out |-> <<>>]
  BY <1>3, <1>4, <1>5, <1>6, <1>7 DEF ReplayStarts
<1>9. RawTyped'  BY <1>1, <1>2, <1>7, <1>8 DEF RawTyped
<1>10. ClockInv' /\ LiveInv'  BY <1>1, <1>2 DEF ClockInv, LiveInv
<1>11. FilesInv'  BY <1>1, <1>2 DEF FilesInv, RecordHolds, ArchivedAs
<1>12. NothingMissing'  BY <1>1, <1>2 DEF NothingMissing
<1>13. PICK n \in Nat : n = Len(live) /\ DOMAIN live = 1..n  BY <1>1, LenProperties DEF RawTyped
<1>14. \A i \in 1..n : live[i].recv \in Nat /\ \A j \in 1..n : i < j => live[i].recv < live[j].recv
  BY <1>1, <1>13 DEF LiveInv
<1>15. PICK from \in 0..n : \A i \in 1..n : i <= from <=> live[i].recv < floor
  <2>1. PICK cuts : cuts = {c \in 0..n : c = n \/ live[c+1].recv >= floor}  OBVIOUS
  <2>2. n \in cuts /\ cuts \in SUBSET Nat  BY <1>13, <2>1
  <2>3. PICK c \in cuts : \A d \in cuts : c <= d  BY <2>2, LeastNatural
  <2>4. c \in 0..n /\ (c = n \/ live[c+1].recv >= floor)  BY <2>1, <2>3
  <2>5. ASSUME NEW i \in 1..n, i <= c PROVE live[i].recv < floor
    <3>1. i - 1 \in 0..n /\ i - 1 # n /\ i - 1 \notin cuts /\ (i - 1) + 1 = i  BY <2>3, <2>4, <2>5, <1>13
    <3> QED  BY <1>6, <1>14, <2>1, <3>1
  <2>6. ASSUME NEW i \in 1..n, i > c PROVE live[i].recv >= floor
    <3>1. c + 1 \in 1..n /\ live[c+1].recv >= floor  BY <2>4, <2>6, <1>13
    <3>2. CASE i = c + 1  BY <3>1, <3>2
    <3>3. CASE c + 1 < i  BY <1>6, <1>14, <3>1, <3>3
    <3> QED  BY <2>4, <2>6, <3>2, <3>3
  <2>7. \A i \in 1..n : i <= c <=> live[i].recv < floor  BY <1>6, <1>14, <2>4, <2>5, <2>6
  <2> QED  BY <2>4, <2>7
<1>16. \A s \in Sources : \A p \in left[s] :
         p \in HourRange \X Nat /\ p[2] \in DOMAIN hours[s][p[1]] /\ RecordAt(s, p).recv \in Nat /\ RecordAt(s, p).recv >= floor
  <2> SUFFICES ASSUME NEW s \in Sources, NEW p \in ReaderOf(s, floor, to)
               PROVE  p \in HourRange \X Nat /\ p[2] \in DOMAIN hours[s][p[1]]
                      /\ RecordAt(s, p).recv \in Nat /\ RecordAt(s, p).recv >= floor
    BY <1>7
  <2>1. PICK h, i : p = <<h, i>> /\ h \in HourRange /\ i \in DOMAIN hours[s][h] /\ RecordAt(s, p).recv >= floor
    BY PlacesOfReader
  <2>2. i \in Nat /\ hours[s][h][i].recv \in Nat  BY <2>1, FiledOf
  <2> QED  BY <2>1, <2>2 DEF RecordAt
<1>17. ASSUME NEW k \in 1..n, k > from, live[k].recv < to
       PROVE  \E s \in Sources : \E p \in left[s] : GivenAgain(RecordAt(s, p)) = live[k]
  <2>1. ~ \E i \in DOMAIN unwritten : GivenAgain(unwritten[i]) = live[k]
    <3> SUFFICES ASSUME NEW i \in DOMAIN unwritten, GivenAgain(unwritten[i]) = live[k] PROVE FALSE  OBVIOUS
    <3>1. unwritten[i].recv = live[k].recv  BY DEF GivenAgain, Fed
    <3>2. unwritten[i].recv >= to  BY <1>8
    <3> QED  BY <1>5, <1>14, <1>17, <3>1, <3>2
  <2>2. PICK s, h, i : s \in Sources /\ h \in HourRange /\ i \in DOMAIN hours[s][h] /\ GivenAgain(hours[s][h][i]) = live[k]
    BY <1>1, <1>13, <2>1 DEF NothingMissing
  <2>3. PICK rx : rx = hours[s][h][i]  OBVIOUS
  <2>4. rx.recv = live[k].recv  BY <2>2, <2>3 DEF GivenAgain, Fed
  <2>5. rx.recv >= floor  BY <1>6, <1>14, <1>15, <1>17, <2>4
  <2>6. HourOfTick(rx.recv) = h /\ rx.recv \in Nat /\ h \in Nat  BY <2>2, <2>3, FiledOf
  <2>7. h >= HourOfTick(floor)  BY <1>6, <2>5, <2>6, HoursOfTicks
  <2>8. h * HourTicks < to
    <3>1. HourTicks \in Nat  BY RawAssumption
    <3>2. PICK x : x = h * HourTicks /\ x \in Nat  BY <2>6, <3>1
    <3>3. x <= rx.recv  BY <2>6, <3>2, HoursOfTicks
    <3> QED  BY <1>5, <1>14, <1>17, <2>4, <2>6, <3>2, <3>3
  <2>9. PICK p : p = <<h, i>>  OBVIOUS
  <2>10. p[1] = h /\ p[2] = i /\ RecordAt(s, p) = rx  BY <2>3, <2>9 DEF RecordAt
  <2>11. p \in ReaderOf(s, floor, to)  BY <2>2, <2>5, <2>7, <2>8, <2>9, <2>10, PlacesOfReader
  <2> QED  BY <1>7, <2>2, <2>3, <2>10, <2>11
<1>18. ASSUME NEW s \in Sources, NEW p \in left[s], NEW i \in 1..from PROVE live[i].recv < RecordAt(s, p).recv
  BY <1>6, <1>13, <1>14, <1>15, <1>16
<1>19. MergeInv'
  <2>1. \A s, p : RecordAt(s, p)' = RecordAt(s, p)  BY <1>2 DEF RecordAt
  <2>2. replaying'.floor = floor /\ replaying'.to = to /\ replaying'.left = left /\ replaying'.out = <<>>
        /\ Len(<<>>) = 0 /\ DOMAIN <<>> = {} /\ from + 0 = from
    BY <1>8, <1>15
  <2> QED  BY <1>2, <1>5, <1>6, <1>8, <1>13, <1>15, <1>16, <1>17, <1>18, <2>1, <2>2 DEF MergeInv
<1> QED  BY <1>9, <1>10, <1>11, <1>12, <1>19 DEF RawInv

\* A reader with places left is at one of them.
LEMMA ReaderIsSomewhere ==
    ASSUME NEW s, replaying.left[s] \subseteq HourRange \X Nat, NEW q \in replaying.left[s]
    PROVE  \E p \in replaying.left[s] : Reads(s, p)
<1>1. PICK left : left = replaying.left[s] /\ left \subseteq HourRange \X Nat /\ q \in left  OBVIOUS
<1>2. HourRange \subseteq Nat  BY DEF HourRange
<1>3. PICK hs : hs = {p[1] : p \in left}  OBVIOUS
<1>4. hs \in SUBSET Nat /\ hs # {}  BY <1>1, <1>2, <1>3
<1>5. PICK h \in hs : \A y \in hs : h <= y  BY <1>4, LeastNatural
<1>6. PICK is : is = {p[2] : p \in {r \in left : r[1] = h}}  OBVIOUS
<1>7. is \in SUBSET Nat /\ is # {}  BY <1>1, <1>3, <1>5, <1>6
<1>8. PICK i \in is : \A y \in is : i <= y  BY <1>7, LeastNatural
<1>9. PICK p : p \in left /\ p[1] = h /\ p[2] = i  BY <1>6, <1>8
<1>10. ASSUME NEW r \in left PROVE p[1] < r[1] \/ (p[1] = r[1] /\ p[2] <= r[2])
  <2>1. r[1] \in hs /\ r[1] \in Nat /\ h \in Nat /\ h <= r[1]  BY <1>1, <1>2, <1>3, <1>4, <1>5
  <2>2. CASE r[1] = h
    <3>1. r[2] \in is  BY <1>6, <2>2
    <3> QED  BY <1>8, <1>9, <2>2, <3>1
  <2> QED  BY <1>9, <2>1, <2>2
<1> QED  BY <1>1, <1>9, <1>10 DEF Reads

\* The places a reader has left are of records in the order of their times.
LEMMA PlacesInOrder ==
    ASSUME RawInv, NEW s \in Sources, NEW p \in HourRange \X Nat, NEW q \in HourRange \X Nat,
           p[2] \in DOMAIN hours[s][p[1]], q[2] \in DOMAIN hours[s][q[1]],
           p[1] < q[1] \/ (p[1] = q[1] /\ p[2] <= q[2])
    PROVE  RecordAt(s, p).recv \in Nat /\ RecordAt(s, q).recv \in Nat /\ RecordAt(s, p).recv <= RecordAt(s, q).recv
           /\ (RecordAt(s, p).recv = RecordAt(s, q).recv => p = q)
<1>1. p[1] \in HourRange /\ q[1] \in HourRange /\ p[2] \in Nat /\ q[2] \in Nat /\ p = <<p[1], p[2]>> /\ q = <<q[1], q[2]>>
  OBVIOUS
<1>2. PICK a, b : a = RecordAt(s, p) /\ b = RecordAt(s, q)  OBVIOUS
<1>3. a.recv \in Nat /\ b.recv \in Nat /\ HourOfTick(a.recv) = p[1] /\ HourOfTick(b.recv) = q[1]
  BY <1>1, <1>2, FiledOf DEF RecordAt
<1>4. CASE p[1] < q[1]
  <2>1. ~(b.recv <= a.recv)
    <3> SUFFICES ASSUME b.recv <= a.recv PROVE FALSE  OBVIOUS
    <3>1. q[1] <= p[1]  BY <1>3, HoursOfTicks
    <3> QED  BY <1>1, <1>4, <3>1 DEF HourRange
  <2> QED  BY <1>2, <1>3, <2>1
<1>5. CASE p[1] = q[1] /\ p[2] = q[2]  BY <1>1, <1>2, <1>3, <1>5
<1>6. CASE p[1] = q[1] /\ p[2] < q[2]
  <2>1. a.recv < b.recv  BY <1>1, <1>2, <1>6 DEF RawInv, FilesInv, RecordAt
  <2> QED  BY <1>2, <1>3, <2>1
<1> QED  BY <1>1, <1>4, <1>5, <1>6

\* The record a replay takes is the earliest that is left, and the only one of
\* its time.
LEMMA EarliestIsTaken ==
    ASSUME RawInv, replaying.pc = "merging", NEW s \in Sources, NEW p, ReadsFirst(s, p),
           NEW r \in Sources, NEW q \in replaying.left[r]
    PROVE  /\ RecordAt(s, p).recv \in Nat /\ RecordAt(r, q).recv \in Nat /\ RecordAt(s, p).recv <= RecordAt(r, q).recv
           /\ (RecordAt(s, p).recv = RecordAt(r, q).recv => s = r /\ p = q)
<1>1. \A t \in Sources : \A x \in replaying.left[t] : x \in HourRange \X Nat /\ x[2] \in DOMAIN hours[t][x[1]]
  BY DEF RawInv, MergeInv
<1>2. Reads(s, p) /\ p \in replaying.left[s]  BY DEF ReadsFirst, Reads
<1>3. PICK x : x \in replaying.left[r] /\ Reads(r, x)
  <2>1. replaying.left[r] \subseteq HourRange \X Nat  BY <1>1
  <2> QED  BY <2>1, ReaderIsSomewhere
<1>4. x[1] < q[1] \/ (x[1] = q[1] /\ x[2] <= q[2])  BY <1>3 DEF Reads
<1>5. RecordAt(r, x).recv \in Nat /\ RecordAt(r, q).recv \in Nat /\ RecordAt(r, x).recv <= RecordAt(r, q).recv
      /\ (RecordAt(r, x).recv = RecordAt(r, q).recv => x = q)
  <2>1. x \in HourRange \X Nat /\ x[2] \in DOMAIN hours[r][x[1]] /\ q \in HourRange \X Nat /\ q[2] \in DOMAIN hours[r][q[1]]
    BY <1>1, <1>3
  <2> QED  BY <1>4, <2>1, PlacesInOrder
<1>6. RecordAt(s, p).recv <= RecordAt(r, x).recv  BY <1>3 DEF ReadsFirst
<1>7. p \in HourRange \X Nat /\ p[2] \in DOMAIN hours[s][p[1]]  BY <1>1, <1>2
<1>8. RecordAt(s, p).recv \in Nat /\ HourOfTick(RecordAt(s, p).recv) = p[1] /\ p[1] \in HourRange
  BY <1>7, FiledOf DEF RecordAt
<1>9. ASSUME RecordAt(s, p).recv = RecordAt(r, q).recv PROVE s = r /\ p = q
  <2>1. q \in HourRange \X Nat /\ q[2] \in DOMAIN hours[r][q[1]]  BY <1>1
  <2>2. HourOfTick(RecordAt(r, q).recv) = q[1]  BY <2>1, FiledOf DEF RecordAt
  <2>3. p[1] = q[1]  BY <1>8, <1>9, <2>2
  <2>4. s = r
    <3>1. PICK h : h = p[1] /\ h \in HourRange /\ p[2] \in DOMAIN hours[s][h] /\ q[2] \in DOMAIN hours[r][h]
                   /\ hours[s][h][p[2]].recv = hours[r][h][q[2]].recv
      BY <1>7, <1>8, <1>9, <2>1, <2>3 DEF RecordAt
    <3> QED  BY <3>1 DEF RawInv, FilesInv
  <2>5. p[1] < q[1] \/ (p[1] = q[1] /\ p[2] <= q[2])  BY <1>2, <2>4 DEF Reads
  <2>6. p = q  BY <1>7, <1>9, <2>1, <2>4, <2>5, PlacesInOrder
  <2> QED  BY <2>4, <2>6
<1> QED  BY <1>5, <1>6, <1>8, <1>9

LEMMA ReplayNextStep ==
    ASSUME RawInv, NEW s \in Sources, NEW p \in replaying.left[s], ReplayNext(s, p)
    PROVE  RawInv'
<1>1. RawTyped /\ ClockInv /\ LiveInv /\ FilesInv /\ NothingMissing /\ MergeInv  BY DEF RawInv
<1>2. UNCHANGED <<instant, waiting, serving, unwritten, hours, live, sent, ends>>
      /\ replaying.pc = "merging" /\ ReadsFirst(s, p)
  BY DEF ReplayNext
<1>3. PICK floor, to, out, left :
        floor \in Nat /\ to \in Nat /\ floor = replaying.floor /\ to = replaying.to /\ out = replaying.out /\ left = replaying.left
  BY <1>1, <1>2 DEF MergeInv
<1>4. floor <= to /\ to <= instant
      /\ (\A i \in DOMAIN unwritten : unwritten[i].recv >= to)
      /\ \A r \in Sources : \A q \in left[r] :
           q \in HourRange \X Nat /\ q[2] \in DOMAIN hours[r][q[1]] /\ RecordAt(r, q).recv >= floor
  BY <1>1, <1>2, <1>3 DEF MergeInv
<1>5. PICK n \in Nat : n = Len(live) /\ DOMAIN live = 1..n  BY <1>1, LenProperties DEF RawTyped
<1>6. out \in Seq(Given) /\ DOMAIN left = Sources  BY <1>1, <1>3 DEF RawTyped
<1>7. PICK z \in Nat : z = Len(out) /\ DOMAIN out = 1..z  BY <1>6, LenProperties
<1>8. PICK from \in 0..n :
          /\ from + z <= n
          /\ \A i \in 1..n : i <= from <=> live[i].recv < floor
          /\ \A i \in 1..z : out[i] = live[from + i] /\ live[from + i].recv < to
          /\ \A r \in Sources : \A q \in left[r] : \A i \in 1 .. from + z : live[i].recv < RecordAt(r, q).recv
          /\ \A i \in 1..n : i > from + z /\ live[i].recv < to =>
               \E r \in Sources : \E q \in left[r] : GivenAgain(RecordAt(r, q)) = live[i]
  BY <1>1, <1>2, <1>3, <1>5, <1>7 DEF MergeInv
<1>9. \A i \in 1..n : live[i].recv \in Nat /\ \A j \in 1..n : i < j => live[i].recv < live[j].recv
  BY <1>1, <1>5 DEF LiveInv
<1>10. PICK rx : rx = RecordAt(s, p)  OBVIOUS
<1>11. \A r \in Sources : \A q \in left[r] :
         RecordAt(r, q).recv \in Nat /\ rx.recv <= RecordAt(r, q).recv /\ (rx.recv = RecordAt(r, q).recv => r = s /\ q = p)
  BY <1>2, <1>3, <1>10, EarliestIsTaken
<1>12. p \in left[s]  BY <1>3
<1>13. rx.source = s /\ rx.recv \in Nat /\ rx \in Records /\ \E k \in DOMAIN live : live[k] = GivenAgain(rx)
  BY <1>4, <1>10, <1>12, FiledOf DEF RecordAt
<1>14. \A x : GivenAgain(x).recv = x.recv  BY DEF GivenAgain, Fed
<1>15. ClockInv' /\ LiveInv' /\ FilesInv' /\ NothingMissing'
  BY <1>1, <1>2 DEF ClockInv, LiveInv, FilesInv, RecordHolds, ArchivedAs, NothingMissing
<1>16. \A r, q : RecordAt(r, q)' = RecordAt(r, q)  BY <1>2 DEF RecordAt
<1>17. CASE rx.recv >= to
  <2>1. PICK now : now = [left EXCEPT ![s] = {}]  OBVIOUS
  <2>2. replaying' = [replaying EXCEPT !.left = now]  BY <1>3, <1>10, <1>17, <2>1 DEF ReplayNext
  <2>3. replaying'.floor = floor /\ replaying'.to = to /\ replaying'.left = now /\ replaying'.out = out /\ DOMAIN now = Sources
    BY <1>3, <1>6, <2>1, <2>2
  <2>4. \A r \in Sources : \A q \in now[r] : q \in left[r]  BY <1>6, <2>1
  <2>5. RawTyped'  BY <1>1, <1>2, <1>6, <2>3 DEF RawTyped
  <2>6. ASSUME NEW i \in 1..n, i > from + z, live[i].recv < to
        PROVE  \E r \in Sources : \E q \in now[r] : GivenAgain(RecordAt(r, q)) = live[i]
    <3>1. PICK r, q : r \in Sources /\ q \in left[r] /\ GivenAgain(RecordAt(r, q)) = live[i]  BY <1>8, <2>6
    <3>2. RecordAt(r, q).recv = live[i].recv  BY <1>14, <3>1
    <3>3. r # s
      <4> SUFFICES ASSUME r = s PROVE FALSE  OBVIOUS
      <4> QED  BY <1>3, <1>9, <1>11, <1>13, <1>17, <2>6, <3>1, <3>2
    <3>4. now[r] = left[r]  BY <1>6, <2>1, <3>1, <3>3
    <3> QED  BY <3>1, <3>4
  <2>7. \A r \in Sources : \A q \in now[r] : \A i \in 1 .. from + z : live[i].recv < RecordAt(r, q).recv
    BY <1>8, <2>4
  <2>8. \A r \in Sources : \A q \in now[r] :
          q \in HourRange \X Nat /\ q[2] \in DOMAIN hours[r][q[1]] /\ RecordAt(r, q).recv >= floor
    BY <1>4, <2>4
  <2>9. MergeInv'
    <3>1. /\ replaying'.floor \in Nat /\ replaying'.to \in Nat /\ \A i \in DOMAIN unwritten' : unwritten'[i].recv >= replaying'.to
          /\ replaying'.floor <= replaying'.to /\ replaying'.to <= instant'
      BY <1>2, <1>3, <1>4, <2>3
    <3>2. \A r \in Sources : \A q \in replaying'.left[r] :
            q \in HourRange \X Nat /\ q[2] \in DOMAIN hours'[r][q[1]] /\ RecordAt(r, q)'.recv >= replaying'.floor
      BY <1>2, <1>16, <2>3, <2>8
    <3>3. /\ from \in 0..Len(live') /\ from + Len(replaying'.out) <= Len(live')
          /\ \A i \in DOMAIN live' : i <= from <=> live'[i].recv < replaying'.floor
          /\ \A i \in DOMAIN replaying'.out :
               replaying'.out[i] = live'[from + i] /\ live'[from + i].recv < replaying'.to
      BY <1>2, <1>5, <1>7, <1>8, <2>3
    <3>4. \A r \in Sources : \A q \in replaying'.left[r] : \A i \in 1 .. from + Len(replaying'.out) : live'[i].recv < RecordAt(r, q)'.recv
      BY <1>2, <1>7, <1>16, <2>3, <2>7
    <3>5. \A i \in DOMAIN live' : i > from + Len(replaying'.out) /\ live'[i].recv < replaying'.to =>
            \E r \in Sources : \E q \in replaying'.left[r] : GivenAgain(RecordAt(r, q))' = live'[i]
      <4>1. \A i \in DOMAIN live' : i > from + Len(replaying'.out) /\ live'[i].recv < replaying'.to =>
              \E r \in Sources : \E q \in replaying'.left[r] : GivenAgain(RecordAt(r, q)') = live'[i]
        BY <1>2, <1>5, <1>7, <1>16, <2>3, <2>6
      <4> QED  BY <4>1 DEF GivenAgain, Fed, Dispatched, Published, Buffered, EndsWith
    <3> QED  BY <3>1, <3>2, <3>3, <3>4, <3>5 DEF MergeInv, GivenAgain, Fed, Dispatched, Published, Buffered, EndsWith
  <2> QED  BY <1>15, <2>5, <2>9 DEF RawInv
<1>18. CASE rx.recv < to
  <2>1. PICK now, next : now = [left EXCEPT ![s] = @ \ {p}] /\ next = Append(out, GivenAgain(rx))  OBVIOUS
  <2>2. replaying' = [replaying EXCEPT !.left = now, !.out = next]
    <3>1. ~(rx.recv >= to)  BY <1>3, <1>13, <1>18
    <3>2. GivenAgain(rx) = Fed(rx.id, rx.recv, Dispatched(s, rx), Buffered(rx))  BY <1>13 DEF GivenAgain
    <3> QED  BY <1>3, <1>10, <2>1, <3>1, <3>2 DEF ReplayNext
  <2>3. PICK k \in 1..n : live[k] = GivenAgain(rx) /\ live[k].recv = rx.recv  BY <1>5, <1>13, <1>14
  <2>4. k > from + z
    <3> SUFFICES ASSUME k \in 1 .. from + z PROVE FALSE  BY <1>5, <1>7, <1>8, <2>3
    <3>1. live[k].recv < rx.recv  BY <1>8, <1>10, <1>12
    <3> QED  BY <1>13, <2>3, <3>1
  <2>5. k = from + z + 1
    <3>1. PICK f : f = from + z + 1 /\ f \in 1..n /\ f <= k /\ f > from + z  BY <1>5, <1>7, <1>8, <2>3, <2>4
    <3> SUFFICES ASSUME f < k PROVE FALSE  BY <3>1, <2>3, <1>5
    <3>2. live[f].recv < rx.recv /\ live[f].recv \in Nat  BY <1>9, <2>3, <3>1
    <3>3. live[f].recv < to  BY <1>3, <1>13, <1>18, <3>2
    <3>4. PICK r, q : r \in Sources /\ q \in left[r] /\ GivenAgain(RecordAt(r, q)) = live[f]  BY <1>8, <3>1, <3>3
    <3>5. rx.recv <= live[f].recv  BY <1>11, <1>14, <3>4
    <3> QED  BY <1>13, <3>2, <3>5
  <2>6. GivenAgain(rx) \in Given
    <3>1. live \in Seq(Given) /\ k \in 1..Len(live)  BY <1>1, <1>5, <2>3 DEF RawTyped
    <3>2. live[k] \in Given  BY <3>1
    <3> QED  BY <2>3, <3>2
  <2>7. next \in Seq(Given) /\ Len(next) = z + 1 /\ DOMAIN next = 1..z+1 /\ (\A i \in 1..z : next[i] = out[i])
        /\ next[z+1] = live[k]
    BY <1>6, <1>7, <2>1, <2>3, <2>6, AppendProperties, LenProperties
  <2>8. replaying'.floor = floor /\ replaying'.to = to /\ replaying'.left = now /\ replaying'.out = next /\ DOMAIN now = Sources
        /\ replaying'.pc = "merging"
    BY <1>1, <1>2, <1>3, <1>6, <2>1, <2>2 DEF RawTyped
  <2>9. \A r \in Sources : \A q \in now[r] : q \in left[r] /\ (r = s => q # p)  BY <1>6, <2>1
  <2>10. RawTyped'  BY <1>1, <1>2, <2>7, <2>8 DEF RawTyped
  <2>11. \A i \in 1..z+1 : next[i] = live[from + i] /\ live[from + i].recv < to
    <3> SUFFICES ASSUME NEW i \in 1..z+1 PROVE next[i] = live[from + i] /\ live[from + i].recv < to  OBVIOUS
    <3>1. CASE i \in 1..z  BY <1>8, <2>7, <3>1
    <3>2. CASE i = z + 1
      <4>1. from + i = k  BY <1>5, <1>7, <1>8, <2>5, <3>2
      <4> QED  BY <1>18, <2>3, <2>7, <3>2, <4>1
    <3> QED  BY <1>7, <3>1, <3>2
  <2>12. ASSUME NEW r \in Sources, NEW q \in now[r], NEW i \in 1 .. from + (z + 1) PROVE live[i].recv < RecordAt(r, q).recv
    <3>1. q \in left[r] /\ rx.recv < RecordAt(r, q).recv  BY <1>11, <1>13, <2>9
    <3>2. CASE i \in 1 .. from + z  BY <1>8, <3>1, <3>2
    <3>3. CASE i = k  BY <2>3, <3>1, <3>3
    <3> QED  BY <1>5, <1>7, <1>8, <2>5, <3>2, <3>3
  <2>13. ASSUME NEW i \in 1..n, i > from + (z + 1), live[i].recv < to
         PROVE  \E r \in Sources : \E q \in now[r] : GivenAgain(RecordAt(r, q)) = live[i]
    <3>1. i > from + z /\ k < i  BY <1>5, <1>7, <1>8, <2>5, <2>13
    <3>2. PICK r, q : r \in Sources /\ q \in left[r] /\ GivenAgain(RecordAt(r, q)) = live[i]  BY <1>8, <2>13, <3>1
    <3>3. RecordAt(r, q).recv = live[i].recv /\ rx.recv < live[i].recv  BY <1>9, <1>14, <2>3, <3>1, <3>2
    <3>4. ~(r = s /\ q = p)
      <4> SUFFICES ASSUME r = s, q = p PROVE FALSE  OBVIOUS
      <4> QED  BY <1>9, <1>10, <1>13, <3>3
    <3>5. q \in now[r]  BY <1>6, <2>1, <3>2, <3>4
    <3> QED  BY <3>2, <3>5
  <2>14. \A r \in Sources : \A q \in now[r] :
          q \in HourRange \X Nat /\ q[2] \in DOMAIN hours[r][q[1]] /\ RecordAt(r, q).recv >= floor
    BY <1>4, <2>9
  <2>15. from + (z + 1) <= n  BY <1>5, <1>7, <1>8, <2>3, <2>5
  <2>16. MergeInv'
    <3>1. /\ replaying'.floor \in Nat /\ replaying'.to \in Nat /\ \A i \in DOMAIN unwritten' : unwritten'[i].recv >= replaying'.to
          /\ replaying'.floor <= replaying'.to /\ replaying'.to <= instant'
      BY <1>2, <1>3, <1>4, <2>8
    <3>2. \A r \in Sources : \A q \in replaying'.left[r] :
            q \in HourRange \X Nat /\ q[2] \in DOMAIN hours'[r][q[1]] /\ RecordAt(r, q)'.recv >= replaying'.floor
      BY <1>2, <1>16, <2>8, <2>14
    <3>3. /\ from \in 0..Len(live') /\ from + Len(replaying'.out) <= Len(live')
          /\ \A i \in DOMAIN live' : i <= from <=> live'[i].recv < replaying'.floor
          /\ \A i \in DOMAIN replaying'.out :
               replaying'.out[i] = live'[from + i] /\ live'[from + i].recv < replaying'.to
      BY <1>2, <1>5, <1>7, <1>8, <2>7, <2>8, <2>11, <2>15
    <3>4. \A r \in Sources : \A q \in replaying'.left[r] : \A i \in 1 .. from + Len(replaying'.out) : live'[i].recv < RecordAt(r, q)'.recv
      BY <1>2, <1>7, <1>16, <2>7, <2>8, <2>12
    <3>5. \A i \in DOMAIN live' : i > from + Len(replaying'.out) /\ live'[i].recv < replaying'.to =>
            \E r \in Sources : \E q \in replaying'.left[r] : GivenAgain(RecordAt(r, q))' = live'[i]
      <4>1. \A i \in DOMAIN live' : i > from + Len(replaying'.out) /\ live'[i].recv < replaying'.to =>
              \E r \in Sources : \E q \in replaying'.left[r] : GivenAgain(RecordAt(r, q)') = live'[i]
        BY <1>2, <1>5, <1>7, <1>16, <2>7, <2>8, <2>13
      <4> QED  BY <4>1 DEF GivenAgain, Fed, Dispatched, Published, Buffered, EndsWith
    <3> QED  BY <3>1, <3>2, <3>3, <3>4, <3>5 DEF MergeInv, GivenAgain, Fed, Dispatched, Published, Buffered, EndsWith
  <2> QED  BY <1>15, <2>10, <2>16 DEF RawInv
<1> QED  BY <1>3, <1>13, <1>17, <1>18

\* RawInv is inductive: RawNext in its actions.
LEMMA RawSteps == RawInv /\ [RawNext]_rawVars => RawInv'
<1> SUFFICES ASSUME RawInv, [RawNext]_rawVars PROVE RawInv'  OBVIOUS
<1>1. CASE UNCHANGED rawVars
  <2>1. UNCHANGED <<hours, unwritten, live, replaying, instant, sent, waiting>>  BY <1>1 DEF rawVars
  <2>2. instant \in Nat  BY DEF RawInv, ClockInv
  <2>3. ClockInv'  BY <2>1 DEF RawInv, ClockInv
  <2> QED  BY <2>1, <2>2, <2>3, ArchiveStands DEF RawInv
<1>2. CASE \E k \in Inputs : Start(k)  BY <1>2, WaitingSteps
<1>3. CASE \E w \in waiting : TurnAway(w)  BY <1>3, WaitingSteps
<1>4. CASE CloseIntake \/ StopServing \/ StartServing  BY <1>4, WaitingSteps
<1>5. CASE \E w \in waiting : AdmitOne(w)  BY <1>5, AdmitStep
<1>6. CASE HandleRecord  BY <1>6, HandleStep
<1>7. CASE \E day \in 0 .. MaxClock \div DayTicks : ReplayStarts(day)  BY <1>7, ReplayStartStep
<1>8. CASE \E s \in Sources : \E p \in replaying.left[s] : ReplayNext(s, p)  BY <1>8, ReplayNextStep
<1> QED  BY <1>1, <1>2, <1>3, <1>4, <1>5, <1>6, <1>7, <1>8 DEF RawNext

LEMMA RawBegins == RawInit => RawInv
<1> SUFFICES ASSUME RawInit PROVE RawInv  OBVIOUS
<1>1. <<>> \in Seq(Records) /\ <<>> \in Seq(Given) /\ Len(<<>>) = 0 /\ DOMAIN <<>> = {}  OBVIOUS
<1>2. replaying.left = [s \in Sources |-> {}] /\ replaying.out = <<>> /\ replaying.pc = "idle"
  BY DEF RawInit, NotReplaying
<1>3. RawTyped  BY <1>1, <1>2 DEF RawInit, RawTyped
<1>4. ClockInv
  <2>1. IsFiniteSet(waiting) /\ Cardinality(waiting) = 0 /\ Received \in Nat
    BY FS_EmptySet, RawAssumption DEF RawInit
  <2> QED  BY <1>1, <2>1 DEF RawInit, ClockInv
<1>5. LiveInv /\ NothingMissing  BY <1>1 DEF RawInit, LiveInv, NothingMissing
<1>6. FilesInv  BY <1>1 DEF RawInit, FilesInv
<1>7. MergeInv  BY <1>2 DEF MergeInv
<1> QED  BY <1>3, <1>4, <1>5, <1>6, <1>7 DEF RawInv

\* What is archived is what live was given, in order, and a replay in progress
\* has given what live did and has the rest of its range left (admit, handle,
\* replayReaders).
THEOREM RawHolds == RawSpec => []RawInv
  BY RawBegins, RawSteps, PTL DEF RawSpec

\* A replay that is done gave the adapters what live gave them in its range.
THEOREM ReplaysAreLive == RawSpec => []ReplayIsLive
<1>1. RawInv => ReplayIsLive
  <2> SUFFICES ASSUME RawInv, replaying.pc = "merging", \A s \in Sources : replaying.left[s] = {}
               PROVE  \E from, upto \in 0 .. Len(live) :
                        /\ replaying.out = SubSeq(live, from + 1, upto)
                        /\ \A i \in DOMAIN live :
                             i \in from + 1 .. upto <=> live[i].recv >= replaying.floor /\ live[i].recv < replaying.to
    BY DEF ReplayIsLive
  <2>1. PICK floor, to, out :
          floor \in Nat /\ to \in Nat /\ floor = replaying.floor /\ to = replaying.to /\ out = replaying.out
    BY DEF RawInv, MergeInv
  <2>2. live \in Seq(Given) /\ out \in Seq(Given)  BY <2>1 DEF RawInv, RawTyped
  <2>3. PICK n, z \in Nat : n = Len(live) /\ DOMAIN live = 1..n /\ z = Len(out) /\ DOMAIN out = 1..z
    BY <2>2, LenProperties
  <2>4. PICK from \in 0..n :
          /\ from + z <= n
          /\ \A i \in 1..n : i <= from <=> live[i].recv < floor
          /\ \A i \in 1..z : out[i] = live[from + i] /\ live[from + i].recv < to
          /\ \A i \in 1..n : i > from + z /\ live[i].recv < to =>
               \E r \in Sources : \E q \in replaying.left[r] : GivenAgain(RecordAt(r, q)) = live[i]
    BY <2>1, <2>3 DEF RawInv, MergeInv
  <2>5. PICK upto \in 0..n : upto = from + z  BY <2>3, <2>4
  <2>6. out = SubSeq(live, from + 1, upto)
    <3>1. PICK part : part = SubSeq(live, from + 1, upto)  OBVIOUS
    <3>2. part \in Seq(Given) /\ Len(part) = z /\ \A i \in 1..z : part[i] = live[from + i]
      <4>1. PICK a : a = from + 1 /\ a \in 1..Len(live)+1 /\ upto \in a-1..Len(live)  BY <2>3, <2>4, <2>5
      <4>2. SubSeq(live, a, upto) \in Seq(Given) /\ Len(SubSeq(live, a, upto)) = (IF a <= upto THEN upto-a+1 ELSE 0)
            /\ \A i \in 1..upto-a+1 : SubSeq(live, a, upto)[i] = live[a+i-1]
        BY <2>2, <4>1, SubSeqProperties
      <4>3. part \in Seq(Given) /\ Len(part) = z  BY <2>3, <2>4, <2>5, <3>1, <4>1, <4>2
      <4>4. \A i \in 1..z : a + i - 1 = from + i /\ i \in 1..upto-a+1  BY <2>3, <2>4, <2>5, <4>1
      <4> QED  BY <3>1, <4>1, <4>2, <4>3, <4>4
    <3>3. \A i \in 1..Len(out) : out[i] = part[i]  BY <2>3, <2>4, <3>2
    <3> QED  BY <2>2, <2>3, <3>1, <3>2, <3>3, SeqEqual
  <2>7. ASSUME NEW i \in 1..n PROVE i \in from + 1 .. upto <=> live[i].recv >= floor /\ live[i].recv < to
    <3>1. live[i].recv \in Nat  BY <2>3 DEF RawInv, LiveInv
    <3>2. CASE i <= from  BY <2>1, <2>3, <2>4, <3>1, <3>2
    <3>3. CASE i > from + z
      <4>1. ~(live[i].recv < to)  BY <2>4, <3>3
      <4> QED  BY <2>3, <2>4, <2>5, <3>3, <4>1
    <3>4. CASE i > from /\ i <= from + z
      <4>1. i - from \in 1..z /\ from + (i - from) = i  BY <2>3, <2>4, <3>4
      <4>2. live[i].recv < to  BY <2>4, <4>1
      <4> QED  BY <2>1, <2>3, <2>4, <2>5, <3>1, <3>4, <4>2
    <3> QED  BY <2>3, <2>4, <3>2, <3>3, <3>4
  <2> QED  BY <2>1, <2>3, <2>4, <2>5, <2>6, <2>7
<1> QED  BY <1>1, RawHolds, PTL
=============================================================================
