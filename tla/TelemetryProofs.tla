--------------------------- MODULE TelemetryProofs ---------------------------
(***************************************************************************)
(* Theorems about the readings on their way to a panel's readout, for any   *)
(* packs and zones, whatever the packs report, and all intervals and        *)
(* windows.                                                                *)
(***************************************************************************)
EXTENDS Telemetry, WellFoundedInduction, FiniteSetTheorems, TLAPS

-----------------------------------------------------------------------------
(* The inductive invariant *)

\* What a client holds is a reading of its device, and was read as long ago as it is old.
SourceInv ==
  \A d \in Devices :
    /\ source[d].have \in BOOLEAN /\ source[d].age \in 0 .. Window
    /\ since[d] \in [Readings(d) -> 0 .. Bound + 1]
    /\ source[d].have =>
         /\ source[d].reading \in Readings(d)
         /\ source[d].age < Window => since[d][source[d].reading] <= source[d].age

\* All zones come in one answer.
ZonesTogether ==
  kind \in {"hvac", "local"} =>
    \A d, e \in Devices : source[d].have = source[e].have /\ source[d].age = source[e].age

Slots == [seen : BOOLEAN, online : BOOLEAN, age : 0 .. StaleAfter + 1]

TeleTypes ==
  /\ kind \in Kinds
  /\ source = [d \in Devices |-> [have |-> source[d].have, reading |-> source[d].reading,
                                  age |-> source[d].age]]
  /\ cache \in [Items -> [seen : BOOLEAN, online : BOOLEAN, age : 0 .. StaleAfter + 1]]
  /\ since = [d \in Devices |-> since[d]]

\* The panel takes what it has stored of d for a reading.
Told(d) ==
  /\ Young(ItemOf(d)) /\ (kind = "shore" \/ cache[ItemOf(d)].online)
  /\ ~(kind = "shore" /\ cached[d] = <<0>>)

\* Whatever it takes for a reading is one, and was read no longer ago than it took the
\* client's window and the time since it arrived.
ToldInv ==
  kind # "hvac" =>
    \A d \in Devices : Told(d) =>
      /\ cached[d] \in Readings(d)
      /\ since[d][cached[d]] <= cache[ItemOf(d)].age + Window

\* Neither is enough alone: what the panel holds is as fresh as what the client gave it was.
TeleInv == TeleTypes /\ SourceInv /\ ZonesTogether /\ ToldInv

-----------------------------------------------------------------------------
\* The windows are not empty.
LEMMA Periods ==
  ASSUME kind \in Kinds
  PROVE  /\ Window \in Nat \ {0} /\ StaleAfter \in Nat \ {0}
         /\ Bound \in Nat /\ Bound = Window + StaleAfter + 1
<1>1. POLL \in Nat \ {0} /\ HVAC_EVERY \in Nat \ {0} /\ WD_WINDOW \in Nat \ {0} /\ SHORE_STALE \in Nat \ {0}
  BY TelemetryAssumption
<1>2. Window \in Nat \ {0}
  BY <1>1 DEF Window
<1>3. StaleAfter \in Nat \ {0}
  BY <1>1 DEF StaleAfter, Kinds
<1>4. QED
  BY <1>2, <1>3 DEF Bound

\* What is followed does not change, and so do its devices and windows.
LEMMA SameKind ==
  ASSUME kind' = kind
  PROVE  /\ Devices' = Devices /\ Items' = Items /\ Window' = Window /\ StaleAfter' = StaleAfter
         /\ Bound' = Bound
         /\ \A d : Readings(d)' = Readings(d) /\ ItemOf(d)' = ItemOf(d)
BY DEF Devices, Items, Window, StaleAfter, Bound, Readings, ItemOf

\* Every device has its cache.
LEMMA ItemIsItem ==
  ASSUME NEW d \in Devices
  PROVE  ItemOf(d) \in Items
BY DEF Devices, ItemOf, Items

\* A behaviour follows one kind of reading.
LEMMA KindStays == [TelemetryNext]_telemetryVars => kind' = kind
BY DEF TelemetryNext, telemetryVars, Measure, LinkLost, ProducerRestart, PanelRestart, Settle, Tick,
       Produce, BroadcastShore, BroadcastBatteries, BroadcastSolar, PumpToAir, PumpToUi, SlowBroadcast, Passed

\* The clients start without a reading, the panel with nothing received.
LEMMA TeleStart == TelemetryInit => TeleInv
<1> SUFFICES ASSUME TelemetryInit PROVE TeleInv
  OBVIOUS
<1>1. /\ kind \in Kinds /\ source = [d \in Devices |-> NoReading]
      /\ cache = [i \in Items |-> Unseen] /\ cached = [d \in Devices |-> <<>>]
      /\ since = [d \in Devices |-> [r \in Readings(d) |-> Bound + 1]]
  BY DEF TelemetryInit
<1>2. \A d \in Devices : source[d] = NoReading /\ cached[d] = <<>>
  BY <1>1
<1>3. \A d \in Devices : since[d] = [r \in Readings(d) |-> Bound + 1]
  BY <1>1
<1>4. SourceInv
  <2>1. Bound + 1 \in 0 .. Bound + 1 /\ 0 \in 0 .. Window
    BY <1>1, Periods
  <2>2. \A d \in Devices : since[d] \in [Readings(d) -> 0 .. Bound + 1]
    BY <1>3, <2>1
  <2>3. NoReading.have = FALSE /\ NoReading.age = 0
    BY DEF NoReading
  <2>4. QED
    BY <1>2, <2>1, <2>2, <2>3 DEF SourceInv
<1>5. ZonesTogether
  BY <1>2 DEF ZonesTogether
<1>6. TeleTypes
  <2>1. Unseen \in [seen : BOOLEAN, online : BOOLEAN, age : 0 .. StaleAfter + 1]
    BY <1>1, Periods DEF Unseen
  <2>2. QED
    BY <1>1, <2>1 DEF TeleTypes, NoReading
<1>7. ToldInv
  <2>1. \A i \in Items : cache[i].seen = FALSE
    BY <1>1 DEF Unseen
  <2>2. QED
    BY <2>1, ItemIsItem DEF ToldInv, Told, Young
<1>8. QED
  BY <1>4, <1>5, <1>6, <1>7 DEF TeleInv

\* An age that is counted as far as it matters.
LEMMA OlderIs ==
  ASSUME NEW n \in Nat, NEW limit \in Nat
  PROVE  /\ Older(n, limit) \in Nat /\ Older(n, limit) <= n + 1
         /\ n <= limit => Older(n, limit) = n + 1
         /\ n <= limit + 1 => Older(n, limit) <= limit + 1
BY DEF Older

\* The readout: what changes only the clients leaves it told, as long as no reading gets older.
LEMMA ToldStays ==
  ASSUME ToldInv, kind' = kind, UNCHANGED panelVars,
         \A d \in Devices : \A r \in Readings(d) : since'[d][r] = since[d][r] \/ since'[d][r] = 0,
         cache \in [Items -> [seen : BOOLEAN, online : BOOLEAN, age : 0 .. StaleAfter + 1]],
         kind \in Kinds
  PROVE  ToldInv'
<1> SUFFICES ASSUME kind # "hvac", NEW d \in Devices, Told(d)'
             PROVE  cached[d] \in Readings(d) /\ since'[d][cached[d]] <= cache[ItemOf(d)].age + Window
  BY SameKind DEF ToldInv, panelVars
<1>1. Told(d)
  BY SameKind DEF Told, panelVars, Young
<1>2. cached[d] \in Readings(d) /\ since[d][cached[d]] <= cache[ItemOf(d)].age + Window
  BY <1>1 DEF ToldInv
<1>3. 0 <= cache[ItemOf(d)].age + Window
  <2>1. cache[ItemOf(d)] \in [seen : BOOLEAN, online : BOOLEAN, age : 0 .. StaleAfter + 1]
    BY ItemIsItem
  <2>2. cache[ItemOf(d)].age \in 0 .. StaleAfter + 1
    BY <2>1
  <2>3. QED
    BY <2>2, Periods
<1>4. QED
  BY <1>2, <1>3

\* The clients: a device answers, and its reading is new.
LEMMA MeasureStep ==
  ASSUME TeleInv, NEW answer \in Answers, Measure(answer)
  PROVE  TeleInv'
<1>1. TeleTypes /\ SourceInv /\ ZonesTogether /\ ToldInv /\ kind \in Kinds
  BY DEF TeleInv, TeleTypes
<1>2. kind' = kind /\ UNCHANGED panelVars
  BY DEF Measure
<1>3. PICK r \in [answer -> UNION {Readings(d) : d \in answer}] :
        /\ \A d \in answer : r[d] \in Readings(d)
        /\ source' = [d \in Devices |-> IF d \in answer THEN [have |-> TRUE, reading |-> r[d], age |-> 0]
                                                        ELSE source[d]]
        /\ since' = [d \in Devices |-> IF d \in answer THEN [since[d] EXCEPT ![r[d]] = 0] ELSE since[d]]
  BY DEF Measure
<1>4. ASSUME NEW d \in Devices
      PROVE  /\ source'[d].have \in BOOLEAN /\ source'[d].age \in 0 .. Window
             /\ since'[d] \in [Readings(d) -> 0 .. Bound + 1]
             /\ \A x \in Readings(d) : since'[d][x] = since[d][x] \/ since'[d][x] = 0
             /\ source'[d].have =>
                  /\ source'[d].reading \in Readings(d)
                  /\ source'[d].age < Window => since'[d][source'[d].reading] <= source'[d].age
             /\ source'[d] = [have |-> source'[d].have, reading |-> source'[d].reading, age |-> source'[d].age]
  <2>1. /\ source[d].have \in BOOLEAN /\ source[d].age \in 0 .. Window
        /\ since[d] \in [Readings(d) -> 0 .. Bound + 1]
        /\ source[d].have =>
             /\ source[d].reading \in Readings(d)
             /\ source[d].age < Window => since[d][source[d].reading] <= source[d].age
        /\ source[d] = [have |-> source[d].have, reading |-> source[d].reading, age |-> source[d].age]
    BY <1>1 DEF SourceInv, TeleTypes
  <2>2. CASE d \in answer
    <3> DEFINE x == r[d]
    <3>1. /\ x \in Readings(d) /\ source'[d] = [have |-> TRUE, reading |-> x, age |-> 0]
          /\ since'[d] = [since[d] EXCEPT ![x] = 0]
      BY <1>3, <2>2
    <3> HIDE DEF x
    <3>2. 0 \in 0 .. Window /\ 0 \in 0 .. Bound + 1
      BY <1>1, Periods
    <3>3. source'[d].have = TRUE /\ source'[d].reading = x /\ source'[d].age = 0
      BY <3>1
    <3>4. since'[d] \in [Readings(d) -> 0 .. Bound + 1] /\ since'[d][x] = 0
      BY <2>1, <3>1, <3>2
    <3>5. \A y \in Readings(d) : since'[d][y] = since[d][y] \/ since'[d][y] = 0
      BY <2>1, <3>1
    <3>6. QED
      BY <3>1, <3>2, <3>3, <3>4, <3>5
  <2>3. CASE d \notin answer
    <3>1. source'[d] = source[d] /\ since'[d] = since[d]
      BY <1>3, <2>3
    <3>2. QED
      BY <2>1, <3>1
  <2>4. QED
    BY <2>2, <2>3
<1>5. SourceInv'
  BY <1>2, <1>4, SameKind DEF SourceInv
<1>6. ZonesTogether'
  <2> SUFFICES ASSUME kind \in {"hvac", "local"}, NEW d \in Devices, NEW e \in Devices
               PROVE  source'[d].have = source'[e].have /\ source'[d].age = source'[e].age
    BY <1>2, SameKind DEF ZonesTogether
  <2>1. answer = Devices
    BY DEF Answers
  <2>2. source'[d] = [have |-> TRUE, reading |-> r[d], age |-> 0]
    BY <1>3, <2>1
  <2>3. source'[e] = [have |-> TRUE, reading |-> r[e], age |-> 0]
    BY <1>3, <2>1
  <2>4. QED
    BY <2>2, <2>3
<1>7. TeleTypes'
  <2>1. source' = [d \in Devices |-> [have |-> source'[d].have, reading |-> source'[d].reading,
                                       age |-> source'[d].age]]
    <3> DEFINE S(d) == [have |-> source'[d].have, reading |-> source'[d].reading, age |-> source'[d].age]
    <3>1. \A d \in Devices : source'[d] = S(d)
      BY <1>4
    <3> HIDE DEF S
    <3>2. source' = [d \in Devices |-> S(d)]
      BY <1>3, <3>1
    <3>3. QED
      BY <3>2 DEF S
  <2>2. since' = [d \in Devices |-> since'[d]]
    BY <1>3
  <2>3. QED
    BY <1>1, <1>2, <2>1, <2>2, SameKind DEF TeleTypes, panelVars
<1>8. ToldInv'
  BY <1>1, <1>2, <1>4, ToldStays DEF TeleTypes
<1>9. QED
  BY <1>5, <1>6, <1>7, <1>8 DEF TeleInv

\* A client that has nothing holds no wrong reading.
LEMMA ForgetStep ==
  ASSUME TeleInv, LinkLost \/ ProducerRestart
  PROVE  TeleInv'
<1>1. TeleTypes /\ SourceInv /\ ToldInv /\ kind \in Kinds
  BY DEF TeleInv, TeleTypes
<1>2. kind' = kind /\ UNCHANGED panelVars /\ since' = since /\ source' = [d \in Devices |-> NoReading]
  BY DEF LinkLost, ProducerRestart
<1>3. \A d \in Devices : source'[d] = NoReading
  BY <1>2
<1>4. NoReading.have = FALSE /\ NoReading.age = 0
  BY DEF NoReading
<1>5. 0 \in 0 .. Window
  BY <1>1, Periods
<1>6. SourceInv'
  BY <1>1, <1>2, <1>3, <1>4, <1>5, SameKind DEF SourceInv
<1>7. ZonesTogether'
  BY <1>2, <1>3, SameKind DEF ZonesTogether
<1>8. TeleTypes'
  BY <1>1, <1>2, <1>3, SameKind DEF TeleTypes, NoReading, panelVars
<1>9. ToldInv'
  BY <1>1, <1>2, ToldStays DEF TeleTypes
<1>10. QED
  BY <1>6, <1>7, <1>8, <1>9 DEF TeleInv

\* A panel that has just started has been told nothing.
LEMMA PanelRestartStep ==
  ASSUME TeleInv, PanelRestart
  PROVE  TeleInv'
<1>1. TeleTypes /\ SourceInv /\ ZonesTogether /\ kind \in Kinds
  BY DEF TeleInv, TeleTypes
<1>2. /\ kind' = kind /\ UNCHANGED <<source, since>>
      /\ cache' = [i \in Items |-> Unseen] /\ cached' = [d \in Devices |-> <<>>]
  BY DEF PanelRestart
<1>3. SourceInv' /\ ZonesTogether'
  BY <1>1, <1>2, SameKind DEF SourceInv, ZonesTogether
<1>4. ToldInv'
  <2>1. \A i \in Items : cache'[i].seen = FALSE
    BY <1>2 DEF Unseen
  <2>2. QED
    BY <1>2, <2>1, ItemIsItem, SameKind DEF ToldInv, Told, Young
<1>5. TeleTypes'
  <2>1. Unseen \in [seen : BOOLEAN, online : BOOLEAN, age : 0 .. StaleAfter + 1]
    BY <1>1, Periods DEF Unseen
  <2>2. QED
    BY <1>1, <1>2, <2>1, SameKind DEF TeleTypes
<1>6. QED
  BY <1>3, <1>4, <1>5 DEF TeleInv

\* Time: what is stored gets older no slower than it is.
LEMMA TickStep ==
  ASSUME TeleInv, Tick
  PROVE  TeleInv'
<1>1. TeleTypes /\ SourceInv /\ ZonesTogether /\ ToldInv /\ kind \in Kinds
  BY DEF TeleInv, TeleTypes
<1>2. /\ kind' = kind /\ cached' = cached
      /\ source' = [d \in Devices |->
           [source[d] EXCEPT !.age = IF source[d].have THEN Older(@, Window - 1) ELSE @]]
      /\ cache' = [i \in Items |->
           [cache[i] EXCEPT !.age = IF cache[i].seen THEN Older(@, StaleAfter) ELSE @]]
      /\ since' = [d \in Devices |-> [r \in Readings(d) |-> Older(since[d][r], Bound)]]
  BY DEF Tick
<1>3. /\ Window \in Nat \ {0} /\ StaleAfter \in Nat \ {0} /\ Bound \in Nat /\ Bound = Window + StaleAfter + 1
  BY <1>1, Periods
<1>4. ASSUME NEW d \in Devices
      PROVE  /\ source'[d] = [have |-> source[d].have, reading |-> source[d].reading,
                              age |-> IF source[d].have THEN Older(source[d].age, Window - 1) ELSE source[d].age]
             /\ since'[d] = [r \in Readings(d) |-> Older(since[d][r], Bound)]
             /\ since[d] \in [Readings(d) -> 0 .. Bound + 1]
             /\ source[d].have \in BOOLEAN /\ source[d].age \in 0 .. Window
             /\ source[d].have =>
                  /\ source[d].reading \in Readings(d)
                  /\ source[d].age < Window => since[d][source[d].reading] <= source[d].age
  <2>1. source[d] = [have |-> source[d].have, reading |-> source[d].reading, age |-> source[d].age]
    BY <1>1 DEF TeleTypes
  <2>2. source'[d] = [source[d] EXCEPT !.age = IF source[d].have THEN Older(source[d].age, Window - 1) ELSE source[d].age]
    BY <1>2
  <2>3. since'[d] = [r \in Readings(d) |-> Older(since[d][r], Bound)]
    BY <1>2
  <2>4. QED
    BY <1>1, <2>1, <2>2, <2>3 DEF SourceInv
<1>5. ASSUME NEW d \in Devices
      PROVE  /\ source'[d].have \in BOOLEAN /\ source'[d].age \in 0 .. Window
             /\ since'[d] \in [Readings(d) -> 0 .. Bound + 1]
             /\ source'[d].have =>
                  /\ source'[d].reading \in Readings(d)
                  /\ source'[d].age < Window => since'[d][source'[d].reading] <= source'[d].age
             /\ source'[d] = [have |-> source'[d].have, reading |-> source'[d].reading, age |-> source'[d].age]
  <2> DEFINE a == source[d].age
             x == source[d].reading
             h == source[d].have
             b == IF h THEN Older(a, Window - 1) ELSE a
  <2>1. source'[d] = [have |-> h, reading |-> x, age |-> b] /\ h \in BOOLEAN /\ a \in 0 .. Window
    BY <1>4
  <2>2. \A r \in Readings(d) : /\ since[d][r] \in 0 .. Bound + 1
                              /\ since'[d][r] = Older(since[d][r], Bound)
    BY <1>4
  <2>3. h => x \in Readings(d) /\ (a < Window => since[d][x] <= a)
    BY <1>4
  <2>4. \A r \in Readings(d) : Older(since[d][r], Bound) \in 0 .. Bound + 1
    BY <1>3, <2>2 DEF Older
  <2>5. since'[d] \in [Readings(d) -> 0 .. Bound + 1]
    BY <1>4, <2>4
  <2> HIDE DEF a, x, h, b
  <2>6. source'[d].have = h /\ source'[d].reading = x /\ source'[d].age = b
    BY <2>1
  <2>7. h => b = IF a <= Window - 1 THEN a + 1 ELSE a
    BY DEF b, a, Older
  <2>8. ~h => b = a
    BY DEF b, a
  <2>9. b \in 0 .. Window
    BY <1>3, <2>1, <2>7, <2>8
  <2>10. ASSUME h, b < Window PROVE since'[d][x] <= b
    <3>1. a < Window /\ b = a + 1
      BY <1>3, <2>1, <2>7, <2>10
    <3>2. /\ x \in Readings(d) /\ since[d][x] <= a /\ since[d][x] \in 0 .. Bound + 1
          /\ since'[d][x] = Older(since[d][x], Bound)
      BY <2>2, <2>3, <2>10, <3>1
    <3> DEFINE s == since[d][x]
               t == since'[d][x]
               o == Older(s, Bound)
    <3> HIDE DEF s, t, o
    <3>4. s \in Nat /\ s <= a /\ t = o
      BY <1>3, <3>2 DEF s, t, o
    <3>5. o \in Nat /\ o <= s + 1
      BY <1>3, <3>4, OlderIs DEF o
    <3>6. t <= b
      BY <2>1, <3>1, <3>4, <3>5
    <3>7. QED
      BY <3>6 DEF t
  <2>11. QED
    BY <2>1, <2>3, <2>5, <2>6, <2>9, <2>10
<1>6. SourceInv'
  BY <1>2, <1>5, SameKind DEF SourceInv
<1>7. ZonesTogether'
  <2> SUFFICES ASSUME kind \in {"hvac", "local"}, NEW d \in Devices, NEW e \in Devices
               PROVE  source'[d].have = source'[e].have /\ source'[d].age = source'[e].age
    BY <1>2, SameKind DEF ZonesTogether
  <2>1. source[d].have = source[e].have /\ source[d].age = source[e].age
    BY <1>1 DEF ZonesTogether
  <2>2. ASSUME NEW x \in Devices
        PROVE  /\ source'[x].have = source[x].have
               /\ source'[x].age = IF source[x].have THEN Older(source[x].age, Window - 1)
                                   ELSE source[x].age
    <3> DEFINE h == source[x].have
               w == source[x].reading
               b == IF h THEN Older(source[x].age, Window - 1) ELSE source[x].age
    <3>1. source'[x] = [have |-> h, reading |-> w, age |-> b]
      BY <1>4
    <3>2. source'[x].have = h /\ source'[x].age = b
      <4> HIDE DEF h, w, b
      <4>1. QED
        BY <3>1
    <3>3. QED
      BY <3>2
  <2>3. QED
    BY <2>1, <2>2
<1>8. TeleTypes'
  <2>1. source' = [d \in Devices |-> [have |-> source'[d].have, reading |-> source'[d].reading,
                                       age |-> source'[d].age]]
    <3> DEFINE S(d) == [have |-> source'[d].have, reading |-> source'[d].reading, age |-> source'[d].age]
    <3>1. \A d \in Devices : source'[d] = S(d)
      BY <1>5
    <3> HIDE DEF S
    <3>2. source' = [d \in Devices |-> S(d)]
      BY <1>2, <3>1
    <3>3. QED
      BY <3>2 DEF S
  <2>2. since' = [d \in Devices |-> since'[d]]
    BY <1>2
  <2>3. \A n \in 0 .. StaleAfter + 1 : Older(n, StaleAfter) \in 0 .. StaleAfter + 1
    BY <1>3 DEF Older
  <2>4. cache \in [Items -> [seen : BOOLEAN, online : BOOLEAN, age : 0 .. StaleAfter + 1]]
    BY <1>1 DEF TeleTypes
  <2>5. cache' \in [Items -> [seen : BOOLEAN, online : BOOLEAN, age : 0 .. StaleAfter + 1]]
    BY <1>2, <2>3, <2>4
  <2>6. QED
    BY <1>1, <1>2, <2>1, <2>2, <2>5, SameKind DEF TeleTypes
<1>9. ToldInv'
  <2> SUFFICES ASSUME kind # "hvac", NEW d \in Devices, Told(d)'
               PROVE  /\ cached[d] \in Readings(d)
                      /\ since'[d][cached[d]] <= cache'[ItemOf(d)].age + Window
    BY <1>2, SameKind DEF ToldInv
  <2> DEFINE i == ItemOf(d)
             a == cache[i].age
             b == cache'[i].age
             x == cached[d]
  <2>1. i \in Items /\ cache[i] \in [seen : BOOLEAN, online : BOOLEAN, age : 0 .. StaleAfter + 1]
    BY <1>1, ItemIsItem DEF TeleTypes
  <2>2. cache'[i] = [cache[i] EXCEPT !.age = IF cache[i].seen THEN Older(a, StaleAfter) ELSE a]
    BY <1>2, <2>1
  <2>3. /\ a \in 0 .. StaleAfter + 1 /\ cache'[i].seen = cache[i].seen /\ cache'[i].online = cache[i].online
        /\ b = IF cache[i].seen THEN Older(a, StaleAfter) ELSE a
    BY <2>1, <2>2
  <2>4. cache'[i].seen /\ b <= StaleAfter /\ (kind = "shore" \/ cache'[i].online)
    BY <1>2, SameKind DEF Told, Young
  <2>5. ~(kind = "shore" /\ x = <<0>>)
    BY <1>2 DEF Told
  <2> HIDE DEF i, a, b, x
  <2>6. b = IF a <= StaleAfter THEN a + 1 ELSE a
    BY <2>3, <2>4 DEF Older
  <2>7. a <= StaleAfter /\ b = a + 1
    BY <1>3, <2>3, <2>4, <2>6
  <2>8. Told(d)
    BY <2>3, <2>4, <2>5, <2>7 DEF Told, Young, i, a, x
  <2>9. x \in Readings(d) /\ since[d][x] <= a + Window
    BY <1>1, <2>8 DEF ToldInv, x, a, i
  <2>10. since[d][x] \in 0 .. Bound + 1 /\ since'[d][x] = Older(since[d][x], Bound)
    BY <1>4, <2>9
  <2> DEFINE s == since[d][x]
             t == since'[d][x]
             o == Older(s, Bound)
  <2> HIDE DEF s, t, o
  <2>11. s \in Nat /\ s <= a + Window /\ t = o
    BY <1>3, <2>9, <2>10 DEF s, t, o
  <2>12. o \in Nat /\ o <= s + 1
    BY <1>3, <2>11, OlderIs DEF o
  <2>13. t <= b + Window
    BY <1>3, <2>3, <2>7, <2>11, <2>12
  <2>14. QED
    BY <2>9, <2>13 DEF t, b, x, i
<1>10. QED
  BY <1>6, <1>7, <1>8, <1>9 DEF TeleInv

\* What the wire does to the readings the clients decode: nothing.
LEMMA Scaled ==
  ASSUME kind \in {"shore", "battery"}, NEW d \in Devices, NEW r \in Readings(d)
  PROVE  ScaleU16(r) = r
<1>1. CASE kind = "shore"
  <2>1. r = <<1>>
    BY <1>1 DEF Readings
  <2>2. DOMAIN r = 1 .. 1 /\ r[1] = 1 /\ r = [n \in 1 .. 1 |-> r[n]]
    BY <2>1
  <2>3. ScaleU16(r) = [n \in 1 .. 1 |-> IF r[n] < 0 THEN 0 ELSE r[n]]
    BY <2>2 DEF ScaleU16
  <2>4. \A n \in 1 .. 1 : (IF r[n] < 0 THEN 0 ELSE r[n]) = r[n]
    BY <2>2
  <2>5. QED
    BY <2>2, <2>3, <2>4
<1>2. CASE kind = "battery"
  <2>1. r \in (0 .. 100) \X Nat
    BY <1>2, TelemetryAssumption DEF Readings, Devices
  <2>2. PICK a \in 0 .. 100, b \in Nat : r = <<a, b>>
    BY <2>1
  <2>3. DOMAIN r = 1 .. 2 /\ r[1] = a /\ r[2] = b /\ r = [n \in 1 .. 2 |-> r[n]]
    BY <2>2
  <2>4. ScaleU16(r) = [n \in 1 .. 2 |-> IF r[n] < 0 THEN 0 ELSE r[n]]
    BY <2>3 DEF ScaleU16
  <2>5. \A n \in 1 .. 2 : (IF r[n] < 0 THEN 0 ELSE r[n]) = r[n]
    BY <2>3
  <2>6. QED
    BY <2>3, <2>4, <2>5
<1>3. QED
  BY <1>1, <1>2

\* What remote_telem_rx stores has its type.
LEMMA DeliverTypes ==
  ASSUME NEW frames, Deliver(frames), cache \in [Items -> Slots], kind \in Kinds
  PROVE  cache' \in [Items -> Slots]
<1>1. 0 \in 0 .. StaleAfter + 1
  BY Periods
<1>2. \A on \in BOOLEAN : Stored(on) \in Slots
  BY <1>1 DEF Stored, Slots
<1>3. PICK got \in SUBSET frames :
        cache' = [i \in Items |->
                   IF \E f \in got : f.item = i
                     THEN Stored(\E f \in got : f.item = i /\ f.online)
                     ELSE cache[i]]
  BY DEF Deliver
<1>4. \A i \in Items : cache'[i] = cache[i] \/ cache'[i] = Stored(\E f \in got : f.item = i /\ f.online)
  BY <1>3
<1>5. \A i \in Items : cache'[i] \in Slots
  <2> SUFFICES ASSUME NEW i \in Items PROVE cache'[i] \in Slots
    OBVIOUS
  <2>1. (\E f \in got : f.item = i /\ f.online) \in BOOLEAN
    OBVIOUS
  <2>2. QED
    BY <1>2, <1>4, <2>1
<1>6. QED
  BY <1>3, <1>5

\* A frame that is the only one to speak of a device arrives whole or not at all.
LEMMA Delivered ==
  ASSUME NEW frames, Deliver(frames), NEW d \in Devices, NEW F \in frames,
         \A f \in frames : (f.item = ItemOf(d) <=> f = F) /\ (d \in DOMAIN f.readings <=> f = F)
  PROVE  \/ cache'[ItemOf(d)] = cache[ItemOf(d)] /\ cached'[d] = cached[d]
         \/ (cache'[ItemOf(d)].online => F.online) /\ cached'[d] = F.readings[d]
<1>1. PICK got \in SUBSET frames :
        /\ cache' = [i \in Items |->
                   IF \E f \in got : f.item = i
                     THEN Stored(\E f \in got : f.item = i /\ f.online)
                     ELSE cache[i]]
        /\ cached' = [x \in Devices |->
                    IF \E f \in got : x \in DOMAIN f.readings
                      THEN (CHOOSE f \in got : x \in DOMAIN f.readings).readings[x]
                      ELSE cached[x]]
  BY DEF Deliver
<1>2. ItemOf(d) \in Items
  BY ItemIsItem
<1>3. CASE F \in got
  <2>1. (CHOOSE f \in got : d \in DOMAIN f.readings) = F
    BY <1>3
  <2>2. cached'[d] = F.readings[d]
    BY <1>1, <1>3, <2>1
  <2>3. cache'[ItemOf(d)] = Stored(\E f \in got : f.item = ItemOf(d) /\ f.online)
    BY <1>1, <1>2, <1>3
  <2>4. cache'[ItemOf(d)].online = (\E f \in got : f.item = ItemOf(d) /\ f.online)
    BY <2>3 DEF Stored
  <2>5. QED
    BY <2>2, <2>4
<1>4. CASE F \notin got
  BY <1>1, <1>2, <1>4
<1>5. QED
  BY <1>3, <1>4

\* The producers: a panel takes what it has stored for a reading only if that, or what
\* it stored before, was young in the client.
LEMMA StoredStep ==
  ASSUME TeleInv, kind' = kind, UNCHANGED <<source, since>>, cache' \in [Items -> Slots],
         kind # "hvac" =>
           \A d \in Devices : Told(d)' =>
             \/ cache'[ItemOf(d)] = cache[ItemOf(d)] /\ cached'[d] = cached[d]
             \/ Available(d) /\ cached'[d] = source[d].reading
  PROVE  TeleInv'
<1>1. TeleTypes /\ SourceInv /\ ZonesTogether /\ ToldInv /\ kind \in Kinds
  BY DEF TeleInv, TeleTypes
<1>2. SourceInv' /\ ZonesTogether' /\ TeleTypes'
  BY <1>1, SameKind DEF SourceInv, ZonesTogether, TeleTypes, Slots
<1>3. ToldInv'
  <2> SUFFICES ASSUME kind # "hvac", NEW d \in Devices, Told(d)'
               PROVE  /\ cached'[d] \in Readings(d)
                      /\ since[d][cached'[d]] <= cache'[ItemOf(d)].age + Window
    BY SameKind DEF ToldInv
  <2>1. CASE cache'[ItemOf(d)] = cache[ItemOf(d)] /\ cached'[d] = cached[d]
    <3>1. Told(d)
      BY <2>1, SameKind DEF Told, Young
    <3>2. QED
      BY <1>1, <2>1, <3>1 DEF ToldInv
  <2>2. CASE Available(d) /\ cached'[d] = source[d].reading
    <3> DEFINE r == source[d].reading
               s == since[d][r]
               a == source[d].age
               b == cache'[ItemOf(d)].age
    <3>1. r \in Readings(d) /\ s <= a /\ a < Window /\ since[d] \in [Readings(d) -> 0 .. Bound + 1] /\ a \in 0 .. Window
      BY <1>1, <2>2 DEF SourceInv, Available
    <3>2. s \in 0 .. Bound + 1
      BY <3>1
    <3>3. cache'[ItemOf(d)] \in Slots
      BY ItemIsItem
    <3>4. b \in 0 .. StaleAfter + 1
      BY <3>3 DEF Slots
    <3>5. cached'[d] = r
      BY <2>2
    <3> HIDE DEF r, s, a, b
    <3>6. s <= b + Window
      BY <1>1, <3>1, <3>2, <3>4, Periods
    <3>7. QED
      BY <3>1, <3>5, <3>6 DEF s, b
  <2>3. QED
    BY <2>1, <2>2
<1>4. QED
  BY <1>2, <1>3 DEF TeleInv

\* What all three frames have in common, to cite StoredStep.
LEMMA SlotsThere ==
  ASSUME TeleInv
  PROVE  cache \in [Items -> Slots] /\ kind \in Kinds
BY DEF TeleInv, TeleTypes, Slots

\* What get_reading hands out is a reading.
LEMMA ReadingOfAvailable ==
  ASSUME TeleInv, NEW d \in Devices, Available(d)
  PROVE  source[d].reading \in Readings(d)
BY DEF TeleInv, SourceInv, Available

\* broadcast_shore_power: the one frame speaks of both lines, a zero of the silent one.
LEMMA ShoreStep ==
  ASSUME TeleInv, BroadcastShore
  PROVE  TeleInv'
<1>1. kind = "shore" /\ kind' = kind /\ UNCHANGED <<source, since>>
  BY DEF BroadcastShore, Passed
<1>2. CASE UNCHANGED <<cache, cached>>
  BY <1>1, <1>2, StoredStep, SlotsThere, SameKind DEF Slots
<1> DEFINE readings == [d \in Lines |-> IF Available(d) THEN ScaleU16(source[d].reading) ELSE <<0>>]
           F == Frame("all", TRUE, readings)
<1>3. CASE Deliver({F})
  <2>1. cache' \in [Items -> Slots]
    BY <1>3, DeliverTypes, SlotsThere
  <2>2. F.item = "all" /\ F.online = TRUE /\ F.readings = readings
    BY DEF Frame
  <2>3. ASSUME NEW d \in Devices, Told(d)'
        PROVE  \/ cache'[ItemOf(d)] = cache[ItemOf(d)] /\ cached'[d] = cached[d]
               \/ Available(d) /\ cached'[d] = source[d].reading
    <3>1. d \in Lines /\ ItemOf(d) = "all" /\ DOMAIN readings = Lines
      BY <1>1 DEF Devices, ItemOf
    <3>2. \A f \in {F} : (f.item = ItemOf(d) <=> f = F) /\ (d \in DOMAIN f.readings <=> f = F)
      <4> HIDE DEF F, readings
      <4>1. QED
        BY <2>2, <3>1
    <3>3. \/ cache'[ItemOf(d)] = cache[ItemOf(d)] /\ cached'[d] = cached[d]
          \/ cached'[d] = F.readings[d]
      <4> HIDE DEF F, readings
      <4>1. QED
        BY <1>3, <3>2, Delivered
    <3>4. cached'[d] # <<0>>
      BY <1>1, <2>3 DEF Told
    <3>5. CASE cached'[d] = F.readings[d]
      <4>1. cached'[d] = IF Available(d) THEN ScaleU16(source[d].reading) ELSE <<0>>
        BY <2>2, <3>1, <3>5
      <4>2. Available(d) /\ cached'[d] = ScaleU16(source[d].reading)
        BY <3>4, <4>1
      <4>3. QED
        BY <1>1, <4>2, ReadingOfAvailable, Scaled
    <3>6. QED
      BY <3>3, <3>5
  <2>4. QED
    BY <1>1, <2>1, <2>3, StoredStep
<1>4. QED
  BY <1>2, <1>3 DEF BroadcastShore

\* broadcast_batteries: a frame per pack, each with its own cache on the panel.
LEMMA BatteriesStep ==
  ASSUME TeleInv, BroadcastBatteries
  PROVE  TeleInv'
<1>1. kind = "battery" /\ kind' = kind /\ UNCHANGED <<source, since>>
  BY DEF BroadcastBatteries, SlowBroadcast, Passed
<1>2. CASE UNCHANGED <<cache, cached>>
  BY <1>1, <1>2, StoredStep, SlotsThere, SameKind DEF Slots
<1> DEFINE frames == {PackFrame(d) : d \in PACKS}
<1>3. CASE Deliver(frames)
  <2>1. cache' \in [Items -> Slots]
    BY <1>3, DeliverTypes, SlotsThere
  <2>2. \A x \in PACKS :
          /\ PackFrame(x).item = x /\ DOMAIN PackFrame(x).readings = {x}
          /\ PackFrame(x).online => Available(x)
          /\ Available(x) => PackFrame(x).readings[x] = ScaleU16(source[x].reading)
    BY DEF PackFrame, Frame, Available
  <2>3. ASSUME NEW d \in Devices, Told(d)'
        PROVE  \/ cache'[ItemOf(d)] = cache[ItemOf(d)] /\ cached'[d] = cached[d]
               \/ Available(d) /\ cached'[d] = source[d].reading
    <3> DEFINE F == PackFrame(d)
    <3>1. d \in PACKS /\ ItemOf(d) = d /\ F \in frames
      BY <1>1 DEF Devices, ItemOf
    <3>2. \A f \in frames : (f.item = ItemOf(d) <=> f = F) /\ (d \in DOMAIN f.readings <=> f = F)
      <4> SUFFICES ASSUME NEW x \in PACKS
                   PROVE  /\ PackFrame(x).item = ItemOf(d) <=> PackFrame(x) = F
                          /\ d \in DOMAIN PackFrame(x).readings <=> PackFrame(x) = F
        OBVIOUS
      <4>1. /\ PackFrame(x).item = x /\ DOMAIN PackFrame(x).readings = {x}
            /\ PackFrame(d).item = d /\ DOMAIN PackFrame(d).readings = {d}
        BY <2>2, <3>1, Zenon
      <4>2. QED
        BY <3>1, <4>1
    <3>3. \/ cache'[ItemOf(d)] = cache[ItemOf(d)] /\ cached'[d] = cached[d]
          \/ (cache'[ItemOf(d)].online => F.online) /\ cached'[d] = F.readings[d]
      <4> HIDE DEF frames, F
      <4>1. QED
        BY <1>3, <3>1, <3>2, Delivered
    <3>4. cache'[ItemOf(d)].online
      BY <1>1, <2>3, SameKind DEF Told
    <3>5. CASE F.online /\ cached'[d] = F.readings[d]
      <4>1. /\ PackFrame(d).online => Available(d)
            /\ Available(d) => PackFrame(d).readings[d] = ScaleU16(source[d].reading)
        BY <2>2, <3>1, Zenon
      <4>2. Available(d) /\ cached'[d] = ScaleU16(source[d].reading)
        BY <3>5, <4>1
      <4>3. QED
        BY <1>1, <4>2, ReadingOfAvailable, Scaled
    <3>6. QED
      BY <3>3, <3>4, <3>5
  <2>4. QED
    BY <1>1, <2>1, <2>3, StoredStep
<1>4. QED
  BY <1>2, <1>3 DEF BroadcastBatteries, SlowBroadcast

\* broadcast_solar: one frame.
LEMMA SolarStep ==
  ASSUME TeleInv, BroadcastSolar
  PROVE  TeleInv'
<1>1. kind = "solar" /\ kind' = kind /\ UNCHANGED <<source, since>>
  BY DEF BroadcastSolar, SlowBroadcast, Passed
<1>2. CASE UNCHANGED <<cache, cached>>
  BY <1>1, <1>2, StoredStep, SlotsThere, SameKind DEF Slots
<1> DEFINE frames == {SolarFrame(d) : d \in Devices}
<1>3. CASE Deliver(frames)
  <2>1. cache' \in [Items -> Slots]
    BY <1>3, DeliverTypes, SlotsThere
  <2>2. \A x \in Devices :
          /\ SolarFrame(x).item = "all" /\ DOMAIN SolarFrame(x).readings = {x}
          /\ SolarFrame(x).online => Available(x)
          /\ Available(x) => SolarFrame(x).readings[x] = source[x].reading
    BY DEF SolarFrame, Frame, Available, SolarFields, ScaleI16
  <2>3. ASSUME NEW d \in Devices, Told(d)'
        PROVE  \/ cache'[ItemOf(d)] = cache[ItemOf(d)] /\ cached'[d] = cached[d]
               \/ Available(d) /\ cached'[d] = source[d].reading
    <3> DEFINE F == SolarFrame(d)
    <3>1. Devices = {d} /\ ItemOf(d) = "all" /\ F \in frames /\ \A f \in frames : f = F
      BY <1>1 DEF Devices, ItemOf
    <3>2. \A f \in frames : (f.item = ItemOf(d) <=> f = F) /\ (d \in DOMAIN f.readings <=> f = F)
      <4>1. F.item = "all" /\ DOMAIN F.readings = {d}
        BY <2>2, Zenon
      <4> HIDE DEF F, frames
      <4>2. QED
        BY <3>1, <4>1
    <3>3. \/ cache'[ItemOf(d)] = cache[ItemOf(d)] /\ cached'[d] = cached[d]
          \/ (cache'[ItemOf(d)].online => F.online) /\ cached'[d] = F.readings[d]
      <4> HIDE DEF frames, F
      <4>1. QED
        BY <1>3, <3>1, <3>2, Delivered
    <3>4. cache'[ItemOf(d)].online
      BY <1>1, <2>3, SameKind DEF Told
    <3>5. (F.online => Available(d)) /\ (Available(d) => F.readings[d] = source[d].reading)
      BY <2>2, Zenon
    <3>6. QED
      <4> HIDE DEF F
      <4>1. QED
        BY <3>3, <3>4, <3>5
  <2>4. QED
    BY <1>1, <2>1, <2>3, StoredStep
<1>4. QED
  BY <1>2, <1>3 DEF BroadcastSolar, SlowBroadcast

\* The thermostat on the air: its stored copies on other panels are not in ToldInv.
LEMMA AirStep ==
  ASSUME TeleInv, PumpToAir
  PROVE  TeleInv'
<1>1. kind = "hvac" /\ kind' = kind /\ UNCHANGED <<source, since>>
  BY DEF PumpToAir, Passed
<1>2. cache' \in [Items -> Slots]
  <2>1. CASE UNCHANGED cache
    BY <1>1, <2>1, SlotsThere, SameKind
  <2>2. ASSUME NEW frames, Deliver(frames) PROVE cache' \in [Items -> Slots]
    BY <2>2, DeliverTypes, SlotsThere
  <2>3. QED
    BY <2>1, <2>2 DEF PumpToAir
<1>3. QED
  BY <1>1, <1>2, StoredStep

\* hvac_pump_timer_cb to the own screen: all zones were read at once, so when one is young
\* all are.
LEMMA UiStep ==
  ASSUME TeleInv, PumpToUi
  PROVE  TeleInv'
<1>1. kind = "local" /\ kind' = kind /\ UNCHANGED <<source, since>>
  BY DEF PumpToUi, Passed
<1>2. cache \in [Items -> Slots] /\ kind \in Kinds /\ ZonesTogether
  BY SlotsThere DEF TeleInv
<1>3. CASE /\ \E d \in Devices : Available(d)
           /\ cache' = [i \in Items |-> Stored(TRUE)]
           /\ cached' = [d \in Devices |-> source[d].reading]
  <2>1. Stored(TRUE) \in Slots
    BY <1>2, Periods DEF Stored, Slots
  <2>2. cache' \in [Items -> Slots]
    BY <1>3, <2>1
  <2>3. \A d \in Devices : Available(d)
    BY <1>1, <1>2, <1>3 DEF ZonesTogether, Available
  <2>4. \A d \in Devices : cached'[d] = source[d].reading
    BY <1>3
  <2>5. QED
    BY <1>1, <2>2, <2>3, <2>4, StoredStep
<1>4. CASE /\ cache' = [i \in Items |-> [cache[i] EXCEPT !.online = FALSE]]
           /\ UNCHANGED cached
  <2>1. \A i \in Items : [cache[i] EXCEPT !.online = FALSE] \in Slots
    BY <1>2 DEF Slots
  <2>2. cache' \in [Items -> Slots]
    BY <1>4, <2>1
  <2>3. ASSUME NEW d \in Devices PROVE ~Told(d)'
    <3>1. cache[ItemOf(d)] \in Slots /\ cache'[ItemOf(d)] = [cache[ItemOf(d)] EXCEPT !.online = FALSE]
      BY <1>2, <1>4, ItemIsItem
    <3>2. cache'[ItemOf(d)].online = FALSE
      BY <3>1 DEF Slots
    <3>3. QED
      BY <1>1, <3>2, SameKind DEF Told
  <2>4. QED
    BY <1>1, <2>2, <2>3, StoredStep
<1>5. QED
  BY <1>3, <1>4 DEF PumpToUi

-----------------------------------------------------------------------------
(* The readout *)

\* Every step keeps the invariant.
LEMMA TeleStep == TeleInv /\ [TelemetryNext]_telemetryVars => TeleInv'
<1> SUFFICES ASSUME TeleInv, [TelemetryNext]_telemetryVars PROVE TeleInv'
  OBVIOUS
<1>1. CASE \E answer \in Answers : Measure(answer)
  BY <1>1, MeasureStep
<1>2. CASE LinkLost \/ ProducerRestart
  BY <1>2, ForgetStep
<1>3. CASE PanelRestart
  BY <1>3, PanelRestartStep
<1>4. CASE Settle
  <2>1. UNCHANGED <<kind, source, cache, cached, since>>
    BY <1>4 DEF Settle, panelVars
  <2>2. QED
    BY <2>1, StoredStep, SlotsThere, SameKind DEF Slots
<1>5. CASE Produce
  BY <1>5, ShoreStep, BatteriesStep, SolarStep, AirStep, UiStep DEF Produce
<1>6. CASE Tick
  BY <1>6, TickStep
<1>7. CASE UNCHANGED telemetryVars
  <2>1. UNCHANGED <<kind, source, cache, cached, since>>
    BY <1>7 DEF telemetryVars
  <2>2. QED
    BY <2>1, StoredStep, SlotsThere, SameKind DEF Slots
<1>8. QED
  BY <1>1, <1>2, <1>3, <1>4, <1>5, <1>6, <1>7 DEF TelemetryNext

\* Through any loss of links, frames and state: clients hold readings of their devices no
\* younger than they say (get_reading, get_status, healthy), and what a panel takes for a
\* reading (ui.c, the staleness windows) was one within the client's window of the time it
\* arrived.
THEOREM TelemetryKept == TelemetrySpec => []TeleInv
<1>1. TelemetryInit => TeleInv
  BY TeleStart
<1>2. TeleInv /\ [TelemetryNext]_telemetryVars => TeleInv'
  BY TeleStep
<1>3. QED
  BY <1>1, <1>2, PTL DEF TelemetrySpec

\* A readout other than "--" and than a line's zero is what the panel has been told.
LEMMA ShownIsTold ==
  ASSUME kind \in Kinds, kind # "hvac", NEW d \in Devices, Shown(d) # <<>>, ~ZeroReading(d)
  PROVE  Told(d) /\ Shown(d) = cached[d]
<1>1. CASE kind = "shore"
  <2>1. Shown(d) = ShorePanel(d) /\ ItemOf(d) = "all"
    BY <1>1 DEF Shown, ItemOf
  <2>2. Young("all") /\ ShorePanel(d) = cached[d]
    BY <2>1 DEF ShorePanel, ShoreValid
  <2>3. cached[d] # <<0>>
    BY <1>1, <2>1, <2>2 DEF ZeroReading
  <2>4. QED
    BY <1>1, <2>1, <2>2, <2>3 DEF Told
<1>2. CASE kind = "battery"
  <2>1. Shown(d) = PackRow(d) /\ ItemOf(d) = d
    BY <1>2 DEF Shown, ItemOf
  <2>2. d \in LivePacks /\ PackRow(d) = cached[d]
    BY <2>1 DEF PackRow
  <2>3. QED
    BY <1>2, <2>1, <2>2 DEF LivePacks, Fresh, Told
<1>3. CASE kind = "solar"
  BY <1>3 DEF Shown, ItemOf, SolarPanel, SolarValid, Told
<1>4. CASE kind = "local"
  BY <1>4 DEF Shown, ItemOf, ZonePage, HvacValid, Told
<1>5. QED
  BY <1>1, <1>2, <1>3, <1>4 DEF Kinds

\* Both windows together bound the age of what is on display.
LEMMA ToldIsFresh == TeleInv => LiveIsFresh
<1> SUFFICES ASSUME TeleInv, kind # "hvac", NEW d \in Devices, Shown(d) # <<>>, ~ZeroReading(d)
             PROVE  Recent(d)
  BY DEF LiveIsFresh
<1>1. TeleTypes /\ SourceInv /\ ToldInv /\ kind \in Kinds
  BY DEF TeleInv, TeleTypes
<1>2. Told(d) /\ Shown(d) = cached[d]
  BY <1>1, ShownIsTold
<1> DEFINE r == cached[d]
           s == since[d][r]
           a == cache[ItemOf(d)].age
<1>3. r \in Readings(d) /\ s <= a + Window /\ a <= StaleAfter
  BY <1>1, <1>2 DEF ToldInv, Told, Young
<1>4. since[d] \in [Readings(d) -> 0 .. Bound + 1]
  BY <1>1 DEF SourceInv
<1>5. s \in 0 .. Bound + 1
  BY <1>3, <1>4
<1>6. cache[ItemOf(d)] \in Slots
  BY SlotsThere, ItemIsItem
<1>7. a \in 0 .. StaleAfter + 1
  BY <1>6 DEF Slots
<1>8. s <= Bound
  <2> HIDE DEF s, a
  <2>1. QED
    BY <1>1, <1>3, <1>5, <1>7, Periods
<1>9. QED
  BY <1>2, <1>3, <1>8 DEF Recent

\* No readout tells an older reading than the client's window and the panel's window
\* together allow (ui.c:64-92), whatever the poll intervals and windows are: neither a lost
\* link, nor lost frames, nor a restart of either end leaves one on display.
THEOREM FreshKept == TelemetrySpec => []LiveIsFresh
<1>1. TeleInv => LiveIsFresh
  BY ToldIsFresh
<1>2. QED
  BY <1>1, TelemetryKept, PTL

-----------------------------------------------------------------------------
(* Induction along the naturals: jbd_bms_combine goes through the packs one *)
(* by one, as a function defined by recursion.                             *)

\* Numbers have a least one among them.
LEMMA LeastNat ==
  ASSUME NEW T, T \subseteq Nat, T # {}
  PROVE  \E x \in T : \A y \in T : x <= y
<1> DEFINE R == OpToRel(<, Nat)
<1>1. IsWellFoundedOn(R, Nat)
  BY NatLessThanWellFounded
<1>2. R = {ss \in Nat \X Nat : ss[1] < ss[2]}
  BY DEF OpToRel
<1> HIDE DEF R
<1>3. PICK x \in T : \A y \in T : ~(<<y, x>> \in R)
  BY <1>1, WFMin
<1>4. ASSUME NEW y \in T PROVE x <= y
  <2>1. x \in Nat /\ y \in Nat
    OBVIOUS
  <2>2. <<y, x>> \in Nat \X Nat
    BY <2>1
  <2>3. ~(<<y, x>> \in R)
    BY <1>3
  <2>4. ~(y < x)
    BY <1>2, <2>2, <2>3
  <2>5. QED
    BY <2>1, <2>4
<1>5. QED
  BY <1>4

\* A set of numbers that holds 0 and goes on as far as n holds them all.
LEMMA UpTo ==
  ASSUME NEW n \in Nat, NEW T, 0 \in T, \A k \in 1 .. n : k - 1 \in T => k \in T
  PROVE  0 .. n \subseteq T
<1> DEFINE Rest == (0 .. n) \ T
<1> SUFFICES ASSUME Rest # {} PROVE FALSE
  OBVIOUS
<1>1. Rest \subseteq Nat
  OBVIOUS
<1>2. PICK m \in Rest : \A y \in Rest : m <= y
  <2> HIDE DEF Rest
  <2>1. QED
    BY <1>1, LeastNat
<1>3. m \in 1 .. n /\ m \notin T
  BY <1>2
<1>4. m - 1 \in T
  BY <1>2, <1>3
<1>5. QED
  BY <1>3, <1>4

\* f iterates the functions of g, one after the other, from c on.
Iterates(f, n, S, c, g) ==
  f \in [0 .. n -> S] /\ f[0] = c /\ \A k \in 1 .. n : f[k] = g[k][f[k - 1]]

\* There is such a function.
LEMMA IterationExists ==
  ASSUME NEW n \in Nat, NEW S, NEW c \in S, NEW g \in [1 .. n -> [S -> S]]
  PROVE  \E f : Iterates(f, n, S, c, g)
<1> DEFINE Good == {m \in 0 .. n : \E f : Iterates(f, m, S, c, g)}
<1>1. 0 \in Good
  <2> DEFINE f == [k \in 0 .. 0 |-> c]
  <2>1. f \in [0 .. 0 -> S] /\ f[0] = c /\ \A k \in 1 .. 0 : f[k] = g[k][f[k - 1]]
    OBVIOUS
  <2>2. Iterates(f, 0, S, c, g)
    BY <2>1 DEF Iterates
  <2>3. QED
    BY <2>2
<1>2. ASSUME NEW m \in 1 .. n, m - 1 \in Good PROVE m \in Good
  <2>1. PICK f : Iterates(f, m - 1, S, c, g)
    BY <1>2
  <2>2. f \in [0 .. m - 1 -> S] /\ f[0] = c /\ \A k \in 1 .. m - 1 : f[k] = g[k][f[k - 1]]
    BY <2>1 DEF Iterates
  <2> DEFINE h == [k \in 0 .. m |-> IF k < m THEN f[k] ELSE g[m][f[m - 1]]]
  <2>3. f[m - 1] \in S
    BY <2>2
  <2>4. g[m][f[m - 1]] \in S
    BY <2>3
  <2>5. h \in [0 .. m -> S] /\ h[0] = c
    BY <2>2, <2>4
  <2>6. ASSUME NEW k \in 1 .. m PROVE h[k] = g[k][h[k - 1]]
    BY <2>2, <2>3
  <2>7. Iterates(h, m, S, c, g)
    <3> HIDE DEF h
    <3>1. QED
      BY <2>5, <2>6 DEF Iterates
  <2>8. QED
    BY <2>7
<1>3. n \in Good
  <2> HIDE DEF Good
  <2>1. 0 .. n \subseteq Good
    BY <1>1, <1>2, UpTo
  <2>2. QED
    BY <2>1
<1>4. QED
  BY <1>3

-----------------------------------------------------------------------------
(* Sums over a finite set. *)

First(s) == CHOOSE x \in s : TRUE

\* The body of the recursion by which Sum is defined.
Added(f, w, s) == IF s = {} THEN 0 ELSE f[s \ {First(s)}] + w[First(s)]

\* f[s] is the sum of w over s, for every subset s of S.
IsSum(f, S, w) == f = [s \in SUBSET S |-> Added(f, w, s)]

\* A set that is not empty has a first element.
LEMMA FirstIsIn ==
  ASSUME NEW s, s # {}
  PROVE  First(s) \in s
BY DEF First

\* A subset is finite, and one smaller without its first element.
LEMMA SmallerSet ==
  ASSUME NEW S, IsFiniteSet(S), NEW s \in SUBSET S
  PROVE  /\ IsFiniteSet(s) /\ Cardinality(s) \in Nat /\ Cardinality(s) <= Cardinality(S)
         /\ s # {} => /\ s \ {First(s)} \in SUBSET S /\ First(s) \in S
                      /\ Cardinality(s \ {First(s)}) = Cardinality(s) - 1
<1>1. IsFiniteSet(s) /\ Cardinality(s) <= Cardinality(S)
  BY FS_Subset
<1>2. Cardinality(s) \in Nat /\ Cardinality(S) \in Nat
  BY <1>1, FS_CardinalityType
<1>3. ASSUME s # {} PROVE First(s) \in s /\ Cardinality(s \ {First(s)}) = Cardinality(s) - 1
  BY <1>1, <1>3, FirstIsIn, FS_RemoveElement
<1>4. QED
  BY <1>1, <1>2, <1>3

\* The recursion defines a function: after as many rounds as there are elements, another
\* one changes nothing.
LEMMA SumExists ==
  ASSUME NEW S, IsFiniteSet(S), NEW w \in [S -> Int]
  PROVE  \E f : IsSum(f, S, w)
<1> DEFINE n == Cardinality(S) + 1
           Tables == [SUBSET S -> Int]
           Next(f) == [s \in SUBSET S |-> Added(f, w, s)]
           zero == [s \in SUBSET S |-> 0]
           g == [k \in 1 .. n |-> [f \in Tables |-> Next(f)]]
<1>1. n \in Nat
  BY FS_CardinalityType
<1>2. ASSUME NEW f \in Tables PROVE Next(f) \in Tables
  <2>1. ASSUME NEW s \in SUBSET S PROVE Added(f, w, s) \in Int
    <3>1. CASE s = {}
      BY <3>1 DEF Added
    <3>2. CASE s # {}
      <4>1. s \ {First(s)} \in SUBSET S /\ First(s) \in S
        BY <3>2, SmallerSet
      <4>2. f[s \ {First(s)}] \in Int /\ w[First(s)] \in Int
        BY <4>1
      <4>3. QED
        BY <3>2, <4>2 DEF Added
    <3>3. QED
      BY <3>1, <3>2
  <2>2. QED
    BY <2>1
<1>3. zero \in Tables
  OBVIOUS
<1>4. g \in [1 .. n -> [Tables -> Tables]]
  BY <1>2
<1>5. PICK F : Iterates(F, n, Tables, zero, g)
  <2> HIDE DEF n, Tables, zero, g
  <2>1. QED
    BY <1>1, <1>3, <1>4, IterationExists
<1>6. F \in [0 .. n -> Tables] /\ \A k \in 1 .. n : F[k] = g[k][F[k - 1]]
  BY <1>5 DEF Iterates
<1>7. ASSUME NEW k \in 1 .. n
      PROVE  F[k - 1] \in Tables /\ F[k] = Next(F[k - 1]) /\ F[k] \in Tables
  <2>1. k - 1 \in 0 .. n /\ k \in 0 .. n
    BY <1>1
  <2> HIDE DEF n, Tables, Next
  <2>2. F[k - 1] \in Tables /\ F[k] \in Tables
    BY <1>6, <2>1
  <2>3. QED
    BY <1>6, <2>2
<1> DEFINE Done == {k \in 0 .. n : \A s \in SUBSET S : Cardinality(s) < k => F[k][s] = Added(F[k], w, s)}
<1>8. 0 \in Done
  <2>1. ASSUME NEW s \in SUBSET S PROVE ~(Cardinality(s) < 0)
    <3>1. Cardinality(s) \in Nat
      BY SmallerSet
    <3>2. QED
      BY <3>1
  <2>2. QED
    BY <1>1, <2>1
<1>9. ASSUME NEW k \in 1 .. n, k - 1 \in Done PROVE k \in Done
  <2> SUFFICES ASSUME NEW s \in SUBSET S, Cardinality(s) < k PROVE F[k][s] = Added(F[k], w, s)
    BY <1>1
  <2>1. F[k][s] = Added(F[k - 1], w, s)
    BY <1>7
  <2>2. CASE s = {}
    BY <2>1, <2>2 DEF Added
  <2>3. CASE s # {}
    <3> DEFINE t == s \ {First(s)}
    <3>1. t \in SUBSET S /\ Cardinality(t) = Cardinality(s) - 1 /\ Cardinality(s) \in Nat
      BY <2>3, SmallerSet
    <3>2. Cardinality(t) < k - 1
      <4> HIDE DEF t, n
      <4>1. QED
        BY <1>1, <3>1
    <3>3. F[k - 1][t] = Added(F[k - 1], w, t)
      <4> HIDE DEF t, n
      <4>1. QED
        BY <1>9, <3>1, <3>2
    <3>4. F[k][t] = Added(F[k - 1], w, t)
      <4> HIDE DEF t, n
      <4>1. QED
        BY <1>7, <3>1
    <3>5. F[k][t] = F[k - 1][t]
      BY <3>3, <3>4
    <3>6. QED
      BY <2>1, <2>3, <3>5 DEF Added
  <2>4. QED
    BY <2>2, <2>3
<1>10. n \in Done
  <2> HIDE DEF Done, n
  <2>1. 0 .. n \subseteq Done
    BY <1>1, <1>8, <1>9, UpTo
  <2>2. QED
    BY <1>1, <2>1
<1>11. ASSUME NEW s \in SUBSET S PROVE F[n][s] = Added(F[n], w, s)
  <2>1. Cardinality(s) \in Nat /\ Cardinality(s) <= Cardinality(S) /\ Cardinality(S) \in Nat
    BY SmallerSet, FS_CardinalityType
  <2>2. Cardinality(s) < n
    BY <2>1
  <2>3. QED
    BY <1>10, <2>2
<1>12. F[n] \in Tables
  <2> HIDE DEF n, Tables
  <2>1. n \in 0 .. n
    BY <1>1
  <2>2. QED
    BY <1>6, <2>1
<1>13. IsSum(F[n], S, w)
  <2> HIDE DEF n
  <2>1. QED
    BY <1>11, <1>12 DEF IsSum
<1>14. QED
  BY <1>13

\* What lies between multiples item by item does so in the sum.
LEMMA SumBetween ==
  ASSUME NEW S, IsFiniteSet(S), NEW a \in [S -> Nat], NEW b \in [S -> Nat],
         NEW f, IsSum(f, S, a), NEW p, IsSum(p, S, b), NEW lo \in Nat, NEW hi \in Nat,
         \A d \in S : lo * a[d] <= b[d] /\ b[d] <= hi * a[d]
  PROVE  f[S] \in Nat /\ p[S] \in Nat /\ lo * f[S] <= p[S] /\ p[S] <= hi * f[S]
<1> DEFINE n == Cardinality(S)
           Holds(s) == f[s] \in Nat /\ p[s] \in Nat /\ lo * f[s] <= p[s] /\ p[s] <= hi * f[s]
           Done == {k \in 0 .. n : \A s \in SUBSET S : Cardinality(s) = k => Holds(s)}
<1>1. n \in Nat
  BY FS_CardinalityType
<1>2. \A s \in SUBSET S : f[s] = Added(f, a, s) /\ p[s] = Added(p, b, s)
  BY DEF IsSum
<1>3. 0 \in Done
  <2> SUFFICES ASSUME NEW s \in SUBSET S, Cardinality(s) = 0 PROVE Holds(s)
    BY <1>1
  <2>1. s = {}
    BY SmallerSet, FS_EmptySet
  <2>2. f[s] = 0 /\ p[s] = 0
    BY <1>2, <2>1 DEF Added
  <2>3. QED
    BY <2>2
<1>4. ASSUME NEW k \in 1 .. n, k - 1 \in Done PROVE k \in Done
  <2> SUFFICES ASSUME NEW s \in SUBSET S, Cardinality(s) = k PROVE Holds(s)
    BY <1>1
  <2> DEFINE x == First(s)
             t == s \ {x}
  <2>1. s # {}
    <3>1. Cardinality({}) = 0 /\ ~(k = 0)
      BY <1>1, FS_EmptySet
    <3>2. QED
      BY <3>1
  <2>2. t \in SUBSET S /\ x \in S /\ Cardinality(t) = k - 1
    BY <2>1, SmallerSet
  <2>3. f[s] = f[t] + a[x] /\ p[s] = p[t] + b[x]
    BY <1>2, <2>1 DEF Added
  <2>4. Holds(t)
    BY <1>4, <2>2
  <2>5. a[x] \in Nat /\ b[x] \in Nat /\ lo * a[x] <= b[x] /\ b[x] <= hi * a[x]
    BY <2>2
  <2> DEFINE F == f[t]
             P == p[t]
             A == a[x]
             B == b[x]
  <2>6. /\ F \in Nat /\ P \in Nat /\ A \in Nat /\ B \in Nat
        /\ lo * F <= P /\ P <= hi * F /\ lo * A <= B /\ B <= hi * A
    BY <2>4, <2>5
  <2>7. f[s] = F + A /\ p[s] = P + B
    BY <2>3
  <2> HIDE DEF F, P, A, B
  <2>8. lo * (F + A) = lo * F + lo * A /\ hi * (F + A) = hi * F + hi * A
    BY <2>6
  <2>9. lo * F \in Nat /\ lo * A \in Nat /\ hi * F \in Nat /\ hi * A \in Nat
    BY <2>6
  <2>10. lo * (F + A) <= P + B /\ P + B <= hi * (F + A)
    BY <2>6, <2>8, <2>9
  <2>11. F + A \in Nat /\ P + B \in Nat
    BY <2>6
  <2>12. QED
    BY <2>7, <2>10, <2>11
<1>5. n \in Done
  <2> HIDE DEF Done, n
  <2>1. 0 .. n \subseteq Done
    BY <1>1, <1>3, <1>4, UpTo
  <2>2. QED
    BY <1>1, <2>1
<1>6. QED
  BY <1>5

\* Counting is a sum.
LEMMA CardinalityIsSum ==
  ASSUME NEW S, IsFiniteSet(S)
  PROVE  IsSum([s \in SUBSET S |-> Cardinality(s)], S, [d \in S |-> 1])
<1> DEFINE f == [s \in SUBSET S |-> Cardinality(s)]
           one == [d \in S |-> 1]
<1>1. ASSUME NEW s \in SUBSET S PROVE f[s] = Added(f, one, s)
  <2>1. CASE s = {}
    BY <2>1, FS_EmptySet DEF Added
  <2>2. CASE s # {}
    <3>1. /\ s \ {First(s)} \in SUBSET S /\ First(s) \in S /\ Cardinality(s) \in Nat
          /\ Cardinality(s \ {First(s)}) = Cardinality(s) - 1
      <4> HIDE DEF f, one
      <4>1. QED
        BY <2>2, SmallerSet
    <3>2. f[s \ {First(s)}] = Cardinality(s) - 1 /\ one[First(s)] = 1 /\ f[s] = Cardinality(s)
      BY <3>1
    <3>3. Added(f, one, s) = Cardinality(s) - 1 + 1
      BY <2>2, <3>2 DEF Added
    <3>4. QED
      BY <3>1, <3>2, <3>3
  <2>3. QED
    BY <2>1, <2>2
<1>2. [s \in SUBSET S |-> f[s]] = [s \in SUBSET S |-> Added(f, one, s)]
  <2> HIDE DEF f, one
  <2>1. QED
    BY <1>1
<1>3. f = [s \in SUBSET S |-> f[s]]
  OBVIOUS
<1>4. QED
  BY <1>2, <1>3 DEF IsSum

\* Rounding to the nearest whole number does not leave an interval of whole numbers.
LEMMA RoundedBetween ==
  ASSUME NEW a \in Nat, NEW b \in Nat \ {0}, NEW lo \in Nat, NEW hi \in Nat, lo * b <= a, a <= hi * b
  PROVE  lo <= Rounded(a, b) /\ Rounded(a, b) <= hi
<1> DEFINE q == (2 * a + b) \div (2 * b)
<1>1. q \in Int /\ (2 * b) * q <= 2 * a + b /\ 2 * a + b < (2 * b) * (q + 1)
  <2> DEFINE x == 2 * a + b
             y == 2 * b
  <2>1. x \in Int /\ y \in Int /\ y > 0
    OBVIOUS
  <2>2. q = x \div y
    OBVIOUS
  <2> HIDE DEF x, y, q
  <2>3. q \in Int /\ y * q <= x /\ x < y * (q + 1)
    BY <2>1, <2>2
  <2>4. QED
    BY <2>3 DEF x, y
<1> HIDE DEF q
<1>2. ASSUME q < lo PROVE FALSE
  <2>1. (2 * b) * (q + 1) <= (2 * b) * lo
    BY <1>1, <1>2
  <2>2. (2 * b) * lo <= 2 * a
    OBVIOUS
  <2>3. QED
    BY <1>1, <2>1, <2>2
<1>3. ASSUME q > hi PROVE FALSE
  <2>1. (2 * b) * (hi + 1) <= (2 * b) * q
    BY <1>1, <1>3
  <2>2. 2 * a + b < (2 * b) * (hi + 1)
    OBVIOUS
  <2>3. QED
    BY <1>1, <2>1, <2>2
<1>4. Rounded(a, b) = q
  BY DEF Rounded, q
<1>5. QED
  BY <1>1, <1>2, <1>3, <1>4

-----------------------------------------------------------------------------
(* The bank *)

\* What Combine adds up.
Soc(d) == cached[d][1]
Full(d) == cached[d][2]
Part(d) == Soc(d) * Full(d)

\* The two means of jbd_bms_combine.
LEMMA CombineIs ==
  ASSUME NEW S
  PROVE  Combine(S) = IF Sum(Full, S) > 0 THEN Rounded(Sum(Part, S), Sum(Full, S))
                                          ELSE Rounded(Sum(Soc, S), Cardinality(S))
BY Zenon DEF Combine, Soc, Full, Part

\* What Sum is, of each of the three.
LEMMA SumOfSoc ==
  ASSUME NEW S, IsFiniteSet(S), \A d \in S : Soc(d) \in Nat
  PROVE  \E f : IsSum(f, S, [d \in S |-> Soc(d)]) /\ Sum(Soc, S) = f[S]
<1> DEFINE w == [d \in S |-> Soc(d)]
           body(f) == [s \in SUBSET S |-> IF s = {} THEN 0 ELSE f[s \ {CHOOSE x \in s : TRUE}] + Soc(CHOOSE x \in s : TRUE)]
<1>1. Sum(Soc, S) = (CHOOSE f : f = body(f))[S]
  BY Zenon DEF Sum, FoldSet, MapThenFoldSet
<1>2. ASSUME NEW f PROVE body(f) = [s \in SUBSET S |-> Added(f, w, s)]
  <2>1. ASSUME NEW s \in SUBSET S
        PROVE  Added(f, w, s) = IF s = {} THEN 0 ELSE f[s \ {CHOOSE x \in s : TRUE}] + Soc(CHOOSE x \in s : TRUE)
    <3>1. s # {} => w[First(s)] = Soc(First(s))
      BY FirstIsIn
    <3>2. QED
      BY <3>1 DEF Added, First
  <2>2. QED
    BY <2>1
<1>3. PICK f : IsSum(f, S, w)
  <2>1. w \in [S -> Int]
    OBVIOUS
  <2>2. QED
    BY <2>1, SumExists
<1>4. f = body(f)
  BY <1>2, <1>3 DEF IsSum
<1> DEFINE g == CHOOSE h : h = body(h)
<1>5. g = body(g)
  <2> HIDE DEF body
  <2>1. QED
    BY <1>4
<1>6. IsSum(g, S, w)
  <2> HIDE DEF g, w
  <2>1. QED
    BY <1>2, <1>5 DEF IsSum
<1>7. QED
  BY <1>1, <1>6

\* The same of the capacities.
LEMMA SumOfFull ==
  ASSUME NEW S, IsFiniteSet(S), \A d \in S : Full(d) \in Nat
  PROVE  \E f : IsSum(f, S, [d \in S |-> Full(d)]) /\ Sum(Full, S) = f[S]
<1> DEFINE w == [d \in S |-> Full(d)]
           body(f) == [s \in SUBSET S |-> IF s = {} THEN 0 ELSE f[s \ {CHOOSE x \in s : TRUE}] + Full(CHOOSE x \in s : TRUE)]
<1>1. Sum(Full, S) = (CHOOSE f : f = body(f))[S]
  BY Zenon DEF Sum, FoldSet, MapThenFoldSet
<1>2. ASSUME NEW f PROVE body(f) = [s \in SUBSET S |-> Added(f, w, s)]
  <2>1. ASSUME NEW s \in SUBSET S
        PROVE  Added(f, w, s) = IF s = {} THEN 0 ELSE f[s \ {CHOOSE x \in s : TRUE}] + Full(CHOOSE x \in s : TRUE)
    <3>1. s # {} => w[First(s)] = Full(First(s))
      BY FirstIsIn
    <3>2. QED
      BY <3>1 DEF Added, First
  <2>2. QED
    BY <2>1
<1>3. PICK f : IsSum(f, S, w)
  <2>1. w \in [S -> Int]
    OBVIOUS
  <2>2. QED
    BY <2>1, SumExists
<1>4. f = body(f)
  BY <1>2, <1>3 DEF IsSum
<1> DEFINE g == CHOOSE h : h = body(h)
<1>5. g = body(g)
  <2> HIDE DEF body
  <2>1. QED
    BY <1>4
<1>6. IsSum(g, S, w)
  <2> HIDE DEF g, w
  <2>1. QED
    BY <1>2, <1>5 DEF IsSum
<1>7. QED
  BY <1>1, <1>6

\* The same of the products.
LEMMA SumOfPart ==
  ASSUME NEW S, IsFiniteSet(S), \A d \in S : Part(d) \in Nat
  PROVE  \E f : IsSum(f, S, [d \in S |-> Part(d)]) /\ Sum(Part, S) = f[S]
<1> DEFINE w == [d \in S |-> Part(d)]
           body(f) == [s \in SUBSET S |-> IF s = {} THEN 0 ELSE f[s \ {CHOOSE x \in s : TRUE}] + Part(CHOOSE x \in s : TRUE)]
<1>1. Sum(Part, S) = (CHOOSE f : f = body(f))[S]
  BY Zenon DEF Sum, FoldSet, MapThenFoldSet
<1>2. ASSUME NEW f PROVE body(f) = [s \in SUBSET S |-> Added(f, w, s)]
  <2>1. ASSUME NEW s \in SUBSET S
        PROVE  Added(f, w, s) = IF s = {} THEN 0 ELSE f[s \ {CHOOSE x \in s : TRUE}] + Part(CHOOSE x \in s : TRUE)
    <3>1. s # {} => w[First(s)] = Part(First(s))
      BY FirstIsIn
    <3>2. QED
      BY <3>1 DEF Added, First
  <2>2. QED
    BY <2>1
<1>3. PICK f : IsSum(f, S, w)
  <2>1. w \in [S -> Int]
    OBVIOUS
  <2>2. QED
    BY <2>1, SumExists
<1>4. f = body(f)
  BY <1>2, <1>3 DEF IsSum
<1> DEFINE g == CHOOSE h : h = body(h)
<1>5. g = body(g)
  <2> HIDE DEF body
  <2>1. QED
    BY <1>4
<1>6. IsSum(g, S, w)
  <2> HIDE DEF g, w
  <2>1. QED
    BY <1>2, <1>5 DEF IsSum
<1>7. QED
  BY <1>1, <1>6

\* Items of a finite set that have the least and the largest state of charge.
LEMMA Extremes ==
  ASSUME NEW S, S # {}, \A d \in S : Soc(d) \in 0 .. 100
  PROVE  \E m, n \in S : \A d \in S : Soc(m) <= Soc(d) /\ Soc(d) <= Soc(n)
<1> DEFINE low == {Soc(d) : d \in S}
           high == {100 - Soc(d) : d \in S}
<1>1. low \subseteq Nat /\ low # {} /\ high \subseteq Nat /\ high # {}
  OBVIOUS
<1>2. PICK x \in low : \A y \in low : x <= y
  <2> HIDE DEF low
  <2>1. QED
    BY <1>1, LeastNat
<1>3. PICK z \in high : \A y \in high : z <= y
  <2> HIDE DEF high
  <2>1. QED
    BY <1>1, LeastNat
<1>4. PICK m \in S : x = Soc(m)
  BY <1>2
<1>5. PICK n \in S : z = 100 - Soc(n)
  BY <1>3
<1>6. ASSUME NEW d \in S PROVE Soc(m) <= Soc(d) /\ Soc(d) <= Soc(n)
  <2>1. Soc(d) \in low /\ 100 - Soc(d) \in high
    OBVIOUS
  <2>2. Soc(m) <= Soc(d)
    BY <1>2, <1>4, <2>1
  <2>3. 100 - Soc(n) <= 100 - Soc(d)
    BY <1>3, <1>5, <2>1
  <2>4. Soc(d) \in 0 .. 100 /\ Soc(n) \in 0 .. 100
    OBVIOUS
  <2>5. QED
    BY <2>2, <2>3, <2>4
<1>7. QED
  BY <1>6

\* jbd_bms_combine: either mean lies between the lowest and the highest state of charge.
LEMMA CombineBetween ==
  ASSUME NEW S, IsFiniteSet(S), S # {}, NEW lo \in Nat, NEW hi \in Nat,
         \A d \in S : Soc(d) \in Nat /\ Full(d) \in Nat /\ lo <= Soc(d) /\ Soc(d) <= hi
  PROVE  lo <= Combine(S) /\ Combine(S) <= hi
<1> DEFINE soc == [d \in S |-> Soc(d)]
           full == [d \in S |-> Full(d)]
           part == [d \in S |-> Part(d)]
           one == [d \in S |-> 1]
           count == [s \in SUBSET S |-> Cardinality(s)]
<1>1. ASSUME NEW d \in S
      PROVE  /\ Part(d) \in Nat /\ lo * Full(d) <= Part(d) /\ Part(d) <= hi * Full(d)
             /\ lo * 1 <= Soc(d) /\ Soc(d) <= hi * 1
  <2> DEFINE x == Soc(d)
             y == Full(d)
  <2>1. x \in Nat /\ y \in Nat /\ lo <= x /\ x <= hi /\ Part(d) = x * y
    BY DEF Part
  <2> HIDE DEF x, y
  <2>2. x * y \in Nat /\ lo * y <= x * y /\ x * y <= hi * y /\ lo * 1 <= x /\ x <= hi * 1
    BY <2>1
  <2>3. QED
    BY <2>1, <2>2 DEF x, y
<1>2. PICK c : IsSum(c, S, soc) /\ Sum(Soc, S) = c[S]
  BY SumOfSoc
<1>3. PICK f : IsSum(f, S, full) /\ Sum(Full, S) = f[S]
  BY SumOfFull
<1>4. PICK p : IsSum(p, S, part) /\ Sum(Part, S) = p[S]
  BY <1>1, SumOfPart
<1>5. IsSum(count, S, one)
  BY CardinalityIsSum
<1>6. /\ soc \in [S -> Nat] /\ full \in [S -> Nat] /\ part \in [S -> Nat] /\ one \in [S -> Nat]
      /\ \A d \in S : lo * full[d] <= part[d] /\ part[d] <= hi * full[d]
      /\ \A d \in S : lo * one[d] <= soc[d] /\ soc[d] <= hi * one[d]
  BY <1>1
<1>7. count[S] = Cardinality(S) /\ Cardinality(S) \in Nat \ {0}
  <2>1. Cardinality(S) \in Nat /\ Cardinality(S) # 0
    BY FS_CardinalityType, FS_EmptySet
  <2>2. QED
    BY <2>1
<1> HIDE DEF soc, full, part, one, count
<1>8. f[S] \in Nat /\ p[S] \in Nat /\ lo * f[S] <= p[S] /\ p[S] <= hi * f[S]
  BY <1>3, <1>4, <1>6, SumBetween
<1>9. count[S] \in Nat /\ c[S] \in Nat /\ lo * count[S] <= c[S] /\ c[S] <= hi * count[S]
  BY <1>2, <1>5, <1>6, SumBetween
<1>10. CASE f[S] > 0
  <2>1. Combine(S) = Rounded(p[S], f[S])
    BY <1>3, <1>4, <1>10, CombineIs
  <2>2. f[S] \in Nat \ {0}
    BY <1>8, <1>10
  <2>3. QED
    BY <1>8, <2>1, <2>2, RoundedBetween
<1>11. CASE ~(f[S] > 0)
  <2>1. Combine(S) = Rounded(c[S], Cardinality(S))
    BY <1>2, <1>3, <1>11, CombineIs
  <2>2. QED
    BY <1>7, <1>9, <2>1, RoundedBetween
<1>12. QED
  BY <1>10, <1>11

\* The packs it combines are the packs on display, since a live pack has been told.
LEMMA BankOfTold == TeleInv => BankIsOfLivePacks
<1> SUFFICES ASSUME TeleInv, Bank # <<>>
             PROVE  LET live == {d \in Devices : Shown(d) # <<>>}
                        socs == {Shown(d)[1] : d \in live}
                    IN /\ Bank[2] = Cardinality(live)
                       /\ \E lo, hi \in socs : lo <= Bank[1] /\ Bank[1] <= hi
  BY DEF BankIsOfLivePacks
<1> DEFINE L == LivePacks
<1>1. kind = "battery" /\ L # {} /\ Bank = <<Combine(L), Cardinality(L)>>
  BY DEF Bank
<1>2. Devices = PACKS /\ \A d : Shown(d) = PackRow(d) /\ ItemOf(d) = d
  BY <1>1 DEF Devices, Shown, ItemOf
<1>3. IsFiniteSet(L)
  BY TelemetryAssumption, FS_Subset DEF LivePacks
<1>4. ASSUME NEW d \in L
      PROVE  d \in PACKS /\ Shown(d) = cached[d] /\ cached[d] # <<>>
             /\ Soc(d) \in 0 .. 100 /\ Soc(d) \in Nat /\ Full(d) \in Nat
  <2>1. d \in PACKS /\ Fresh(d)
    BY DEF LivePacks
  <2>2. Told(d)
    BY <1>1, <1>2, <2>1 DEF Fresh, Told
  <2>3. cached[d] \in PACK_READINGS[d]
    BY <1>1, <1>2, <2>1, <2>2 DEF TeleInv, ToldInv, Readings
  <2>4. cached[d] \in (0 .. 100) \X Nat
    BY <2>1, <2>3, TelemetryAssumption
  <2> DEFINE r == cached[d]
  <2>5. r[1] \in 0 .. 100 /\ r[1] \in Nat /\ r[2] \in Nat /\ r # <<>>
    <3> HIDE DEF r
    <3>1. r \in (0 .. 100) \X Nat
      BY <2>4 DEF r
    <3>2. PICK a \in 0 .. 100, b \in Nat : r = <<a, b>>
      BY <3>1
    <3>3. QED
      BY <3>2
  <2>6. Soc(d) \in 0 .. 100 /\ Soc(d) \in Nat /\ Full(d) \in Nat /\ cached[d] # <<>>
    <3>1. Soc(d) = r[1] /\ Full(d) = r[2] /\ cached[d] = r
      BY DEF Soc, Full
    <3> HIDE DEF r
    <3>2. QED
      BY <2>5, <3>1
  <2>7. Shown(d) = cached[d]
    BY <1>2 DEF PackRow
  <2>8. QED
    BY <2>1, <2>6, <2>7
<1>5. {d \in Devices : Shown(d) # <<>>} = L
  <2>1. \A d \in PACKS : d \notin L => Shown(d) = <<>>
    BY <1>2 DEF PackRow
  <2>2. QED
    BY <1>2, <1>4, <2>1
<1>6. PICK m \in L, n \in L : \A d \in L : Soc(m) <= Soc(d) /\ Soc(d) <= Soc(n)
  <2> HIDE DEF L
  <2>1. QED
    BY <1>1, <1>4, Extremes
<1>7. Soc(m) <= Combine(L) /\ Combine(L) <= Soc(n)
  <2>1. Soc(m) \in Nat /\ Soc(n) \in Nat
    BY <1>4
  <2> HIDE DEF L
  <2>2. \A d \in L : Soc(d) \in Nat /\ Full(d) \in Nat
    BY <1>4
  <2>3. QED
    BY <1>1, <1>3, <1>6, <2>1, <2>2, CombineBetween
<1>8. Shown(m)[1] = Soc(m) /\ Shown(n)[1] = Soc(n)
  BY <1>4 DEF Soc
<1>9. Bank[1] = Combine(L) /\ Bank[2] = Cardinality(L)
  BY <1>1
<1> HIDE DEF L
<1>10. Soc(m) \in {Shown(d)[1] : d \in L} /\ Soc(n) \in {Shown(d)[1] : d \in L}
  BY <1>8
<1>11. QED
  BY <1>5, <1>7, <1>9, <1>10

\* The bank on display is that of the packs on display (jbd_bms_combine and
\* battery_status_timer_cb, ui.c:415-419), for any number of packs and whatever capacities
\* and states of charge they report: its state of charge lies between two of theirs, and a
\* pack that has dropped off is neither counted nor averaged in.
THEOREM BankKept == TelemetrySpec => []BankIsOfLivePacks
<1>1. TeleInv => BankIsOfLivePacks
  BY BankOfTold
<1>2. QED
  BY <1>1, TelemetryKept, PTL

=============================================================================
