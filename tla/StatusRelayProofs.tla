------------------------- MODULE StatusRelayProofs -------------------------
(***************************************************************************)
(* Proofs about StatusRelay, for any loads, any frames, queues of any       *)
(* length, either order of the daemon's reads and any number of restarts:   *)
(* the types, that the bridge's screen follows its table, and that both     *)
(* screens implement LoadDisplay.                                           *)
(***************************************************************************)
EXTENDS StatusRelay, TLAPS

USE DEF Kinds

-----------------------------------------------------------------------------
(* Lemmas about items and values. *)

\* An item of a kind is an item, and its kind and instance make it up.
LEMMA ItemParts ==
  ASSUME NEW k \in Kinds, NEW it \in ItemsOf(k)
  PROVE  /\ it \in Items
         /\ Kind(it) = k
         /\ it = <<k, it[2]>>
<1>1. PICK n \in 1 .. Len(Sweep[k]) : it = <<k, Sweep[k][n]>>
  BY DEF ItemsOf
<1> QED
  BY <1>1 DEF Items, Kind

\* Every item is of its kind.
LEMMA ItemKind ==
  ASSUME NEW it \in Items
  PROVE  Kind(it) \in Kinds /\ it \in ItemsOf(Kind(it))
BY ItemParts DEF Items

\* The items of a kind are listed.
LEMMA SweepType ==
  ASSUME NEW k \in Kinds
  PROVE  Sweep[k] \in Seq(Nat) /\ Len(Sweep[k]) \in Nat
<1>1. Sweep[k] \in Seq(Nat)
  BY StatusRelayAssumption DEF Sweep
<1> QED
  BY <1>1

LEMMA BlankView == Blank \in Views
BY DEF Blank, Views

\* A byte is a natural number, and so are a hundred times a byte.
LEMMA ByteIsNat ==
  ASSUME NEW a \in 0 .. 255
  PROVE  a \in Nat /\ a * 100 \in Nat /\ (a # 0 => a > 0)
OBVIOUS

\* Dividing natural numbers gives a natural number.
LEMMA QuotientIsNat ==
  ASSUME NEW a \in Nat, NEW b \in Nat, b > 0
  PROVE  a \div b \in Nat
<1>1. a \div b \in Int
  OBVIOUS
<1>2. a \div b >= 0
  OBVIOUS
<1> QED
  BY <1>1, <1>2

\* A frame is decoded to a level of at most 200 or a fill of at most 100 per cent.
LEMMA DecodedIsView ==
  ASSUME NEW it \in Items, NEW view \in Decoded(it)
  PROVE  view \in Views
<1>1. CASE Kind(it) = "light"
  <2>1. PICK byte \in LIGHT_BYTES : view = LightView(byte)
    BY <1>1 DEF Decoded
  <2>2. byte \in 0 .. 255
    BY StatusRelayAssumption
  <2> QED
    BY <2>1, <2>2 DEF LightView, Views, RVC_LEVEL_MAX
<1>2. CASE Kind(it) # "light"
  <2>1. PICK reading \in TANK_READINGS : view = TankView(reading)
    BY <1>2 DEF Decoded
  <2>2. reading[1] \in 0 .. 255 /\ reading[2] \in 0 .. 255
    BY StatusRelayAssumption
  <2>3. CASE reading[1] = RVC_FIELD_NA \/ reading[2] = 0
    BY <2>1, <2>3, BlankView DEF TankView
  <2>4. CASE ~(reading[1] = RVC_FIELD_NA \/ reading[2] = 0)
    <3> DEFINE percent == (reading[1] * 100) \div reading[2]
    <3>1. reading[2] \in Nat /\ reading[2] > 0 /\ reading[1] * 100 \in Nat
      BY <2>2, <2>4, ByteIsNat
    <3>2. percent \in Nat
      BY <3>1, QuotientIsNat
    <3>3. view = [amount |-> IF percent > 100 THEN 100 ELSE percent, flag |-> TRUE]
      BY <2>1, <2>4 DEF TankView
    <3> HIDE DEF percent
    <3> QED
      BY <3>2, <3>3 DEF Views
  <2> QED
    BY <2>3, <2>4
<1> QED
  BY <1>1, <1>2

\* The daemon is at an item of the kind it goes through.
LEMMA CurrentIsItem ==
  ASSUME RelayTypeOK, resend # Resting
  PROVE  resend.kind \in Kinds /\ Current \in ItemsOf(resend.kind) /\ Current \in Items
<1>1. resend.kind \in Kinds /\ resend.n \in 1 .. Len(Sweep[resend.kind])
  BY DEF RelayTypeOK, Resends
<1>2. Current \in ItemsOf(resend.kind)
  BY <1>1 DEF Current, ItemsOf
<1> QED
  BY <1>1, <1>2, ItemParts

\* After an item comes the next one, or rest.
LEMMA GoOnType ==
  ASSUME RelayTypeOK, resend # Resting
  PROVE  /\ GoOn \in {Resting} \cup Resends
         /\ GoOn # Resting => GoOn.n \in 1 .. Len(Sweep[GoOn.kind])
<1>1. resend.kind \in Kinds /\ resend.n \in Nat /\ resend.n \in 1 .. Len(Sweep[resend.kind])
  BY DEF RelayTypeOK, Resends
<1>2. Len(Sweep[resend.kind]) \in Nat
  BY <1>1, SweepType
<1> QED
  BY <1>1, <1>2 DEF GoOn, Resends, Resting

\* Fields of views make views.
LEMMA HalvesAreViews ==
  ASSUME NEW half \in Views, NEW view \in Views
  PROVE  Half(view) \in Views /\ Whole(half, view) \in Views
<1>1. CASE FIRST_READ = "amount"
  <2>1. Half(view) = [Blank EXCEPT !.amount = view.amount]
        /\ Whole(half, view) = [half EXCEPT !.flag = view.flag]
    BY <1>1 DEF Half, Whole
  <2> QED
    BY <2>1 DEF Views, Blank
<1>2. CASE FIRST_READ = "flag"
  <2>1. Half(view) = [Blank EXCEPT !.flag = view.flag]
        /\ Whole(half, view) = [half EXCEPT !.amount = view.amount]
    BY <1>2 DEF Half, Whole
  <2> QED
    BY <2>1 DEF Views, Blank
<1> QED
  BY <1>1, <1>2, StatusRelayAssumption

-----------------------------------------------------------------------------
(* Types. *)

\* Shown values stay values.
LEMMA UpdatedType ==
  ASSUME NEW widgets \in [Items -> Views], NEW kind, NEW instance, NEW view \in Views
  PROVE  Updated(widgets, kind, instance, view) \in [Items -> Views]
BY DEF Updated

\* What is sent lands in a queue with room, or is lost.
LEMMA SendType ==
  ASSUME RelayTypeOK, NEW it \in Items, NEW view \in Views, Send(it, view)
  PROVE  rxQueue' \in Seq(Messages) /\ Len(rxQueue') <= RX_QUEUE_LEN
<1>1. rxQueue \in Seq(Messages) /\ Len(rxQueue) <= RX_QUEUE_LEN /\ RX_QUEUE_LEN \in Nat
  BY StatusRelayAssumption DEF RelayTypeOK
<1>2. [item |-> it, view |-> view] \in Messages
  BY DEF Messages
<1>3. CASE Delivered(it, view)
  BY <1>1, <1>2, <1>3 DEF Delivered
<1>4. CASE UNCHANGED rxQueue
  BY <1>1, <1>4
<1> QED
  BY <1>3, <1>4 DEF Send

\* The variables have their types in the first state.
LEMMA TypeInit == RelayInit => RelayTypeOK
<1> SUFFICES ASSUME RelayInit PROVE RelayTypeOK
  OBVIOUS
<1> USE DEF RelayInit
<1>1. Len(queue["light"]) = 0 /\ Len(queue["tank"]) = 0
  OBVIOUS
<1>2. queue \in [Kinds -> Seq(Messages)] /\ rxQueue \in Seq(Messages) /\ Len(rxQueue) <= RX_QUEUE_LEN
  BY StatusRelayAssumption
<1>3. mgr["tank"].pc # "send" /\ mgr \in [Kinds -> {Receiving} \cup Work]
  BY DEF Receiving
<1>4. \A k \in Kinds : /\ Len(queue[k]) <= QueueLen[k]
                       /\ \A n \in 1 .. Len(queue[k]) : queue[k][n].item \in ItemsOf(k)
                       /\ mgr[k] # Receiving => mgr[k].item \in ItemsOf(k)
  BY <1>1, StatusRelayAssumption DEF QueueLen
<1> QED
  BY <1>2, <1>3, <1>4, BlankView, StatusRelayAssumption DEF RelayTypeOK

\* No step breaks a type.
LEMMA TypeNext ==
  ASSUME RelayTypeOK, [RelayNext]_relayVars
  PROVE  RelayTypeOK'
<1>1. ASSUME NEW it \in Items, TwaiReceive(it) PROVE RelayTypeOK'
  <2>1. PICK view \in Decoded(it) :
          /\ reported' = [reported EXCEPT ![it] = @ \cup {view}]
          /\ \/ /\ Len(queue[Kind(it)]) < QueueLen[Kind(it)]
                /\ queue' = [queue EXCEPT ![Kind(it)] = Append(@, [item |-> it, view |-> view])]
             \/ UNCHANGED queue
    BY <1>1 DEF TwaiReceive
  <2>2. view \in Views /\ [item |-> it, view |-> view] \in Messages
    BY DecodedIsView DEF Messages
  <2>3. Kind(it) \in Kinds /\ it \in ItemsOf(Kind(it))
    BY ItemKind
  <2>4. QueueLen[Kind(it)] \in Nat
    BY <2>3, StatusRelayAssumption DEF QueueLen
  <2>5. /\ queue' \in [Kinds -> Seq(Messages)]
        /\ \A k \in Kinds : /\ Len(queue'[k]) <= QueueLen[k]
                            /\ \A n \in 1 .. Len(queue'[k]) : queue'[k][n].item \in ItemsOf(k)
    <3>1. CASE queue' = [queue EXCEPT ![Kind(it)] = Append(@, [item |-> it, view |-> view])]
               /\ Len(queue[Kind(it)]) < QueueLen[Kind(it)]
      <4> DEFINE k == Kind(it)
                 msg == [item |-> it, view |-> view]
                 longer == Append(queue[k], msg)
      <4>1. queue[k] \in Seq(Messages) /\ Len(queue[k]) \in Nat
        BY <2>3 DEF RelayTypeOK
      <4>2. longer \in Seq(Messages) /\ Len(longer) = Len(queue[k]) + 1
        BY <4>1, <2>2
      <4>3. Len(longer) <= QueueLen[k]
        BY <4>1, <4>2, <2>4, <3>1
      <4>4. ASSUME NEW n \in 1 .. Len(longer) PROVE longer[n].item \in ItemsOf(k)
        <5>1. CASE n = Len(queue[k]) + 1
          BY <5>1, <4>1, <2>3
        <5>2. CASE n # Len(queue[k]) + 1
          <6>1. n \in 1 .. Len(queue[k]) /\ longer[n] = queue[k][n]
            BY <5>2, <4>1, <4>2
          <6> QED
            BY <6>1, <2>3 DEF RelayTypeOK
        <5> QED
          BY <5>1, <5>2
      <4>5. queue' = [queue EXCEPT ![k] = longer]
        BY <3>1
      <4> HIDE DEF longer, k
      <4> QED
        BY <4>2, <4>3, <4>4, <4>5 DEF RelayTypeOK
    <3>2. CASE UNCHANGED queue
      BY <3>2 DEF RelayTypeOK
    <3> QED
      BY <2>1, <3>1, <3>2
  <2>6. reported' \in [Items -> SUBSET Views]
    BY <2>1, <2>2 DEF RelayTypeOK
  <2> QED
    BY <1>1, <2>5, <2>6 DEF TwaiReceive, tableVars, RelayTypeOK
<1>2. ASSUME NEW k \in Kinds, MgrReceive(k) PROVE RelayTypeOK'
  <2> DEFINE msg == Head(queue[k])
  <2>1. queue[k] \in Seq(Messages) /\ queue[k] # <<>> /\ Len(queue[k]) \in Nat
    BY <1>2 DEF MgrReceive, RelayTypeOK
  <2>2. msg \in Messages /\ msg = queue[k][1] /\ 1 \in 1 .. Len(queue[k])
    BY <2>1
  <2>3. msg.item \in ItemsOf(k) /\ msg.item \in Items /\ msg.view \in Views
    BY <2>2 DEF RelayTypeOK, Messages
  <2>4. /\ queue' \in [Kinds -> Seq(Messages)]
        /\ \A j \in Kinds : /\ Len(queue'[j]) <= QueueLen[j]
                            /\ \A n \in 1 .. Len(queue'[j]) : queue'[j][n].item \in ItemsOf(j)
    <3>1. /\ Tail(queue[k]) \in Seq(Messages)
          /\ Len(Tail(queue[k])) = Len(queue[k]) - 1
          /\ \A n \in 1 .. Len(Tail(queue[k])) : Tail(queue[k])[n] = queue[k][n + 1]
      BY <2>1
    <3>2. queue' = [queue EXCEPT ![k] = Tail(queue[k])]
      BY <1>2 DEF MgrReceive
    <3>3. Len(queue[k]) <= QueueLen[k] /\ QueueLen[k] \in Nat
      BY StatusRelayAssumption DEF RelayTypeOK, QueueLen
    <3>4. \A n \in 1 .. Len(Tail(queue[k])) : Tail(queue[k])[n].item \in ItemsOf(k)
      BY <2>1, <3>1 DEF RelayTypeOK
    <3>5. Len(Tail(queue[k])) <= QueueLen[k]
      BY <2>1, <3>1, <3>3
    <3> DEFINE shorter == Tail(queue[k])
    <3> HIDE DEF shorter
    <3>6. /\ shorter \in Seq(Messages) /\ Len(shorter) <= QueueLen[k]
          /\ \A n \in 1 .. Len(shorter) : shorter[n].item \in ItemsOf(k)
          /\ queue' = [queue EXCEPT ![k] = shorter]
      BY <3>1, <3>2, <3>4, <3>5 DEF shorter
    <3> QED
      BY <3>6 DEF RelayTypeOK
  <2>5. states' \in [Items -> Views] /\ known' \in [Items -> BOOLEAN]
    BY <1>2, <2>3 DEF MgrReceive, RelayTypeOK
  <2>6. /\ mgr' \in [Kinds -> {Receiving} \cup Work]
        /\ \A j \in Kinds : mgr'[j] # Receiving => mgr'[j].item \in ItemsOf(j)
        /\ mgr'["tank"].pc # "send"
    <3> DEFINE work == [pc |-> "show", item |-> msg.item, view |-> msg.view]
    <3>1. mgr' = [mgr EXCEPT ![k] = work] \/ mgr' = mgr
      BY <1>2 DEF MgrReceive
    <3>2. work \in Work /\ work.pc = "show" /\ work.item \in ItemsOf(k)
      BY <2>3 DEF Work
    <3> HIDE DEF work
    <3> QED
      BY <3>1, <3>2 DEF RelayTypeOK
  <2> QED
    BY <1>2, <2>4, <2>5, <2>6 DEF MgrReceive, RelayTypeOK
<1>3. ASSUME NEW k \in Kinds, MgrShow(k) PROVE RelayTypeOK'
  <2>1. mgr[k] \in Work /\ mgr[k] # Receiving
    BY <1>3 DEF MgrShow, RelayTypeOK, Receiving
  <2>2. panel' \in [Items -> Views]
    BY <1>3, <2>1, UpdatedType DEF MgrShow, RelayTypeOK, Work
  <2>3. /\ mgr' \in [Kinds -> {Receiving} \cup Work]
        /\ \A j \in Kinds : mgr'[j] # Receiving => mgr'[j].item \in ItemsOf(j)
        /\ mgr'["tank"].pc # "send"
    BY <1>3, <2>1 DEF MgrShow, RelayTypeOK, Work, Receiving
  <2> QED
    BY <1>3, <2>2, <2>3 DEF MgrShow, tableVars, RelayTypeOK
<1>4. ASSUME MgrSend PROVE RelayTypeOK'
  <2>1. mgr["light"] \in Work /\ mgr["light"] # Receiving
    BY <1>4 DEF MgrSend, RelayTypeOK, Receiving
  <2>2. rxQueue' \in Seq(Messages) /\ Len(rxQueue') <= RX_QUEUE_LEN
    BY <1>4, <2>1, SendType DEF MgrSend, Work
  <2>3. /\ mgr' \in [Kinds -> {Receiving} \cup Work]
        /\ \A j \in Kinds : mgr'[j] # Receiving => mgr'[j].item \in ItemsOf(j)
        /\ mgr'["tank"].pc # "send"
    BY <1>4 DEF MgrSend, RelayTypeOK
  <2> QED
    BY <1>4, <2>2, <2>3 DEF MgrSend, tableVars, RelayTypeOK
<1>5. ASSUME NEW k \in Kinds, ResendStart(k) PROVE RelayTypeOK'
  <2>1. Len(Sweep[k]) \in Nat \ {0}
    BY <1>5, SweepType DEF ResendStart
  <2>2. /\ resend' \in Resends
        /\ resend'.n \in 1 .. Len(Sweep[resend'.kind])
    BY <1>5, <2>1 DEF ResendStart, Resends
  <2> QED
    BY <1>5, <2>2 DEF ResendStart, tableVars, RelayTypeOK
<1>6. ASSUME ResendFirst PROVE RelayTypeOK'
  <2>1. resend # Resting /\ resend.kind \in Kinds /\ resend.n \in Nat
        /\ resend.n \in 1 .. Len(Sweep[resend.kind])
    BY <1>6 DEF ResendFirst, RelayTypeOK, Resting, Resends
  <2>2. states[Current] \in Views
    BY <2>1, CurrentIsItem DEF RelayTypeOK
  <2>3. Half(states[Current]) \in Views /\ Blank \in Views
    BY <2>2, HalvesAreViews, BlankView
  <2>4. /\ resend' \in {Resting} \cup Resends
        /\ resend' # Resting => resend'.n \in 1 .. Len(Sweep[resend'.kind])
    <3>1. CASE resend' = [pc |-> "second", kind |-> resend.kind, n |-> resend.n,
                          half |-> Half(states[Current])]
      BY <3>1, <2>1, <2>3 DEF Resends
    <3>2. CASE resend' = [pc |-> "send", kind |-> resend.kind, n |-> resend.n, view |-> Blank]
      BY <3>2, <2>1, <2>3 DEF Resends
    <3>3. CASE resend' = GoOn
      BY <3>3, <2>1, GoOnType
    <3> QED
      BY <1>6, <3>1, <3>2, <3>3 DEF ResendFirst
  <2> QED
    BY <1>6, <2>4 DEF ResendFirst, tableVars, RelayTypeOK
<1>7. ASSUME ResendSecond PROVE RelayTypeOK'
  <2>1. resend # Resting /\ resend.kind \in Kinds /\ resend.n \in Nat
        /\ resend.n \in 1 .. Len(Sweep[resend.kind]) /\ resend.half \in Views
    BY <1>7 DEF ResendSecond, RelayTypeOK, Resting, Resends
  <2>2. states[Current] \in Views
    BY <2>1, CurrentIsItem DEF RelayTypeOK
  <2>3. Whole(resend.half, states[Current]) \in Views
    BY <2>1, <2>2, HalvesAreViews
  <2>4. resend' \in Resends /\ resend'.n \in 1 .. Len(Sweep[resend'.kind])
    BY <1>7, <2>1, <2>3 DEF ResendSecond, Resends
  <2> QED
    BY <1>7, <2>4 DEF ResendSecond, tableVars, RelayTypeOK
<1>8. ASSUME ResendSend PROVE RelayTypeOK'
  <2>1. resend # Resting /\ resend.view \in Views
    BY <1>8 DEF ResendSend, RelayTypeOK, Resting, Resends
  <2>2. rxQueue' \in Seq(Messages) /\ Len(rxQueue') <= RX_QUEUE_LEN
    BY <1>8, <2>1, CurrentIsItem, SendType DEF ResendSend
  <2> QED
    BY <1>8, <2>1, <2>2, GoOnType DEF ResendSend, tableVars, RelayTypeOK
<1>9. ASSUME RemoteReceive PROVE RelayTypeOK'
  <2>1. rxQueue \in Seq(Messages) /\ rxQueue # <<>> /\ Len(rxQueue) <= RX_QUEUE_LEN /\ RX_QUEUE_LEN \in Nat
    BY <1>9, StatusRelayAssumption DEF RemoteReceive, RelayTypeOK
  <2>2. Head(rxQueue) \in Messages /\ Tail(rxQueue) \in Seq(Messages)
        /\ Len(Tail(rxQueue)) <= RX_QUEUE_LEN
    BY <2>1
  <2>3. remote' \in [Items -> Views]
    BY <1>9, <2>2, UpdatedType DEF RemoteReceive, RelayTypeOK, Messages
  <2> QED
    BY <1>9, <2>2, <2>3 DEF RemoteReceive, tableVars, RelayTypeOK
<1>10. ASSUME RemoteRestart PROVE RelayTypeOK'
  <2>1. rxQueue' \in Seq(Messages) /\ Len(rxQueue') <= RX_QUEUE_LEN
    BY <1>10, StatusRelayAssumption DEF RemoteRestart
  <2>2. remote' \in [Items -> Views] /\ restarts' \in 0 .. MAX_RESTARTS
    BY <1>10, BlankView, StatusRelayAssumption DEF RemoteRestart, RelayTypeOK
  <2> QED
    BY <1>10, <2>1, <2>2 DEF RemoteRestart, tableVars, RelayTypeOK
<1>11. ASSUME BridgeRestart PROVE RelayTypeOK'
  <2>1. \A k \in Kinds : queue'[k] = <<>> /\ mgr'[k] = Receiving
    BY <1>11 DEF BridgeRestart
  <2>2. queue' \in [Kinds -> Seq(Messages)] /\ mgr' \in [Kinds -> {Receiving} \cup Work]
    BY <1>11 DEF BridgeRestart
  <2>3. \A k \in Kinds : /\ Len(queue'[k]) <= QueueLen[k]
                         /\ \A n \in 1 .. Len(queue'[k]) : queue'[k][n].item \in ItemsOf(k)
                         /\ mgr'[k] # Receiving => mgr'[k].item \in ItemsOf(k)
    BY <2>1, StatusRelayAssumption DEF QueueLen
  <2>4. mgr'["tank"].pc # "send"
    BY <2>1 DEF Receiving
  <2>5. /\ states' \in [Items -> Views] /\ known' \in [Items -> BOOLEAN]
        /\ panel' \in [Items -> Views] /\ restarts' \in 0 .. MAX_RESTARTS
    BY <1>11, BlankView, StatusRelayAssumption DEF BridgeRestart, RelayTypeOK
  <2> QED
    BY <1>11, <2>2, <2>3, <2>4, <2>5 DEF BridgeRestart, RelayTypeOK
<1>12. CASE UNCHANGED relayVars
  BY <1>12 DEF relayVars, tableVars, RelayTypeOK
<1> QED
  BY <1>1, <1>2, <1>3, <1>4, <1>5, <1>6, <1>7, <1>8, <1>9, <1>10, <1>11, <1>12 DEF RelayNext

\* Every variable keeps its type and every queue its length, whatever the bus carries.
THEOREM RelayTypeCorrect == RelaySpec => []RelayTypeOK
<1>1. RelayInit => RelayTypeOK
  BY TypeInit
<1>2. RelayTypeOK /\ [RelayNext]_relayVars => RelayTypeOK'
  BY TypeNext
<1> QED
  BY <1>1, <1>2, PTL DEF RelaySpec

-----------------------------------------------------------------------------
(* The bridge's screen and its table. *)

\* A change on its way to the screen is what the table holds by now: only its own
\* manager writes the entries of a kind, and it is busy.
WorkIsStored ==
  \A k \in Kinds : mgr[k].pc = "show" => states[mgr[k].item] = mgr[k].view

PanelInv == PanelShowsTable /\ WorkIsStored

LEMMA PanelNext ==
  ASSUME RelayTypeOK, PanelInv, [RelayNext]_relayVars
  PROVE  PanelInv'
<1> USE DEF PanelInv, PanelShowsTable, WorkIsStored
<1>1. ASSUME NEW k \in Kinds, MgrReceive(k) PROVE PanelInv'
  <2> DEFINE msg == Head(queue[k])
             work == [pc |-> "show", item |-> msg.item, view |-> msg.view]
  <2>1. queue[k] \in Seq(Messages) /\ queue[k] # <<>>
    BY <1>1 DEF MgrReceive, RelayTypeOK
  <2>2. msg = queue[k][1] /\ 1 \in 1 .. Len(queue[k]) /\ msg \in Messages
    BY <2>1
  <2>3. msg.item \in ItemsOf(k)
    BY <2>2 DEF RelayTypeOK
  <2>4. msg.item \in Items /\ Kind(msg.item) = k
    BY <2>3, ItemParts
  <2>5. /\ states' = [states EXCEPT ![msg.item] = msg.view]
        /\ \/ mgr' = [mgr EXCEPT ![k] = work]
           \/ mgr' = mgr /\ states[msg.item] = msg.view
        /\ panel' = panel /\ mgr[k] = Receiving
    BY <1>1 DEF MgrReceive, Changed
  <2>6. mgr[k].pc # "show" /\ work.pc = "show" /\ work.item = msg.item /\ work.view = msg.view
    BY <2>5 DEF Receiving
  <2>7. states \in [Items -> Views] /\ mgr \in [Kinds -> {Receiving} \cup Work]
    BY DEF RelayTypeOK
  <2>8. ASSUME NEW j \in Kinds, j # k PROVE mgr'[j] = mgr[j] /\ (mgr[j].pc = "show" => mgr[j].item # msg.item)
    <3>1. mgr[j].pc = "show" => mgr[j].item \in ItemsOf(j)
      BY DEF RelayTypeOK, Receiving
    <3> QED
      BY <3>1, <2>4, <2>5, <2>7, <2>8, ItemParts
  <2> HIDE DEF msg, work
  <2>9. WorkIsStored'
    <3>1. ASSUME NEW j \in Kinds, mgr'[j].pc = "show" PROVE states'[mgr'[j].item] = mgr'[j].view
      <4>1. CASE j # k
        <5>1. mgr'[j] = mgr[j] /\ mgr[j].item # msg.item
          BY <2>8, <3>1, <4>1
        <5>2. mgr[j].item \in Items
          BY <3>1, <5>1, ItemParts DEF RelayTypeOK, Receiving
        <5> QED
          BY <2>5, <2>7, <3>1, <5>1, <5>2
      <4>2. CASE j = k
        BY <2>4, <2>5, <2>6, <2>7, <3>1, <4>2
      <4> QED
        BY <4>1, <4>2
    <3> QED
      BY <3>1
  <2>10. PanelShowsTable'
    <3>1. ASSUME NEW it \in Items
          PROVE  panel'[it] = states'[it] \/ (mgr'[Kind(it)].pc = "show" /\ mgr'[Kind(it)].item = it)
      <4>1. Kind(it) \in Kinds
        BY ItemKind
      <4>2. CASE Kind(it) # k
        BY <2>4, <2>5, <2>7, <2>8, <4>1, <4>2
      <4>3. CASE Kind(it) = k
        BY <2>4, <2>5, <2>6, <2>7, <4>3
      <4> QED
        BY <4>2, <4>3
    <3> QED
      BY <3>1
  <2> QED
    BY <2>9, <2>10
<1>2. ASSUME NEW k \in Kinds, MgrShow(k) PROVE PanelInv'
  <2>1. mgr[k] \in Work /\ mgr[k].item \in ItemsOf(k)
    BY <1>2 DEF MgrShow, RelayTypeOK, Receiving
  <2>2. mgr[k].item \in Items /\ Kind(mgr[k].item) = k /\ mgr[k].item = <<k, mgr[k].item[2]>>
    BY <2>1, ItemParts
  <2>3. panel' = [it \in Items |-> IF it = mgr[k].item THEN mgr[k].view ELSE panel[it]]
    BY <1>2, <2>2 DEF MgrShow, Updated
  <2>4. mgr \in [Kinds -> {Receiving} \cup Work]
    BY DEF RelayTypeOK
  <2>5. mgr'[k].pc # "show" /\ \A j \in Kinds : j # k => mgr'[j] = mgr[j]
    BY <1>2, <2>1, <2>4 DEF MgrShow, Receiving, Work
  <2>6. states' = states /\ states[mgr[k].item] = mgr[k].view
    BY <1>2 DEF MgrShow, tableVars
  <2>7. WorkIsStored'
    BY <2>5, <2>6
  <2>8. PanelShowsTable'
    BY <2>2, <2>3, <2>5, <2>6, ItemKind
  <2> QED
    BY <2>7, <2>8
<1>3. ASSUME MgrSend PROVE PanelInv'
  <2>1. mgr' = [mgr EXCEPT !["light"] = Receiving] /\ mgr["light"].pc = "send"
        /\ states' = states /\ panel' = panel
    BY <1>3 DEF MgrSend, tableVars
  <2>2. \A k \in Kinds : (mgr[k].pc = "show" \/ mgr'[k].pc = "show") => mgr'[k] = mgr[k]
    BY <2>1 DEF RelayTypeOK, Receiving
  <2> QED
    BY <2>1, <2>2, ItemKind
<1>4. ASSUME BridgeRestart PROVE PanelInv'
  BY <1>4, ItemKind DEF BridgeRestart, Receiving
<1>5. CASE UNCHANGED <<mgr, states, panel>>
  BY <1>5
<1>6. (\E it \in Items : TwaiReceive(it)) => UNCHANGED <<mgr, states, panel>>
  BY DEF TwaiReceive, tableVars
<1>7. (\E k \in Kinds : ResendStart(k)) \/ ResendFirst \/ ResendSecond \/ ResendSend
        => UNCHANGED <<mgr, states, panel>>
  BY DEF ResendStart, ResendFirst, ResendSecond, ResendSend, tableVars
<1>8. RemoteReceive \/ RemoteRestart \/ UNCHANGED relayVars => UNCHANGED <<mgr, states, panel>>
  BY DEF RemoteReceive, RemoteRestart, tableVars, relayVars
<1> QED
  BY <1>1, <1>2, <1>3, <1>4, <1>5, <1>6, <1>7, <1>8 DEF RelayNext

\* Whatever the coach reports and however often the bridge restarts, its screen shows
\* what its table says, but for a change that is on its way there.
THEOREM PanelFollowsTable == RelaySpec => []PanelShowsTable
<1>1. RelayInit => PanelInv
  BY DEF RelayInit, PanelInv, PanelShowsTable, WorkIsStored, Receiving
<1>2. RelayTypeOK /\ PanelInv /\ [RelayNext]_relayVars => PanelInv'
  BY PanelNext
<1>3. PanelInv => PanelShowsTable
  BY DEF PanelInv
<1> QED
  BY <1>1, <1>2, <1>3, RelayTypeCorrect, PTL DEF RelaySpec

-----------------------------------------------------------------------------
(* The bridge's screen is a display of reports. *)

\* What waits in the queues of the bridge was reported.
QueuesTrue ==
  \A k \in Kinds : \A n \in 1 .. Len(queue[k]) :
    queue[k][n].view \in reported[queue[k][n].item]

\* What a manager works on was reported.
WorkTrue ==
  \A k \in Kinds : mgr[k] # Receiving => mgr[k].view \in reported[mgr[k].item]

\* What the table holds was reported, or is Blank.
TableTrue ==
  \A it \in Items : Blank \in reported[it] /\ states[it] \in reported[it]

BridgeTrue == QueuesTrue /\ WorkTrue /\ TableTrue

\* Reports are never forgotten.
LEMMA ReportsGrow ==
  ASSUME RelayTypeOK, [RelayNext]_relayVars, NEW it \in Items
  PROVE  reported[it] \subseteq reported'[it]
<1>1. ASSUME NEW jt \in Items, TwaiReceive(jt) PROVE reported[it] \subseteq reported'[it]
  BY <1>1 DEF TwaiReceive, RelayTypeOK
<1>2. CASE UNCHANGED reported
  BY <1>2
<1>3. (\E k \in Kinds : MgrReceive(k) \/ MgrShow(k) \/ ResendStart(k)) \/ MgrSend
        => UNCHANGED reported
  BY DEF MgrReceive, MgrShow, ResendStart, MgrSend
<1>4. ResendFirst \/ ResendSecond \/ ResendSend => UNCHANGED reported
  BY DEF ResendFirst, ResendSecond, ResendSend
<1>5. RemoteReceive \/ RemoteRestart \/ BridgeRestart \/ UNCHANGED relayVars => UNCHANGED reported
  BY DEF RemoteReceive, RemoteRestart, BridgeRestart, relayVars
<1> QED
  BY <1>1, <1>2, <1>3, <1>4, <1>5 DEF RelayNext

LEMMA BridgeTrueNext ==
  ASSUME RelayTypeOK, BridgeTrue, [RelayNext]_relayVars
  PROVE  BridgeTrue'
<1> USE DEF BridgeTrue
<1>1. \A it \in Items : reported[it] \subseteq reported'[it]
  BY ReportsGrow
<1>2. /\ \A k \in Kinds : \A n \in 1 .. Len(queue[k]) :
              queue[k][n].view \in reported'[queue[k][n].item]
      /\ \A k \in Kinds : mgr[k] # Receiving => mgr[k].view \in reported'[mgr[k].item]
      /\ \A it \in Items : Blank \in reported'[it] /\ states[it] \in reported'[it]
  <2>1. ASSUME NEW k \in Kinds, NEW n \in 1 .. Len(queue[k])
        PROVE  queue[k][n].view \in reported'[queue[k][n].item]
    <3>1. queue[k][n].item \in ItemsOf(k)
      BY DEF RelayTypeOK
    <3>2. queue[k][n].item \in Items
      BY <3>1, ItemParts
    <3>3. queue[k][n].view \in reported[queue[k][n].item]
      BY DEF QueuesTrue
    <3> QED
      BY <1>1, <3>2, <3>3
  <2>2. ASSUME NEW k \in Kinds, mgr[k] # Receiving
        PROVE  mgr[k].view \in reported'[mgr[k].item]
    <3>1. mgr[k].item \in ItemsOf(k)
      BY <2>2 DEF RelayTypeOK
    <3>2. mgr[k].item \in Items
      BY <3>1, ItemParts
    <3>3. mgr[k].view \in reported[mgr[k].item]
      BY <2>2 DEF WorkTrue
    <3> QED
      BY <1>1, <3>2, <3>3
  <2>3. \A it \in Items : Blank \in reported'[it] /\ states[it] \in reported'[it]
    BY <1>1 DEF TableTrue
  <2> QED
    BY <2>1, <2>2, <2>3
<1>3. ASSUME UNCHANGED queue PROVE QueuesTrue'
  BY <1>2, <1>3 DEF QueuesTrue
<1>4. ASSUME UNCHANGED mgr PROVE WorkTrue'
  BY <1>2, <1>4 DEF WorkTrue
<1>5. ASSUME UNCHANGED states PROVE TableTrue'
  BY <1>2, <1>5 DEF TableTrue
<1>6. ASSUME NEW it \in Items, TwaiReceive(it) PROVE BridgeTrue'
  <2>1. QueuesTrue'
    <3>1. PICK view \in Decoded(it) :
            /\ reported' = [reported EXCEPT ![it] = @ \cup {view}]
            /\ \/ queue' = [queue EXCEPT ![Kind(it)] = Append(@, [item |-> it, view |-> view])]
               \/ UNCHANGED queue
      BY <1>6 DEF TwaiReceive
    <3> DEFINE k == Kind(it)
               msg == [item |-> it, view |-> view]
    <3>2. CASE queue' = [queue EXCEPT ![k] = Append(@, msg)]
      <4>1. k \in Kinds
        BY ItemKind
      <4>2. msg \in Messages
        BY DecodedIsView DEF Messages
      <4>3. queue[k] \in Seq(Messages) /\ Len(queue[k]) \in Nat
        BY <4>1 DEF RelayTypeOK
      <4>4. Len(Append(queue[k], msg)) = Len(queue[k]) + 1
        BY <4>2, <4>3
      <4>5. ASSUME NEW n \in 1 .. Len(queue[k]) + 1
            PROVE  Append(queue[k], msg)[n].view \in reported'[Append(queue[k], msg)[n].item]
        <5>1. CASE n = Len(queue[k]) + 1
          BY <5>1, <3>1, <4>2, <4>3 DEF RelayTypeOK
        <5>2. CASE n # Len(queue[k]) + 1
          <6>1. n \in 1 .. Len(queue[k]) /\ Append(queue[k], msg)[n] = queue[k][n]
            BY <5>2, <4>2, <4>3
          <6> QED
            BY <6>1, <1>2, <4>1
        <5> QED
          BY <5>1, <5>2
      <4>6. ASSUME NEW j \in Kinds, j # k PROVE queue'[j] = queue[j]
        BY <3>2, <4>6 DEF RelayTypeOK
      <4>7. queue'[k] = Append(queue[k], msg)
        BY <3>2, <4>1 DEF RelayTypeOK
      <4>8. ASSUME NEW j \in Kinds, NEW n \in 1 .. Len(queue'[j])
            PROVE  queue'[j][n].view \in reported'[queue'[j][n].item]
        <5>1. CASE j = k
          BY <5>1, <4>4, <4>5, <4>7, <4>8
        <5>2. CASE j # k
          BY <5>2, <4>6, <4>8, <1>2
        <5> QED
          BY <5>1, <5>2
      <4> QED
        BY <4>8 DEF QueuesTrue
    <3> QED
      BY <3>1, <3>2, <1>3
  <2> QED
    BY <1>4, <1>5, <1>6, <2>1 DEF TwaiReceive, tableVars
<1>7. ASSUME NEW k \in Kinds, MgrReceive(k) PROVE BridgeTrue'
  <2> DEFINE msg == Head(queue[k])
  <2>1. queue[k] \in Seq(Messages) /\ queue[k] # <<>> /\ queue' = [queue EXCEPT ![k] = Tail(queue[k])]
    BY <1>7 DEF MgrReceive, RelayTypeOK
  <2>2. msg = queue[k][1] /\ 1 \in 1 .. Len(queue[k])
    BY <2>1
  <2>3. msg.item \in ItemsOf(k) /\ msg.view \in reported'[msg.item]
    BY <1>2, <2>2 DEF RelayTypeOK
  <2>4. QueuesTrue'
    <3>1. /\ Len(Tail(queue[k])) = Len(queue[k]) - 1
          /\ \A n \in 1 .. Len(Tail(queue[k])) : /\ Tail(queue[k])[n] = queue[k][n + 1]
                                                 /\ n + 1 \in 1 .. Len(queue[k])
      BY <2>1
    <3>2. ASSUME NEW j \in Kinds, NEW n \in 1 .. Len(queue'[j])
          PROVE  \E m \in 1 .. Len(queue[j]) : queue'[j][n] = queue[j][m]
      <4>1. CASE j = k
        <5>1. queue'[j] = Tail(queue[k])
          BY <2>1, <4>1 DEF RelayTypeOK
        <5>2. n \in 1 .. Len(Tail(queue[k]))
          BY <5>1, <3>2
        <5> QED
          BY <3>1, <4>1, <5>1, <5>2
      <4>2. CASE j # k
        BY <2>1, <3>2, <4>2 DEF RelayTypeOK
      <4> QED
        BY <4>1, <4>2
    <3> QED
      BY <1>2, <3>2 DEF QueuesTrue
  <2>5. WorkTrue'
    <3> DEFINE work == [pc |-> "show", item |-> msg.item, view |-> msg.view]
    <3>1. mgr' = [mgr EXCEPT ![k] = work] \/ mgr' = mgr
      BY <1>7 DEF MgrReceive
    <3>2. work.item = msg.item /\ work.view = msg.view
      OBVIOUS
    <3> HIDE DEF work, msg
    <3> QED
      BY <1>2, <2>3, <3>1, <3>2 DEF WorkTrue, RelayTypeOK
  <2>6. TableTrue'
    BY <1>2, <1>7, <2>3 DEF MgrReceive, TableTrue, RelayTypeOK
  <2> QED
    BY <2>4, <2>5, <2>6
<1>8. ASSUME NEW k \in Kinds, MgrShow(k) PROVE BridgeTrue'
  <2>1. mgr[k] \in Work /\ mgr[k] # Receiving
    BY <1>8 DEF MgrShow, RelayTypeOK, Receiving
  <2>2. \A j \in Kinds : mgr'[j] # Receiving =>
          mgr[j] # Receiving /\ mgr'[j].item = mgr[j].item /\ mgr'[j].view = mgr[j].view
    <3>1. mgr \in [Kinds -> {Receiving} \cup Work]
      BY DEF RelayTypeOK
    <3>2. \A j \in Kinds : j # k => mgr'[j] = mgr[j]
      BY <1>8, <3>1 DEF MgrShow
    <3> DEFINE sending == [mgr[k] EXCEPT !.pc = "send"]
    <3>3. mgr'[k] = Receiving \/ mgr'[k] = sending
      BY <1>8, <3>1 DEF MgrShow
    <3>4. sending.item = mgr[k].item /\ sending.view = mgr[k].view
      BY <2>1 DEF Work
    <3> HIDE DEF sending
    <3>5. \/ mgr'[k] = Receiving
          \/ mgr'[k].item = mgr[k].item /\ mgr'[k].view = mgr[k].view
      BY <3>3, <3>4
    <3>6. ASSUME NEW j \in Kinds, mgr'[j] # Receiving
          PROVE  mgr[j] # Receiving /\ mgr'[j].item = mgr[j].item /\ mgr'[j].view = mgr[j].view
      <4>1. CASE j = k
        BY <2>1, <3>5, <3>6, <4>1
      <4>2. CASE j # k
        BY <3>2, <3>6, <4>2
      <4> QED
        BY <4>1, <4>2
    <3> QED
      BY <3>6
  <2>3. WorkTrue'
    BY <1>2, <2>2 DEF WorkTrue
  <2> QED
    BY <1>3, <1>5, <1>8, <2>3 DEF MgrShow, tableVars
<1>9. ASSUME MgrSend PROVE BridgeTrue'
  <2>1. \A j \in Kinds : mgr'[j] = Receiving \/ mgr'[j] = mgr[j]
    BY <1>9 DEF MgrSend, RelayTypeOK
  <2>2. WorkTrue'
    BY <1>2, <2>1 DEF WorkTrue
  <2> QED
    BY <1>3, <1>5, <1>9, <2>2 DEF MgrSend, tableVars
<1>10. ASSUME BridgeRestart PROVE BridgeTrue'
  <2>1. \A k \in Kinds : queue'[k] = <<>> /\ mgr'[k] = Receiving
    BY <1>10 DEF BridgeRestart
  <2> QED
    BY <1>10, <2>1 DEF BridgeRestart, QueuesTrue, WorkTrue, TableTrue
<1>11. CASE UNCHANGED <<queue, mgr, states>>
  BY <1>3, <1>4, <1>5, <1>11
<1>12. (\E k \in Kinds : ResendStart(k)) \/ ResendFirst \/ ResendSecond \/ ResendSend
         => UNCHANGED <<queue, mgr, states>>
  BY DEF ResendStart, ResendFirst, ResendSecond, ResendSend, tableVars
<1>13. RemoteReceive \/ RemoteRestart \/ UNCHANGED relayVars => UNCHANGED <<queue, mgr, states>>
  BY DEF RemoteReceive, RemoteRestart, tableVars, relayVars
<1> QED
  BY <1>6, <1>7, <1>8, <1>9, <1>10, <1>11, <1>12, <1>13 DEF RelayNext

\* Showing one item is an update of one item.
LEMMA UpdatedOne ==
  ASSUME NEW it \in Items, NEW widgets \in [Items -> Views], NEW view
  PROVE  Updated(widgets, Kind(it), it[2], view) = [widgets EXCEPT ![it] = view]
<1>1. it = <<Kind(it), it[2]>>
  BY ItemKind, ItemParts
<1> QED
  BY <1>1 DEF Updated

\* A step of the relay is a step of the display, or does not concern it.
LEMMA OwnDisplayNext ==
  ASSUME RelayTypeOK, BridgeTrue, [RelayNext]_relayVars
  PROVE  [OwnDisplay!DisplayNext]_(OwnDisplay!displayVars)
<1> USE DEF OwnDisplay!displayVars
<1>1. ASSUME NEW it \in Items, TwaiReceive(it) PROVE OwnDisplay!DisplayNext
  <2>1. PICK view \in Decoded(it) : reported' = [reported EXCEPT ![it] = @ \cup {view}]
    BY <1>1 DEF TwaiReceive
  <2>2. view \in Values
    BY DEF Values
  <2>3. OwnDisplay!Report(it)
    BY <1>1, <2>1, <2>2 DEF TwaiReceive, OwnDisplay!Report
  <2> QED
    BY <2>3 DEF OwnDisplay!DisplayNext
<1>2. ASSUME NEW k \in Kinds, MgrShow(k) PROVE OwnDisplay!DisplayNext
  <2>1. mgr[k] # Receiving /\ mgr[k].item \in ItemsOf(k)
    BY <1>2 DEF MgrShow, RelayTypeOK, Receiving
  <2>2. mgr[k].item \in Items /\ Kind(mgr[k].item) = k
    BY <2>1, ItemParts
  <2>3. panel' = [panel EXCEPT ![mgr[k].item] = mgr[k].view]
    <3>1. panel' = Updated(panel, Kind(mgr[k].item), mgr[k].item[2], mgr[k].view)
      BY <1>2, <2>2 DEF MgrShow
    <3>2. panel \in [Items -> Views]
      BY DEF RelayTypeOK
    <3> QED
      BY <2>2, <3>1, <3>2, UpdatedOne
  <2>4. mgr[k].view \in reported[mgr[k].item] /\ mgr[k].view \in Views
    BY <2>1, <2>2 DEF BridgeTrue, WorkTrue, RelayTypeOK
  <2>5. mgr[k].view = [amount |-> mgr[k].view.amount, flag |-> mgr[k].view.flag]
    BY <2>4 DEF Views
  <2>6. OwnDisplay!Show(mgr[k].item)
    BY <1>2, <2>3, <2>4, <2>5 DEF MgrShow, OwnDisplay!Show
  <2> QED
    BY <2>2, <2>6 DEF OwnDisplay!DisplayNext
<1>3. ASSUME BridgeRestart PROVE OwnDisplay!DisplayNext
  BY <1>3 DEF BridgeRestart, OwnDisplay!DisplayNext, OwnDisplay!Restart, OwnDisplay!Blank, Blank
<1>4. (\E k \in Kinds : MgrReceive(k) \/ ResendStart(k)) \/ MgrSend
        => UNCHANGED <<reported, panel>>
  BY DEF MgrReceive, ResendStart, MgrSend
<1>5. ResendFirst \/ ResendSecond \/ ResendSend => UNCHANGED <<reported, panel>>
  BY DEF ResendFirst, ResendSecond, ResendSend
<1>6. RemoteReceive \/ RemoteRestart \/ UNCHANGED relayVars => UNCHANGED <<reported, panel>>
  BY DEF RemoteReceive, RemoteRestart, relayVars
<1> QED
  BY <1>1, <1>2, <1>3, <1>4, <1>5, <1>6 DEF RelayNext

LEMMA BridgeTrueInit == RelayInit => BridgeTrue
<1> SUFFICES ASSUME RelayInit PROVE BridgeTrue
  OBVIOUS
<1>1. \A k \in Kinds : queue[k] = <<>> /\ mgr[k] = Receiving
  BY DEF RelayInit
<1> QED
  BY <1>1 DEF RelayInit, BridgeTrue, QueuesTrue, WorkTrue, TableTrue

\* The relay implements a display of whole reports on the bridge's screen.
THEOREM OwnDisplayImplemented == RelaySpec => OwnDisplaySpec
<1>1. RelayInit => OwnDisplay!DisplayInit
  BY DEF RelayInit, OwnDisplay!DisplayInit, OwnDisplay!Blank, Blank
<1>2. RelayTypeOK /\ BridgeTrue /\ [RelayNext]_relayVars => BridgeTrue'
  BY BridgeTrueNext
<1>3. RelayTypeOK /\ BridgeTrue /\ [RelayNext]_relayVars
        => [OwnDisplay!DisplayNext]_(OwnDisplay!displayVars)
  BY OwnDisplayNext
<1> QED
  BY <1>1, <1>2, <1>3, BridgeTrueInit, RelayTypeCorrect, PTL
  DEF RelaySpec, OwnDisplaySpec, OwnDisplay!DisplaySpec

-----------------------------------------------------------------------------
(* The remote's screen is a display of reports, perhaps of mixed ones. *)

\* An amount and a flag that these values carry.
IsMix(view, views) == \E a, b \in views : view = [amount |-> a.amount, flag |-> b.flag]

\* What the timer daemon holds: a field of a report, then a pair of such fields.
DaemonTrue ==
  /\ resend.pc = "second" => \E view \in reported[Current] : resend.half = Half(view)
  /\ resend.pc = "send" => IsMix(resend.view, reported[Current])

\* What is on its way to the remote, or waits there.
AirTrue ==
  \A n \in 1 .. Len(rxQueue) : IsMix(rxQueue[n].view, reported[rxQueue[n].item])

\* A view is a mix of itself, and more reports give more mixes.
LEMMA MixOfOne ==
  ASSUME NEW views \in SUBSET Views, NEW view \in views
  PROVE  IsMix(view, views)
<1>1. view = [amount |-> view.amount, flag |-> view.flag]
  BY DEF Views
<1> QED
  BY <1>1 DEF IsMix

LEMMA MixesGrow ==
  ASSUME NEW fewer, NEW more, fewer \subseteq more
  PROVE  \A view : IsMix(view, fewer) => IsMix(view, more)
BY DEF IsMix

\* Two reads of an entry make a mix, in either order.
LEMMA ReadsMix ==
  ASSUME NEW views \in SUBSET Views, NEW first \in views, NEW second \in views
  PROVE  IsMix(Whole(Half(first), second), views)
<1>1. CASE FIRST_READ = "amount"
  <2>1. Half(first) = [amount |-> first.amount, flag |-> FALSE]
    BY <1>1 DEF Half, Blank
  <2>2. Whole(Half(first), second) = [amount |-> first.amount, flag |-> second.flag]
    BY <1>1, <2>1 DEF Whole
  <2> QED
    BY <2>2 DEF IsMix
<1>2. CASE FIRST_READ = "flag"
  <2>1. Half(first) = [amount |-> 0, flag |-> first.flag]
    BY <1>2 DEF Half, Blank
  <2>2. Whole(Half(first), second) = [amount |-> second.amount, flag |-> first.flag]
    BY <1>2, <2>1 DEF Whole
  <2> QED
    BY <2>2 DEF IsMix
<1> QED
  BY <1>1, <1>2, StatusRelayAssumption

\* A frame that lands keeps the remote's queue true.
LEMMA SendTrue ==
  ASSUME RelayTypeOK, AirTrue, UNCHANGED reported,
         NEW it \in Items, NEW view, IsMix(view, reported[it]), Send(it, view)
  PROVE  AirTrue'
<1>1. CASE UNCHANGED rxQueue
  BY <1>1 DEF AirTrue
<1>2. CASE Delivered(it, view)
  <2> DEFINE msg == [item |-> it, view |-> view]
  <2>1. rxQueue \in Seq(Messages) /\ Len(rxQueue) \in Nat /\ rxQueue' = Append(rxQueue, msg)
    BY <1>2 DEF Delivered, RelayTypeOK
  <2>2. ASSUME NEW n \in 1 .. Len(rxQueue')
        PROVE  IsMix(rxQueue'[n].view, reported[rxQueue'[n].item])
    <3>1. Len(rxQueue') = Len(rxQueue) + 1
      BY <2>1
    <3>2. CASE n = Len(rxQueue) + 1
      BY <2>1, <3>2
    <3>3. CASE n # Len(rxQueue) + 1
      <4>1. n \in 1 .. Len(rxQueue) /\ rxQueue'[n] = rxQueue[n]
        BY <2>1, <3>1, <3>3
      <4> QED
        BY <4>1 DEF AirTrue
    <3> QED
      BY <3>2, <3>3
  <2> QED
    BY <2>2 DEF AirTrue
<1> QED
  BY <1>1, <1>2 DEF Send

\* More reports keep the remote's queue true.
LEMMA AirStaysTrue ==
  ASSUME RelayTypeOK, AirTrue, [RelayNext]_relayVars, UNCHANGED rxQueue
  PROVE  AirTrue'
<1>1. ASSUME NEW n \in 1 .. Len(rxQueue)
      PROVE  IsMix(rxQueue[n].view, reported'[rxQueue[n].item])
  <2>1. rxQueue[n] \in Messages
    BY DEF RelayTypeOK
  <2>2. rxQueue[n].item \in Items
    BY <2>1 DEF Messages
  <2>3. reported[rxQueue[n].item] \subseteq reported'[rxQueue[n].item]
    BY <2>2, ReportsGrow
  <2>4. IsMix(rxQueue[n].view, reported[rxQueue[n].item])
    BY DEF AirTrue
  <2> QED
    BY <2>3, <2>4, MixesGrow
<1> QED
  BY <1>1 DEF AirTrue

\* More reports keep what the daemon holds true.
LEMMA DaemonStaysTrue ==
  ASSUME RelayTypeOK, DaemonTrue, [RelayNext]_relayVars, UNCHANGED resend
  PROVE  DaemonTrue'
<1>1. Current' = Current
  BY DEF Current
<1>2. CASE resend.pc \in {"second", "send"}
  <2>1. Current \in Items
    BY <1>2, CurrentIsItem DEF Resting
  <2>2. /\ reported[Current] \subseteq reported'[Current]
        /\ \A view : IsMix(view, reported[Current]) => IsMix(view, reported'[Current])
    BY <2>1, ReportsGrow, MixesGrow
  <2>3. /\ resend.pc = "second" => \E view \in reported'[Current] : resend.half = Half(view)
        /\ resend.pc = "send" => IsMix(resend.view, reported'[Current])
    BY <2>2 DEF DaemonTrue
  <2> QED
    BY <1>1, <2>3 DEF DaemonTrue
<1>3. CASE resend.pc \notin {"second", "send"}
  BY <1>3 DEF DaemonTrue
<1> QED
  BY <1>2, <1>3

RemoteTrue == DaemonTrue /\ AirTrue

LEMMA RemoteTrueNext ==
  ASSUME RelayTypeOK, BridgeTrue, RemoteTrue, [RelayNext]_relayVars
  PROVE  RemoteTrue'
<1> USE DEF RemoteTrue
<1>1. ASSUME UNCHANGED resend PROVE DaemonTrue'
  BY <1>1, DaemonStaysTrue
<1>2. ASSUME UNCHANGED rxQueue PROVE AirTrue'
  BY <1>2, AirStaysTrue
<1>3. ASSUME resend'.pc \notin {"second", "send"} PROVE DaemonTrue'
  BY <1>3 DEF DaemonTrue
<1>4. ASSUME NEW k \in Kinds, ResendStart(k) PROVE RemoteTrue'
  BY <1>2, <1>3, <1>4 DEF ResendStart
<1>5. ASSUME resend' = GoOn PROVE DaemonTrue'
  BY <1>3, <1>5 DEF GoOn, Resting
<1>6. resend.pc \in {"first", "second", "send"} =>
        /\ Current \in Items
        /\ states[Current] \in reported[Current] /\ Blank \in reported[Current]
        /\ reported[Current] \in SUBSET Views
  BY CurrentIsItem DEF Resting, BridgeTrue, TableTrue, RelayTypeOK
<1>7. ASSUME ResendFirst PROVE RemoteTrue'
  <2>1. resend.pc = "first" /\ UNCHANGED <<rxQueue, reported>>
    BY <1>7 DEF ResendFirst
  <2>2. CASE resend' = [pc |-> "second", kind |-> resend.kind, n |-> resend.n,
                        half |-> Half(states[Current])]
    <3>1. Current' = Current /\ resend'.pc = "second" /\ resend'.half = Half(states[Current])
      BY <2>2 DEF Current
    <3> QED
      BY <1>2, <1>6, <2>1, <3>1 DEF DaemonTrue
  <2>3. CASE resend' = [pc |-> "send", kind |-> resend.kind, n |-> resend.n, view |-> Blank]
    <3>1. Current' = Current /\ resend'.pc = "send" /\ resend'.view = Blank
      BY <2>3 DEF Current
    <3>2. IsMix(Blank, reported[Current])
      BY <1>6, <2>1, MixOfOne
    <3> QED
      BY <1>2, <2>1, <3>1, <3>2 DEF DaemonTrue
  <2>4. CASE resend' = GoOn
    BY <1>2, <1>5, <2>1, <2>4
  <2> QED
    BY <1>7, <2>2, <2>3, <2>4 DEF ResendFirst
<1>8. ASSUME ResendSecond PROVE RemoteTrue'
  <2>1. resend.pc = "second" /\ UNCHANGED <<rxQueue, reported>>
        /\ resend' = [pc |-> "send", kind |-> resend.kind, n |-> resend.n,
                      view |-> Whole(resend.half, states[Current])]
    BY <1>8 DEF ResendSecond
  <2>2. PICK view \in reported[Current] : resend.half = Half(view)
    BY <2>1 DEF DaemonTrue
  <2>3. IsMix(Whole(resend.half, states[Current]), reported[Current])
    BY <1>6, <2>1, <2>2, ReadsMix
  <2>4. Current' = Current /\ resend'.pc = "send" /\ resend'.view = Whole(resend.half, states[Current])
    BY <2>1 DEF Current
  <2> QED
    BY <1>2, <2>1, <2>3, <2>4 DEF DaemonTrue
<1>9. ASSUME ResendSend PROVE RemoteTrue'
  <2>1. resend.pc = "send" /\ Send(Current, resend.view) /\ UNCHANGED reported /\ resend' = GoOn
    BY <1>9 DEF ResendSend
  <2>2. IsMix(resend.view, reported[Current])
    BY <2>1 DEF DaemonTrue
  <2> QED
    BY <1>5, <1>6, <2>1, <2>2, SendTrue
<1>10. ASSUME MgrSend PROVE RemoteTrue'
  <2>1. /\ mgr["light"].pc = "send" /\ Send(mgr["light"].item, mgr["light"].view)
        /\ UNCHANGED reported /\ UNCHANGED resend
    BY <1>10 DEF MgrSend
  <2>2. mgr["light"] # Receiving
    BY <2>1 DEF Receiving
  <2>3. mgr["light"].item \in Items
    BY <2>2, ItemParts DEF RelayTypeOK
  <2>4. mgr["light"].view \in reported[mgr["light"].item]
    BY <2>2 DEF BridgeTrue, WorkTrue
  <2>5. IsMix(mgr["light"].view, reported[mgr["light"].item])
    BY <2>3, <2>4, MixOfOne DEF RelayTypeOK
  <2> QED
    BY <1>1, <2>1, <2>3, <2>5, SendTrue
<1>11. ASSUME RemoteReceive PROVE RemoteTrue'
  <2>1. /\ rxQueue \in Seq(Messages) /\ rxQueue # <<>> /\ rxQueue' = Tail(rxQueue)
        /\ UNCHANGED reported /\ UNCHANGED resend
    BY <1>11 DEF RemoteReceive, RelayTypeOK
  <2>2. ASSUME NEW n \in 1 .. Len(rxQueue')
        PROVE  IsMix(rxQueue'[n].view, reported[rxQueue'[n].item])
    <3>1. n + 1 \in 1 .. Len(rxQueue) /\ rxQueue'[n] = rxQueue[n + 1]
      BY <2>1
    <3> QED
      BY <3>1 DEF AirTrue
  <2>3. AirTrue'
    BY <2>1, <2>2 DEF AirTrue
  <2> QED
    BY <1>1, <2>1, <2>3
<1>12. ASSUME RemoteRestart PROVE RemoteTrue'
  <2>1. rxQueue' = <<>> /\ UNCHANGED resend
    BY <1>12 DEF RemoteRestart
  <2>2. AirTrue'
    BY <2>1 DEF AirTrue
  <2> QED
    BY <1>1, <2>1, <2>2
<1>13. ASSUME BridgeRestart PROVE RemoteTrue'
  BY <1>2, <1>3, <1>13 DEF BridgeRestart, Resting
<1>14. CASE UNCHANGED <<resend, rxQueue>>
  BY <1>1, <1>2, <1>14
<1>15. (\E it \in Items : TwaiReceive(it)) \/ (\E k \in Kinds : MgrReceive(k) \/ MgrShow(k))
         => UNCHANGED <<resend, rxQueue>>
  BY DEF TwaiReceive, MgrReceive, MgrShow
<1>16. UNCHANGED relayVars => UNCHANGED <<resend, rxQueue>>
  BY DEF relayVars
<1> QED
  BY <1>4, <1>7, <1>8, <1>9, <1>10, <1>11, <1>12, <1>13, <1>14, <1>15, <1>16 DEF RelayNext

\* A step of the relay is a step of the remote's display, or does not concern it.
LEMMA RemoteDisplayNext ==
  ASSUME RelayTypeOK, RemoteTrue, [RelayNext]_relayVars
  PROVE  [RemoteDisplay!DisplayNext]_(RemoteDisplay!displayVars)
<1> USE DEF RemoteDisplay!displayVars
<1>1. ASSUME NEW it \in Items, TwaiReceive(it) PROVE RemoteDisplay!DisplayNext
  <2>1. PICK view \in Decoded(it) : reported' = [reported EXCEPT ![it] = @ \cup {view}]
    BY <1>1 DEF TwaiReceive
  <2>2. view \in Values
    BY DEF Values
  <2>3. RemoteDisplay!Report(it)
    BY <1>1, <2>1, <2>2 DEF TwaiReceive, RemoteDisplay!Report
  <2> QED
    BY <2>3 DEF RemoteDisplay!DisplayNext
<1>2. ASSUME RemoteReceive PROVE RemoteDisplay!DisplayNext
  <2> DEFINE msg == Head(rxQueue)
  <2>1. rxQueue \in Seq(Messages) /\ rxQueue # <<>>
    BY <1>2 DEF RemoteReceive, RelayTypeOK
  <2>2. msg = rxQueue[1] /\ 1 \in 1 .. Len(rxQueue) /\ msg \in Messages
    BY <2>1
  <2>3. msg.item \in Items
    BY <2>2 DEF Messages
  <2>4. remote' = [remote EXCEPT ![msg.item] = msg.view]
    <3>1. remote' = Updated(remote, Kind(msg.item), msg.item[2], msg.view)
      BY <1>2 DEF RemoteReceive
    <3>2. remote \in [Items -> Views]
      BY DEF RelayTypeOK
    <3> QED
      BY <2>3, <3>1, <3>2, UpdatedOne
  <2>5. IsMix(msg.view, reported[msg.item])
    BY <2>2 DEF RemoteTrue, AirTrue
  <2>6. RemoteDisplay!Show(msg.item)
    BY <1>2, <2>4, <2>5 DEF RemoteReceive, IsMix, RemoteDisplay!Show
  <2> QED
    BY <2>3, <2>6 DEF RemoteDisplay!DisplayNext
<1>3. ASSUME RemoteRestart PROVE RemoteDisplay!DisplayNext
  BY <1>3 DEF RemoteRestart, RemoteDisplay!DisplayNext, RemoteDisplay!Restart,
              RemoteDisplay!Blank, Blank
<1>4. (\E k \in Kinds : MgrReceive(k) \/ MgrShow(k) \/ ResendStart(k)) \/ MgrSend
        => UNCHANGED <<reported, remote>>
  BY DEF MgrReceive, MgrShow, ResendStart, MgrSend
<1>5. ResendFirst \/ ResendSecond \/ ResendSend => UNCHANGED <<reported, remote>>
  BY DEF ResendFirst, ResendSecond, ResendSend
<1>6. BridgeRestart \/ UNCHANGED relayVars => UNCHANGED <<reported, remote>>
  BY DEF BridgeRestart, relayVars
<1> QED
  BY <1>1, <1>2, <1>3, <1>4, <1>5, <1>6 DEF RelayNext

\* Every pair of fields on the remote's screen is made of fields that were reported of
\* this item, whatever frames are lost, overtaken or torn.
THEOREM RemoteDisplayImplemented == RelaySpec => RemoteDisplaySpec
<1>1. RelayInit => RemoteDisplay!DisplayInit
  BY DEF RelayInit, RemoteDisplay!DisplayInit, RemoteDisplay!Blank, Blank
<1>2. RelayInit => RemoteTrue
  BY DEF RelayInit, RemoteTrue, DaemonTrue, AirTrue, Resting
<1>3. RelayTypeOK /\ BridgeTrue /\ [RelayNext]_relayVars => BridgeTrue'
  BY BridgeTrueNext
<1>4. RelayTypeOK /\ BridgeTrue /\ RemoteTrue /\ [RelayNext]_relayVars => RemoteTrue'
  BY RemoteTrueNext
<1>5. RelayTypeOK /\ RemoteTrue /\ [RelayNext]_relayVars
        => [RemoteDisplay!DisplayNext]_(RemoteDisplay!displayVars)
  BY RemoteDisplayNext
<1> QED
  BY <1>1, <1>2, <1>3, <1>4, <1>5, BridgeTrueInit, RelayTypeCorrect, PTL
  DEF RelaySpec, RemoteDisplaySpec, RemoteDisplay!DisplaySpec

=============================================================================
