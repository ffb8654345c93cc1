---------------------------- MODULE StatusRelay ----------------------------
(***************************************************************************)
(* How the state of the coach's lights and tanks reaches the panels         *)
(* (main/twai_tasks.c, main/state_manager.c, main/main.c,                   *)
(* components/espnow_link, components/rvc_protocol).                        *)
(*                                                                          *)
(* The bridge panel hears RV-C status frames (twai_rx_task), keeps them in  *)
(* two tables (state_manager_task, tank_state_task), shows a change on its  *)
(* own screen and forwards a changed light at once.  The timer daemon sends *)
(* every known light again every 30 s (bridge_resync_timer_cb) and every    *)
(* tank it shows every 5 s (tank_telemetry_timer_cb).  The remote panel has *)
(* no bus: it shows what its ESP-NOW receive task hands it.                 *)
(*                                                                          *)
(* The managers and the timer daemon share the tables without a lock.  The  *)
(* daemon reads the two fields of an entry one after the other, in an order *)
(* the compiler chooses, and a manager may store and forward in between.    *)
(* A manager stores an entry in one step: a reader between two of its       *)
(* stores sees what it sees when the whole store falls between two reads.   *)
(***************************************************************************)
EXTENDS Integers, Sequences

CONSTANTS
  LIGHTS,            \* RV-C instances of the lights, in the order of s_states
  TANKS,             \* instances of the tanks, in the order of PANEL_BUTTONS_2
  LIGHT_BYTES,       \* the operating levels the coach's frames may carry
  TANK_READINGS,     \* the pairs of relative level and resolution they may carry
  STATUS_QUEUE_LEN,
  TANK_QUEUE_LEN,
  RX_QUEUE_LEN,      \* of the remote's espnow_link
  FIRST_READ,        \* the field of an entry the compiler has the daemon read first
  MAX_RESTARTS       \* bound: restarts of the bridge and of the remote

ASSUME StatusRelayAssumption ==
  /\ LIGHTS \in Seq(Nat) /\ TANKS \in Seq(Nat)
  /\ LIGHT_BYTES \subseteq 0 .. 255
  /\ TANK_READINGS \subseteq (0 .. 255) \X (0 .. 255)
  /\ {STATUS_QUEUE_LEN, TANK_QUEUE_LEN, RX_QUEUE_LEN} \subseteq Nat \ {0}
  /\ FIRST_READ \in {"amount", "flag"}
  /\ MAX_RESTARTS \in Nat

Kinds == {"light", "tank"}

\* The items of a kind in the order in which the timer daemon goes through them.
Sweep == [light |-> LIGHTS, tank |-> TANKS]

\* Lights and tanks have separate instance numbers, which may coincide.
ItemsOf(k) == {<<k, Sweep[k][n]>> : n \in 1 .. Len(Sweep[k])}

Items == ItemsOf("light") \cup ItemsOf("tank")

Kind(it) == it[1]

Views == [amount : 0 .. 200, flag : BOOLEAN]

Blank == [amount |-> 0, flag |-> FALSE]

RVC_LEVEL_MAX == 200

RVC_FIELD_NA == 255

\* rvc_decode_dc_dimmer_status_3: a level that is not available counts as off.
LightView(byte) ==
  [amount |-> IF byte > RVC_LEVEL_MAX THEN RVC_LEVEL_MAX ELSE byte,
   flag   |-> byte \notin {0, RVC_FIELD_NA}]

\* rvc_decode_tank_status: wet segments out of all, in per cent.
TankView(reading) ==
  IF reading[1] = RVC_FIELD_NA \/ reading[2] = 0
    THEN Blank
    ELSE LET percent == (reading[1] * 100) \div reading[2]
         IN [amount |-> IF percent > 100 THEN 100 ELSE percent, flag |-> TRUE]

\* What a frame about an item may say.
Decoded(it) ==
  IF Kind(it) = "light" THEN {LightView(byte) : byte \in LIGHT_BYTES}
                        ELSE {TankView(reading) : reading \in TANK_READINGS}

Values == UNION {Decoded(it) : it \in Items}

QueueLen == [light |-> STATUS_QUEUE_LEN, tank |-> TANK_QUEUE_LEN]

VARIABLES
  queue,     \* queue[k]: s_status_queue and s_tank_status_queue
  states,    \* s_states and s_tank_states
  known,     \* their "known" fields
  mgr,       \* mgr[k]: what state_manager_task and tank_state_task are doing
  panel,     \* what the bridge's own widgets show
  resend,    \* what the timer daemon is doing
  rxQueue,   \* the remote's s_rx_queue
  remote,    \* what the remote's widgets show
  restarts,  \* restarts so far
  reported   \* for the properties: Blank and the values the bus has carried

tableVars == <<states, known>>
relayVars == <<queue, states, known, mgr, panel, resend, rxQueue, remote, restarts, reported>>

Messages == [item : Items, view : Views]

Receiving == [pc |-> "receive"]

Resting == [pc |-> "rest"]

RelayInit ==
  /\ queue = [k \in Kinds |-> <<>>]
  /\ states = [it \in Items |-> Blank]
  /\ known = [it \in Items |-> FALSE]
  /\ mgr = [k \in Kinds |-> Receiving]
  /\ panel = [it \in Items |-> Blank]
  /\ resend = Resting
  /\ rxQueue = <<>>
  /\ remote = [it \in Items |-> Blank]
  /\ restarts = 0
  /\ reported = [it \in Items |-> {Blank}]

-----------------------------------------------------------------------------
(* The bus and the bridge's tasks. *)

\* twai_rx_task decodes a status frame and posts it, or drops it.
TwaiReceive(it) ==
  /\ \E view \in Decoded(it) :
       /\ reported' = [reported EXCEPT ![it] = @ \cup {view}]
       /\ \/ /\ Len(queue[Kind(it)]) < QueueLen[Kind(it)]
             /\ queue' = [queue EXCEPT ![Kind(it)] = Append(@, [item |-> it, view |-> view])]
          \/ /\ Len(queue[Kind(it)]) = QueueLen[Kind(it)]
             /\ UNCHANGED queue
  /\ UNCHANGED <<tableVars, mgr, panel, resend, rxQueue, remote, restarts>>

\* Mutation of Changed: the comparison comes after the store.
ChangedTooLate(msg) == ~known[msg.item]

Changed(msg) == ~known[msg.item] \/ states[msg.item] # msg.view

\* A manager takes a message, stores it and goes on if it is news.
MgrReceive(k) ==
  /\ mgr[k] = Receiving
  /\ queue[k] # <<>>
  /\ queue' = [queue EXCEPT ![k] = Tail(@)]
  /\ LET msg == Head(queue[k])
     IN /\ states' = [states EXCEPT ![msg.item] = msg.view]
        /\ known' = [known EXCEPT ![msg.item] = TRUE]
        /\ \/ /\ Changed(msg)
              /\ mgr' = [mgr EXCEPT ![k] = [pc |-> "show", item |-> msg.item, view |-> msg.view]]
           \/ /\ ~Changed(msg)
              /\ UNCHANGED mgr
  /\ UNCHANGED <<panel, resend, rxQueue, remote, restarts, reported>>

\* Mutation of Updated: a tank is taken for the light of the same instance.
UpdatedAnyKind(widgets, kind, instance, view) ==
  [it \in Items |-> IF it[2] = instance THEN view ELSE widgets[it]]

\* ui_on_status and ui_on_tank_status update the widgets of this kind and instance.
Updated(widgets, kind, instance, view) ==
  [it \in Items |-> IF it = <<kind, instance>> THEN view ELSE widgets[it]]

\* A manager gets the LVGL lock and shows the change; tanks have no status sink.
MgrShow(k) ==
  /\ mgr[k].pc = "show"
  /\ panel' = Updated(panel, k, mgr[k].item[2], mgr[k].view)
  /\ mgr' = [mgr EXCEPT ![k] = IF k = "light" THEN [@ EXCEPT !.pc = "send"] ELSE Receiving]
  /\ UNCHANGED <<queue, tableVars, resend, rxQueue, remote, restarts, reported>>

\* A frame reaches the remote's queue, unless that is full.
Delivered(it, view) ==
  /\ Len(rxQueue) < RX_QUEUE_LEN
  /\ rxQueue' = Append(rxQueue, [item |-> it, view |-> view])

\* esp_now_send: no frame is acknowledged to the sender, and any may be lost.
Send(it, view) == Delivered(it, view) \/ UNCHANGED rxQueue

\* bridge_forward_status.
MgrSend ==
  /\ mgr["light"].pc = "send"
  /\ Send(mgr["light"].item, mgr["light"].view)
  /\ mgr' = [mgr EXCEPT !["light"] = Receiving]
  /\ UNCHANGED <<queue, tableVars, panel, resend, remote, restarts, reported>>

-----------------------------------------------------------------------------
(* The timer daemon. *)

\* The resync timer or the tank timer expires.
ResendStart(k) ==
  /\ resend = Resting
  /\ Sweep[k] # <<>>
  /\ resend' = [pc |-> "first", kind |-> k, n |-> 1]
  /\ UNCHANGED <<queue, tableVars, mgr, panel, rxQueue, remote, restarts, reported>>

\* The item the daemon is at, and what it does when it is done with it.
Current == <<resend.kind, Sweep[resend.kind][resend.n]>>

GoOn ==
  IF resend.n < Len(Sweep[resend.kind])
    THEN [pc |-> "first", kind |-> resend.kind, n |-> resend.n + 1]
    ELSE Resting

\* The value with its first field read, and with the other filled in.
Half(view) ==
  IF FIRST_READ = "amount" THEN [Blank EXCEPT !.amount = view.amount]
                           ELSE [Blank EXCEPT !.flag = view.flag]

Whole(half, view) ==
  IF FIRST_READ = "amount" THEN [half EXCEPT !.flag = view.flag]
                           ELSE [half EXCEPT !.amount = view.amount]

\* Mutation of ResendFirst: a light that is off is passed over like an unknown one.
ResendFirstOnlyLit ==
  /\ resend.pc = "first"
  /\ \/ /\ states[Current].flag \/ resend.kind = "tank"
        /\ resend' = [pc |-> "second", kind |-> resend.kind, n |-> resend.n,
                      half |-> Half(states[Current])]
     \/ /\ ~states[Current].flag
        /\ resend.kind = "light"
        /\ resend' = GoOn
  /\ UNCHANGED <<queue, tableVars, mgr, panel, rxQueue, remote, restarts, reported>>

\* "known" and one field are read, in either order for a tank, whose entry is copied.
\* A light never heard of is passed over, a tank never heard of is sent as invalid.
ResendFirst ==
  /\ resend.pc = "first"
  /\ \/ /\ known[Current] \/ resend.kind = "tank"
        /\ resend' = [pc |-> "second", kind |-> resend.kind, n |-> resend.n,
                      half |-> Half(states[Current])]
     \/ /\ ~known[Current]
        /\ resend.kind = "tank"
        /\ resend' = [pc |-> "send", kind |-> resend.kind, n |-> resend.n, view |-> Blank]
     \/ /\ ~known[Current]
        /\ resend.kind = "light"
        /\ resend' = GoOn
  /\ UNCHANGED <<queue, tableVars, mgr, panel, rxQueue, remote, restarts, reported>>

ResendSecond ==
  /\ resend.pc = "second"
  /\ resend' = [pc |-> "send", kind |-> resend.kind, n |-> resend.n,
                view |-> Whole(resend.half, states[Current])]
  /\ UNCHANGED <<queue, tableVars, mgr, panel, rxQueue, remote, restarts, reported>>

ResendSend ==
  /\ resend.pc = "send"
  /\ Send(Current, resend.view)
  /\ resend' = GoOn
  /\ UNCHANGED <<queue, tableVars, mgr, panel, remote, restarts, reported>>

-----------------------------------------------------------------------------
(* The remote panel, and restarts. *)

\* Mutation of RemoteReceive: every frame is handed to the lights.
RemoteReceiveLights ==
  /\ rxQueue # <<>>
  /\ rxQueue' = Tail(rxQueue)
  /\ LET msg == Head(rxQueue)
     IN remote' = Updated(remote, "light", msg.item[2], msg.view)
  /\ UNCHANGED <<queue, tableVars, mgr, panel, resend, restarts, reported>>

\* espnow_rx_task hands the frame to remote_status_rx or remote_telem_rx.
RemoteReceive ==
  /\ rxQueue # <<>>
  /\ rxQueue' = Tail(rxQueue)
  /\ LET msg == Head(rxQueue)
     IN remote' = Updated(remote, Kind(msg.item), msg.item[2], msg.view)
  /\ UNCHANGED <<queue, tableVars, mgr, panel, resend, restarts, reported>>

RemoteRestart ==
  /\ restarts < MAX_RESTARTS
  /\ restarts' = restarts + 1
  /\ rxQueue' = <<>>
  /\ remote' = [it \in Items |-> Blank]
  /\ UNCHANGED <<queue, tableVars, mgr, panel, resend, reported>>

\* The tables are lost; nobody asks the coach to report again.
BridgeRestart ==
  /\ restarts < MAX_RESTARTS
  /\ restarts' = restarts + 1
  /\ queue' = [k \in Kinds |-> <<>>]
  /\ states' = [it \in Items |-> Blank]
  /\ known' = [it \in Items |-> FALSE]
  /\ mgr' = [k \in Kinds |-> Receiving]
  /\ panel' = [it \in Items |-> Blank]
  /\ resend' = Resting
  /\ UNCHANGED <<rxQueue, remote, reported>>

RelayNext ==
  \/ \E it \in Items : TwaiReceive(it)
  \/ \E k \in Kinds : MgrReceive(k) \/ MgrShow(k) \/ ResendStart(k)
  \/ MgrSend
  \/ ResendFirst \/ ResendSecond \/ ResendSend
  \/ RemoteReceive
  \/ RemoteRestart
  \/ BridgeRestart

RelaySpec == RelayInit /\ [][RelayNext]_relayVars

-----------------------------------------------------------------------------
(* Fairness: the daemon goes on, and both timers keep expiring whenever it   *)
(* rests; it serves them in the order of their expiry, so neither is passed  *)
(* over for ever.  The remote's receive task runs.  The radio does not lose  *)
(* every copy of a frame that is sent for ever, and the remote's queue is    *)
(* not full every time one is sent.  The bus and the managers owe nothing.   *)

ResendArrives(it) ==
  /\ resend.pc = "send"
  /\ Current = it
  /\ Delivered(it, resend.view)
  /\ resend' = GoOn
  /\ UNCHANGED <<queue, tableVars, mgr, panel, remote, restarts, reported>>

RemoteKeepsUp(it) ==
  /\ resend.pc = "send"
  /\ Current = it
  /\ RemoteReceive

Fairness ==
  /\ \A k \in {k \in Kinds : Sweep[k] # <<>>} : []<><<ResendStart(k)>>_relayVars
  /\ WF_relayVars(ResendFirst \/ ResendSecond \/ ResendSend)
  /\ \A it \in Items : SF_relayVars(ResendArrives(it)) /\ SF_relayVars(RemoteKeepsUp(it))
  /\ WF_relayVars(RemoteReceive)

FairRelaySpec == RelaySpec /\ Fairness

-----------------------------------------------------------------------------
(* Properties. *)

Work == [pc : {"show", "send"}, item : Items, view : Views]

Resends ==
  [pc : {"first"}, kind : Kinds, n : Nat]
    \cup [pc : {"second"}, kind : Kinds, n : Nat, half : Views]
    \cup [pc : {"send"}, kind : Kinds, n : Nat, view : Views]

\* The values of the variables; every queue within its length.
RelayTypeOK ==
  /\ queue \in [Kinds -> Seq(Messages)]
  /\ mgr \in [Kinds -> {Receiving} \cup Work]
  /\ \A k \in Kinds :
       /\ Len(queue[k]) <= QueueLen[k]
       /\ \A n \in 1 .. Len(queue[k]) : queue[k][n].item \in ItemsOf(k)
       /\ mgr[k] # Receiving => mgr[k].item \in ItemsOf(k)
  /\ mgr["tank"].pc # "send"
  /\ states \in [Items -> Views]
  /\ known \in [Items -> BOOLEAN]
  /\ panel \in [Items -> Views]
  /\ resend \in {Resting} \cup Resends
  /\ resend # Resting => resend.n \in 1 .. Len(Sweep[resend.kind])
  /\ rxQueue \in Seq(Messages) /\ Len(rxQueue) <= RX_QUEUE_LEN
  /\ remote \in [Items -> Views]
  /\ restarts \in 0 .. MAX_RESTARTS
  /\ reported \in [Items -> SUBSET Views]

\* The bridge's screen is a display of whole reports: every pair of level and state
\* (or fill and validity) on it was reported as such, for this item and no other.
OwnDisplay == INSTANCE LoadDisplay WITH
  ITEMS <- Items, VALUES <- Values, TEARS <- FALSE, shown <- panel

OwnDisplaySpec == OwnDisplay!DisplaySpec

\* The remote's screen is a display of reports too, except that level and state may be
\* of different reports: the resend reads them one after the other.
RemoteDisplay == INSTANCE LoadDisplay WITH
  ITEMS <- Items, VALUES <- Values, TEARS <- TRUE, shown <- remote

RemoteDisplaySpec == RemoteDisplay!DisplaySpec

\* Once the table of the bridge is at rest, the remote comes to show it and goes on
\* showing it: a frame that was lost, a frame overtaken by an older one of the resend, a
\* pair of fields that do not belong together and a restart are all repaired
\* (main.c:291-294).
RemoteConverges ==
  \A it \in Items : \A view \in Decoded(it) :
    <>[](known[it] /\ states[it] = view) => <>[](remote[it] = view)

\* What the bridge shows is what its table says, except while the change is on its way
\* to the screen: no report is stored without being shown, not even across a restart.
PanelShowsTable ==
  \A it \in Items :
    panel[it] = states[it] \/ (mgr[Kind(it)].pc = "show" /\ mgr[Kind(it)].item = it)

=============================================================================
