---------------------------- MODULE BatteryLinks ----------------------------
(***************************************************************************)
(* The battery client, components/jbd_bms/jbd_bms_client.c: one GATT       *)
(* client application per battery, each in a slot, connected, subscribed   *)
(* and polled by a periodic task (jbd_bms_task), while the Bluetooth stack *)
(* reports what became of each link in callbacks (on_gattc_event) that run *)
(* on a task of their own and share the slots without a lock.              *)
(*                                                                         *)
(* The unit of time is the period of the client's task, and a pass of the  *)
(* task is over before its next period.  What a reading says and how its   *)
(* frame is put together are left out.                                     *)
(***************************************************************************)
EXTENDS Integers

CONSTANTS
  SLOT_COUNT,     \* JBD_BMS_MAX_BATTERIES
  CONFIGURED,     \* the slots with an address of their own
  RECONNECT,      \* JBD_RECONNECT_MS
  POLL_INTERVAL,  \* FIREFLY_BATTERY_POLL_INTERVAL_MS
  OPEN_TIMEOUT,   \* the stack gives up an attempt after this
  FAULTS          \* what may go wrong besides lost links

ASSUME BatteryAssumption ==
  /\ SLOT_COUNT \in Nat \ {0}
  /\ CONFIGURED \subseteq 0 .. SLOT_COUNT - 1
  /\ RECONNECT \in Nat \ {0}
  /\ POLL_INTERVAL \in Nat \ {0}
  /\ OPEN_TIMEOUT \in Nat \ {0}
  /\ FAULTS \subseteq
       {"refused",     \* the call that opens a link returns an error
        "early",       \* an attempt fails before that call has returned
        "no_service",  \* the peer does not have what the client looks for
        "stalled"}     \* a discovery request is answered with an error

Slots == 0 .. SLOT_COUNT - 1

VARIABLES
  slotState,  \* slot->state
  wait,       \* periods until slot->next_action_tick, 0 when it has come
  slotLink,   \* what the stack and the peer are doing about the slot's link
  openFor,    \* periods an attempt has lasted
  passPc,     \* where the client's task is
  slot,       \* the slot its pass is at
  inFlight    \* connect_in_flight

slotVars == <<slotState, wait>>
slotLinkVars == <<slotLink, openFor>>
passVars == <<passPc, slot, inFlight>>
batteryVars == <<slotVars, slotLinkVars, passVars>>

SlotStates == {"disabled", "idle", "connecting", "ready"}
SlotLinks  == {"down", "opening", "discovering", "searching", "registering",
               "subscribed", "stalled", "closing"}
PCs        == {"sleep", "scan", "slot", "opened", "polling"}

Established == SlotLinks \ {"down", "opening"}

-----------------------------------------------------------------------------
(* Callbacks of the Bluetooth stack *)

\* Mutation of OwnEvent: no guard against other applications' connections.
OwnEventAny(i, peer) == TRUE

\* The guard of the link events, memcmp(remote_bda, slot->bda): every registered
\* application hears of every peer, a slot only takes its own.
OwnEvent(i, peer) == i = peer

\* reset_slot_for_retry, in every slot that takes an event about this peer.
ResetForRetry(peer) ==
  LET mine == {i \in Slots : slotState[i] # "disabled" /\ OwnEvent(i, peer)}
  IN /\ slotState' = [i \in Slots |-> IF i \in mine THEN "idle" ELSE slotState[i]]
     /\ wait' = [i \in Slots |-> IF i \in mine THEN RECONNECT ELSE wait[i]]

LinkBecomes(i, stage) ==
  /\ slotLink' = [slotLink EXCEPT ![i] = stage]
  /\ openFor' = [openFor EXCEPT ![i] = 0]

\* ESP_GATTC_REG_EVT; an application that cannot be registered has no such step.
Registered(i) ==
  /\ i \in CONFIGURED
  /\ slotState[i] = "disabled"
  /\ slotState' = [slotState EXCEPT ![i] = "idle"]
  /\ wait' = [wait EXCEPT ![i] = 0]
  /\ UNCHANGED <<slotLinkVars, passVars>>

\* An attempt fails early when try_connect() has not yet returned.
FailsEarly(i) == passPc = "opened" /\ slot = i

\* Mutation of OpenFailed: the event is not handled.
OpenFailedUnheard(i) ==
  /\ slotLink[i] = "opening"
  /\ FailsEarly(i) => "early" \in FAULTS
  /\ LinkBecomes(i, "down")
  /\ UNCHANGED <<slotVars, passVars>>

\* ESP_GATTC_OPEN_EVT with an error.
OpenFailed(i) ==
  /\ slotLink[i] = "opening"
  /\ FailsEarly(i) => "early" \in FAULTS
  /\ LinkBecomes(i, "down")
  /\ ResetForRetry(i)
  /\ UNCHANGED passVars

\* ESP_GATTC_CONNECT_EVT, in every application.  A link takes longer to come up
\* than try_connect() takes to return.
Connected(i) ==
  /\ slotLink[i] = "opening" /\ ~ FailsEarly(i)
  /\ LinkBecomes(i, "discovering")
  /\ slotState' = [j \in Slots |-> IF slotState[j] # "disabled" /\ OwnEvent(j, i)
                                   THEN "connecting" ELSE slotState[j]]
  /\ UNCHANGED <<wait, passVars>>

\* ESP_GATTC_DIS_SRVC_CMPL_EVT: look for the service; an error only logs.
ServicesDiscovered(i) ==
  /\ slotLink[i] = "discovering"
  /\ \/ LinkBecomes(i, "searching")
     \/ "stalled" \in FAULTS /\ LinkBecomes(i, "stalled")
  /\ UNCHANGED <<slotVars, passVars>>

\* ESP_GATTC_SEARCH_CMPL_EVT: ask for notifications, or close the link when the
\* service or one of its characteristics is missing.
ServiceSearched(i) ==
  /\ slotLink[i] = "searching"
  /\ \/ LinkBecomes(i, "registering")
     \/ "no_service" \in FAULTS /\ LinkBecomes(i, "closing")
  /\ UNCHANGED <<slotVars, passVars>>

\* ESP_GATTC_REG_FOR_NOTIFY_EVT: subscribed, and due for a poll at once.
Subscribed(i) ==
  /\ slotLink[i] = "registering"
  /\ LinkBecomes(i, "subscribed")
  /\ slotState' = [slotState EXCEPT ![i] = "ready"]
  /\ wait' = [wait EXCEPT ![i] = 0]
  /\ UNCHANGED passVars

\* The same event with an error, which only logs, or without a descriptor to
\* subscribe through, which closes the link.
NotSubscribed(i) ==
  /\ slotLink[i] = "registering"
  /\ \/ "stalled" \in FAULTS /\ LinkBecomes(i, "stalled")
     \/ "no_service" \in FAULTS /\ LinkBecomes(i, "closing")
  /\ UNCHANGED <<slotVars, passVars>>

\* ESP_GATTC_DISCONNECT_EVT: the link was closed, or is lost.
SlotDisconnected(i) ==
  /\ slotLink[i] \in Established
  /\ LinkBecomes(i, "down")
  /\ ResetForRetry(i)
  /\ UNCHANGED passVars

-----------------------------------------------------------------------------
(* jbd_bms_task *)

NextSlot ==
  /\ passPc' = IF slot + 1 < SLOT_COUNT THEN "slot" ELSE "sleep"
  /\ slot' = IF slot + 1 < SLOT_COUNT THEN slot + 1 ELSE 0

\* Mutation of BeginPass: an attempt of an earlier pass is not looked for.
BeginPassUngated ==
  /\ passPc = "scan"
  /\ inFlight' = FALSE
  /\ passPc' = "slot" /\ slot' = 0
  /\ UNCHANGED <<slotVars, slotLinkVars>>

\* The gate: is an attempt of an earlier pass still in flight?
BeginPass ==
  /\ passPc = "scan"
  /\ inFlight' = (\E i \in CONFIGURED : slotState[i] = "connecting")
  /\ passPc' = "slot" /\ slot' = 0
  /\ UNCHANGED <<slotVars, slotLinkVars>>

Due(i) == wait[i] = 0

MayConnect ==
  slot \in CONFIGURED /\ ~inFlight /\ slotState[slot] = "idle" /\ Due(slot)
MayPoll ==
  slot \in CONFIGURED /\ slotState[slot] = "ready" /\ Due(slot)

\* try_connect, up to the return of esp_ble_gattc_open.
TryConnect ==
  /\ passPc = "slot"
  /\ MayConnect
  /\ LinkBecomes(slot, "opening")
  /\ passPc' = "opened"
  /\ UNCHANGED <<slotVars, slot, inFlight>>

\* The call failed.
OpenRefused ==
  /\ "refused" \in FAULTS
  /\ passPc = "slot"
  /\ MayConnect
  /\ slotState' = [slotState EXCEPT ![slot] = "idle"]
  /\ wait' = [wait EXCEPT ![slot] = RECONNECT]
  /\ inFlight' = TRUE
  /\ NextSlot
  /\ UNCHANGED slotLinkVars

\* The rest of try_connect, whatever has been reported meanwhile.
OpenReturned ==
  /\ passPc = "opened"
  /\ slotState' = [slotState EXCEPT ![slot] = "connecting"]
  /\ wait' = [wait EXCEPT ![slot] = RECONNECT]
  /\ inFlight' = TRUE
  /\ NextSlot
  /\ UNCHANGED slotLinkVars

\* try_poll is called for a slot that is ready.
PollStart ==
  /\ passPc = "slot"
  /\ MayPoll
  /\ passPc' = "polling"
  /\ UNCHANGED <<slotVars, slotLinkVars, slot, inFlight>>

\* try_poll: the request goes out if the link is still there; the next one is
\* scheduled either way.
Poll ==
  /\ passPc = "polling"
  /\ wait' = [wait EXCEPT ![slot] = POLL_INTERVAL]
  /\ NextSlot
  /\ UNCHANGED <<slotState, slotLinkVars, inFlight>>

Skip ==
  /\ passPc = "slot"
  /\ ~ MayConnect /\ ~ MayPoll
  /\ NextSlot
  /\ UNCHANGED <<slotVars, slotLinkVars, inFlight>>

-----------------------------------------------------------------------------
(* Time and the specification *)

Less(n) == IF n = 0 THEN 0 ELSE n - 1

\* A period goes by and the task wakes; no attempt outlasts its timeout.
BatteryTick ==
  /\ passPc = "sleep"
  /\ \A i \in Slots : openFor[i] < OPEN_TIMEOUT
  /\ passPc' = "scan"
  /\ wait' = [i \in Slots |-> Less(wait[i])]
  /\ openFor' = [i \in Slots |-> IF slotLink[i] = "opening" THEN openFor[i] + 1 ELSE 0]
  /\ UNCHANGED <<slotState, slotLink, slot, inFlight>>

BatteryInit ==
  /\ slotState = [i \in Slots |-> "disabled"]
  /\ wait = [i \in Slots |-> 0]
  /\ slotLink = [i \in Slots |-> "down"]
  /\ openFor = [i \in Slots |-> 0]
  /\ passPc = "sleep" /\ slot = 0 /\ inFlight = FALSE

Discovery(i) ==
  \/ ServicesDiscovered(i)
  \/ ServiceSearched(i)
  \/ Subscribed(i)
  \/ NotSubscribed(i)

BatteryStack ==
  \E i \in Slots :
    \/ Registered(i)
    \/ OpenFailed(i)
    \/ Connected(i)
    \/ Discovery(i)
    \/ SlotDisconnected(i)

BatteryTask ==
  \/ BeginPass
  \/ TryConnect \/ OpenRefused \/ OpenReturned
  \/ PollStart \/ Poll
  \/ Skip

BatteryNext == BatteryStack \/ BatteryTask \/ BatteryTick

BatterySpec == BatteryInit /\ [][BatteryNext]_batteryVars

\* The task runs and time passes.  The stack ends every attempt by its timeout,
\* answers every request of a discovery and carries out every close; registering
\* an application and losing a link are up to it.
BatteryFairness ==
  /\ WF_batteryVars(BatteryTask)
  /\ WF_batteryVars(BatteryTick)
  /\ \A i \in Slots :
       /\ WF_batteryVars(OpenFailed(i) \/ Connected(i))
       /\ WF_batteryVars(Discovery(i))
       /\ WF_batteryVars(slotLink[i] = "closing" /\ SlotDisconnected(i))

FairBatterySpec == BatterySpec /\ BatteryFairness

-----------------------------------------------------------------------------
(* Properties *)

LinksTypeOK ==
  /\ slotState \in [Slots -> SlotStates]
  /\ wait \in [Slots -> Nat]
  /\ \A i \in Slots : wait[i] <= RECONNECT \/ wait[i] <= POLL_INTERVAL
  /\ slotLink \in [Slots -> SlotLinks]
  /\ openFor \in [Slots -> 0 .. OPEN_TIMEOUT]
  /\ passPc \in PCs
  /\ slot \in Slots
  /\ inFlight \in BOOLEAN

\* "Only ever start one new connect per pass, and skip entirely if a connection
\* attempt is already pending": the gate, which looks at the slots and not at the
\* links, never lets a second attempt start.
OneAttempt ==
  \A i, j \in Slots : slotLink[i] = "opening" /\ slotLink[j] = "opening" => i = j

\* What a slot says of its link is so: an idle slot has none, one that is
\* connecting has an attempt or a link that can still end, and a slot is only
\* polled over a link that was subscribed.  A slot that is connecting closes the
\* gate for all the others, so one with nothing behind it would close it for good.
SlotTellsLink ==
  \A i \in Slots :
    /\ slotState[i] \in {"disabled", "idle"} => slotLink[i] = "down" \/ FailsEarly(i)
    /\ slotState[i] = "connecting" => slotLink[i] \notin {"down", "subscribed"}
    /\ slotState[i] = "ready" => slotLink[i] = "subscribed"

HasTurn(i) == passPc = "slot" /\ slot = i /\ MayConnect

\* A slot that waits to connect is let through the gate in the end.
LetThrough(i) == slotState[i] = "idle" ~> slotState[i] # "idle" \/ HasTurn(i)

\* "permanently blocked every other slot from ever getting a turn [...] only the first
\* configured battery ever connected until this was added": every battery gets its
\* turn, whatever becomes of the attempts of the others.
EveryBatteryTried == \A i \in Slots : LetThrough(i)

\* A slot that makes no claim on the gate: without an application, or connected.
Settled(j) == slotState[j] \in {"disabled", "ready"}

\* What is so of the turns: a slot that waits is let through in the end, however
\* often the attempts of one slot before it and of any behind it fail, if the others
\* before it settle.  Two batteries that are away before it may pass the gate to
\* each other for ever (EveryBatteryTried fails); a link whose discovery stalled,
\* and which the peer holds, keeps the gate shut.
TurnBehindOneAway ==
  \A i \in Slots : \A k \in 0 .. Less(i) :
    (\A j \in 0 .. i - 1 : j # k => <>[]Settled(j))
      => (slotState[i] = "idle" ~>
            \/ slotState[i] # "idle" \/ HasTurn(i)
            \/ \E j \in Slots : slotLink[j] = "stalled")
=============================================================================
