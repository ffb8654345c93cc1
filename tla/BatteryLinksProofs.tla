------------------------- MODULE BatteryLinksProofs -------------------------
(***************************************************************************)
(* Theorems about BatteryLinks, for any number of slots, any subset of     *)
(* them configured and any times.                                          *)
(***************************************************************************)
EXTENDS BatteryLinks, TLAPS

-----------------------------------------------------------------------------
(* Types *)

\* The type invariant is inductive.
THEOREM LinksTypeCorrect == BatterySpec => []LinksTypeOK
<1>1. ASSUME BatteryInit PROVE LinksTypeOK
  <2>1. /\ 0 \in Slots /\ 0 \in 0 .. OPEN_TIMEOUT
        /\ \A i \in Slots : 0 <= RECONNECT
        /\ "disabled" \in SlotStates /\ "down" \in SlotLinks /\ "sleep" \in PCs
    BY BatteryAssumption DEF Slots, SlotStates, SlotLinks, PCs
  <2>2. /\ slotState \in [Slots -> SlotStates] /\ slotLink \in [Slots -> SlotLinks]
        /\ openFor \in [Slots -> 0 .. OPEN_TIMEOUT]
    BY <1>1, <2>1 DEF BatteryInit
  <2>3. /\ wait \in [Slots -> Nat]
        /\ \A i \in Slots : wait[i] <= RECONNECT \/ wait[i] <= POLL_INTERVAL
    BY <1>1, <2>1 DEF BatteryInit
  <2>4. QED
    BY <1>1, <2>1, <2>2, <2>3 DEF BatteryInit, LinksTypeOK
<1>2. ASSUME LinksTypeOK, [BatteryNext]_batteryVars PROVE LinksTypeOK'
  <2>0. /\ 0 \in Slots /\ 0 \in 0 .. OPEN_TIMEOUT
        /\ POLL_INTERVAL \in Nat /\ RECONNECT \in Nat
        /\ {"idle", "connecting", "ready"} \subseteq SlotStates
        /\ SlotLinks = {"down", "opening", "discovering", "searching", "registering",
                        "subscribed", "stalled", "closing"}
        /\ PCs = {"sleep", "scan", "slot", "opened", "polling"}
    BY BatteryAssumption DEF Slots, SlotStates, SlotLinks, PCs
  <2>1. ASSUME NEW i \in Slots, NEW stage \in SlotLinks, LinkBecomes(i, stage)
        PROVE  /\ slotLink' \in [Slots -> SlotLinks]
               /\ openFor' \in [Slots -> 0 .. OPEN_TIMEOUT]
    BY <1>2, <2>0, <2>1 DEF LinksTypeOK, LinkBecomes
  <2>2. ASSUME NEW i \in Slots, ResetForRetry(i)
        PROVE  /\ slotState' \in [Slots -> SlotStates] /\ wait' \in [Slots -> Nat]
               /\ \A j \in Slots : wait'[j] <= RECONNECT \/ wait'[j] <= POLL_INTERVAL
    BY <1>2, <2>0, <2>2 DEF LinksTypeOK, ResetForRetry
  <2>3. ASSUME NextSlot PROVE passPc' \in PCs /\ slot' \in Slots
    BY <1>2, <2>0, <2>3, BatteryAssumption DEF LinksTypeOK, NextSlot, Slots
  <2>4. CASE BatteryStack
    <3> SUFFICES ASSUME NEW i \in Slots,
                        \/ Registered(i) \/ OpenFailed(i) \/ Connected(i)
                        \/ Discovery(i) \/ SlotDisconnected(i)
                 PROVE  LinksTypeOK'
      BY <2>4 DEF BatteryStack
    <3>1. CASE Registered(i)
      BY <1>2, <2>0, <3>1 DEF Registered, LinksTypeOK, slotLinkVars, passVars
    <3>2. CASE OpenFailed(i) \/ SlotDisconnected(i)
      <4>1. LinkBecomes(i, "down") /\ ResetForRetry(i) /\ UNCHANGED passVars
        BY <3>2 DEF OpenFailed, SlotDisconnected
      <4>2. QED
        BY <1>2, <2>0, <2>1, <2>2, <4>1 DEF LinksTypeOK, passVars
    <3>3. CASE Connected(i)
      <4>1. /\ slotLink' \in [Slots -> SlotLinks]
            /\ openFor' \in [Slots -> 0 .. OPEN_TIMEOUT]
        BY <2>0, <2>1, <3>3 DEF Connected
      <4>2. QED
        BY <1>2, <2>0, <3>3, <4>1 DEF Connected, LinksTypeOK, passVars
    <3>4. CASE Discovery(i)
      <4>1. \E stage \in SlotLinks : LinkBecomes(i, stage)
        BY <2>0, <3>4 DEF Discovery, ServicesDiscovered, ServiceSearched, Subscribed,
                          NotSubscribed
      <4>2. /\ slotLink' \in [Slots -> SlotLinks]
            /\ openFor' \in [Slots -> 0 .. OPEN_TIMEOUT]
        BY <2>1, <4>1
      <4>3. /\ UNCHANGED passVars
            /\ \/ UNCHANGED slotVars
               \/ /\ slotState' = [slotState EXCEPT ![i] = "ready"]
                  /\ wait' = [wait EXCEPT ![i] = 0]
        BY <3>4 DEF Discovery, ServicesDiscovered, ServiceSearched, Subscribed,
                    NotSubscribed
      <4>4. QED
        BY <1>2, <2>0, <4>2, <4>3 DEF LinksTypeOK, passVars, slotVars
    <3>5. QED
      BY <3>1, <3>2, <3>3, <3>4
  <2>5. CASE BeginPass
    BY <1>2, <2>0, <2>5 DEF BeginPass, LinksTypeOK, slotVars, slotLinkVars
  <2>6. CASE TryConnect
    <3>1. /\ slotLink' \in [Slots -> SlotLinks]
          /\ openFor' \in [Slots -> 0 .. OPEN_TIMEOUT]
      BY <1>2, <2>0, <2>1, <2>6 DEF TryConnect, LinksTypeOK
    <3>2. QED
      BY <1>2, <2>0, <2>6, <3>1 DEF TryConnect, LinksTypeOK, slotVars
  <2>7. CASE OpenRefused
    BY <1>2, <2>0, <2>3, <2>7 DEF OpenRefused, LinksTypeOK, slotLinkVars
  <2>8. CASE OpenReturned
    BY <1>2, <2>0, <2>3, <2>8 DEF OpenReturned, LinksTypeOK, slotLinkVars
  <2>9. CASE PollStart
    BY <1>2, <2>0, <2>9 DEF PollStart, LinksTypeOK, slotVars, slotLinkVars
  <2>10. CASE Poll
    BY <1>2, <2>0, <2>3, <2>10 DEF Poll, LinksTypeOK, slotLinkVars
  <2>11. CASE Skip
    BY <1>2, <2>0, <2>3, <2>11 DEF Skip, LinksTypeOK, slotVars, slotLinkVars
  <2>12. CASE BatteryTick
    <3>1. /\ wait' \in [Slots -> Nat]
          /\ \A j \in Slots : wait'[j] <= RECONNECT \/ wait'[j] <= POLL_INTERVAL
      BY <1>2, <2>0, <2>12 DEF BatteryTick, LinksTypeOK, Less
    <3>2. openFor' \in [Slots -> 0 .. OPEN_TIMEOUT]
      BY <1>2, <2>12, BatteryAssumption DEF BatteryTick, LinksTypeOK
    <3>3. QED
      BY <1>2, <2>0, <2>12, <3>1, <3>2 DEF BatteryTick, LinksTypeOK
  <2>13. CASE UNCHANGED batteryVars
    BY <1>2, <2>13 DEF LinksTypeOK, batteryVars, slotVars, slotLinkVars, passVars
  <2>14. QED
    BY <1>2, <2>4, <2>5, <2>6, <2>7, <2>8, <2>9, <2>10, <2>11, <2>12, <2>13
       DEF BatteryNext, BatteryTask
<1>3. QED
  BY <1>1, <1>2, PTL DEF BatterySpec

-----------------------------------------------------------------------------
(* What a step does to one slot *)

\* A callback about one battery leaves every other slot alone, and an event that
\* ends a link leaves its slot idle (or disabled) and the link down.
LEMMA EventIsLocal ==
  ASSUME LinksTypeOK, NEW i \in Slots,
         \/ Registered(i) \/ OpenFailed(i) \/ Connected(i)
         \/ Discovery(i) \/ SlotDisconnected(i)
  PROVE  /\ UNCHANGED passVars
         /\ \A j \in Slots \ {i} :
              slotState'[j] = slotState[j] /\ slotLink'[j] = slotLink[j]
<1>1. CASE Registered(i)
  BY <1>1 DEF Registered, LinksTypeOK, slotLinkVars
<1>2. CASE OpenFailed(i) \/ SlotDisconnected(i)
  BY <1>2 DEF OpenFailed, SlotDisconnected, LinkBecomes, ResetForRetry, OwnEvent, LinksTypeOK
<1>3. CASE Connected(i)
  BY <1>3 DEF Connected, LinkBecomes, OwnEvent, LinksTypeOK
<1>4. CASE Discovery(i)
  <2>1. UNCHANGED slotState \/ slotState' = [slotState EXCEPT ![i] = "ready"]
    BY <1>4 DEF Discovery, ServicesDiscovered, ServiceSearched, Subscribed,
                NotSubscribed, slotVars
  <2>2. \E stage : slotLink' = [slotLink EXCEPT ![i] = stage]
    BY <1>4 DEF Discovery, ServicesDiscovered, ServiceSearched, Subscribed,
                NotSubscribed, LinkBecomes
  <2>3. UNCHANGED passVars
    BY <1>4 DEF Discovery, ServicesDiscovered, ServiceSearched, Subscribed,
                NotSubscribed
  <2>4. QED
    BY <2>1, <2>2, <2>3 DEF LinksTypeOK
<1>5. QED
  BY <1>1, <1>2, <1>3, <1>4

-----------------------------------------------------------------------------
(* One attempt at a time *)

\* The slots without an address are never touched.
Untouched ==
  \A i \in Slots \ CONFIGURED : slotState[i] = "disabled" /\ slotLink[i] = "down"

\* An attempt shows in the state of its slot, but for the moment between the two
\* halves of try_connect().
AttemptShows ==
  \A i \in Slots : slotLink[i] = "opening" => slotState[i] = "connecting" \/ FailsEarly(i)

\* While a pass has not found the gate closed, no slot is connecting.
GateOpen ==
  passPc \in {"slot", "opened", "polling"} /\ ~inFlight
    => \A i \in Slots : slotState[i] # "connecting"

\* The inductive invariant behind OneAttempt.
GateInv ==
  /\ Untouched
  /\ AttemptShows
  /\ GateOpen
  /\ passPc = "opened" =>
       /\ ~inFlight /\ slot \in CONFIGURED
       /\ slotState[slot] = "idle" /\ slotLink[slot] \in {"opening", "down"}
  /\ OneAttempt

LEMMA Gate == BatterySpec => []GateInv
<1>1. BatteryInit => GateInv
  BY DEF BatteryInit, GateInv, Untouched, AttemptShows, GateOpen, OneAttempt
<1>2. ASSUME LinksTypeOK, GateInv, [BatteryNext]_batteryVars PROVE GateInv'
  <2>0. CONFIGURED \subseteq Slots
    BY BatteryAssumption DEF Slots
  <2>1. CASE BatteryStack
    <3> SUFFICES ASSUME NEW i \in Slots,
                        \/ Registered(i) \/ OpenFailed(i) \/ Connected(i)
                        \/ Discovery(i) \/ SlotDisconnected(i)
                 PROVE  GateInv'
      BY <2>1 DEF BatteryStack
    <3>1. /\ UNCHANGED passVars
          /\ \A j \in Slots \ {i} :
               slotState'[j] = slotState[j] /\ slotLink'[j] = slotLink[j]
      BY <1>2, EventIsLocal
    <3>2. /\ slotLink'[i] # "opening"
          /\ slotState'[i] # "connecting" \/ slotState[i] = "connecting"
          /\ i \in CONFIGURED
          /\ FailsEarly(i) => slotState'[i] = "idle" /\ slotLink'[i] = "down"
      <4>1. CASE Registered(i)
        BY <1>2, <4>1 DEF Registered, LinksTypeOK, GateInv, AttemptShows, FailsEarly,
                          slotLinkVars
      <4>2. CASE OpenFailed(i) \/ SlotDisconnected(i)
        BY <1>2, <4>2 DEF OpenFailed, SlotDisconnected, LinkBecomes, ResetForRetry, OwnEvent,
                          Established, LinksTypeOK, GateInv, Untouched, FailsEarly
      <4>3. CASE Connected(i)
        BY <1>2, <4>3 DEF Connected, LinkBecomes, OwnEvent, LinksTypeOK, GateInv,
                          Untouched, AttemptShows
      <4>4. CASE Discovery(i)
        BY <1>2, <4>4 DEF Discovery, ServicesDiscovered, ServiceSearched, Subscribed,
                          NotSubscribed, LinkBecomes, slotVars, LinksTypeOK, GateInv,
                          Untouched, FailsEarly
      <4>5. QED
        BY <4>1, <4>2, <4>3, <4>4
    <3>3. UNCHANGED <<passPc, slot, inFlight>>
      BY <3>1 DEF passVars
    <3>4. Untouched'
      BY <1>2, <3>1, <3>2 DEF GateInv, Untouched
    <3>5. AttemptShows'
      BY <1>2, <3>1, <3>2, <3>3 DEF GateInv, AttemptShows, FailsEarly
    <3>6. GateOpen'
      BY <1>2, <3>1, <3>2, <3>3 DEF GateInv, GateOpen
    <3>7. OneAttempt'
      BY <1>2, <3>1, <3>2 DEF GateInv, OneAttempt
    <3>8. passPc' = "opened" =>
            /\ ~inFlight' /\ slot' \in CONFIGURED
            /\ slotState'[slot'] = "idle" /\ slotLink'[slot'] \in {"opening", "down"}
      BY <1>2, <3>1, <3>2, <3>3 DEF GateInv, FailsEarly, LinksTypeOK
    <3>9. QED
      BY <3>4, <3>5, <3>6, <3>7, <3>8 DEF GateInv
  <2>2. CASE BeginPass
    <3>1. ~ inFlight' => \A i \in Slots : slotState[i] # "connecting"
      BY <1>2, <2>2 DEF BeginPass, GateInv, Untouched
    <3>2. QED
      BY <1>2, <2>2, <3>1 DEF BeginPass, GateInv, Untouched, AttemptShows, GateOpen,
                              OneAttempt, FailsEarly, slotVars, slotLinkVars
  <2>3. CASE TryConnect
    <3>1. \A j \in Slots : slotLink[j] # "opening"
      BY <1>2, <2>3 DEF TryConnect, MayConnect, GateInv, AttemptShows, GateOpen, FailsEarly
    <3>2. /\ slotLink' = [slotLink EXCEPT ![slot] = "opening"] /\ slot \in CONFIGURED
          /\ passPc' = "opened" /\ ~inFlight /\ UNCHANGED <<slotState, slot, inFlight>>
      BY <2>3 DEF TryConnect, MayConnect, LinkBecomes, slotVars
    <3>3. \A j \in Slots : slotLink'[j] = "opening" => j = slot
      BY <1>2, <3>1, <3>2 DEF LinksTypeOK
    <3>4. slotLink'[slot] = "opening" /\ \A j \in Slots \ CONFIGURED : slotLink'[j] = slotLink[j]
      BY <1>2, <3>2 DEF LinksTypeOK
    <3>5. slotState[slot] = "idle" /\ \A j \in Slots : slotState[j] # "connecting"
      BY <1>2, <2>3 DEF TryConnect, MayConnect, GateInv, GateOpen
    <3>6. QED
      BY <1>2, <3>2, <3>3, <3>4, <3>5 DEF GateInv, Untouched, AttemptShows, GateOpen,
                                          OneAttempt, FailsEarly
  <2>4. CASE OpenRefused
    BY <1>2, <2>4 DEF OpenRefused, MayConnect, NextSlot, slotLinkVars, LinksTypeOK, GateInv,
                      Untouched, AttemptShows, GateOpen, OneAttempt, FailsEarly
  <2>5. CASE OpenReturned
    BY <1>2, <2>5 DEF OpenReturned, NextSlot, slotLinkVars, LinksTypeOK, GateInv,
                      Untouched, AttemptShows, GateOpen, OneAttempt, FailsEarly
  <2>6. CASE PollStart \/ Poll \/ Skip
    BY <1>2, <2>6 DEF PollStart, Poll, Skip, NextSlot, slotVars, slotLinkVars, GateInv,
                      Untouched, AttemptShows, GateOpen, OneAttempt, FailsEarly
  <2>7. CASE BatteryTick
    BY <1>2, <2>7 DEF BatteryTick, GateInv, Untouched, AttemptShows, GateOpen, OneAttempt,
                      FailsEarly
  <2>8. CASE UNCHANGED batteryVars
    BY <1>2, <2>8 DEF batteryVars, slotVars, slotLinkVars, passVars, GateInv, Untouched,
                      AttemptShows, GateOpen, OneAttempt, FailsEarly
  <2>9. QED
    BY <1>2, <2>1, <2>2, <2>3, <2>4, <2>5, <2>6, <2>7, <2>8 DEF BatteryNext, BatteryTask
<1>3. QED
  BY <1>1, <1>2, LinksTypeCorrect, PTL DEF BatterySpec

\* The gate holds, with every fault of the stack, also when an attempt fails before
\* the call that started it has returned.
THEOREM OneAttemptAtATime == BatterySpec => []OneAttempt
<1>1. GateInv => OneAttempt
  BY DEF GateInv
<1>2. QED
  BY <1>1, Gate, PTL

-----------------------------------------------------------------------------
(* Slots and links *)

\* Between the two halves of try_connect() the attempt is still there.
AttemptPending == passPc = "opened" => slotLink[slot] = "opening"

\* A slot's state agrees with its link when no attempt fails before the call that
\* started it has returned.
THEOREM SlotsTellLinks ==
  ASSUME "early" \notin FAULTS PROVE BatterySpec => []SlotTellsLink
<1>1. BatteryInit => SlotTellsLink /\ AttemptPending
  BY DEF BatteryInit, SlotTellsLink, AttemptPending
<1>2. ASSUME LinksTypeOK, SlotTellsLink, AttemptPending, [BatteryNext]_batteryVars
      PROVE  SlotTellsLink' /\ AttemptPending'
  <2>1. CASE BatteryStack
    <3> SUFFICES ASSUME NEW i \in Slots,
                        \/ Registered(i) \/ OpenFailed(i) \/ Connected(i)
                        \/ Discovery(i) \/ SlotDisconnected(i)
                 PROVE  SlotTellsLink' /\ AttemptPending'
      BY <2>1 DEF BatteryStack
    <3>1. /\ UNCHANGED passVars
          /\ \A j \in Slots \ {i} :
               slotState'[j] = slotState[j] /\ slotLink'[j] = slotLink[j]
      BY <1>2, EventIsLocal
    <3>2. /\ slotState'[i] \in {"disabled", "idle"} => slotLink'[i] = "down" \/ FailsEarly(i)
          /\ slotState'[i] = "connecting" => slotLink'[i] \notin {"down", "subscribed"}
          /\ slotState'[i] = "ready" => slotLink'[i] = "subscribed"
      <4>1. CASE Registered(i)
        BY <1>2, <4>1 DEF Registered, LinksTypeOK, SlotTellsLink, slotLinkVars
      <4>2. CASE OpenFailed(i) \/ SlotDisconnected(i)
        BY <1>2, <4>2 DEF OpenFailed, SlotDisconnected, LinkBecomes, ResetForRetry, OwnEvent,
                          LinksTypeOK
      <4>3. CASE Connected(i)
        BY <1>2, <4>3 DEF Connected, LinkBecomes, OwnEvent, LinksTypeOK, SlotTellsLink
      <4>4. CASE Discovery(i)
        BY <1>2, <4>4 DEF Discovery, ServicesDiscovered, ServiceSearched, Subscribed,
                          NotSubscribed, LinkBecomes, slotVars, LinksTypeOK,
                          SlotTellsLink, FailsEarly
      <4>5. QED
        BY <4>1, <4>2, <4>3, <4>4
    <3>3. FailsEarly(i) => slotLink'[i] = "opening"
      BY <1>2 DEF FailsEarly, AttemptPending, SlotTellsLink, Registered, OpenFailed,
                  Connected, Discovery, ServicesDiscovered, ServiceSearched, Subscribed,
                  NotSubscribed, SlotDisconnected, Established, slotLinkVars, LinksTypeOK
    <3>4. QED
      BY <1>2, <3>1, <3>2, <3>3 DEF SlotTellsLink, AttemptPending, FailsEarly, passVars,
                                    LinksTypeOK
  <2>2. CASE TryConnect
    BY <1>2, <2>2 DEF TryConnect, MayConnect, LinkBecomes, slotVars, LinksTypeOK,
                      SlotTellsLink, AttemptPending, FailsEarly
  <2>3. CASE OpenRefused
    BY <1>2, <2>3 DEF OpenRefused, MayConnect, NextSlot, slotLinkVars, LinksTypeOK,
                      SlotTellsLink, AttemptPending, FailsEarly
  <2>4. CASE OpenReturned
    BY <1>2, <2>4 DEF OpenReturned, NextSlot, slotLinkVars, LinksTypeOK, SlotTellsLink,
                      AttemptPending, FailsEarly
  <2>5. CASE BeginPass \/ PollStart \/ Poll \/ Skip
    BY <1>2, <2>5 DEF BeginPass, PollStart, Poll, Skip, NextSlot, slotVars, slotLinkVars,
                      SlotTellsLink, AttemptPending, FailsEarly
  <2>6. CASE BatteryTick
    BY <1>2, <2>6 DEF BatteryTick, SlotTellsLink, AttemptPending, FailsEarly
  <2>7. CASE UNCHANGED batteryVars
    BY <1>2, <2>7 DEF batteryVars, slotVars, slotLinkVars, passVars, SlotTellsLink,
                      AttemptPending, FailsEarly
  <2>8. QED
    BY <1>2, <2>1, <2>2, <2>3, <2>4, <2>5, <2>6, <2>7 DEF BatteryNext, BatteryTask
<1>3. QED
  BY <1>1, <1>2, LinksTypeCorrect, PTL DEF BatterySpec
=============================================================================
