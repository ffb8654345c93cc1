------------------------------- MODULE MCProxy -------------------------------
(***************************************************************************)
(* The Bluetooth side in one run: the links of the proxy's two clients, the *)
(* links of its batteries, and what comes over the links of the four kinds  *)
(* of device.  They share no buffer, so one part is looked at in a behaviour *)
(* and the others are still.                                                *)
(***************************************************************************)
EXTENDS ProxyBle, BatteryLinks, SolarPoll, ShoreStream, JbdStream, StatusPayload

VARIABLE looked   \* what is looked at

proxyVars ==
    <<looked, bleVars, batteryVars, pollVars, shoreVars, jbdVars, payloadVars>>

MCClients == {"shore", "solar"}
MCIds == <<255, 17, 1>>
AllConfigured == Slots
PeerFaults == {"refused", "no_service", "stalled"}

\* Two zones, one that is no zone of the panel, and the first again.
MCUnitZones == <<0, 1, 4, 0>>

Init ==
    /\ looked \in {"links", "slots", "solar", "shore", "battery", "thermostat"}
    /\ BleInit /\ BatteryInit
    /\ SolarInit /\ ShoreStreamInit /\ JbdStreamInit /\ PayloadInit
    /\ looked # "links" => ~fixed
    /\ looked # "battery" => measures = "low"

LinksNext   == looked = "links" /\ BleNext
SlotsNext   == looked = "slots" /\ BatteryNext
StreamsNext ==
    \/ looked = "solar" /\ SolarNext /\ UNCHANGED <<shoreVars, jbdVars, payloadVars>>
    \/ looked = "shore" /\ ShoreStreamNext /\ UNCHANGED <<pollVars, jbdVars, payloadVars>>
    \/ looked = "battery" /\ JbdStreamNext /\ UNCHANGED <<pollVars, shoreVars, payloadVars>>
    \/ looked = "thermostat" /\ PayloadNext /\ UNCHANGED <<pollVars, shoreVars, jbdVars>>

streamVars == <<pollVars, shoreVars, jbdVars, payloadVars>>

Next ==
    /\ UNCHANGED looked
    /\ \/ LinksNext /\ UNCHANGED <<batteryVars, streamVars>>
       \/ SlotsNext /\ UNCHANGED <<bleVars, streamVars>>
       \/ StreamsNext /\ UNCHANGED <<bleVars, batteryVars>>

(* BleFair, BatteryFairness, SolarFair, ShoreStreamFair and JbdStreamFair,  *)
(* each where its part is looked at.                                        *)
OnLinks(A) == looked = "links" /\ A
OnSlots(A) == looked = "slots" /\ A

LinksFair ==
    /\ WF_bleVars(OnLinks(ParamsDone)) /\ WF_bleVars(OnLinks(StartDone))
    /\ WF_bleVars(OnLinks(StopDone)) /\ SF_bleVars(OnLinks(WindowEnds))
    /\ WF_bleVars(OnLinks(ShoreStart)) /\ SF_bleVars(OnLinks(SolarLinkTask))
    /\ WF_bleVars(OnLinks(ShoreGatt)) /\ WF_bleVars(OnLinks(SolarGatt))
    /\ \A c \in Clients :
          /\ SF_bleVars(OnLinks(Advertise(c)))
          /\ WF_bleVars(OnLinks(link[c] = "closing" /\ Disconnected(c)))

SlotsFair ==
    /\ WF_batteryVars(OnSlots(BatteryTask)) /\ WF_batteryVars(OnSlots(BatteryTick))
    /\ \A i \in Slots :
          /\ WF_batteryVars(OnSlots(OpenFailed(i) \/ Connected(i)))
          /\ WF_batteryVars(OnSlots(Discovery(i)))
          /\ WF_batteryVars(OnSlots(slotLink[i] = "closing" /\ SlotDisconnected(i)))

StreamsFair ==
    /\ WF_pollVars(looked = "solar" /\ SolarTask) /\ SF_pollVars(looked = "solar" /\ Answer)
    /\ WF_pollVars(looked = "solar" /\ Notify) /\ WF_pollVars(looked = "solar" /\ LinkBack)
    /\ SF_shoreVars(looked = "shore" /\ ShoreNotify)
    /\ WF_jbdVars(looked = "battery" /\ JbdPoll) /\ WF_jbdVars(looked = "battery" /\ JbdNotify)
    /\ WF_jbdVars(looked = "battery" /\ JbdTick)

Spec == Init /\ [][Next]_proxyVars /\ LinksFair /\ SlotsFair /\ StreamsFair

(* What is stored of a solar controller or a battery is one whole frame, no *)
(* reading made of two, whatever is lost, late, torn or cleared between.    *)
(* The shore stream has no checksum: a reading can be stitched from two     *)
(* packets, but each costs a lost notification, and the stream is in step   *)
(* again after one whole packet.                                            *)
StoredIsWhole == StoredIsOneResponse /\ NoCutFrameStored /\ ShoreBogus /\ InStep

(* Every stream that is not cut off for good gives readings for ever.       *)
StreamsRead ==
    /\ looked = "solar" => SolarKeepsReading
    /\ looked = "shore" => ShoreKeepsReading
    /\ looked = "battery" => PackHealthy

(* "Either way the task is the only thing still running, so it owns the     *)
(* retry": no stall of the solar client's connection is for good.           *)
StallsAreRetried == looked = "links" => StallIsRetried

(* "ble_host retries that on its own": a client that scans gets out of it.  *)
ScansAreRetried == looked = "links" => ScanningIsRetried

(* A battery that waits is let through the gate, whatever one before it     *)
(* and those behind it do (TurnBehindOneAway).                              *)
TurnsComeRound == looked = "slots" => TurnBehindOneAway

(* Both clients come back to their device, but for the ways they are known  *)
(* to be stranded (ShoreRecovers, SolarRecovers).                           *)
ClientsRecover ==
    /\ looked = "links" => ShoreRecovers
    /\ looked = "links" => SolarRecovers
=============================================================================
