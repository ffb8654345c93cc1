--------------------------- MODULE MCBatteryLinks ---------------------------
(***************************************************************************)
(* Instances of BatteryLinks for TLC.  The times are those of the code, in *)
(* seconds, the period of the client's task.                               *)
(***************************************************************************)
EXTENDS BatteryLinks

AllConfigured == Slots

NoFaults   == {}
PeerFaults == {"refused", "no_service", "stalled"}
RacyStack  == {"early"}
=============================================================================
