---------------------------- MODULE MCTelemetry ----------------------------
(***************************************************************************)
(* Two packs, of which one may report no capacity, and two zones.           *)
(***************************************************************************)
EXTENDS Telemetry

MCPackReadings == [d \in PACKS |-> IF d = "pack1" THEN {<<0, 2>>} ELSE {<<90, 0>>, <<90, 1>>}]

=============================================================================
