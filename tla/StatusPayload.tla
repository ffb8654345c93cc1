--------------------------- MODULE StatusPayload ---------------------------
(***************************************************************************)
(* The thermostat's status, from its JSON payload to the client's table.   *)
(* The payload lists the zones with an array of numbers each; an MTU that  *)
(* is too small cuts it anywhere.  A payload is modelled as the sequence   *)
(* of the zone arrays that easytouch_parse_status() comes across.  A number *)
(* that is itself cut is read short, but never completes an array: the last *)
(* number of an array has one digit.                                       *)
(***************************************************************************)
EXTENDS Naturals, Sequences

CONSTANTS
  UNIT_ZONES,    \* the zones of the thermostat, in the payload's order
  MAX_ZONES,     \* EASYTOUCH_MAX_ZONES
  ARRAY_LEN,     \* the numbers of a zone; the last one is what it is doing
  SETTINGS,      \* values of the numbers; IDLE among them
  IDLE,
  UNIT_CHANGES   \* changes of the thermostat

ASSUME PayloadAssumption ==
  /\ UNIT_ZONES \in Seq(Nat) /\ MAX_ZONES \in Nat /\ ARRAY_LEN \in Nat \ {0}
  /\ IDLE \in SETTINGS /\ UNIT_CHANGES \in Nat

Arrays == [1 .. ARRAY_LEN -> SETTINGS]
Zones == 0 .. MAX_ZONES - 1
Absent == <<>>

VARIABLES
  unit,        \* the thermostat: the array of each of its zones
  table,       \* s_status: the array of each zone, or Absent
  active,      \* s_status.system_active
  statusValid, \* s_status_valid
  told,        \* the thermostat when the table was last read
  unitChanges

payloadVars == <<unit, table, active, statusValid, told, unitChanges>>

PayloadInit ==
  /\ unit \in [1 .. Len(UNIT_ZONES) -> {[n \in 1 .. ARRAY_LEN |-> IDLE]}] /\ told = unit
  /\ table = [z \in Zones |-> Absent] /\ active = FALSE /\ statusValid = FALSE
  /\ unitChanges = 0

(* The payload, with the first e zones whole and n numbers of the next. *)
Payload(e, n) ==
  [i \in 1 .. (IF n = 0 THEN e ELSE e + 1) |->
     [zone |-> UNIT_ZONES[i], ints |-> IF i <= e THEN unit[i] ELSE SubSeq(unit[i], 1, n)]]

(* Mutation of Complete: any number will do. *)
Begun(entry) == entry.zone \in Zones /\ entry.ints # <<>>

(* An array that counts: of a zone the panel knows, and of full length. *)
Complete(entry) == entry.zone \in Zones /\ Len(entry.ints) >= ARRAY_LEN

(* easytouch_parse_status(): the first complete array of each zone. *)
ParsedStatus(payload) ==
  [z \in Zones |->
     LET Found == {i \in DOMAIN payload : Complete(payload[i]) /\ payload[i].zone = z} IN
     IF Found = {} THEN Absent ELSE payload[CHOOSE i \in Found : \A j \in Found : i <= j].ints]

Present(zones) == {z \in Zones : zones[z] # Absent}

Running(zones) == \E z \in Present(zones) : zones[z][Len(zones[z])] # IDLE

(* A read of the status characteristic: a payload without a complete zone is *)
(* logged and forgotten, any other replaces the table.                       *)
ReadPayload(e, n) ==
  LET zones == ParsedStatus(Payload(e, n)) IN
  /\ IF Present(zones) = {} THEN UNCHANGED <<table, active, statusValid, told>>
     ELSE table' = zones /\ active' = Running(zones) /\ statusValid' = TRUE /\ told' = unit
  /\ UNCHANGED <<unit, unitChanges>>

(* The thermostat, at its own buttons or by a change. *)
UnitChange ==
  /\ unitChanges < UNIT_CHANGES /\ unitChanges' = unitChanges + 1
  /\ \E i \in DOMAIN unit, a \in Arrays : unit' = [unit EXCEPT ![i] = a]
  /\ UNCHANGED <<table, active, statusValid, told>>

Cuts == {c \in (0 .. Len(UNIT_ZONES)) \X (0 .. ARRAY_LEN - 1) : c[1] = Len(UNIT_ZONES) => c[2] = 0}

PayloadNext == UnitChange \/ \E c \in Cuts : ReadPayload(c[1], c[2])

PayloadSpec == PayloadInit /\ [][PayloadNext]_payloadVars
-----------------------------------------------------------------------------
(* Wherever a payload is cut, what the client shows of a zone is what the      *)
(* thermostat said of it in that very payload, never a zone half read or left  *)
(* from before, and the system counts as active only for a zone that is shown. *)
ZonesTold ==
  /\ \A z \in Present(table) : \E i \in DOMAIN told : UNIT_ZONES[i] = z /\ table[z] = told[i]
  /\ active => \E i \in DOMAIN told : told[i][ARRAY_LEN] # IDLE

(* A read with fewer zones than the last is a bad read and takes no zone away. *)
ShortReadIsBad == [][Present(table) \subseteq Present(table')]_payloadVars
=============================================================================
