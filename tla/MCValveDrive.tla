---------------------------- MODULE MCValveDrive ----------------------------
(***************************************************************************)
(* Instances of ValveDrive for TLC.                                        *)
(***************************************************************************)
EXTENDS ValveDrive

\* Both valves, both directions.
BothValves ==
  {[valve |-> 0, action |-> "open"], [valve |-> 0, action |-> "close"],
   [valve |-> 1, action |-> "open"], [valve |-> 2, action |-> "other"]}

OneValve == {[valve |-> 0, action |-> "open"]}

OpenEach == {[valve |-> v, action |-> "open"] : v \in Valves}

NoErrors == {}
=============================================================================
