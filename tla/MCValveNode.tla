---------------------------- MODULE MCValveNode -----------------------------
(***************************************************************************)
(* Instances of ValveNode for TLC.                                         *)
(***************************************************************************)
EXTENDS ValveNode

BothActions == {[valve |-> 0, action |-> "open"], [valve |-> 0, action |-> "close"]}
OnlyClose   == {[valve |-> 0, action |-> "close"]}
NoCommands  == {}
NoErrors    == {}
=============================================================================
