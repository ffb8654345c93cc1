---------------------------- MODULE LoadDisplay ----------------------------
(***************************************************************************)
(* What a panel promises about the loads it shows (state_manager.c:4-8: "a  *)
(* light is 'on' when the bus says it is"): every value on the display was  *)
(* reported on the bus, and nothing else ever moves it.  A panel with its   *)
(* own bus shows pairs that were reported as pairs.  A panel that is fed    *)
(* over the air may show the level of one report with the state of another  *)
(* (TEARS), because the bridge reads its table without a lock.              *)
(***************************************************************************)
EXTENDS Integers

CONSTANTS
  ITEMS,  \* the loads and tanks on display
  VALUES, \* what can be reported: an amount (a level, or a fill in per cent) and a
          \* flag ("on", or "valid")
  TEARS   \* the two fields of a value may come from different reports

VARIABLES
  reported,  \* reported[it]: Blank, and the values of it the bus has carried so far
  shown      \* shown[it]: the value of it on the display

displayVars == <<reported, shown>>

\* What a widget shows before it is told anything.
Blank == [amount |-> 0, flag |-> FALSE]

DisplayInit ==
  /\ reported = [it \in ITEMS |-> {Blank}]
  /\ shown = [it \in ITEMS |-> Blank]

Report(it) ==
  /\ \E view \in VALUES : reported' = [reported EXCEPT ![it] = @ \cup {view}]
  /\ UNCHANGED shown

\* An amount and a flag that were reported, of one report unless reports may tear.
Show(it) ==
  /\ \E a, b \in reported[it] :
       /\ TEARS \/ a = b
       /\ shown' = [shown EXCEPT ![it] = [amount |-> a.amount, flag |-> b.flag]]
  /\ UNCHANGED reported

\* The panel starts again.
Restart ==
  /\ shown' = [it \in ITEMS |-> Blank]
  /\ UNCHANGED reported

DisplayNext ==
  \/ \E it \in ITEMS : Report(it) \/ Show(it)
  \/ Restart

DisplaySpec == DisplayInit /\ [][DisplayNext]_displayVars

=============================================================================
