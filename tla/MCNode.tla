------------------------------- MODULE MCNode -------------------------------
(***************************************************************************)
(* A node coming up and running, in one run: its link under builds that    *)
(* name another node, the same node twice, everybody, nobody, or nonsense; *)
(* and the pins of a panel's board.  The two share no state, so one of     *)
(* them is looked at in a behaviour and the other is still.                *)
(***************************************************************************)
EXTENDS EspNowLink, BoardIo

VARIABLE side   \* what is looked at

nodeVars == <<side, linkVars, boardVars>>

MCParts == {"mid_coach", "hvac_panel", "bedroom_remote", "main_cabinet", "proxy", "valves"}
MCBuilds == [cmd : {"placeholder", "group", "broadcast", "A"}, hvac : {"placeholder", "broadcast", "A"},
             rx1 : {"zero", "B"}, rx2 : {"placeholder"},
             valve : {"unparsable", "placeholder", "group", "broadcast", "B"}]

(* The boards; the panels without a coach connection have no CAN. *)
MCPanels == {"lcd7b", "lcd7", "4_3b"} \X BOOLEAN

Init ==
  /\ side \in {"link", "board"}
  /\ EspNowInit /\ BoardInit
  /\ side = "link" => board = "lcd7" /\ ~can
  /\ side = "board" =>
       /\ part = "proxy" /\ differs = {} /\ watched = "newer"
       /\ mac = [cmd |-> "placeholder", hvac |-> "placeholder", rx1 |-> "zero",
                 rx2 |-> "placeholder", valve |-> "placeholder"]

Next ==
  /\ UNCHANGED side
  /\ \/ side = "link" /\ EspNowNext /\ UNCHANGED boardVars
     \/ side = "board" /\ BoardNext /\ UNCHANGED linkVars

(* EspNowFair, where the link is looked at. *)
LinkFair ==
  /\ WF_linkVars(side = "link" /\ Boot) /\ WF_linkVars(side = "link" /\ Dispatch)
  /\ SF_linkVars(side = "link" /\ Len(queue) < RX_QUEUE_LEN /\ Heard(watched)
                   /\ Receive(watched))

Spec == Init /\ [][Next]_nodeVars /\ LinkFair
=============================================================================
