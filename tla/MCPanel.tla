------------------------------ MODULE MCPanel ------------------------------
(***************************************************************************)
(* What is touched on a panel, in one run: the lights, the valve section    *)
(* with the screen it is on, and the thermostat's page.  They share no      *)
(* state, so one of them is used in a behaviour and the others are still.   *)
(***************************************************************************)
EXTENDS LightControl, ValveButton, ThermostatPage

VARIABLE used   \* what is used

panelVars == <<used, lightVars, buttonVars, pageVars>>

(* A dimmer of one lamp, and a switch of both. *)
MCGrid == <<"dimmer", "switch">>
MCLightsOf == [b \in BUTTONS |-> IF b = "dimmer" THEN <<1>> ELSE <<1, 2>>]
MCGroups == <<{1}, {2}>>

Init ==
  /\ used \in {"lights", "valves", "thermostat"}
  /\ LightInit /\ ButtonInit /\ PageInit
  /\ used # "lights" => ~remote /\ ~dead /\ \A i \in LIGHTS : ~lamp[i]

Next ==
  /\ UNCHANGED used
  /\ \/ used = "lights" /\ LightNext /\ UNCHANGED <<buttonVars, pageVars>>
     \/ used = "valves" /\ ButtonNext /\ UNCHANGED <<lightVars, pageVars>>
     \/ used = "thermostat" /\ PageNext /\ UNCHANGED <<lightVars, buttonVars>>

(* The fairness of the three modules, each where its part is used. *)
LightsFair ==
  /\ \A b \in BUTTONS : WF_lightVars(used = "lights" /\ ConfirmTimeout(b))
  /\ WF_lightVars(used = "lights" /\ Release) /\ WF_lightVars(used = "lights" /\ SweepStep)
  /\ WF_lightVars(used = "lights" /\ BridgeReceive)
  /\ WF_lightVars(used = "lights" /\ Transmit)
  /\ \A i \in LIGHTS : WF_lightVars(used = "lights" /\ Status(i))

ValvesFair ==
  /\ WF_buttonVars(used = "valves" /\ IdleTimer /\ Aside)
  /\ WF_buttonVars(used = "valves" /\ TankTimer /\ Aside)
  /\ WF_buttonVars(used = "valves" /\ ValveTimer)
  /\ WF_buttonVars(used = "valves" /\ ArmTimeout)
  /\ WF_buttonVars(used = "valves" /\ Second)

ThermostatFair ==
  /\ WF_pageVars(used = "thermostat" /\ SpTimer)
  /\ WF_pageVars(used = "thermostat" /\ Repaint(TRUE, {}, {}) /\ UNCHANGED <<pageFaults, asked>>)
  /\ \A z \in ZONES : WF_pageVars(used = "thermostat" /\ GiveUp(z))
  /\ WF_pageVars(used = "thermostat" /\ Apply)
  /\ WF_pageVars(used = "thermostat" /\ ReadStatus)

Spec == Init /\ [][Next]_panelVars /\ LightsFair /\ ValvesFair /\ ThermostatFair
=============================================================================
