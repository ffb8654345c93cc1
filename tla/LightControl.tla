---------------------------- MODULE LightControl ----------------------------
(***************************************************************************)
(* From a finger on a light button to the coach's lamp                      *)
(* (ui_common/ui_dimmer_button.c, main/ui/ui.c, main/bridge_tx.c,           *)
(* main/twai_tasks.c, main/main.c, espnow_link.c).                          *)
(*                                                                          *)
(* RV-C acknowledges nothing: a tap sends an explicit ON or OFF, waits for   *)
(* the status the load reports once it has changed, and sends once more.    *)
(* The master button addresses whole groups, the sweep button walks the     *)
(* grid, and neither is confirmed.  On the bridge commands go to the        *)
(* transmit queue; on a remote panel they cross the air first.  The way of  *)
(* a status is the subject of StatusRelay: here it arrives whole.           *)
(***************************************************************************)
EXTENDS Integers, Sequences, SequencesExt

CONSTANTS
  LIGHTS,       \* instances
  GRID,         \* the dimmer and switch buttons of the main grid, in order
  LIGHTS_OF,    \* LIGHTS_OF[b]: def->instances, as a sequence
  DIMMERS,      \* those of type PANEL_BTN_DIMMER
  GROUPS,       \* PANEL_MASTER_GROUPS: the lights of each group, in order
  TX_QUEUE_LEN,
  CONFIRM_MAX_RETRIES,
  MAX_INPUTS,   \* bound: touches and uses of the coach's own switches
  MAX_FAULTS    \* bound: lost frames and failed transmissions

BUTTONS == ToSet(GRID)

ASSUME LightAssumption ==
  /\ LIGHTS_OF \in [BUTTONS -> Seq(LIGHTS)]
  /\ DIMMERS \subseteq BUTTONS
  /\ GROUPS \in Seq(SUBSET LIGHTS)
  /\ {TX_QUEUE_LEN, CONFIRM_MAX_RETRIES, MAX_INPUTS, MAX_FAULTS} \subseteq Nat
  /\ {"master", "sweep", "none"} \cap BUTTONS = {}

VARIABLES
  remote,   \* a remote panel, without CAN
  dead,     \* nobody on the bus obeys
  lamp,     \* lamp[i]: the load is on
  ramps,    \* ramps[i]: what ramp the load is on, "STOP" for none
  memo,     \* memo[i]: what MEMORY_OFF remembered
  shown,    \* shown[i]: on[] of every widget, and the state manager's table
  confirm,  \* confirm[b]: confirm_timer, pending_cmd, pending_target_on, retries_left
  ramping,  \* the button held long, or "none"
  rampUp,   \* rampUp[b]: ramp_up_next
  sweep,    \* s_sweep_timer, s_sweep_idx, s_sweep_on
  air,      \* commands on their way to the bridge
  txq,      \* s_tx_queue
  inputs, faults,
  want      \* for the properties: <<button, on>> the last tap asked for, <<>> if something
            \* else was asked of its lights since

lightVars == <<remote, dead, lamp, ramps, memo, shown, confirm, ramping, rampUp, sweep,
               air, txq, inputs, faults, want>>

coach == <<lamp, ramps, memo>>
widgets == <<confirm, ramping, rampUp>>

LightsOf(b) == IF b \in BUTTONS THEN ToSet(LIGHTS_OF[b]) ELSE LIGHTS

NoConfirm == [armed |-> FALSE, cmd |-> "OFF", target |-> FALSE, retries |-> 0]

LightInit ==
  /\ remote \in BOOLEAN
  /\ dead \in BOOLEAN
  /\ lamp \in [LIGHTS -> BOOLEAN]
  /\ ramps = [i \in LIGHTS |-> "STOP"]
  /\ memo = [i \in LIGHTS |-> FALSE]
  /\ shown = [i \in LIGHTS |-> FALSE]
  /\ confirm = [b \in BUTTONS |-> NoConfirm]
  /\ ramping = "none"
  /\ rampUp = [b \in DIMMERS |-> TRUE]
  /\ sweep = [armed |-> FALSE, idx |-> 1, on |-> FALSE]
  /\ air = <<>> /\ txq = <<>>
  /\ inputs = 0 /\ faults = 0
  /\ want = <<>>

-----------------------------------------------------------------------------
(* Sending. *)

AnyOn(b) == \E i \in LightsOf(b) : shown[i]

\* master_any_light_on: of the lights the state manager knows.
AnyLightOn == \E i \in LIGHTS : shown[i]

\* twai_enqueue_*: a full queue drops the command.
Fit(queue) == IF Len(queue) > TX_QUEUE_LEN THEN SubSeq(queue, 1, TX_QUEUE_LEN) ELSE queue

Dropped(cmds) == IF ~remote /\ Len(txq) + Len(cmds) > TX_QUEUE_LEN THEN 1 ELSE 0

\* bridge_enqueue_*
Enqueue(cmds) ==
  /\ air' = IF remote THEN air \o cmds ELSE air
  /\ txq' = IF remote THEN txq ELSE Fit(txq \o cmds)

\* panel_send_cb: the same command to each instance of the button.
Commands(b, c) == [k \in DOMAIN LIGHTS_OF[b] |-> [to |-> {LIGHTS_OF[b][k]}, cmd |-> c]]

\* Nothing else is at work on the lights of b: no resend of another button, no sweep.
Quiet(b) ==
  /\ \A o \in BUTTONS \ {b} : ~confirm[o].armed
  /\ sweep.armed => b = "sweep"
  /\ air = <<>> /\ txq = <<>>
  /\ \A i \in LIGHTS : shown[i] = lamp[i]

\* A frame is lost or dropped, and may be the one the tap relies on: only a confirmed
\* tap survives one.  They are counted as far as that goes.
Fault(n) ==
  /\ faults' = IF faults > CONFIRM_MAX_RETRIES THEN faults ELSE faults + n
  /\ want' = IF n > 0 /\ want # <<>> /\ (want[1] \notin BUTTONS \/ faults' > CONFIRM_MAX_RETRIES)
               THEN <<>> ELSE want

Issue(cmds) == Enqueue(cmds) /\ Fault(Dropped(cmds))

\* One finger asks for something of some lights, <<>> if for nothing certain.
Asked(b, goal, cmds) ==
  /\ ramping = "none"
  /\ inputs < MAX_INPUTS
  /\ inputs' = inputs + 1
  /\ Enqueue(cmds)
  /\ faults' = faults + Dropped(cmds)
  /\ want' = IF Quiet(b) /\ ~dead /\ faults' = 0 THEN goal ELSE <<>>

-----------------------------------------------------------------------------
(* The buttons. *)

Confirming(c, target) == [armed |-> TRUE, cmd |-> c, target |-> target, retries |-> CONFIRM_MAX_RETRIES]

Ramp(b, up) == Commands(b, IF up THEN "RAMP_UP" ELSE "RAMP_DOWN")

\* Mutation of Tap: the wrong way round, so that no status is waited for.
TapUnconfirmed(b) ==
  LET c == IF AnyOn(b) THEN "OFF" ELSE "ON_DELAY"
  IN /\ Asked(b, <<b, ~AnyOn(b)>>, Commands(b, c))
     /\ confirm' = [confirm EXCEPT ![b] = Confirming(c, AnyOn(b))]
     /\ UNCHANGED <<remote, dead, coach, shown, ramping, rampUp, sweep>>

\* handle_tap of a dimmer or switch.
Tap(b) ==
  LET c == IF AnyOn(b) THEN "OFF" ELSE "ON_DELAY"
  IN /\ Asked(b, <<b, ~AnyOn(b)>>, Commands(b, c))
     /\ confirm' = [confirm EXCEPT ![b] = Confirming(c, ~AnyOn(b))]
     /\ UNCHANGED <<remote, dead, coach, shown, ramping, rampUp, sweep>>

\* Mutation of Resend: the resend is not counted.
ResendUncounted(b) ==
  /\ AnyOn(b) # confirm[b].target /\ confirm[b].retries > 0
  /\ Issue(Commands(b, confirm[b].cmd))
  /\ UNCHANGED confirm

\* confirm_timer_cb: the load has not reported what was asked for.
Resend(b) ==
  /\ AnyOn(b) # confirm[b].target /\ confirm[b].retries > 0
  /\ Issue(Commands(b, confirm[b].cmd))
  /\ confirm' = [confirm EXCEPT ![b].retries = @ - 1]

\* It has, or it was asked often enough.
StopConfirming(b) ==
  /\ AnyOn(b) = confirm[b].target \/ confirm[b].retries = 0
  /\ confirm' = [confirm EXCEPT ![b].armed = FALSE]
  /\ UNCHANGED <<air, txq, faults, want>>

ConfirmTimeout(b) ==
  /\ confirm[b].armed
  /\ Resend(b) \/ StopConfirming(b)
  /\ UNCHANGED <<remote, dead, coach, shown, ramping, rampUp, sweep, inputs>>

\* event_cb, LV_EVENT_LONG_PRESSED: a dimmer that is off ramps up.
Hold(b) ==
  /\ ramping' = b
  /\ rampUp' = [rampUp EXCEPT ![b] = @ \/ ~AnyOn(b)]
  /\ Asked(b, <<>>, Ramp(b, rampUp'[b]))
  /\ UNCHANGED <<remote, dead, coach, shown, confirm, sweep>>

\* LV_EVENT_LONG_PRESSED_REPEAT: a command that finds the queue full changes nothing.
HoldRepeat ==
  /\ ramping # "none"
  /\ Dropped(Ramp(ramping, rampUp[ramping])) = 0
  /\ Len(air) < TX_QUEUE_LEN
  /\ Enqueue(Ramp(ramping, rampUp[ramping]))
  /\ UNCHANGED <<remote, dead, coach, shown, widgets, sweep, inputs, faults, want>>

\* Mutation of Release: a finger that slides off sends nothing.
ReleaseSilent ==
  /\ ramping # "none"
  /\ ramping' = "none"
  /\ rampUp' = [rampUp EXCEPT ![ramping] = ~@]
  /\ UNCHANGED <<remote, dead, coach, shown, confirm, sweep, air, txq, inputs, faults, want>>

\* LV_EVENT_RELEASED, LV_EVENT_PRESS_LOST
Release ==
  /\ ramping # "none"
  /\ ramping' = "none"
  /\ rampUp' = [rampUp EXCEPT ![ramping] = ~@]
  /\ Issue(Commands(ramping, "STOP"))
  /\ UNCHANGED <<remote, dead, coach, shown, confirm, sweep, inputs>>

-----------------------------------------------------------------------------
(* Master and sweep, on a panel with CAN.  Neither is confirmed. *)

\* master_apply: "off, but each load remembers", or "whatever each load remembered".
MasterTap ==
  /\ ~remote
  /\ Asked("master", <<"master", ~AnyLightOn>>,
           [k \in DOMAIN GROUPS |-> [to |-> GROUPS[k], cmd |-> IF AnyLightOn THEN "MEMORY_OFF" ELSE "SET_LEVEL"]])
  /\ UNCHANGED <<remote, dead, coach, shown, widgets, sweep>>

\* The main grid, button by button.
SweepList == FlattenSeq([k \in DOMAIN GRID |-> LIGHTS_OF[GRID[k]]])

\* light_sweep_start: from the first light again, in the direction the state calls for.
SweepTap ==
  /\ ~remote
  /\ Asked("sweep", <<"sweep", ~AnyLightOn>>, <<>>)
  /\ sweep' = [armed |-> TRUE, idx |-> 1, on |-> ~AnyLightOn]
  /\ UNCHANGED <<remote, dead, coach, shown, widgets>>

\* light_sweep_step_cb
SweepStep ==
  /\ sweep.armed
  /\ \/ /\ sweep.idx > Len(SweepList)
        /\ sweep' = [sweep EXCEPT !.armed = FALSE]
        /\ UNCHANGED <<air, txq, faults, want>>
     \/ /\ sweep.idx <= Len(SweepList)
        /\ Issue(<<[to |-> {SweepList[sweep.idx]}, cmd |-> IF sweep.on THEN "ON_DELAY" ELSE "OFF"]>>)
        /\ sweep' = [sweep EXCEPT !.idx = @ + 1]
  /\ UNCHANGED <<remote, dead, coach, shown, widgets, inputs>>

-----------------------------------------------------------------------------
(* To the coach and back. *)

\* bridge_cmd_rx: into the bridge's queue, if there is room.
BridgeReceive ==
  /\ air # <<>>
  /\ air' = Tail(air)
  /\ txq' = Fit(Append(txq, Head(air)))
  /\ Fault(IF Len(txq) = TX_QUEUE_LEN THEN 1 ELSE 0)
  /\ UNCHANGED <<remote, dead, coach, shown, widgets, sweep, inputs>>

AirLoss ==
  /\ air # <<>> /\ faults < MAX_FAULTS
  /\ air' = Tail(air)
  /\ Fault(1)
  /\ UNCHANGED <<remote, dead, coach, shown, widgets, sweep, txq, inputs>>

Obeys(i, c) == CASE c \in {"ON_DELAY", "RAMP_UP"} -> TRUE
                 [] c \in {"OFF", "MEMORY_OFF"} -> FALSE
                 [] c = "SET_LEVEL" -> memo[i]
                 [] OTHER -> lamp[i]

\* What the coach makes of a command.
Execute(c) ==
  /\ lamp' = [i \in LIGHTS |-> IF i \in c.to THEN Obeys(i, c.cmd) ELSE lamp[i]]
  /\ ramps' = [i \in LIGHTS |-> IF i \notin c.to THEN ramps[i]
                               ELSE IF c.cmd \in {"RAMP_UP", "RAMP_DOWN"} THEN c.cmd ELSE "STOP"]
  /\ memo' = [i \in LIGHTS |-> IF i \in c.to /\ c.cmd = "MEMORY_OFF" THEN lamp[i] ELSE memo[i]]

\* twai_tx_task
Transmit ==
  /\ txq # <<>>
  /\ txq' = Tail(txq)
  /\ IF dead THEN UNCHANGED coach ELSE Execute(Head(txq))
  /\ UNCHANGED <<remote, dead, shown, widgets, sweep, air, inputs, faults, want>>

\* A transmission fails, with the bus off or not: the bus is restarted, the command lost.
TransmitFails ==
  /\ txq # <<>> /\ faults < MAX_FAULTS
  /\ txq' = Tail(txq)
  /\ Fault(1)
  /\ UNCHANGED <<remote, dead, coach, shown, widgets, sweep, air, inputs>>

\* ui_on_status and ui_dimmer_button_update, in every widget that watches the light.
Status(i) ==
  /\ shown[i] # lamp[i]
  /\ shown' = [shown EXCEPT ![i] = lamp[i]]
  /\ confirm' = [b \in BUTTONS |->
                   [confirm[b] EXCEPT !.armed = @ /\ ~(i \in LightsOf(b) /\
                      (\E k \in LightsOf(b) : shown'[k]) = confirm[b].target)]]
  /\ UNCHANGED <<remote, dead, coach, ramping, rampUp, sweep, air, txq, inputs, faults, want>>

\* The coach's own switch, or a ramp that reaches the bottom.
Touched(i) == want' = IF want # <<>> /\ i \in LightsOf(want[1]) THEN <<>> ELSE want

WallSwitch(i) ==
  /\ inputs < MAX_INPUTS /\ inputs' = inputs + 1
  /\ lamp' = [lamp EXCEPT ![i] = ~@]
  /\ ramps' = [ramps EXCEPT ![i] = "STOP"]
  /\ Touched(i)
  /\ UNCHANGED <<remote, dead, memo, shown, widgets, sweep, air, txq, faults>>

RampedOff(i) ==
  /\ ramps[i] = "RAMP_DOWN" /\ lamp[i]
  /\ lamp' = [lamp EXCEPT ![i] = FALSE]
  /\ Touched(i)
  /\ UNCHANGED <<remote, dead, ramps, memo, shown, widgets, sweep, air, txq, inputs, faults>>

LightNext ==
  \/ \E b \in BUTTONS : Tap(b) \/ ConfirmTimeout(b)
  \/ \E b \in DIMMERS : Hold(b)
  \/ HoldRepeat \/ Release \/ MasterTap \/ SweepTap \/ SweepStep
  \/ BridgeReceive \/ AirLoss \/ Transmit \/ TransmitFails
  \/ \E i \in LIGHTS : Status(i) \/ WallSwitch(i) \/ RampedOff(i)

LightSpec == LightInit /\ [][LightNext]_lightVars

\* LVGL's timers and the tasks run, the finger is lifted, the coach reports every change.
LightFair ==
  /\ \A b \in BUTTONS : WF_lightVars(ConfirmTimeout(b))
  /\ WF_lightVars(Release) /\ WF_lightVars(SweepStep)
  /\ WF_lightVars(BridgeReceive) /\ WF_lightVars(Transmit)
  /\ \A i \in LIGHTS : WF_lightVars(Status(i))

FairLightSpec == LightSpec /\ LightFair

-----------------------------------------------------------------------------
(* Properties. *)

\* What a tap asks for has come about.
Obeyed(b, target) ==
  CASE b = "master" -> \A i \in UNION ToSet(GROUPS) : lamp[i] = (target /\ memo[i])
    [] b = "sweep" -> \A i \in ToSet(SweepList) : lamp[i] = target
    [] OTHER -> (\E i \in LightsOf(b) : lamp[i]) = target

\* A tap on a panel that shows the true state is obeyed, by every button, although one
\* frame of a confirmed tap is lost on the air, in a full queue or on a failing bus
\* (ui_dimmer_button.c:332-346); unless something else is asked of its lights meanwhile.
TapsObeyed ==
  want # <<>> ~> want = <<>> \/ Obeyed(want[1], want[2])

\* With nobody touching the panel it falls silent, also when nobody obeys: the resend is
\* "once", the sweep ends and the queue drains.
PanelRests ==
  <>[](/\ \A b \in BUTTONS : ~confirm[b].armed
       /\ ~sweep.armed /\ air = <<>> /\ txq = <<>>)

\* No light is left ramping by a finger that is gone, whatever else is on its way, as
\* long as no frame was lost (the STOP is sent once, ui_dimmer_button.c:434-441).
RampStops ==
  ramping = "none" /\ air = <<>> /\ txq = <<>> /\ faults = 0 =>
    \A i \in LIGHTS : ramps[i] = "STOP"

=============================================================================
