----------------------------- MODULE ValveButton -----------------------------
(***************************************************************************)
(* The button of a dump valve on the panel's valve section                 *)
(* (ui_common/ui_dimmer_button.c, main/ui/ui.c, espnow_link.c).  Reports    *)
(* of the valve node come into a cache; once a second the cache goes to the *)
(* button, with the verdict whether it is stale.  A valve that reads closed *)
(* opens by two taps, within the arm window; any other closes by one.  The  *)
(* node's side of it is ValveDrive.                                         *)
(***************************************************************************)
EXTENDS PanelScreen

CONSTANTS
  VALVE_SCREEN,      \* the section the button is in
  VALVE_ARM_WINDOW,  \* in seconds
  VALVE_STALE        \* three resync intervals, in seconds

ASSUME ValveButtonAssumption ==
  /\ VALVE_SCREEN \in SCREENS
  /\ VALVE_ARM_WINDOW \in Nat \ {0} /\ VALVE_STALE \in Nat

Positions == {"UNKNOWN", "CLOSED", "OPEN"}
NotSeen == VALVE_STALE + 1

VARIABLES
  cached,    \* s_valve_position[v]
  cacheAge,  \* since s_valve_last_ms[v]; NotSeen if longer ago than VALVE_STALE, or never
  position,  \* valve_position of the button
  stale,     \* valve_stale
  armed,     \* valve_armed
  armLeft,   \* what is left of valve_arm_timer, -1 if there is none
  sent,      \* the frame this step hands to ESP-NOW, "none" for none
  watch      \* for OpenIsDeliberate: seconds since the tap that armed the button if the valve
             \* read closed at every look since, -1 for no such tap

valveVars == <<cached, cacheAge, position, stale, armed, armLeft, sent, watch>>

buttonVars == <<screenVars, valveVars>>

ValveButtonTypeOK ==
  /\ cached \in Positions /\ position \in Positions
  /\ cacheAge \in 0..NotSeen
  /\ stale \in BOOLEAN /\ armed \in BOOLEAN
  /\ armLeft \in -1..VALVE_ARM_WINDOW
  /\ sent \in {"none", "OPEN", "CLOSE"}
  /\ watch \in -1..VALVE_ARM_WINDOW

ValveInit ==
  /\ cached = "UNKNOWN" /\ cacheAge = NotSeen
  /\ position = "UNKNOWN" /\ stale = FALSE
  /\ armed = FALSE /\ armLeft = -1
  /\ sent = "none" /\ watch = -1

\* ui_on_valve_status, of a frame that got through.
ValveStatus(p) ==
  /\ cached' = p /\ cacheAge' = 0
  /\ sent' = "none"
  /\ UNCHANGED <<screenVars, position, stale, armed, armLeft, watch>>

CacheStale == cacheAge = NotSeen

\* Mutation of UpdateValve: the arm outlives the reading it was made for.
UpdateValveArmed ==
  /\ position' = cached /\ stale' = CacheStale
  /\ UNCHANGED <<armed, armLeft>>

\* ui_dimmer_button_update_valve: an arm is dropped once the valve does not read closed.
UpdateValve ==
  /\ position' = cached /\ stale' = CacheStale
  /\ IF /\ <<position, stale>> # <<cached, CacheStale>>
        /\ armed /\ (cached # "CLOSED" \/ CacheStale)
       THEN armed' = FALSE /\ armLeft' = -1
       ELSE UNCHANGED <<armed, armLeft>>

\* valve_status_timer_cb
ValveTimer ==
  /\ Ran("valves")
  /\ UpdateValve
  /\ sent' = "none"
  /\ watch' = IF cached = "CLOSED" /\ ~CacheStale THEN watch ELSE -1
  /\ UNCHANGED <<backlight, clickable, popup, active, inactive, tank, critical, cached, cacheAge>>

\* valve_arm_timeout_cb
ArmTimeout ==
  /\ armLeft = 0
  /\ armed' = FALSE /\ armLeft' = -1
  /\ sent' = "none"
  /\ UNCHANGED <<screenVars, cached, cacheAge, position, stale, watch>>

ReadsClosed == position = "CLOSED" /\ ~stale

Confirm ==
  /\ armed
  /\ armed' = FALSE /\ armLeft' = -1
  /\ sent' = IF ReadsClosed THEN "OPEN" ELSE "none"

Close ==
  /\ ~armed /\ ~ReadsClosed
  /\ sent' = "CLOSE"
  /\ UNCHANGED <<armed, armLeft>>

Arm ==
  /\ ~armed /\ ReadsClosed
  /\ armed' = TRUE /\ armLeft' = VALVE_ARM_WINDOW
  /\ sent' = "none"

\* handle_tap, and panel_send_cb which makes a valve action of it.
ValveTap ==
  /\ Press /\ active = VALVE_SCREEN
  /\ Confirm \/ Close \/ Arm
  /\ watch' = IF sent' = "none" /\ ReadsClosed THEN 0 ELSE -1
  /\ UNCHANGED <<backlight, clickable, popup, active, tank, critical, due>>
  /\ UNCHANGED <<cached, cacheAge, position, stale>>

\* The screen's own steps.
Aside == sent' = "none" /\ UNCHANGED <<cached, cacheAge, position, stale, armed, armLeft, watch>>

Second ==
  /\ NextSecond({"idle", "tanks", "valves"})
  /\ armLeft # 0
  /\ armLeft' = IF armLeft > 0 THEN armLeft - 1 ELSE armLeft
  /\ watch' = IF watch \in 0..VALVE_ARM_WINDOW - 1 THEN watch + 1 ELSE -1
  /\ cacheAge' = IF CacheStale THEN cacheAge ELSE cacheAge + 1
  /\ sent' = "none"
  /\ UNCHANGED <<cached, position, stale, armed>>

ButtonInit == ScreenInit /\ ValveInit

ButtonNext ==
  \/ (WakePress \/ OpenPopup \/ ClosePopup \/ IdleTimer \/ TankTimer) /\ Aside
  \/ (\E s \in SCREENS : ShowScreen(s)) /\ Aside
  \/ (\E t \in TANKS, level \in {"none", "ok", "full"} : TankReport(t, level)) /\ Aside
  \/ \E p \in Positions : ValveStatus(p)
  \/ ValveTimer \/ ArmTimeout \/ ValveTap \/ Second

ButtonSpec == ButtonInit /\ [][ButtonNext]_buttonVars

\* LVGL's task runs every timer that is due, and time passes.
ButtonFair ==
  /\ WF_buttonVars(IdleTimer /\ Aside) /\ WF_buttonVars(TankTimer /\ Aside)
  /\ WF_buttonVars(ValveTimer) /\ WF_buttonVars(ArmTimeout)
  /\ WF_buttonVars(Second)

FairButtonSpec == ButtonSpec /\ ButtonFair

-----------------------------------------------------------------------------
(* Properties. *)

\* OPEN leaves the panel only for the second of two taps within the arm window, on a lit
\* screen, with the valve fresh and closed at every look from the first tap to the second:
\* the valve opening or falling silent in between, however briefly, takes the first tap
\* back (ui_dimmer_button.c:270-305, 748-760).
OpenIsDeliberate == [][sent' = "OPEN" => watch >= 0 /\ backlight # "OFF"]_buttonVars

=============================================================================
