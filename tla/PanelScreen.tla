----------------------------- MODULE PanelScreen -----------------------------
(***************************************************************************)
(* The backlight of a panel and its sections (main/ui/ui.c).  A panel      *)
(* nobody touches dims, then goes dark; in the dark an overlay takes the    *)
(* first press, so that it lights the screen and reaches no button.  The    *)
(* pop-ups (the thermostat's mode picker, the packs' detail) lie above that *)
(* overlay.  A full grey or black tank keeps the screen lit.  LVGL's timers *)
(* run once a second, in no particular order, between the touches.          *)
(***************************************************************************)
EXTENDS Integers, FiniteSets

CONSTANTS
  SCREENS, PANEL_DEFAULT_SCREEN,
  IDLE_DIM_TIMEOUT, IDLE_OFF_TIMEOUT,   \* in seconds
  TANKS                                 \* the grey and the black one

ASSUME ScreenAssumption ==
  /\ PANEL_DEFAULT_SCREEN \in SCREENS
  /\ {IDLE_DIM_TIMEOUT, IDLE_OFF_TIMEOUT} \subseteq Nat
  /\ IDLE_DIM_TIMEOUT < IDLE_OFF_TIMEOUT

VARIABLES
  backlight,   \* s_backlight_state
  clickable,   \* LV_OBJ_FLAG_CLICKABLE of s_dim_overlay
  popup,       \* a pop-up is open, above s_dim_overlay
  active,      \* s_active_screen
  inactive,    \* lv_display_get_inactive_time, in seconds
  tank,        \* state_manager_get_tank: "none" is no reading
  critical,    \* s_tank_critical
  due          \* the timers that are to run in this second

screenVars == <<backlight, clickable, popup, active, inactive, tank, critical, due>>

ScreenTypeOK ==
  /\ backlight \in {"NORMAL", "DIMMED", "OFF"}
  /\ clickable \in BOOLEAN /\ popup \in BOOLEAN
  /\ active \in SCREENS
  /\ inactive \in 0..IDLE_OFF_TIMEOUT + 1
  /\ tank \in [TANKS -> {"none", "ok", "full"}]
  /\ critical \in BOOLEAN
  /\ due \subseteq {"idle", "tanks", "valves"}

ScreenInit ==
  /\ backlight = "NORMAL"
  /\ clickable = FALSE /\ popup = FALSE
  /\ active = PANEL_DEFAULT_SCREEN
  /\ inactive = 0
  /\ tank = [t \in TANKS |-> "none"]
  /\ critical = FALSE
  /\ due = {}

Ran(timer) == timer \in due /\ due' = due \ {timer}

\* A press while the overlay is clickable goes to it and to nothing below it.
WakePress ==
  /\ clickable /\ ~popup
  /\ inactive' = 0
  /\ IF backlight = "OFF"
       THEN backlight' = "NORMAL" /\ clickable' = FALSE
       ELSE UNCHANGED <<backlight, clickable>>
  /\ UNCHANGED <<popup, active, tank, critical, due>>

\* Any other press reaches what is under the finger.
Press == ~clickable /\ ~popup /\ inactive' = 0

\* open_mode_popup, build_popup
OpenPopup ==
  /\ Press
  /\ popup' = TRUE
  /\ UNCHANGED <<backlight, clickable, active, tank, critical, due>>

\* popup_backdrop_cb, mode_pick_cb, popup_click_cb: a pop-up closes at the next press.
ClosePopup ==
  /\ popup /\ inactive' = 0
  /\ popup' = FALSE
  /\ UNCHANGED <<backlight, clickable, active, tank, critical, due>>

\* panel_send_cb of a screen-switch button, and show_screen.
ShowScreen(s) ==
  /\ Press
  /\ active' = s
  /\ UNCHANGED <<backlight, clickable, popup, tank, critical, due>>

\* Mutation of Light: the overlay of the dark is left in place.
LightCovered == backlight' = "NORMAL" /\ UNCHANGED <<clickable, active>>

\* A critical tank lights the screen, whatever it was.
Light == backlight' = "NORMAL" /\ clickable' = FALSE /\ UNCHANGED active

\* The dim stage leaves the overlay non-clickable: a tap in it reaches its button.
Undim == backlight' = "NORMAL" /\ UNCHANGED <<clickable, active>>

Dim == backlight' = "DIMMED" /\ UNCHANGED <<clickable, active>>

\* Mutation of GoDark: the section last opened stays.
GoDarkThere == backlight' = "OFF" /\ clickable' = TRUE /\ UNCHANGED active

GoDark == backlight' = "OFF" /\ clickable' = TRUE /\ active' = PANEL_DEFAULT_SCREEN

IdleTimer ==
  /\ Ran("idle")
  /\ \/ critical /\ Light
     \/ /\ ~critical
        /\ \/ backlight = "DIMMED" /\ inactive <= IDLE_DIM_TIMEOUT /\ Undim
           \/ backlight = "NORMAL" /\ inactive > IDLE_DIM_TIMEOUT /\ Dim
           \/ backlight = "DIMMED" /\ inactive > IDLE_OFF_TIMEOUT /\ GoDark
           \/ /\ \/ backlight = "OFF"
                 \/ backlight = "NORMAL" /\ inactive <= IDLE_DIM_TIMEOUT
                 \/ backlight = "DIMMED" /\ inactive \in IDLE_DIM_TIMEOUT + 1..IDLE_OFF_TIMEOUT
              /\ UNCHANGED <<backlight, clickable, active>>
  /\ UNCHANGED <<popup, inactive, tank, critical>>

\* The worse of two tanks that both read; one that does not makes the header "--".
FullTank == (\A t \in TANKS : tank[t] # "none") /\ \E t \in TANKS : tank[t] = "full"

\* tank_status_timer_cb
TankTimer ==
  /\ Ran("tanks")
  /\ critical' = FullTank
  /\ UNCHANGED <<backlight, clickable, popup, active, inactive, tank>>

TankReport(t, level) ==
  /\ tank[t] # level
  /\ tank' = [tank EXCEPT ![t] = level]
  /\ UNCHANGED <<backlight, clickable, popup, active, inactive, critical, due>>

\* A second goes by once its timers have run.
NextSecond(timers) ==
  /\ due = {}
  /\ due' = timers
  /\ inactive' = IF inactive > IDLE_OFF_TIMEOUT THEN inactive ELSE inactive + 1
  /\ UNCHANGED <<backlight, clickable, popup, active, tank, critical>>

-----------------------------------------------------------------------------
(* Properties. *)

\* The dark has the home section behind an overlay that takes the first press; and nothing
\* but the dark has that overlay, which would take a press meant for a button, whichever of
\* a touch, a tank and the clock lit the screen (ui.c:254-259, 311-316).
DarkScreen ==
  /\ clickable <=> backlight = "OFF"
  /\ backlight = "OFF" => active = PANEL_DEFAULT_SCREEN

\* A tank that is full, and stays full, lights the screen for good, dark or not: a "go
\* empty the tank" alert must stay readable (ui.c:272-283).
FullTankIsLit == <>[]FullTank => <>[](backlight = "NORMAL" /\ ~clickable)

\* "Wake touch for the fully-OFF stage only: restore brightness and swallow the press"
\* (ui.c:254-259).  With a pop-up open, it does neither: the press goes to the pop-up,
\* perhaps to a mode of the picker, and the screen stays dark.
DarkPressWakes ==
  [][backlight = "OFF" /\ inactive' = 0 => backlight' = "NORMAL"]_screenVars

=============================================================================
