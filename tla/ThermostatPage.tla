--------------------------- MODULE ThermostatPage ---------------------------
(***************************************************************************)
(* The thermostat's page (ui_common/ui_thermostat.c, bridge_tx.c, main.c).  *)
(* A touch shows at once, in amber, and overrides the thermostat's status   *)
(* until a status confirms it or 25 s have gone by.  Set point touches are  *)
(* collected for 650 ms and sent as one change, modes at once, over the     *)
(* radio if the page is not on the panel that holds the thermostat.  What   *)
(* becomes of a change there is the subject of Thermostat, the age of a     *)
(* status that of Telemetry: here the panel's copy is current or behind.    *)
(***************************************************************************)
EXTENDS Integers, Sequences, SequencesExt

CONSTANTS
  ZONES,
  SP_MIN_F, SP_MAX_F,
  START_SP,          \* the set points found at the start
  MAX_TOUCHES,       \* bound: touches, and uses of the thermostat's own buttons
  MAX_PAGE_FAULTS    \* bound: lost changes, and silences of the client

ASSUME PageAssumption ==
  /\ {SP_MIN_F, SP_MAX_F, START_SP, MAX_TOUCHES, MAX_PAGE_FAULTS} \subseteq Nat
  /\ SP_MIN_F <= START_SP /\ START_SP <= SP_MAX_F
  /\ "none" \notin ZONES

\* EASYTOUCH_MODE_*: those the page treats alike are one.
Modes == {"OFF", "COOL", "HEAT"}
Fields == {"cool", "heat"}

VARIABLES
  zone,      \* zone[z]: the thermostat's mode and set points
  hvac,      \* s_hvac, the panel's copy of its status
  last,      \* last[z] of the page
  valid,     \* ctx->valid
  modeDirty, \* modeDirty[z]: the pending mode, "none" if there is none
  spDirty,   \* sp_dirty
  pendingSp, \* pending_sp
  spTimer,   \* the zone whose touch last armed sp_timer, "none" if it is not armed
  picker,    \* the zone whose mode picker is open
  changes,   \* changes under way to the thermostat
  touches, pageFaults,
  asked      \* for the properties: what the last touch asked for, <<>> if nothing certain

pageVars == <<zone, hvac, last, valid, modeDirty, spDirty, pendingSp, spTimer, picker,
              changes, touches, pageFaults, asked>>

FreshZones == [z \in ZONES |-> [mode |-> "COOL", cool |-> START_SP, heat |-> START_SP]]

PageInit ==
  /\ zone = FreshZones /\ hvac = zone /\ last = zone
  /\ valid = TRUE
  /\ modeDirty = [z \in ZONES |-> "none"]
  /\ spDirty = [z \in ZONES |-> FALSE]
  /\ pendingSp = [z \in ZONES |-> SP_MIN_F]
  /\ spTimer = "none" /\ picker = "none"
  /\ changes = <<>>
  /\ touches = 0 /\ pageFaults = 0
  /\ asked = <<>>

-----------------------------------------------------------------------------
(* What the page shows. *)

\* active_sp_field
Field(mode) == CASE mode = "COOL" -> "cool" [] mode = "HEAT" -> "heat" [] OTHER -> "none"

\* effective_mode
Effective(z) == IF modeDirty[z] # "none" THEN modeDirty[z] ELSE last[z].mode

ActiveField(z) == Field(Effective(z))

\* paint_zone: the set point shown, where the mode has one.
ShownSp(z) == IF spDirty[z] THEN pendingSp[z] ELSE last[z][ActiveField(z)]

Shows(z, status) ==
  /\ Effective(z) = status.mode
  /\ ActiveField(z) # "none" => ShownSp(z) = status[ActiveField(z)]

\* Nothing is on its way in either direction.
Settled == changes = <<>> /\ last = zone /\ hvac = zone /\ valid

-----------------------------------------------------------------------------
(* Touches. *)

Touch == picker = "none" /\ valid /\ touches < MAX_TOUCHES /\ touches' = touches + 1

Clamped(sp) == IF sp < SP_MIN_F THEN SP_MIN_F ELSE IF sp > SP_MAX_F THEN SP_MAX_F ELSE sp

\* minus_cb, plus_cb, bump_local
Bump(z, delta) ==
  /\ Touch /\ ActiveField(z) # "none"
  /\ pendingSp' = [pendingSp EXCEPT ![z] = Clamped(ShownSp(z) + delta)]
  /\ spDirty' = [spDirty EXCEPT ![z] = TRUE]
  /\ spTimer' = z
  /\ asked' = IF Settled /\ modeDirty[z] = "none"
                THEN <<z, ActiveField(z), Clamped(ShownSp(z) + delta)>> ELSE <<>>
  /\ UNCHANGED <<zone, hvac, last, valid, modeDirty, picker, changes, pageFaults>>

\* mode_btn_cb, open_mode_popup
OpenPicker(z) ==
  /\ picker = "none" /\ valid /\ touches < MAX_TOUCHES
  /\ picker' = z
  /\ UNCHANGED <<zone, hvac, last, valid, modeDirty, spDirty, pendingSp, spTimer, changes,
                 touches, pageFaults, asked>>

\* popup_backdrop_cb
CancelPicker ==
  /\ picker # "none"
  /\ picker' = "none" /\ touches' = touches + 1
  /\ UNCHANGED <<zone, hvac, last, valid, modeDirty, spDirty, pendingSp, spTimer, changes,
                 pageFaults, asked>>

\* mode_pick_cb, in a picker that may outlive the status it was opened on.
PickMode(mode) ==
  /\ picker # "none"
  /\ modeDirty' = [modeDirty EXCEPT ![picker] = mode]
  /\ spDirty' = [spDirty EXCEPT ![picker] = FALSE]
  /\ changes' = Append(changes, [z |-> picker, op |-> "mode", arg |-> mode])
  /\ picker' = "none" /\ touches' = touches + 1
  /\ asked' = IF Settled THEN <<picker, "mode", mode>> ELSE <<>>
  /\ UNCHANGED <<zone, hvac, last, valid, pendingSp, spTimer, pageFaults>>

SpChange(z) == [z |-> z, op |-> ActiveField(z), arg |-> pendingSp[z]]

ToSend == {z \in ZONES : spDirty[z] /\ ActiveField(z) # "none"}

\* Mutation of SpTimer: only one zone's set point goes.
SpTimerFirstOnly ==
  /\ spTimer # "none"
  /\ spTimer' = "none"
  /\ IF ToSend = {} THEN UNCHANGED changes
     ELSE changes' = Append(changes, SpChange(CHOOSE z \in ToSend : TRUE))
  /\ UNCHANGED <<zone, hvac, last, valid, modeDirty, spDirty, pendingSp, picker, touches,
                 pageFaults, asked>>

\* sp_timer_cb: every zone with a pending set point, into the field of its mode now.
SpTimer ==
  /\ spTimer # "none"
  /\ spTimer' = "none"
  /\ LET order == SetToSeq(ToSend)
     IN changes' = changes \o [k \in DOMAIN order |-> SpChange(order[k])]
  /\ UNCHANGED <<zone, hvac, last, valid, modeDirty, spDirty, pendingSp, picker, touches,
                 pageFaults, asked>>

-----------------------------------------------------------------------------
(* Status. *)

\* Mutation of ModeAfter: an override stands until it is confirmed.
ModeAfterWaits(z, status, isValid, old) ==
  IF isValid /\ status[z].mode = modeDirty[z] THEN "none" ELSE modeDirty[z]

\* Whether ui_thermostat_set() ends a mode's override: confirmed, or `old`, 25 s after the touch.
ModeAfter(z, status, isValid, old) ==
  IF old \/ (isValid /\ status[z].mode = modeDirty[z]) THEN "none" ELSE modeDirty[z]

\* The field a pending set point is compared with is that of the mode after.
SpAfter(z, status, isValid, oldMode, oldSp) ==
  LET m == ModeAfter(z, status, isValid, oldMode)
      f == Field(IF m # "none" THEN m ELSE status[z].mode)
  IN spDirty[z] /\ ~oldSp /\ ~(isValid /\ f # "none" /\ status[z][f] = pendingSp[z])

\* ui_thermostat_set, once a second.  oldModes and oldSps are the zones whose mode and whose
\* set point was touched more than 25 s ago: not the zone whose touch armed sp_timer last, but
\* another one, if further touches keep the timer from running out.
Repaint(isValid, oldModes, oldSps) ==
  LET status == IF isValid THEN hvac ELSE last
  IN /\ spTimer \notin oldSps
     /\ valid' = isValid
     /\ last' = status
     /\ modeDirty' = [z \in ZONES |-> ModeAfter(z, status, isValid, z \in oldModes)]
     /\ spDirty' = [z \in ZONES |->
                      SpAfter(z, status, isValid, z \in oldModes, z \in oldSps)]
     /\ UNCHANGED <<zone, hvac, pendingSp, spTimer, picker, changes, touches>>

PendingModes == {z \in ZONES : modeDirty[z] # "none"}
PendingSps   == {z \in ZONES : spDirty[z]}

\* hvac_status_timer_cb, with a reading.
ShowStatus ==
  /\ \E oldModes \in SUBSET PendingModes, oldSps \in SUBSET PendingSps :
       Repaint(TRUE, oldModes, oldSps)
  /\ UNCHANGED <<pageFaults, asked>>

\* hvac_status_timer_cb, with none for too long.
ShowNoStatus ==
  /\ pageFaults < MAX_PAGE_FAULTS /\ pageFaults' = pageFaults + 1
  /\ \E oldModes \in SUBSET PendingModes, oldSps \in SUBSET PendingSps :
       Repaint(FALSE, oldModes, oldSps)
  /\ asked' = <<>>

\* The overrides of a zone come to their end, for the fairness.
GiveUp(z) ==
  /\ z \in PendingModes \/ z \in PendingSps \ {spTimer}
  /\ Repaint(TRUE, {z}, {z} \ {spTimer})
  /\ UNCHANGED <<pageFaults, asked>>

-----------------------------------------------------------------------------
(* The thermostat. *)

\* The client writes the next change (hvac_cmd_rx on the way, from another panel).
Apply ==
  /\ changes # <<>>
  /\ LET c == Head(changes) IN zone' = [zone EXCEPT ![c.z][c.op] = c.arg]
  /\ changes' = Tail(changes)
  /\ UNCHANGED <<hvac, last, valid, modeDirty, spDirty, pendingSp, spTimer, picker, touches,
                 pageFaults, asked>>

\* A frame is lost, or the thermostat does not take the change.
LoseChange ==
  /\ changes # <<>>
  /\ pageFaults < MAX_PAGE_FAULTS /\ pageFaults' = pageFaults + 1
  /\ changes' = Tail(changes)
  /\ asked' = <<>>
  /\ UNCHANGED <<zone, hvac, last, valid, modeDirty, spDirty, pendingSp, spTimer, picker,
                 touches>>

\* The panel's copy catches up: a poll, and its broadcast.
ReadStatus ==
  /\ hvac # zone
  /\ hvac' = zone
  /\ UNCHANGED <<zone, last, valid, modeDirty, spDirty, pendingSp, spTimer, picker, changes,
                 touches, pageFaults, asked>>

\* Somebody uses the thermostat's own buttons.
WallChange(z, f, v) ==
  /\ touches < MAX_TOUCHES /\ touches' = touches + 1
  /\ zone[z][f] # v
  /\ zone' = [zone EXCEPT ![z][f] = v]
  /\ asked' = <<>>
  /\ UNCHANGED <<hvac, last, valid, modeDirty, spDirty, pendingSp, spTimer, picker, changes,
                 pageFaults>>

Values(f) == IF f = "mode" THEN Modes ELSE SP_MIN_F..SP_MAX_F

PageNext ==
  \/ \E z \in ZONES : OpenPicker(z) \/ (\E delta \in {-1, 1} : Bump(z, delta))
  \/ CancelPicker \/ (\E mode \in Modes : PickMode(mode))
  \/ SpTimer \/ ShowStatus \/ ShowNoStatus
  \/ Apply \/ LoseChange \/ ReadStatus
  \/ \E z \in ZONES, f \in Fields \cup {"mode"} : \E v \in Values(f) : WallChange(z, f, v)

PageSpec == PageInit /\ [][PageNext]_pageVars

\* LVGL's timers run, the client keeps polling, and no override outlives its 25 s.
PageFair ==
  /\ WF_pageVars(SpTimer)
  /\ WF_pageVars(Repaint(TRUE, {}, {}) /\ UNCHANGED <<pageFaults, asked>>)
  /\ \A z \in ZONES : WF_pageVars(GiveUp(z))
  /\ WF_pageVars(Apply) /\ WF_pageVars(ReadStatus)

FairPageSpec == PageSpec /\ PageFair

-----------------------------------------------------------------------------
(* Properties. *)

\* A burst of -/+ touches reaches the thermostat with the set point the last one showed,
\* and a picked mode reaches it, if they were made on a settled page and nothing is lost,
\* picked or turned by hand meanwhile: the collecting timer, two zones in one burst, a
\* status in between and the confirmation drop nothing (ui_thermostat.c:13-16, 222-278).
TouchesArrive ==
  asked # <<>> ~> asked = <<>> \/ zone[asked[1]][asked[2]] = asked[3]

\* Left alone, the page comes to show what the thermostat has, also after a change that was
\* lost, a mode picked on a silent page or a knob turned under a pending set point
\* (ui_thermostat.c:18-24).
PageTellsTruth == <>[](valid /\ \A z \in ZONES : Shows(z, zone[z]))

=============================================================================
