----------------------------- MODULE ValveProofs -----------------------------
(***************************************************************************)
(* What holds of the dump-valve node, of its driving task (ValveDrive) and  *)
(* of that and the polling task together (ValveNode), for every number of   *)
(* valves, every timing that satisfies TimingAssumption, any debounce and   *)
(* slack, every number of faults, resets and command frames, and the tick   *)
(* counter wrapping or not.                                                *)
(***************************************************************************)
EXTENDS ValveNode, TLAPS


-----------------------------------------------------------------------------
(* Facts about the operators *)

\* Tick arithmetic stays in the counter's range.
LEMMA LaterIsTick ==
  ASSUME NEW t \in Ticks, NEW n \in Nat, n < TICK_MOD
  PROVE  Later(t, n) \in Ticks
BY TimingAssumption DEF Later, Ticks

\* The difference of two ticks is a number, and a wrapped one too.
LEMMA ElapsedIsNat ==
  ASSUME NEW t \in Ticks, NEW s \in Ticks
  PROVE  Elapsed(t, s) \in Nat
BY TimingAssumption DEF Elapsed, Ticks

\* The drive table's masks are masks, energise something, and pass the interlock:
\* no drive is ever refused.
LEMMA DriveMaskIsMask ==
  ASSUME NEW v \in Valves, NEW a \in Actions
  PROVE  DriveMask(v, a) \in Masks
BY DEF Masks

LEMMA DriveMaskEnergizes ==
  ASSUME NEW v \in Valves, NEW a \in Actions
  PROVE  DriveMask(v, a) # ALL_OFF
BY DEF DriveMask, ALL_OFF

LEMMA DriveMaskIsSafe ==
  ASSUME NEW v, NEW a
  PROVE  MaskIsSafe(DriveMask(v, a))
<1> SUFFICES ASSUME NEW u \in Valves, NEW w \in Wires
             PROVE  ~ ({<<u, w, "hi">>, <<u, w, "lo">>} \subseteq DriveMask(v, a))
  BY DEF MaskIsSafe
<1>1. <<u, w, "hi">> \notin DriveMask(v, a) \/ <<u, w, "lo">> \notin DriveMask(v, a)
  BY DEF DriveMask, Wires
<1>2. QED
  BY <1>1

\* All-off is a mask, and releasing is never refused: only the write may fail.
LEMMA AllOffIsMask == ALL_OFF \in Masks
BY DEF Masks

LEMMA AllOffIsSafe == MaskIsSafe(ALL_OFF)
BY DEF MaskIsSafe, ALL_OFF

\* A poll decides to go on, or one of the three positions.
LEMMA DecideStepResult ==
  ASSUME NEW a, NEW e, NEW c
  PROVE  DecideStep(a, e, c) \in StepResults
BY DEF DecideStep, StepResults

\* A poll that goes on came before the ceiling.
LEMMA ContinuesBeforeCeiling ==
  ASSUME NEW a \in Actions, NEW e \in Nat, NEW c \in BOOLEAN,
         DecideStep(a, e, c) = "continue"
  PROVE  e < DRIVE_CEILING
<1>1. ~ (a = "close" /\ ~c /\ e >= DRIVE_CEILING)
  BY DEF DecideStep
<1>2. ~ (a = "close" /\ c)
  BY DEF DecideStep
<1>3. ~ (a = "open" /\ e >= DRIVE_NOMINAL)
  BY DEF DecideStep
<1>4. QED
  BY <1>1, <1>2, <1>3, TimingAssumption DEF Actions

-----------------------------------------------------------------------------
(* Type correctness *)

LEMMA WriteRelaysType ==
  ASSUME TypeOK, NEW mask \in Masks, NEW outcome \in Outcomes,
         WriteRelays(mask, outcome)
  PROVE  /\ relays' \in Masks
         /\ faults' \in 0 .. MAX_FAULTS
         /\ onFor' \in 0 .. TICK_MOD
         /\ quietFor' \in 0 .. BREAK_BEFORE_MAKE
BY TimingAssumption, EnvironmentAssumption DEF TypeOK, WriteRelays, Outcomes

LEMMA ReleaseType ==
  ASSUME TypeOK, NEW outcome \in Outcomes, ReleaseAll(outcome)
  PROVE  /\ relays' \in Masks
         /\ faults' \in 0 .. MAX_FAULTS
         /\ onFor' \in 0 .. TICK_MOD
         /\ quietFor' \in 0 .. BREAK_BEFORE_MAKE
         /\ abandoned' \in BOOLEAN
<1>1. abandoned' = IF relays' = ALL_OFF THEN FALSE ELSE abandoned
  BY DEF ReleaseAll
<1>2. abandoned' \in BOOLEAN
  BY <1>1 DEF TypeOK
<1>3. WriteRelays(ALL_OFF, outcome)
  BY DEF ReleaseAll
<1>4. QED
  BY <1>2, <1>3, AllOffIsMask, WriteRelaysType

\* A drive that ends, however it ends, leaves the task at its queue.
LEMMA EndDriveType ==
  ASSUME EndDrive
  PROVE  /\ cmd' \in [valve : Valves, action : Actions] /\ pc' \in PCs /\ sleep' \in Int
         /\ start' \in Ticks /\ result' \in StepResults
<1>1. NoCommand \in [valve : Valves, action : Actions] /\ 0 \in Ticks
  BY TimingAssumption DEF NoCommand, Valves, Actions, Ticks
<1>2. QED
  BY <1>1 DEF EndDrive, PCs, StepResults

LEMMA AbandonType ==
  ASSUME TypeOK, Abandon
  PROVE  /\ cmd' \in [valve : Valves, action : Actions] /\ pc' \in PCs /\ sleep' \in Int
         /\ start' \in Ticks /\ result' \in StepResults
         /\ position' \in [Valves -> Positions] /\ sent' \in [Valves -> Positions]
         /\ settleUntil' \in Ticks /\ driving' \in BOOLEAN
         /\ closeFailed' \in [Valves -> BOOLEAN] /\ abandoned' \in BOOLEAN
         /\ UNCHANGED <<now, queue, lockoutUntil, closeFault, sinceCycle, resync>>
<1>1. EndDrive /\ driving' = FALSE /\ abandoned' = (relays' # ALL_OFF)
  BY DEF Abandon
<1>2. driving' \in BOOLEAN /\ abandoned' \in BOOLEAN
  BY <1>1
<1>3. position' \in [Valves -> Positions] /\ sent' \in [Valves -> Positions]
  BY DEF Abandon, Report, TypeOK, Positions
<1>4. settleUntil' \in Ticks
  BY LaterIsTick, TimingAssumption DEF Abandon, TypeOK
<1>5. closeFailed' \in [Valves -> BOOLEAN]
  BY DEF Abandon, TypeOK
<1>6. QED
  BY <1>1, <1>2, <1>3, <1>4, <1>5, EndDriveType DEF Abandon

\* Every variable of valve_drive.c and of its queue, timer and relay expander keeps its type
\* through every step, so the command queue stays within its length and the relays only ever
\* hold nothing or one drive pair (valve_control.h, the drive table).
THEOREM TypeCorrect == Spec => []TypeOK
<1>1. Init => TypeOK
  <2> SUFFICES ASSUME Init PROVE TypeOK
    OBVIOUS
  <2>1. ALL_OFF \in Masks /\ 0 \in Ticks /\ 0 \in Valves /\ NoCommand.action \in Actions
    BY TimingAssumption DEF Masks, Ticks, Valves, NoCommand, Actions
  <2>2. /\ relays \in Masks /\ watchdog \in {NoTimer} /\ firing \in BOOLEAN
        /\ now \in Ticks /\ sleep \in Int /\ start \in Ticks
        /\ result \in StepResults /\ driving \in BOOLEAN /\ settleUntil \in Ticks
        /\ abandoned \in BOOLEAN
    BY <2>1 DEF Init, StepResults
  <2>8. pc \in PCs
    BY DEF Init, PCs
  <2>3. queue \in Seq(Message) /\ Len(queue) <= CMD_QUEUE_LEN
    BY TimingAssumption DEF Init
  <2>4. /\ position \in [Valves -> Positions] /\ sent \in [Valves -> Positions]
        /\ lockoutUntil \in [Valves -> Ticks]
        /\ closeFault \in [Valves -> BOOLEAN] /\ closeFailed \in [Valves -> BOOLEAN]
        /\ sinceCycle \in [Valves -> 0 .. REDRIVE_LOCKOUT]
    BY <2>1, TimingAssumption DEF Init, Positions
  <2>5. /\ cmd \in [valve : Valves, action : Actions]
        /\ resync \in [valve : 0 .. VALVE_COUNT, value : Positions]
    BY <2>1, TimingAssumption DEF Init, NoCommand, Idle, Positions
  <2>6. /\ faults \in 0 .. MAX_FAULTS
        /\ onFor \in 0 .. TICK_MOD /\ quietFor \in 0 .. BREAK_BEFORE_MAKE
    BY TimingAssumption, EnvironmentAssumption DEF Init
  <2>7. QED
    BY <2>2, <2>3, <2>4, <2>5, <2>6, <2>8 DEF TypeOK
<1>2. TypeOK /\ [Next]_driveVars => TypeOK'
  <2> SUFFICES ASSUME TypeOK, [Next]_driveVars PROVE TypeOK'
    OBVIOUS
  <2>0. /\ ALL_OFF \in Masks
        /\ NoCommand \in [valve : Valves, action : Actions]
        /\ Idle \in [valve : 0 .. VALVE_COUNT, value : Positions]
        /\ 0 \in Ticks
    BY TimingAssumption DEF Masks, NoCommand, Valves, Actions, Idle, Positions, Ticks
  <2>1. CASE \E msg \in COMMANDS : CmdRx(msg)
    <3>1. PICK msg \in COMMANDS : CmdRx(msg)
      BY <2>1
    <3>2. msg \in Message
      BY EnvironmentAssumption DEF Message
    <3>3. queue' \in Seq(Message) /\ Len(queue') <= CMD_QUEUE_LEN
      BY <3>1, <3>2, TimingAssumption DEF CmdRx, TypeOK
    <3>4. QED
      BY <3>1, <3>3 DEF CmdRx, TypeOK, relayVars, timerVars, taskVars, statusVars,
           reportVars
  <2>2. CASE ReceiveUnknown \/ ReceiveLockedOut \/ ReceiveDrive
    <3>1. queue' \in Seq(Message) /\ Len(queue') <= CMD_QUEUE_LEN
      <4>1. queue' = Tail(queue) /\ queue # << >> /\ queue \in Seq(Message)
            /\ Len(queue) <= CMD_QUEUE_LEN
        BY <2>2 DEF ReceiveUnknown, ReceiveLockedOut, ReceiveDrive, Receive, TypeOK
      <4>2. Tail(queue) \in Seq(Message) /\ Len(Tail(queue)) = Len(queue) - 1
        BY <4>1
      <4>3. QED
        BY <4>1, <4>2, TimingAssumption
    <3>2. CASE ReceiveUnknown \/ ReceiveLockedOut
      BY <3>1, <3>2 DEF ReceiveUnknown, ReceiveLockedOut, Receive, TypeOK, relayVars,
           timerVars, taskVars, statusVars, reportVars
    <3>3. CASE ReceiveDrive
      <4>1. cmd' \in [valve : Valves, action : Actions] /\ pc' \in PCs
        BY <3>3 DEF ReceiveDrive, Actions, PCs
      <4>2. QED
        BY <3>1, <3>3, <4>1 DEF ReceiveDrive, Receive, TypeOK, relayVars, timerVars,
             statusVars, reportVars
    <3>4. QED
      BY <2>2, <3>2, <3>3
  <2>3. ASSUME NEW outcome \in Outcomes, BeginDrive(outcome) PROVE TypeOK'
    <3>1. ReleaseAll(outcome)
      BY <2>3 DEF BeginDrive
    <3>2. sleep' \in Int /\ pc' \in PCs /\ driving' \in BOOLEAN
      BY <2>3, TimingAssumption DEF BeginDrive, Break, PCs, TypeOK
    <3>3. QED
      BY <2>3, <3>1, <3>2, ReleaseType DEF BeginDrive, TypeOK, timerVars, reportVars
  <2>4. CASE StopBeforeBreak \/ StopBeforeArm \/ Arm \/ StopAfterRelease \/ StartPolling
    <3>1. sleep' \in Int /\ pc' \in PCs /\ start' \in Ticks
      BY <2>4, TimingAssumption DEF StopBeforeBreak, StopBeforeArm, Arm, StopAfterRelease,
         StartPolling, Break, PCs, TypeOK
    <3>2. watchdog' \in {NoTimer} \cup 0 .. DRIVE_CEILING /\ firing' \in BOOLEAN
      BY <2>4, TimingAssumption DEF StopBeforeBreak, StopBeforeArm, Arm, StopAfterRelease,
         StartPolling, StopTimer, TypeOK, timerVars
    <3>3. UNCHANGED <<relayVars, now, cmd, result, queue, statusVars, reportVars>>
      BY <2>4 DEF StopBeforeBreak, StopBeforeArm, Arm, StopAfterRelease, StartPolling
    <3>4. QED
      BY <3>1, <3>2, <3>3 DEF TypeOK, relayVars, statusVars, reportVars
  <2>5. ASSUME NEW outcome \in Outcomes, AbortDrive(outcome) PROVE TypeOK'
    <3>1. /\ WriteRelays(IF Refused THEN ALL_OFF ELSE Mask, outcome)
          /\ (IF Refused THEN ALL_OFF ELSE Mask) \in Masks
      BY <2>0, <2>5, DriveMaskIsMask DEF AbortDrive, Mask, TypeOK
    <3>2. watchdog' \in {NoTimer} \cup 0 .. DRIVE_CEILING /\ firing' \in BOOLEAN
      BY <2>5 DEF AbortDrive, TypeOK
    <3>3. Abandon
      BY <2>5 DEF AbortDrive
    <3>4. QED
      BY <3>1, <3>2, <3>3, WriteRelaysType, AbandonType DEF TypeOK
  <2>6. CASE Energize
    <3>1. WriteRelays(Mask, "ok") /\ "ok" \in Outcomes /\ Mask \in Masks
      BY <2>6, DriveMaskIsMask DEF Energize, Mask, Outcomes, TypeOK
    <3>2. pc' \in PCs
      BY <2>6 DEF Energize, PCs
    <3>3. QED
      BY <2>6, <3>1, <3>2, WriteRelaysType DEF Energize, TypeOK, timerVars, statusVars,
         reportVars
  <2>17. CASE AbortUnarmed
    <3>1. /\ UNCHANGED <<relays, onFor, quietFor, timerVars>> /\ faults' \in 0 .. MAX_FAULTS
      BY <2>17, EnvironmentAssumption DEF AbortUnarmed, TypeOK
    <3>2. Abandon
      BY <2>17 DEF AbortUnarmed
    <3>3. QED
      BY <3>1, <3>2, AbandonType DEF TypeOK, timerVars
  <2>18. ASSUME NEW outcome \in Outcomes, ReleaseDrive(outcome) PROVE TypeOK'
    <3>1. ReleaseAll(outcome) /\ pc' \in PCs
      BY <2>18 DEF ReleaseDrive, PCs
    <3>2. QED
      BY <2>18, <3>1, ReleaseType DEF ReleaseDrive, TypeOK, timerVars, statusVars, reportVars
  <2>19. CASE Finish
    <3>1. Recorded \in Positions
      BY DEF Recorded, Positions
    <3>2. position' \in [Valves -> Positions] /\ sent' \in [Valves -> Positions]
      BY <2>19, <3>1 DEF Finish, Report, TypeOK
    <3>3. settleUntil' \in Ticks /\ lockoutUntil' \in [Valves -> Ticks]
      BY <2>19, LaterIsTick, TimingAssumption DEF Finish, TypeOK
    <3>4. /\ closeFault' \in [Valves -> BOOLEAN] /\ closeFailed' \in [Valves -> BOOLEAN]
          /\ sinceCycle' \in [Valves -> 0 .. REDRIVE_LOCKOUT]
      BY <2>19, TimingAssumption DEF Finish, TypeOK
    <3>5. EndDrive /\ driving' \in BOOLEAN
      BY <2>19 DEF Finish
    <3>6. QED
      BY <2>19, <3>2, <3>3, <3>4, <3>5, EndDriveType DEF Finish, TypeOK, relayVars, timerVars
  <2>7. CASE WatchdogExpire
    BY <2>7 DEF WatchdogExpire, TypeOK, relayVars, taskVars, statusVars, reportVars
  <2>8. ASSUME NEW outcome \in Outcomes, WatchdogRelease(outcome) PROVE TypeOK'
    <3>1. ReleaseAll(outcome)
      BY <2>8 DEF WatchdogRelease
    <3>2. QED
      BY <2>8, <3>1, ReleaseType DEF WatchdogRelease, TypeOK, taskVars,
           statusVars, reportVars
  <2>9. CASE ResyncStart \/ ResyncSend
    <3>1. resync' \in [valve : 0 .. VALVE_COUNT, value : Positions]
      BY <2>0, <2>9, TimingAssumption DEF ResyncStart, ResyncSend, ResyncRead, TypeOK, Valves
    <3>2. sent' \in [Valves -> Positions]
      BY <2>9 DEF ResyncStart, ResyncSend, TypeOK
    <3>3. QED
      BY <2>9, <3>1, <3>2 DEF ResyncStart, ResyncSend, TypeOK, relayVars, timerVars,
           taskVars, statusVars
  <2>10. ASSUME NEW outcome \in WRITE_ERRORS, BootFails(outcome) PROVE TypeOK'
    <3>1. ReleaseAll(outcome) /\ outcome \in Outcomes
      BY <2>10 DEF BootFails, Outcomes
    <3>2. QED
      BY <2>0, <2>10, <3>1, ReleaseType DEF BootFails, TypeOK, timerVars,
           statusVars, reportVars
  <2>11. ASSUME NEW diClosed \in BOOLEAN, Poll(diClosed) PROVE TypeOK'
    <3>1. result' \in StepResults
      BY <2>11, DecideStepResult DEF Poll
    <3>2. pc' \in PCs /\ sleep' \in Int
      BY <2>11, TimingAssumption DEF Poll, TypeOK, PCs
    <3>3. QED
      BY <2>11, <3>1, <3>2 DEF Poll, TypeOK, relayVars, timerVars, statusVars, reportVars
  <2>12. ASSUME NEW diClosed \in [Valves -> BOOLEAN], Boot(diClosed) PROVE TypeOK'
    <3>1. ReleaseAll("ok") /\ "ok" \in Outcomes
      BY <2>12 DEF Boot, Outcomes
    <3>2. position' \in [Valves -> Positions]
      BY <2>12 DEF Boot, StartPosition, Positions
    <3>3. QED
      BY <2>0, <2>12, <3>1, <3>2, ReleaseType DEF Boot, TypeOK, timerVars, PCs, reportVars
  <2>13. CASE Reboot
    <3>1. /\ relays' \in Masks /\ onFor' \in 0 .. TICK_MOD
          /\ quietFor' \in 0 .. BREAK_BEFORE_MAKE
      BY <2>0, <2>13, TimingAssumption, EnvironmentAssumption DEF Reboot, TypeOK
    <3>8. abandoned' \in BOOLEAN
      BY <2>13 DEF Reboot
    <3>2. queue' \in Seq(Message) /\ Len(queue') <= CMD_QUEUE_LEN
      BY <2>13, TimingAssumption DEF Reboot
    <3>3. /\ position' \in [Valves -> Positions]
          /\ lockoutUntil' \in [Valves -> Ticks]
          /\ closeFault' \in [Valves -> BOOLEAN] /\ closeFailed' \in [Valves -> BOOLEAN]
          /\ sinceCycle' \in [Valves -> 0 .. REDRIVE_LOCKOUT]
      BY <2>0, <2>13, TimingAssumption DEF Reboot, Positions
    <3>4. /\ cmd' \in [valve : Valves, action : Actions] /\ pc' \in PCs /\ sleep' \in Int
          /\ start' \in Ticks /\ result' \in StepResults /\ driving' \in BOOLEAN
          /\ now' \in Ticks /\ settleUntil' \in Ticks /\ firing' \in BOOLEAN
          /\ watchdog' \in {NoTimer}
      <4>1. /\ cmd' = NoCommand /\ pc' = "boot" /\ sleep' = 0 /\ start' = 0
            /\ result' = "continue" /\ driving' = FALSE /\ now' = 0 /\ settleUntil' = 0
            /\ firing' = FALSE /\ watchdog' = NoTimer
        BY <2>13 DEF Reboot
      <4>2. driving' \in BOOLEAN /\ firing' \in BOOLEAN
        BY <4>1
      <4>3. pc' \in PCs /\ sleep' \in Int /\ result' \in StepResults
        BY <4>1 DEF PCs, StepResults
      <4>4. /\ cmd' \in [valve : Valves, action : Actions] /\ start' \in Ticks
            /\ now' \in Ticks /\ settleUntil' \in Ticks /\ watchdog' \in {NoTimer}
        BY <2>0, <4>1
      <4>5. QED
        BY <4>2, <4>3, <4>4
    <3>5. resync' \in [valve : 0 .. VALVE_COUNT, value : Positions]
      BY <2>0, <2>13 DEF Reboot
    <3>6. sent' \in [Valves -> Positions] /\ faults' \in 0 .. MAX_FAULTS
      BY <2>13 DEF Reboot, TypeOK
    <3>7. QED
      BY <3>1, <3>2, <3>3, <3>4, <3>5, <3>6, <3>8 DEF TypeOK
  <2>14. CASE Tick
    <3>1. now' \in Ticks
      BY <2>14, LaterIsTick, TimingAssumption DEF Tick, TypeOK, Later, Ticks
    <3>2. watchdog' \in {NoTimer} \cup 0 .. DRIVE_CEILING
      BY <2>14, TimingAssumption DEF Tick, TypeOK, NoTimer
    <3>3. sleep' \in Int /\ onFor' \in 0 .. TICK_MOD /\ quietFor' \in 0 .. BREAK_BEFORE_MAKE
      BY <2>14, TimingAssumption DEF Tick, TypeOK, Capped
    <3>4. sinceCycle' \in [Valves -> 0 .. REDRIVE_LOCKOUT]
      <4>1. \A v \in Valves : Capped(sinceCycle[v] + 1, REDRIVE_LOCKOUT) \in 0 .. REDRIVE_LOCKOUT
        BY TimingAssumption DEF TypeOK, Capped
      <4>2. QED
        BY <2>14, <4>1 DEF Tick
    <3>5. QED
      BY <2>14, <3>1, <3>2, <3>3, <3>4 DEF Tick, TypeOK, reportVars
  <2>15. CASE UNCHANGED driveVars
    BY <2>15 DEF TypeOK, driveVars, relayVars, timerVars, taskVars, statusVars, reportVars
  <2>16. QED
    BY <2>1, <2>2, <2>3, <2>4, <2>5, <2>6, <2>7, <2>8, <2>9, <2>10, <2>11, <2>12,
       <2>13, <2>14, <2>15, <2>17, <2>18, <2>19
       DEF Next, DriveStep, DriveTask, WatchdogTask, TimerTask
<1>3. QED
  BY <1>1, <1>2, PTL DEF Spec

-----------------------------------------------------------------------------
(* The steps, grouped by what they do to the relays and the drive *)

\* Steps that change neither the relays nor the drive.
SideStep ==
  \/ \E msg \in COMMANDS : CmdRx(msg)
  \/ ReceiveUnknown \/ ReceiveLockedOut
  \/ ResyncStart \/ ResyncSend
  \/ UNCHANGED driveVars

LEMMA SideStepFrame ==
  ASSUME SideStep
  PROVE  /\ UNCHANGED <<relays, watchdog, firing, now, pc, cmd, start, lockoutUntil,
                        faults, onFor, quietFor, abandoned, sinceCycle>>
         /\ sleep' = sleep \/ (pc = "wait" /\ sleep' = 0)
<1>1. CASE (\E msg \in COMMANDS : CmdRx(msg)) \/ ResyncStart \/ ResyncSend
  BY <1>1 DEF CmdRx, ResyncStart, ResyncSend, relayVars, timerVars, taskVars, statusVars
<1>2. CASE ReceiveUnknown \/ ReceiveLockedOut
  BY <1>2 DEF ReceiveUnknown, ReceiveLockedOut, Receive, relayVars, timerVars, statusVars
<1>3. CASE UNCHANGED driveVars
  BY <1>3 DEF driveVars, relayVars, timerVars, taskVars, statusVars
<1>4. QED
  BY <1>1, <1>2, <1>3 DEF SideStep

\* A step is a side step or one of the steps of a drive.
LEMMA StepCases ==
  ASSUME [Next]_driveVars
  PROVE  \/ SideStep
         \/ ReceiveDrive
         \/ \E outcome \in Outcomes : BeginDrive(outcome)
         \/ StopBeforeBreak
         \/ Energize
         \/ StopBeforeArm
         \/ Arm
         \/ \E outcome \in Outcomes : AbortDrive(outcome)
         \/ AbortUnarmed
         \/ StartPolling
         \/ \E diClosed \in BOOLEAN : Poll(diClosed)
         \/ \E outcome \in Outcomes : ReleaseDrive(outcome)
         \/ StopAfterRelease
         \/ Finish
         \/ WatchdogExpire
         \/ \E outcome \in Outcomes : WatchdogRelease(outcome)
         \/ Reboot
         \/ \E diClosed \in [Valves -> BOOLEAN] : Boot(diClosed)
         \/ \E outcome \in WRITE_ERRORS : BootFails(outcome)
         \/ Tick
BY DEF SideStep, Next, DriveStep, DriveTask, WatchdogTask, TimerTask

\* What a write of all-off does to the relays.
LEMMA ReleaseEffect ==
  ASSUME NEW outcome \in Outcomes, ReleaseAll(outcome)
  PROVE  /\ relays' \in {relays, ALL_OFF}
         /\ relays' = ALL_OFF => onFor' = 0 /\ quietFor' = quietFor
         /\ relays' # ALL_OFF => onFor' = onFor /\ quietFor' = 0 /\ abandoned' = abandoned
         /\ outcome = "ok" => relays' = ALL_OFF /\ faults' = faults
         /\ outcome # "ok" => faults' = faults + 1
<1>1. abandoned' = IF relays' = ALL_OFF THEN FALSE ELSE abandoned
  BY DEF ReleaseAll
<1>2. relays' # ALL_OFF => abandoned' = abandoned
  BY <1>1
<1>3. QED
  BY <1>2 DEF ReleaseAll, WriteRelays

\* The interlock never refuses a pair of the drive table.
LEMMA NeverRefused == ~ Refused /\ Mask = DriveMask(cmd.valve, cmd.action)
BY DriveMaskIsSafe DEF Refused, Mask

\* A drive mask that reached the expander energises its pair.
LEMMA DriveEffect ==
  ASSUME TypeOK, Energize
  PROVE  /\ relays' = DriveMask(cmd.valve, cmd.action)
         /\ relays' # ALL_OFF
         /\ faults' = faults /\ onFor' = onFor /\ quietFor' = 0
<1>1. cmd.valve \in Valves /\ cmd.action \in Actions
  BY DEF TypeOK
<1>2. Mask # ALL_OFF
  BY <1>1, NeverRefused, DriveMaskEnergizes
<1>3. QED
  BY <1>2, NeverRefused DEF Energize, WriteRelays

\* A drive abandoned at its write: the write failed and the timer was not touched.
LEMMA AbortEffect ==
  ASSUME TypeOK, NEW outcome \in Outcomes, AbortDrive(outcome)
  PROVE  /\ relays' \in {relays, DriveMask(cmd.valve, cmd.action)}
         /\ relays' = ALL_OFF => onFor' = 0
         /\ relays' # ALL_OFF => onFor' = onFor /\ abandoned'
         /\ watchdog' = watchdog /\ firing' = firing
         /\ faults' = faults + 1
<1>1. ~ Refused /\ Mask = DriveMask(cmd.valve, cmd.action)
  BY NeverRefused
<1>2. WriteRelays(Mask, outcome) /\ outcome # "ok"
  BY <1>1 DEF AbortDrive
<1>3. watchdog' = watchdog /\ firing' = firing
  BY <1>1 DEF AbortDrive
<1>4. abandoned' = (relays' # ALL_OFF)
  BY DEF AbortDrive, Abandon
<1>5. relays' # ALL_OFF => abandoned'
  BY <1>4
<1>6. QED
  BY <1>1, <1>2, <1>3, <1>5 DEF WriteRelays

\* A drive abandoned because its timer did not start.
LEMMA UnarmedEffect ==
  ASSUME AbortUnarmed
  PROVE  /\ UNCHANGED <<relays, onFor, quietFor, watchdog, firing, now, lockoutUntil,
                        sinceCycle>>
         /\ relays # ALL_OFF => abandoned'
         /\ faults' = faults + 1
         /\ pc = "arm" /\ pc' = "wait" /\ sleep' = 0
<1>1. abandoned' = (relays' # ALL_OFF)
  BY DEF AbortUnarmed, Abandon
<1>2. relays' # ALL_OFF => abandoned'
  BY <1>1
<1>3. QED
  BY <1>2 DEF AbortUnarmed, Abandon, EndDrive, timerVars

\* The steps between the relay writes: what they leave alone.
LEMMA BetweenWrites ==
  ASSUME StopBeforeBreak \/ StopBeforeArm \/ Arm \/ StopAfterRelease \/ StartPolling
  PROVE  /\ UNCHANGED <<relays, onFor, quietFor, abandoned, faults, firing, now, cmd,
                        lockoutUntil, sinceCycle>>
         /\ pc' # "boot" /\ pc # "boot"
BY DEF StopBeforeBreak, StopBeforeArm, Arm, StopAfterRelease, StartPolling, StopTimer, Break,
   relayVars, timerVars, statusVars

-----------------------------------------------------------------------------
(* Break before make *)

\* Where the pair of the command may be energised.
Driven == {"energized", "arm", "armed", "driving", "release"}

\* A write of all-off that succeeded is followed by the stop of the timer with the
\* relays off.  Without a fault the relays are off outside a drive; while the task
\* waits out the dead time they are off, and have been for as long as it has slept.
DeadTimeInv ==
  /\ relays = ALL_OFF => onFor = 0
  /\ pc \in {"broken", "released"} => relays = ALL_OFF
  /\ faults = 0 /\ relays # ALL_OFF => pc \in Driven \cup {"boot"}
  /\ faults <= 1 /\ pc = "breaking" =>
       /\ relays = ALL_OFF
       /\ quietFor = BREAK_BEFORE_MAKE \/ quietFor + sleep >= BREAK_BEFORE_MAKE

LEMMA DeadTimeStep ==
  ASSUME TypeOK, DeadTimeInv, [Next]_driveVars
  PROVE  DeadTimeInv'
<1>1. CASE SideStep
  BY <1>1, SideStepFrame DEF DeadTimeInv
<1>2. CASE ReceiveDrive
  BY <1>2 DEF ReceiveDrive, Receive, relayVars, DeadTimeInv, Driven
<1>3. ASSUME NEW outcome \in Outcomes, BeginDrive(outcome) PROVE DeadTimeInv'
  <2>1. ReleaseAll(outcome) /\ pc = "begin" /\ faults \in Nat
    BY <1>3 DEF BeginDrive, TypeOK
  <2>2. IF outcome = "ok" THEN pc' = "broken" ELSE pc' = "breaking" /\ sleep' = BREAK_BEFORE_MAKE
    BY <1>3 DEF BeginDrive, Break
  <2>3. faults' <= 1 => relays' = ALL_OFF
    BY <2>1, ReleaseEffect DEF DeadTimeInv, Driven
  <2>4. ASSUME faults' <= 1, pc' = "breaking" PROVE quietFor' + sleep' >= BREAK_BEFORE_MAKE
    <3>1. quietFor' = quietFor /\ sleep' = BREAK_BEFORE_MAKE
      BY <2>1, <2>2, <2>3, <2>4, ReleaseEffect
    <3>2. QED
      BY <3>1, TimingAssumption DEF TypeOK
  <2>5. (relays' = ALL_OFF => onFor' = 0) /\ (pc' = "broken" => relays' = ALL_OFF)
        /\ pc' \in {"broken", "breaking"}
    BY <2>1, <2>2, ReleaseEffect
  <2>6. QED
    BY <2>3, <2>4, <2>5 DEF DeadTimeInv
<1>4. CASE StopBeforeBreak
  <2>1. /\ pc = "broken" /\ pc' = "breaking" /\ sleep' = BREAK_BEFORE_MAKE
        /\ UNCHANGED <<relays, onFor, quietFor, faults>>
    BY <1>4 DEF StopBeforeBreak, Break, relayVars
  <2>2. quietFor' + sleep' >= BREAK_BEFORE_MAKE
    BY <2>1, TimingAssumption DEF TypeOK
  <2>3. QED
    BY <2>1, <2>2 DEF DeadTimeInv
<1>5. CASE Energize
  <2>1. pc' = "energized"
    BY <1>5 DEF Energize
  <2>2. QED
    BY <1>5, <2>1, DriveEffect DEF DeadTimeInv, Driven
<1>6. CASE StopBeforeArm \/ Arm \/ StartPolling
  <2>1. UNCHANGED <<relays, onFor, quietFor, faults>>
    BY <1>6, BetweenWrites
  <2>2. pc' \in {"arm", "armed", "driving"}
    BY <1>6 DEF StopBeforeArm, Arm, StartPolling
  <2>3. QED
    BY <2>1, <2>2 DEF DeadTimeInv, Driven
<1>7. ASSUME NEW outcome \in Outcomes, AbortDrive(outcome) PROVE DeadTimeInv'
  <2>1. pc' = "wait" /\ faults \in Nat
    BY <1>7 DEF AbortDrive, Abandon, EndDrive, TypeOK
  <2>2. QED
    BY <1>7, <2>1, AbortEffect DEF DeadTimeInv
<1>8. CASE AbortUnarmed
  <2>1. faults \in Nat
    BY DEF TypeOK
  <2>2. QED
    BY <1>8, <2>1, UnarmedEffect DEF DeadTimeInv
<1>9. ASSUME NEW diClosed \in BOOLEAN, Poll(diClosed) PROVE DeadTimeInv'
  BY <1>9 DEF Poll, relayVars, DeadTimeInv, Driven
<1>10. ASSUME NEW outcome \in Outcomes, ReleaseDrive(outcome) PROVE DeadTimeInv'
  <2>1. /\ ReleaseAll(outcome) /\ faults \in Nat
        /\ pc' = IF outcome = "ok" THEN "released" ELSE "finish"
    BY <1>10 DEF ReleaseDrive, TypeOK
  <2>2. QED
    BY <2>1, ReleaseEffect DEF DeadTimeInv
<1>11. CASE StopAfterRelease
  <2>1. /\ pc = "released" /\ pc' = "finish"
        /\ UNCHANGED <<relays, onFor, quietFor, faults>>
    BY <1>11 DEF StopAfterRelease, relayVars
  <2>2. QED
    BY <2>1 DEF DeadTimeInv
<1>12. CASE Finish
  <2>1. pc = "finish" /\ pc' = "wait" /\ UNCHANGED <<relays, onFor, quietFor, faults>>
    BY <1>12 DEF Finish, EndDrive, relayVars
  <2>2. QED
    BY <2>1 DEF DeadTimeInv, Driven
<1>13. CASE WatchdogExpire
  BY <1>13 DEF WatchdogExpire, relayVars, taskVars, DeadTimeInv
<1>14. ASSUME NEW outcome \in Outcomes, WatchdogRelease(outcome) PROVE DeadTimeInv'
  <2>1. ReleaseAll(outcome) /\ pc' = pc /\ sleep' = sleep /\ faults \in Nat
    BY <1>14 DEF WatchdogRelease, taskVars, TypeOK
  <2>2. QED
    BY <2>1, ReleaseEffect DEF DeadTimeInv
<1>15. CASE Reboot
  BY <1>15 DEF Reboot, DeadTimeInv
<1>16. ASSUME NEW diClosed \in [Valves -> BOOLEAN], Boot(diClosed) PROVE DeadTimeInv'
  <2>1. ReleaseAll("ok") /\ pc' = "wait" /\ "ok" \in Outcomes
    BY <1>16 DEF Boot, Outcomes
  <2>2. QED
    BY <2>1, ReleaseEffect DEF DeadTimeInv
<1>17. ASSUME NEW outcome \in WRITE_ERRORS, BootFails(outcome) PROVE DeadTimeInv'
  <2>1. ReleaseAll(outcome) /\ pc' = "boot" /\ outcome \in Outcomes
    BY <1>17 DEF BootFails, Outcomes
  <2>2. QED
    BY <2>1, ReleaseEffect DEF DeadTimeInv
<1>18. CASE Tick
  <2>1. /\ UNCHANGED <<relays, faults, pc>>
        /\ relays = ALL_OFF => onFor' = 0
    BY <1>18 DEF Tick
  <2>2. ASSUME faults <= 1, pc = "breaking"
        PROVE  \/ quietFor' = BREAK_BEFORE_MAKE
               \/ quietFor' + sleep' >= BREAK_BEFORE_MAKE
    <3>1. /\ sleep' = sleep - 1 /\ sleep \in Int /\ quietFor \in 0 .. BREAK_BEFORE_MAKE
          /\ quietFor' = Capped(quietFor + 1, BREAK_BEFORE_MAKE)
      BY <1>18, <2>2 DEF Tick, Blocked, TypeOK, DeadTimeInv
    <3>2. QED
      BY <2>2, <3>1, TimingAssumption DEF Capped, DeadTimeInv
  <2>3. QED
    BY <2>1, <2>2 DEF DeadTimeInv
<1>19. QED
  BY StepCases, <1>1, <1>2, <1>3, <1>4, <1>5, <1>6, <1>7, <1>8, <1>9, <1>10, <1>11,
     <1>12, <1>13, <1>14, <1>15, <1>16, <1>17, <1>18

\* Only the drive task energises anything.
LEMMA OnlyDriveEnergizes ==
  ASSUME [Next]_driveVars
  PROVE  \/ Energize
         \/ \E outcome \in Outcomes : AbortDrive(outcome)
         \/ relays' \in {relays, ALL_OFF}
<1>1. SideStep => relays' \in {relays, ALL_OFF}
  BY SideStepFrame
<1>2. ReceiveDrive \/ Finish \/ WatchdogExpire \/ Reboot \/ Tick \/ AbortUnarmed
        => relays' \in {relays, ALL_OFF}
  BY DEF ReceiveDrive, Receive, Finish, WatchdogExpire, Reboot, Tick, AbortUnarmed, relayVars
<1>3. ASSUME NEW outcome \in Outcomes,
             \/ BeginDrive(outcome) \/ ReleaseDrive(outcome) \/ WatchdogRelease(outcome)
             \/ BootFails(outcome)
      PROVE  relays' \in {relays, ALL_OFF}
  BY <1>3, ReleaseEffect DEF BeginDrive, ReleaseDrive, WatchdogRelease, BootFails
<1>4. ASSUME NEW diClosed, Poll(diClosed) \/ Boot(diClosed)
      PROVE  relays' \in {relays, ALL_OFF}
  BY <1>4 DEF Poll, Boot, relayVars, ReleaseAll, WriteRelays
<1>5. StopBeforeBreak \/ StopBeforeArm \/ Arm \/ StopAfterRelease \/ StartPolling
        => relays' \in {relays, ALL_OFF}
  BY BetweenWrites
<1>6. WRITE_ERRORS \subseteq Outcomes
  BY DEF Outcomes
<1>7. QED
  BY StepCases, <1>1, <1>2, <1>3, <1>4, <1>5, <1>6

\* A pair is energised only at the end of its dead time.
LEMMA EnergizeFromQuiet ==
  ASSUME TypeOK, DeadTimeInv, [Next]_driveVars, faults' <= 1,
         relays' \notin {relays, ALL_OFF}
  PROVE  relays = ALL_OFF /\ quietFor = BREAK_BEFORE_MAKE
<1>1. Energize \/ \E outcome \in Outcomes : AbortDrive(outcome)
  BY OnlyDriveEnergizes
<1>2. pc = "breaking" /\ Awake /\ faults <= 1
  <2>1. CASE Energize
    <3>1. pc = "breaking" /\ Awake
      BY <2>1 DEF Energize
    <3>2. faults <= 1
      BY <2>1, DriveEffect
    <3>3. QED
      BY <3>1, <3>2
  <2>2. ASSUME NEW outcome \in Outcomes, AbortDrive(outcome)
        PROVE  pc = "breaking" /\ Awake /\ faults <= 1
    <3>1. pc = "breaking" /\ Awake
      BY <2>2 DEF AbortDrive
    <3>2. faults <= 1
      BY <2>2, AbortEffect DEF TypeOK
    <3>3. QED
      BY <3>1, <3>2
  <2>3. QED
    BY <1>1, <2>1, <2>2
<1>3. QED
  BY <1>2, TimingAssumption DEF DeadTimeInv, Awake, TypeOK

\* TypeOK and DeadTimeInv hold throughout.
LEMMA DeadTime == Spec => []DeadTimeInv
<1>1. Init => DeadTimeInv
  BY DEF Init, DeadTimeInv
<1>2. TypeOK /\ DeadTimeInv /\ [Next]_driveVars => DeadTimeInv'
  BY DeadTimeStep
<1>3. QED
  BY <1>1, <1>2, TypeCorrect, PTL DEF Spec

\* Rule 2 of the interlock, for every number of valves and every timing: a pair is
\* energised only from all-off and only after the whole dead time, in any order of
\* the drive task, the watchdog, a reset and at most one failed write.
THEOREM BreaksBeforeMaking == Spec => BreakBeforeMake
<1>1. ASSUME TypeOK, DeadTimeInv, [Next]_driveVars
      PROVE  [ faults' <= 1 /\ relays' \notin {relays, ALL_OFF}
                 => relays = ALL_OFF /\ quietFor = BREAK_BEFORE_MAKE ]_driveVars
  BY <1>1, EnergizeFromQuiet
<1>2. QED
  BY <1>1, TypeCorrect, DeadTime, PTL DEF Spec, BreakBeforeMake

-----------------------------------------------------------------------------
(* The drive ceiling *)

\* The drive task is at most SLACK units late.
SleepBounded == sleep >= - SLACK

\* A reset stops the watchdog.  A relay that it left energised is released as soon as the start-up code
\* runs; one failed attempt costs another reset.
BootUnwatched == pc = "boot" => watchdog = NoTimer /\ ~ firing

BootBounded ==
  faults <= 1 /\ pc = "boot" => onFor + sleep <= IF faults = 0 THEN 0 ELSE SLACK

\* Between the write that energises a pair and the first poll's sleep the task is in
\* one ready period: the pair is energised for no longer than the task is late.
ArmedInTime ==
  faults <= 1 /\ relays # ALL_OFF /\ pc \in {"energized", "arm", "armed"} =>
    onFor + sleep <= 0

\* The next poll of a drive comes at most a poll period after the ceiling.
PollInTime ==
  faults <= 1 /\ relays # ALL_OFF /\ pc \in {"driving", "release"} =>
    onFor + sleep <= DRIVE_CEILING + SLACK + SENSE_DEBOUNCE

\* The elapsed time run_drive computes is how long the motor has been energised, but
\* for how late the tick count was read.
ElapsedIsOnFor ==
  faults <= 1 /\ relays # ALL_OFF /\ pc = "driving" =>
    Elapsed(now, start) <= onFor /\ onFor <= Elapsed(now, start) + SLACK

\* The watchdog covers an energised motor until the ceiling; when its one write
\* was the one that failed, the drive is still in flight.
Covered ==
  \/ watchdog # NoTimer /\ onFor + watchdog <= DRIVE_CEILING + SLACK
  \/ firing /\ onFor <= DRIVE_CEILING + SLACK

WatchedOrPolled ==
  faults <= 1 /\ relays # ALL_OFF /\ pc # "boot" /\ ~ abandoned =>
    \/ Covered
    \/ pc \in {"energized", "arm"}
    \/ faults = 1 /\ pc \in {"armed", "driving", "release"}

CeilingInv ==
  /\ SleepBounded
  /\ BootUnwatched
  /\ BootBounded
  /\ ArmedInTime
  /\ PollInTime
  /\ ElapsedIsOnFor
  /\ WatchedOrPolled

-----------------------------------------------------------------------------
(* The re-drive lockout *)

\* Until the counter wraps, a deadline is in its range.
BeforeWrap == now + REDRIVE_LOCKOUT < TICK_MOD

\* The deadline of a valve says how long ago its last cycle ended.
LockoutIsAge ==
  \A v \in Valves :
    IF sinceCycle[v] < REDRIVE_LOCKOUT
    THEN lockoutUntil[v] = now + REDRIVE_LOCKOUT - sinceCycle[v]
    ELSE lockoutUntil[v] <= now

\* No valve has had a cycle when the node starts.
FreshAtBoot ==
  pc = "boot" => \A v \in Valves : sinceCycle[v] = REDRIVE_LOCKOUT /\ lockoutUntil[v] = 0

\* A valve about to be driven is out of its lockout.
DrivenIsFree ==
  pc \in {"begin", "broken", "breaking"} => sinceCycle[cmd.valve] = REDRIVE_LOCKOUT

LockoutInv ==
  /\ BeforeWrap
  /\ LockoutIsAge
  /\ FreshAtBoot
  /\ DrivenIsFree

\* Steps that take no time and end no cycle keep the clock and the deadlines.
LEMMA LockoutFrame ==
  ASSUME LockoutInv, UNCHANGED <<now, lockoutUntil, sinceCycle>>,
         pc' = "boot" => pc = "boot", DrivenIsFree'
  PROVE  LockoutInv'
BY DEF LockoutInv, BeforeWrap, LockoutIsAge, FreshAtBoot

LEMMA LockoutStep ==
  ASSUME ~ CLOCK_WRAPS, TypeOK, LockoutInv, [Next]_driveVars
  PROVE  LockoutInv'
<1>1. CASE SideStep
  BY <1>1, SideStepFrame, LockoutFrame DEF LockoutInv, DrivenIsFree
<1>2. CASE ReceiveDrive
  <2> DEFINE valve == Head(queue).valve
  <2>1. /\ pc' = "begin" /\ UNCHANGED <<now, lockoutUntil, sinceCycle>>
        /\ valve \in Valves /\ ~ (now < lockoutUntil[valve])
    BY <1>2 DEF ReceiveDrive, Receive, LockedOut, statusVars
  <2>2. sinceCycle[valve] = REDRIVE_LOCKOUT
    <3>1. /\ sinceCycle[valve] \in 0 .. REDRIVE_LOCKOUT
          /\ now \in Nat /\ REDRIVE_LOCKOUT \in Nat
      BY <2>1, TimingAssumption DEF TypeOK, Ticks
    <3>2. sinceCycle[valve] < REDRIVE_LOCKOUT =>
            lockoutUntil[valve] = now + REDRIVE_LOCKOUT - sinceCycle[valve]
      BY <2>1 DEF LockoutInv, LockoutIsAge
    <3> HIDE DEF valve
    <3>3. QED
      BY <2>1, <3>1, <3>2
  <2>3. cmd'.valve = valve
    BY <1>2 DEF ReceiveDrive
  <2>4. QED
    BY <2>1, <2>2, <2>3, LockoutFrame DEF DrivenIsFree
<1>3. CASE StopBeforeBreak \/ \E outcome \in Outcomes : BeginDrive(outcome)
  <2>1. /\ pc \in {"begin", "broken"} /\ pc' \in {"broken", "breaking"}
        /\ UNCHANGED <<now, cmd, lockoutUntil, sinceCycle>>
    BY <1>3 DEF BeginDrive, StopBeforeBreak, Break, statusVars
  <2>2. QED
    BY <2>1, LockoutFrame DEF LockoutInv, DrivenIsFree
<1>4. CASE Energize \/ StopBeforeArm \/ Arm \/ AbortUnarmed \/ StartPolling \/ StopAfterRelease
  <2>1. /\ pc' \in {"energized", "arm", "armed", "wait", "driving", "finish"}
        /\ UNCHANGED <<now, lockoutUntil, sinceCycle>>
    BY <1>4 DEF Energize, StopBeforeArm, Arm, AbortUnarmed, Abandon, EndDrive, StartPolling,
       StopAfterRelease, statusVars
  <2>2. QED
    BY <2>1, LockoutFrame DEF DrivenIsFree
<1>5. ASSUME NEW outcome \in Outcomes, AbortDrive(outcome) \/ ReleaseDrive(outcome)
      PROVE  LockoutInv'
  <2>1. /\ pc' \in {"wait", "released", "finish"}
        /\ UNCHANGED <<now, lockoutUntil, sinceCycle>>
    BY <1>5 DEF AbortDrive, Abandon, EndDrive, ReleaseDrive, statusVars
  <2>2. QED
    BY <2>1, LockoutFrame DEF DrivenIsFree
<1>6. ASSUME NEW diClosed, Poll(diClosed) \/ Boot(diClosed) PROVE LockoutInv'
  <2>1. pc' \in {"driving", "release", "wait"} /\ UNCHANGED <<now, lockoutUntil, sinceCycle>>
    BY <1>6 DEF Poll, Boot, statusVars
  <2>2. QED
    BY <2>1, LockoutFrame DEF DrivenIsFree
<1>7. CASE Finish
  <2>1. /\ pc' = "wait" /\ now' = now
        /\ lockoutUntil' = [lockoutUntil EXCEPT ![cmd.valve] = Later(now, REDRIVE_LOCKOUT)]
        /\ sinceCycle' = [sinceCycle EXCEPT ![cmd.valve] = 0]
    BY <1>7 DEF Finish, EndDrive
  <2>2. Later(now, REDRIVE_LOCKOUT) = now + REDRIVE_LOCKOUT
    BY DEF Later, LockoutInv, BeforeWrap
  <2>3. LockoutIsAge'
    <3> SUFFICES ASSUME NEW v \in Valves
                 PROVE  IF sinceCycle'[v] < REDRIVE_LOCKOUT
                        THEN lockoutUntil'[v] = now + REDRIVE_LOCKOUT - sinceCycle'[v]
                        ELSE lockoutUntil'[v] <= now
      BY <2>1 DEF LockoutIsAge
    <3>1. CASE v = cmd.valve
      <4>1. sinceCycle'[v] = 0 /\ lockoutUntil'[v] = now + REDRIVE_LOCKOUT
        BY <2>1, <2>2, <3>1 DEF TypeOK
      <4>2. QED
        BY <4>1, TimingAssumption DEF TypeOK, Ticks
    <3>2. CASE v # cmd.valve
      BY <2>1, <3>2 DEF LockoutInv, LockoutIsAge, TypeOK
    <3>3. QED
      BY <3>1, <3>2
  <2>4. QED
    BY <2>1, <2>3 DEF LockoutInv, BeforeWrap, FreshAtBoot, DrivenIsFree
<1>8. CASE WatchdogExpire
  <2>1. UNCHANGED <<pc, cmd, now, lockoutUntil, sinceCycle>>
    BY <1>8 DEF WatchdogExpire, taskVars, statusVars
  <2>2. QED
    BY <2>1, LockoutFrame DEF LockoutInv, DrivenIsFree
<1>9. ASSUME NEW outcome \in Outcomes, WatchdogRelease(outcome) PROVE LockoutInv'
  <2>1. UNCHANGED <<pc, cmd, now, lockoutUntil, sinceCycle>>
    BY <1>9 DEF WatchdogRelease, taskVars, statusVars
  <2>2. QED
    BY <2>1, LockoutFrame DEF LockoutInv, DrivenIsFree
<1>10. CASE Reboot
  <2>1. /\ now' = 0 /\ pc' = "boot"
        /\ lockoutUntil' = [v \in Valves |-> 0]
        /\ sinceCycle' = [v \in Valves |-> REDRIVE_LOCKOUT]
    BY <1>10 DEF Reboot
  <2>2. QED
    BY <2>1, TimingAssumption DEF LockoutInv, BeforeWrap, LockoutIsAge, FreshAtBoot,
       DrivenIsFree
<1>11. ASSUME NEW outcome \in WRITE_ERRORS, BootFails(outcome) PROVE LockoutInv'
  <2>1. pc = "boot" /\ pc' = "boot" /\ now' = 0 /\ UNCHANGED <<lockoutUntil, sinceCycle>>
    BY <1>11 DEF BootFails, statusVars
  <2>2. QED
    BY <2>1, TimingAssumption DEF LockoutInv, BeforeWrap, LockoutIsAge, FreshAtBoot,
       DrivenIsFree
<1>12. CASE Tick
  <2>1. /\ now + 1 + REDRIVE_LOCKOUT < TICK_MOD /\ now' = Later(now, 1)
        /\ sinceCycle' = [v \in Valves |-> Capped(sinceCycle[v] + 1, REDRIVE_LOCKOUT)]
        /\ UNCHANGED <<pc, cmd, lockoutUntil>>
    BY <1>12 DEF Tick
  <2>2. now' = now + 1 /\ BeforeWrap'
    BY <2>1, TimingAssumption DEF Later, TypeOK, Ticks, BeforeWrap
  <2>3. ASSUME NEW v \in Valves
        PROVE  sinceCycle'[v] = IF sinceCycle[v] < REDRIVE_LOCKOUT
                                THEN sinceCycle[v] + 1 ELSE REDRIVE_LOCKOUT
    BY <2>1, TimingAssumption DEF Capped, TypeOK
  <2>4. LockoutIsAge'
    <3> SUFFICES ASSUME NEW v \in Valves
                 PROVE  IF sinceCycle'[v] < REDRIVE_LOCKOUT
                        THEN lockoutUntil[v] = now + 1 + REDRIVE_LOCKOUT - sinceCycle'[v]
                        ELSE lockoutUntil[v] <= now + 1
      BY <2>1, <2>2 DEF LockoutIsAge
    <3>1. /\ sinceCycle[v] \in 0 .. REDRIVE_LOCKOUT /\ lockoutUntil[v] \in Nat
          /\ now \in Nat /\ REDRIVE_LOCKOUT \in Nat
      BY TimingAssumption DEF TypeOK, Ticks
    <3>2. IF sinceCycle[v] < REDRIVE_LOCKOUT
          THEN lockoutUntil[v] = now + REDRIVE_LOCKOUT - sinceCycle[v]
          ELSE lockoutUntil[v] <= now
      BY DEF LockoutInv, LockoutIsAge
    <3>3. CASE sinceCycle[v] < REDRIVE_LOCKOUT
      <4>1. sinceCycle'[v] = sinceCycle[v] + 1
        BY <2>3, <3>3
      <4>2. QED
        BY <3>1, <3>2, <3>3, <4>1
    <3>4. CASE ~ (sinceCycle[v] < REDRIVE_LOCKOUT)
      <4>1. sinceCycle'[v] = REDRIVE_LOCKOUT
        BY <2>3, <3>4
      <4>2. QED
        BY <3>1, <3>2, <3>4, <4>1
    <3>5. QED
      BY <3>3, <3>4
  <2>5. FreshAtBoot' /\ DrivenIsFree'
    BY <2>1, <2>3, TimingAssumption DEF LockoutInv, FreshAtBoot, DrivenIsFree, TypeOK
  <2>6. QED
    BY <2>2, <2>4, <2>5 DEF LockoutInv
<1>13. QED
  BY StepCases, <1>1, <1>2, <1>3, <1>4, <1>5, <1>6, <1>7, <1>8, <1>9, <1>10, <1>11, <1>12

LEMMA Lockout == ASSUME ~ CLOCK_WRAPS PROVE Spec => []LockoutInv
<1>1. Init => LockoutInv
  BY TimingAssumption DEF Init, LockoutInv, BeforeWrap, LockoutIsAge, FreshAtBoot, DrivenIsFree
<1>2. TypeOK /\ LockoutInv /\ [Next]_driveVars => LockoutInv'
  BY LockoutStep
<1>3. QED
  BY <1>1, <1>2, TypeCorrect, PTL DEF Spec

\* The masks of two valves have no relay in common.
LEMMA DriveMaskNamesValve ==
  ASSUME NEW v \in Valves, NEW a \in Actions, NEW u \in Valves, NEW b \in Actions,
         DriveMask(v, a) = DriveMask(u, b)
  PROVE  v = u
<1>1. \E w \in Wires : <<v, w, "hi">> \in DriveMask(v, a)
  BY DEF DriveMask, Wires
<1>2. \A w \in Wires : <<v, w, "hi">> \in DriveMask(u, b) => v = u
  BY DEF DriveMask
<1>3. QED
  BY <1>1, <1>2

LEMMA TailIsShorter ==
  ASSUME NEW S, NEW q \in Seq(S), q # << >>
  PROVE  Tail(q) # q /\ Len(Tail(q)) = Len(q) - 1
OBVIOUS

\* The re-drive lockout, for every number of valves and every timing: while the
\* tick counter has not wrapped, a valve is not energised before its lockout is
\* over, whatever commands arrive, writes fail and resets happen.
THEOREM LockoutKept == ASSUME ~ CLOCK_WRAPS PROVE Spec => LockoutHeld
<1>1. ASSUME TypeOK, LockoutInv, [Next]_driveVars,
             NEW v \in Valves, NEW a \in Actions, Energizes(v, a)
      PROVE  sinceCycle[v] >= REDRIVE_LOCKOUT
  <2>1. relays' = DriveMask(v, a) /\ relays' \notin {relays, ALL_OFF}
    BY <1>1, DriveMaskEnergizes DEF Energizes
  <2>2. pc = "breaking" /\ relays' = DriveMask(cmd.valve, cmd.action)
    <3>1. ASSUME Energize PROVE pc = "breaking" /\ relays' = DriveMask(cmd.valve, cmd.action)
      BY <1>1, <3>1, DriveEffect DEF Energize
    <3>2. ASSUME NEW outcome \in Outcomes, AbortDrive(outcome)
          PROVE  pc = "breaking" /\ relays' = DriveMask(cmd.valve, cmd.action)
      <4>1. relays' \in {relays, DriveMask(cmd.valve, cmd.action)}
        BY <1>1, <3>2, AbortEffect
      <4>2. QED
        BY <2>1, <3>2, <4>1 DEF AbortDrive
    <3>3. QED
      BY <1>1, <2>1, <3>1, <3>2, OnlyDriveEnergizes
  <2>3. cmd.valve \in Valves /\ cmd.action \in Actions
    BY <1>1 DEF TypeOK
  <2>4. v = cmd.valve
    BY <1>1, <2>1, <2>2, <2>3, DriveMaskNamesValve
  <2>5. QED
    BY <1>1, <2>2, <2>4, TimingAssumption DEF LockoutInv, DrivenIsFree
<1>2. ASSUME TypeOK, LockoutInv, [Next]_driveVars
      PROVE  [ \A v \in Valves, a \in Actions :
                 Energizes(v, a) => sinceCycle[v] >= REDRIVE_LOCKOUT ]_driveVars
  BY <1>1, <1>2
<1>3. QED
  BY <1>2, TypeCorrect, Lockout, PTL DEF Spec, LockoutHeld

\* The lockout ends: while the counter has not wrapped, no command is refused for
\* a lockout that is over.
THEOREM LockoutEnds == ASSUME ~ CLOCK_WRAPS PROVE Spec => LockoutExpires
<1>1. ASSUME TypeOK, LockoutInv, [Next]_driveVars, NEW v \in Valves,
             pc = "wait", pc' = "wait",
             queue # << >>, queue' = Tail(queue), Head(queue).valve = v
      PROVE  sinceCycle[v] < REDRIVE_LOCKOUT
  <2>1. now < lockoutUntil[v]
    <3>1. queue \in Seq(Message) /\ Tail(queue) \in Seq(Message)
          /\ Len(Tail(queue)) = Len(queue) - 1 /\ Len(queue) \in Nat
      BY <1>1 DEF TypeOK
    <3>2. queue' # queue
      <4>1. Tail(queue) # queue
        BY <1>1, TailIsShorter DEF TypeOK
      <4>2. QED
        BY <1>1, <4>1
    <3>3. ASSUME NEW msg \in COMMANDS, CmdRx(msg) PROVE FALSE
      <4>1. queue' = Append(queue, msg)
        BY <3>2, <3>3 DEF CmdRx
      <4>2. msg \in Message
        BY EnvironmentAssumption DEF Message
      <4>3. Len(queue') = Len(queue) + 1
        BY <3>1, <4>1, <4>2
      <4>4. QED
        BY <1>1, <3>1, <4>3
    <3>4. ReceiveLockedOut
      <4>1. ~ (ResyncStart \/ ResyncSend \/ WatchdogExpire \/ Tick)
        BY <3>2 DEF ResyncStart, ResyncSend, WatchdogExpire, Tick
      <4>7. ~ \/ StopBeforeBreak \/ StopBeforeArm \/ Arm \/ AbortUnarmed \/ StartPolling
              \/ StopAfterRelease \/ Finish
        BY <1>1 DEF StopBeforeBreak, StopBeforeArm, Arm, AbortUnarmed, StartPolling,
           StopAfterRelease, Finish
      <4>2. ~ UNCHANGED driveVars
        BY <3>2 DEF driveVars
      <4>3. ~ (ReceiveUnknown \/ ReceiveDrive \/ Energize \/ Reboot)
        BY <1>1 DEF ReceiveUnknown, ReceiveDrive, Energize, Reboot
      <4>4. ASSUME NEW outcome
            PROVE  ~ \/ BeginDrive(outcome) \/ AbortDrive(outcome) \/ ReleaseDrive(outcome)
                     \/ WatchdogRelease(outcome) \/ BootFails(outcome)
        BY <1>1, <3>2 DEF BeginDrive, AbortDrive, ReleaseDrive, WatchdogRelease, BootFails
      <4>5. ASSUME NEW diClosed PROVE ~ (Poll(diClosed) \/ Boot(diClosed))
        BY <1>1 DEF Poll, Boot
      <4>6. QED
        BY <1>1, <3>3, <4>1, <4>2, <4>3, <4>4, <4>5, <4>7, StepCases DEF SideStep
    <3>5. QED
      BY <1>1, <3>4 DEF ReceiveLockedOut, LockedOut
  <2>2. sinceCycle[v] \in Nat /\ lockoutUntil[v] \in Nat /\ now \in Nat
    BY <1>1, TimingAssumption DEF TypeOK, Ticks
  <2>3. sinceCycle[v] < REDRIVE_LOCKOUT \/ lockoutUntil[v] <= now
    BY <1>1 DEF LockoutInv, LockoutIsAge
  <2>4. QED
    BY <2>1, <2>2, <2>3
<1>2. ASSUME TypeOK, LockoutInv, [Next]_driveVars
      PROVE  [ \A v \in Valves :
                 /\ pc = "wait" /\ pc' = "wait"
                 /\ queue # << >> /\ queue' = Tail(queue) /\ Head(queue).valve = v
                 => sinceCycle[v] < REDRIVE_LOCKOUT ]_driveVars
  BY <1>1, <1>2
<1>3. QED
  BY <1>2, TypeCorrect, Lockout, PTL DEF Spec, LockoutExpires

-----------------------------------------------------------------------------
(* The ceiling, proved *)

\* A step that leaves every relay off keeps what is said of an energised one.
LEMMA CeilingWhenOff ==
  ASSUME faults' <= 1 => relays' = ALL_OFF, SleepBounded', pc' # "boot"
  PROVE  CeilingInv'
BY DEF CeilingInv, BootUnwatched, BootBounded, ArmedInTime, PollInTime, ElapsedIsOnFor,
   WatchedOrPolled

\* A unit of time brings the end of a sleep at most as much nearer.
LEMMA UnitPassed ==
  ASSUME NEW m \in Nat, NEW n \in Nat, NEW t \in Int, n <= m + 1
  PROVE  n + (t - 1) <= m + t
OBVIOUS

\* Every step keeps the bound; the step of the clock is where the tasks are late.
LEMMA CeilingStep ==
  ASSUME TypeOK, DeadTimeInv, CeilingInv, [Next]_driveVars
  PROVE  CeilingInv'
<1>0. /\ SLACK \in Nat /\ DRIVE_CEILING \in Nat /\ SENSE_DEBOUNCE \in Nat
      /\ BREAK_BEFORE_MAKE \in Nat /\ faults \in Nat /\ sleep \in Int /\ onFor \in Nat
      /\ sleep >= - SLACK
  BY TimingAssumption, EnvironmentAssumption DEF TypeOK, CeilingInv, SleepBounded
<1>1. CASE SideStep
  <2>1. SleepBounded'
    BY <1>0, <1>1, SideStepFrame DEF SleepBounded
  <2>2. pc \in {"energized", "arm", "armed", "driving", "release", "boot"} => sleep' = sleep
    BY <1>1, SideStepFrame
  <2>3. QED
    BY <1>1, <2>1, <2>2, SideStepFrame DEF CeilingInv, BootUnwatched, BootBounded, ArmedInTime,
       PollInTime, ElapsedIsOnFor, WatchedOrPolled, Covered
<1>2. CASE ReceiveDrive
  <2>1. /\ pc = "wait" /\ pc' = "begin" /\ sleep' = sleep
        /\ UNCHANGED <<relays, onFor, faults, abandoned, watchdog, firing>>
    BY <1>2 DEF ReceiveDrive, Receive, relayVars, timerVars
  <2>2. QED
    BY <2>1 DEF CeilingInv, SleepBounded, BootUnwatched, BootBounded, ArmedInTime, PollInTime,
       ElapsedIsOnFor, WatchedOrPolled, Covered
<1>3. ASSUME NEW outcome \in Outcomes, BeginDrive(outcome) PROVE CeilingInv'
  <2>1. /\ pc = "begin" /\ pc' # "boot" /\ sleep' \in {sleep, BREAK_BEFORE_MAKE}
        /\ ReleaseAll(outcome)
    BY <1>3 DEF BeginDrive, Break
  <2>2. faults' <= 1 => relays' = ALL_OFF
    BY <1>0, <2>1, ReleaseEffect DEF DeadTimeInv, Driven
  <2>3. SleepBounded'
    BY <1>0, <2>1 DEF SleepBounded
  <2>4. QED
    BY <2>1, <2>2, <2>3, CeilingWhenOff
<1>4. CASE StopBeforeBreak \/ StopAfterRelease
  <2>1. /\ pc \in {"broken", "released"} /\ pc' # "boot" /\ relays' = relays
        /\ sleep' \in {sleep, BREAK_BEFORE_MAKE}
    BY <1>4 DEF StopBeforeBreak, StopAfterRelease, Break, relayVars
  <2>2. relays' = ALL_OFF /\ SleepBounded'
    BY <1>0, <2>1 DEF DeadTimeInv, SleepBounded
  <2>3. QED
    BY <2>1, <2>2, CeilingWhenOff
<1>5. CASE Energize
  <2>1. pc = "breaking" /\ pc' = "energized" /\ sleep' = sleep /\ sleep <= 0
    BY <1>5 DEF Energize, Awake
  <2>2. faults' = faults /\ (faults <= 1 => onFor' = 0)
    BY <1>5, <2>1, DriveEffect DEF DeadTimeInv
  <2>3. SleepBounded' /\ ArmedInTime'
    BY <1>0, <2>1, <2>2 DEF SleepBounded, ArmedInTime
  <2>4. QED
    BY <2>1, <2>3 DEF CeilingInv, BootUnwatched, BootBounded, PollInTime, ElapsedIsOnFor,
       WatchedOrPolled
<1>6. CASE StopBeforeArm
  <2>1. /\ pc = "energized" /\ pc' = "arm" /\ sleep' = sleep
        /\ UNCHANGED <<relays, onFor, faults>>
    BY <1>6 DEF StopBeforeArm, relayVars
  <2>2. QED
    BY <2>1 DEF CeilingInv, SleepBounded, BootUnwatched, BootBounded, ArmedInTime, PollInTime,
       ElapsedIsOnFor, WatchedOrPolled
<1>7. CASE Arm
  <2>1. /\ pc = "arm" /\ pc' = "armed" /\ sleep' = sleep /\ watchdog' = DRIVE_CEILING
        /\ UNCHANGED <<relays, onFor, faults, abandoned>>
    BY <1>7 DEF Arm, relayVars
  <2>2. ArmedInTime'
    BY <2>1 DEF CeilingInv, ArmedInTime
  <2>3. WatchedOrPolled'
    <3>1. faults <= 1 /\ relays # ALL_OFF => onFor <= SLACK
      BY <1>0, <2>1 DEF CeilingInv, ArmedInTime
    <3>2. watchdog' # NoTimer
      BY <1>0, <2>1 DEF NoTimer
    <3>3. QED
      BY <1>0, <2>1, <3>1, <3>2 DEF WatchedOrPolled, Covered
  <2>4. QED
    BY <2>1, <2>2, <2>3 DEF CeilingInv, SleepBounded, BootUnwatched, BootBounded, PollInTime,
       ElapsedIsOnFor
<1>8. ASSUME NEW outcome \in Outcomes, AbortDrive(outcome) PROVE CeilingInv'
  <2>1. pc' = "wait" /\ sleep' = 0 /\ (relays' # ALL_OFF => abandoned')
    BY <1>8, AbortEffect DEF AbortDrive, Abandon, EndDrive
  <2>2. SleepBounded'
    BY <1>0, <2>1 DEF SleepBounded
  <2>3. QED
    BY <2>1, <2>2 DEF CeilingInv, BootUnwatched, BootBounded, ArmedInTime, PollInTime,
       ElapsedIsOnFor, WatchedOrPolled
<1>9. CASE AbortUnarmed
  <2>1. pc' = "wait" /\ sleep' = 0 /\ (relays' # ALL_OFF => abandoned')
    BY <1>9, UnarmedEffect
  <2>2. SleepBounded'
    BY <1>0, <2>1 DEF SleepBounded
  <2>3. QED
    BY <2>1, <2>2 DEF CeilingInv, BootUnwatched, BootBounded, ArmedInTime, PollInTime,
       ElapsedIsOnFor, WatchedOrPolled
<1>10. CASE StartPolling
  <2>1. /\ pc = "armed" /\ pc' = "driving" /\ sleep' = SENSE_DEBOUNCE /\ start' = now
        /\ UNCHANGED <<relays, onFor, faults, abandoned, watchdog, firing, now>>
    BY <1>10 DEF StartPolling, relayVars, timerVars
  <2>2. faults <= 1 /\ relays # ALL_OFF => onFor <= SLACK
    BY <1>0, <2>1 DEF CeilingInv, ArmedInTime
  <2>3. SleepBounded' /\ PollInTime'
    BY <1>0, <2>1, <2>2 DEF SleepBounded, PollInTime
  <2>4. ElapsedIsOnFor'
    <3>1. Elapsed(now', start') = 0
      BY <2>1 DEF Elapsed, TypeOK, Ticks
    <3>2. QED
      BY <1>0, <2>1, <2>2, <3>1 DEF ElapsedIsOnFor
  <2>5. WatchedOrPolled'
    BY <2>1 DEF CeilingInv, WatchedOrPolled, Covered
  <2>6. QED
    BY <2>1, <2>3, <2>4, <2>5 DEF CeilingInv, BootUnwatched, BootBounded, ArmedInTime
<1>11. ASSUME NEW diClosed \in BOOLEAN, Poll(diClosed) PROVE CeilingInv'
  <2>1. /\ pc = "driving" /\ pc' \in {"driving", "release"}
        /\ UNCHANGED <<relays, onFor, faults, abandoned, watchdog, firing, now, start>>
    BY <1>11 DEF Poll, relayVars, timerVars
  <2>2. CASE pc' = "release" /\ sleep' = sleep
    BY <2>1, <2>2 DEF CeilingInv, SleepBounded, BootUnwatched, BootBounded, ArmedInTime,
       PollInTime, ElapsedIsOnFor, WatchedOrPolled, Covered
  <2>3. CASE pc' = "driving" /\ sleep' = SENSE_DEBOUNCE
    <3>1. Elapsed(now, start) < DRIVE_CEILING
      <4> DEFINE elapsed == Elapsed(now, start)
                 closed  == /\ cmd.action = "close"
                            /\ IF BUILD = "sense" THEN diClosed
                               ELSE elapsed >= DRIVE_NOMINAL
      <4>1. DecideStep(cmd.action, elapsed, closed) = "continue"
        BY <1>11, <2>3 DEF Poll
      <4>2. elapsed \in Nat /\ closed \in BOOLEAN /\ cmd.action \in Actions
        BY ElapsedIsNat DEF TypeOK
      <4> HIDE DEF elapsed, closed
      <4>3. elapsed < DRIVE_CEILING
        BY <4>1, <4>2, ContinuesBeforeCeiling
      <4>4. QED
        BY <4>3 DEF elapsed
    <3>2. SleepBounded'
      BY <1>0, <2>3 DEF SleepBounded
    <3>3. PollInTime'
      <4>1. Elapsed(now, start) \in Nat
        BY ElapsedIsNat DEF TypeOK
      <4>2. faults <= 1 /\ relays # ALL_OFF => onFor <= Elapsed(now, start) + SLACK
        BY <2>1 DEF CeilingInv, ElapsedIsOnFor
      <4>3. QED
        BY <1>0, <2>1, <2>3, <3>1, <4>1, <4>2 DEF PollInTime
    <3>4. QED
      BY <2>1, <2>3, <3>2, <3>3 DEF CeilingInv, BootUnwatched, BootBounded, ArmedInTime,
         ElapsedIsOnFor, WatchedOrPolled, Covered
  <2>4. QED
    BY <1>11, <2>2, <2>3 DEF Poll
<1>12. ASSUME NEW outcome \in Outcomes, ReleaseDrive(outcome) PROVE CeilingInv'
  <2>1. /\ pc = "release" /\ pc' \in {"released", "finish"} /\ sleep' = sleep
        /\ ReleaseAll(outcome) /\ UNCHANGED <<watchdog, firing>>
    BY <1>12 DEF ReleaseDrive, timerVars
  <2>2. SleepBounded'
    BY <1>0, <2>1 DEF SleepBounded
  <2>3. WatchedOrPolled'
    <3>1. CASE outcome = "ok"
      BY <2>1, <3>1, ReleaseEffect DEF WatchedOrPolled
    <3>2. CASE outcome # "ok"
      <4>1. /\ faults' = faults + 1
            /\ relays' # ALL_OFF =>
                 relays' = relays /\ onFor' = onFor /\ abandoned' = abandoned
        BY <2>1, <3>2, ReleaseEffect
      <4>2. QED
        BY <1>0, <2>1, <4>1 DEF CeilingInv, WatchedOrPolled, Covered
    <3>3. QED
      BY <3>1, <3>2
  <2>4. QED
    BY <2>1, <2>2, <2>3 DEF CeilingInv, BootUnwatched, BootBounded, ArmedInTime, PollInTime,
       ElapsedIsOnFor
<1>13. CASE Finish
  <2>1. /\ pc = "finish" /\ pc' = "wait" /\ sleep' = 0
        /\ UNCHANGED <<relays, onFor, faults, abandoned, watchdog, firing>>
    BY <1>13 DEF Finish, EndDrive, relayVars, timerVars
  <2>2. SleepBounded'
    BY <1>0, <2>1 DEF SleepBounded
  <2>3. QED
    BY <2>1, <2>2 DEF CeilingInv, BootUnwatched, BootBounded, ArmedInTime, PollInTime,
       ElapsedIsOnFor, WatchedOrPolled, Covered
<1>14. CASE WatchdogExpire
  <2>1. /\ watchdog = 0 /\ watchdog' = NoTimer /\ firing' = TRUE
        /\ UNCHANGED <<relays, onFor, faults, abandoned, now, start, pc, sleep>>
    BY <1>14 DEF WatchdogExpire, relayVars, taskVars
  <2>2. WatchedOrPolled'
    BY <1>0, <2>1 DEF CeilingInv, WatchedOrPolled, Covered, NoTimer
  <2>3. pc # "boot"
    BY <2>1 DEF CeilingInv, BootUnwatched, NoTimer
  <2>4. QED
    BY <2>1, <2>2, <2>3 DEF CeilingInv, SleepBounded, BootUnwatched, BootBounded,
       ArmedInTime, PollInTime, ElapsedIsOnFor
<1>15. ASSUME NEW outcome \in Outcomes, WatchdogRelease(outcome) PROVE CeilingInv'
  <2>1. /\ ReleaseAll(outcome) /\ pc # "boot"
        /\ UNCHANGED <<watchdog, now, start, pc, sleep>>
    BY <1>15 DEF WatchdogRelease, taskVars, CeilingInv, BootUnwatched
  <2>2. SleepBounded'
    BY <1>0, <2>1 DEF SleepBounded
  <2>3. CASE relays' = ALL_OFF
    BY <2>1, <2>2, <2>3, CeilingWhenOff
  <2>4. CASE relays' # ALL_OFF
    <3>1. relays' = relays /\ onFor' = onFor /\ faults' = faults + 1
      BY <2>1, <2>4, ReleaseEffect
    <3>2. faults' <= 1 => faults = 0 /\ faults' = 1
      BY <1>0, <3>1
    <3>3. WatchedOrPolled'
      BY <2>1, <2>4, <3>1, <3>2 DEF DeadTimeInv, Driven, WatchedOrPolled
    <3>4. QED
      BY <2>1, <2>2, <3>1, <3>2, <3>3 DEF CeilingInv, BootUnwatched, BootBounded, ArmedInTime,
         PollInTime, ElapsedIsOnFor
  <2>5. QED
    BY <2>3, <2>4
<1>16. CASE Reboot
  <2>1. /\ pc' = "boot" /\ sleep' = 0 /\ onFor' = 0 /\ faults' = faults
        /\ watchdog' = NoTimer /\ firing' = FALSE
    BY <1>16 DEF Reboot
  <2>2. SleepBounded' /\ BootBounded'
    BY <1>0, <2>1 DEF SleepBounded, BootBounded
  <2>3. QED
    BY <2>1, <2>2 DEF CeilingInv, BootUnwatched, ArmedInTime, PollInTime, ElapsedIsOnFor,
       WatchedOrPolled
<1>17. ASSUME NEW diClosed \in [Valves -> BOOLEAN], Boot(diClosed) PROVE CeilingInv'
  <2>1. pc' = "wait" /\ sleep' = 0 /\ ReleaseAll("ok") /\ "ok" \in Outcomes
    BY <1>17 DEF Boot, Outcomes
  <2>2. relays' = ALL_OFF /\ SleepBounded'
    BY <1>0, <2>1, ReleaseEffect DEF SleepBounded
  <2>3. QED
    BY <2>1, <2>2, CeilingWhenOff
<1>18. ASSUME NEW outcome \in WRITE_ERRORS, BootFails(outcome) PROVE CeilingInv'
  <2>1. /\ pc = "boot" /\ pc' = "boot" /\ sleep' = 0 /\ outcome # "ok"
        /\ ReleaseAll(outcome) /\ outcome \in Outcomes
        /\ watchdog' = watchdog /\ firing' = firing
    BY <1>18 DEF BootFails, Outcomes, timerVars
  <2>2. faults' = faults + 1 /\ onFor' \in {0, onFor}
    BY <2>1, ReleaseEffect
  <2>3. BootBounded'
    <3>1. ASSUME faults' <= 1 PROVE faults' = 1 /\ onFor <= SLACK
      BY <1>0, <2>1, <2>2, <3>1 DEF CeilingInv, BootBounded
    <3>2. CASE onFor' = onFor
      BY <1>0, <2>1, <3>1, <3>2 DEF BootBounded
    <3>3. CASE onFor' = 0
      BY <1>0, <2>1, <3>1, <3>3 DEF BootBounded
    <3>4. QED
      BY <2>2, <3>2, <3>3
  <2>4. SleepBounded'
    BY <1>0, <2>1 DEF SleepBounded
  <2>5. QED
    BY <2>1, <2>3, <2>4 DEF CeilingInv, BootUnwatched, ArmedInTime, PollInTime, ElapsedIsOnFor,
       WatchedOrPolled
<1>19. CASE Tick
  <2>1. /\ UNCHANGED <<relays, faults, abandoned, firing, pc, start>>
        /\ ~ firing /\ watchdog # 0
        /\ watchdog' = IF watchdog = NoTimer THEN NoTimer ELSE watchdog - 1
        /\ now' = Later(now, 1)
    BY <1>19 DEF Tick
  <2>2. \/ pc = "wait" /\ sleep' = 0
        \/ sleep > - SLACK /\ sleep' = sleep - 1
    BY <1>19 DEF Tick, Blocked
  <2>3. /\ onFor' \in Nat /\ onFor' <= onFor + 1
        /\ relays # ALL_OFF /\ onFor + 1 < TICK_MOD => onFor' = onFor + 1
        /\ pc = "boot" /\ relays = ALL_OFF => onFor' = 0
    BY <1>0, <1>19, TimingAssumption DEF Tick, Capped
  <2>4. SleepBounded'
    BY <1>0, <2>2 DEF SleepBounded
  <2>5. BootUnwatched'
    BY <2>1 DEF CeilingInv, BootUnwatched
  <2>6. BootBounded'
    <3>1. pc = "boot" => sleep' = sleep - 1
      BY <2>2
    <3>5. /\ onFor \in Nat /\ sleep \in Int /\ onFor' \in Nat /\ onFor' <= onFor + 1
      BY <1>0, <2>3
    <3>2. ASSUME pc = "boot" PROVE onFor' + sleep' <= onFor + sleep
      <4>1. sleep' = sleep - 1
        BY <3>1, <3>2
      <4>2. QED
        BY <3>5, <4>1, UnitPassed
    <3>3. onFor' + sleep' \in Int
      BY <1>0, <2>2, <2>3
    <3>4. QED
      BY <1>0, <2>1, <3>2, <3>3 DEF CeilingInv, BootBounded
  <2>7. ArmedInTime' /\ PollInTime'
    <3>1. pc \in {"energized", "arm", "armed", "driving", "release"} => sleep' = sleep - 1
      BY <2>2
    <3>2. QED
      BY <1>0, <2>1, <2>3, <3>1 DEF CeilingInv, ArmedInTime, PollInTime
  <2>8. ElapsedIsOnFor'
    <3> SUFFICES ASSUME faults <= 1, relays # ALL_OFF, pc = "driving"
                 PROVE  /\ Elapsed(Later(now, 1), start) <= onFor'
                        /\ onFor' <= Elapsed(Later(now, 1), start) + SLACK
      BY <2>1 DEF ElapsedIsOnFor
    <3>1. /\ Elapsed(now, start) <= onFor /\ onFor <= Elapsed(now, start) + SLACK
          /\ onFor + sleep <= DRIVE_CEILING + SLACK + SENSE_DEBOUNCE
      BY DEF CeilingInv, ElapsedIsOnFor, PollInTime
    <3>2. /\ sleep > - SLACK
          /\ now \in 0 .. TICK_MOD - 1 /\ start \in 0 .. TICK_MOD - 1 /\ TICK_MOD \in Nat
          /\ Elapsed(now, start) \in Nat
      BY <2>2, TimingAssumption, ElapsedIsNat DEF TypeOK, Ticks
    <3>3. DRIVE_CEILING + SENSE_DEBOUNCE + SLACK + SLACK < TICK_MOD
      BY EnvironmentAssumption
    <3>4. onFor + 1 < TICK_MOD
      BY <1>0, <3>1, <3>2, <3>3
    <3>5. Elapsed(Later(now, 1), start) = Elapsed(now, start) + 1
      BY <1>0, <3>1, <3>2, <3>4 DEF Elapsed, Later
    <3>6. onFor' = onFor + 1
      BY <2>3, <3>4
    <3>7. QED
      BY <1>0, <3>1, <3>2, <3>5, <3>6
  <2>9. WatchedOrPolled'
    <3>1. Covered => Covered'
      <4>1. watchdog \in {NoTimer} \cup 0 .. DRIVE_CEILING
        BY DEF TypeOK
      <4>2. watchdog # NoTimer => /\ watchdog \in Nat /\ watchdog' = watchdog - 1
                                  /\ watchdog' # NoTimer
        BY <1>0, <2>1, <4>1 DEF NoTimer
      <4>3. QED
        BY <1>0, <2>1, <2>3, <4>2 DEF Covered
    <3>2. QED
      BY <2>1, <3>1 DEF CeilingInv, WatchedOrPolled
  <2>10. QED
    BY <2>4, <2>5, <2>6, <2>7, <2>8, <2>9 DEF CeilingInv
<1>20. QED
  BY StepCases, <1>1, <1>2, <1>3, <1>4, <1>5, <1>6, <1>7, <1>8, <1>9, <1>10, <1>11,
     <1>12, <1>13, <1>14, <1>15, <1>16, <1>17, <1>18, <1>19

LEMMA Ceiling == Spec => []CeilingInv
<1>1. Init => CeilingInv
  BY EnvironmentAssumption DEF Init, CeilingInv, SleepBounded, BootUnwatched, BootBounded,
     ArmedInTime, PollInTime, ElapsedIsOnFor, WatchedOrPolled
<1>2. TypeOK /\ DeadTimeInv /\ CeilingInv /\ [Next]_driveVars => CeilingInv'
  BY CeilingStep
<1>3. QED
  BY <1>1, <1>2, TypeCorrect, DeadTime, PTL DEF Spec

\* For every timing, whichever single relay write or timer start fails and whether or
\* not the failed write reached the expander: a motor is energised with nobody about to
\* release it only by a drive that was given up at its own relay write or timer start.
THEOREM AlwaysReleasePending == Spec => []ReleasePending
<1>1. CeilingInv => ReleasePending
  BY DEF CeilingInv, WatchedOrPolled, Covered, ReleasePending, ReleaseComing
<1>2. QED
  BY <1>1, Ceiling, PTL

\* Rule 3, for every timing, every scheduling delay (between the relay write and the
\* re-arm too) and every kind of failed write: but for such a given-up drive, no motor
\* is energised for longer than the ceiling and the delay of the re-arm, plus one late
\* poll when the watchdog's write is lost.
THEOREM CeilingKept == Spec => []CeilingHeld
<1>1. TypeOK /\ DeadTimeInv /\ CeilingInv => CeilingHeld
  <2> SUFFICES ASSUME TypeOK, DeadTimeInv, CeilingInv, faults <= 1, ~ abandoned
               PROVE  onFor <= DRIVE_CEILING + SLACK + Grace
    BY DEF CeilingHeld
  <2>0. /\ onFor \in Nat /\ sleep \in Int /\ faults \in {0, 1} /\ sleep >= - SLACK
        /\ watchdog \in {NoTimer} \cup 0 .. DRIVE_CEILING
        /\ DRIVE_CEILING \in Nat /\ SENSE_DEBOUNCE \in Nat /\ SLACK \in Nat
    BY TimingAssumption, EnvironmentAssumption DEF TypeOK, CeilingInv, SleepBounded
  <2>1. CASE relays = ALL_OFF
    BY <2>0, <2>1 DEF DeadTimeInv, Grace
  <2>2. CASE relays # ALL_OFF /\ pc = "boot"
    <3>1. onFor + sleep <= IF faults = 0 THEN 0 ELSE SLACK
      BY <2>2 DEF CeilingInv, BootBounded
    <3>2. QED
      BY <2>0, <3>1 DEF Grace
  <2>3. CASE relays # ALL_OFF /\ Covered
    BY <2>0, <2>3 DEF Covered, NoTimer, Grace
  <2>4. CASE relays # ALL_OFF /\ pc \in {"energized", "arm", "armed"}
    <3>1. onFor + sleep <= 0
      BY <2>4 DEF CeilingInv, ArmedInTime
    <3>2. QED
      BY <2>0, <3>1 DEF Grace
  <2>5. CASE relays # ALL_OFF /\ faults = 1 /\ pc \in {"driving", "release"}
    <3>1. onFor + sleep <= DRIVE_CEILING + SLACK + SENSE_DEBOUNCE
      BY <2>5 DEF CeilingInv, PollInTime
    <3>2. QED
      BY <2>0, <2>5, <3>1 DEF Grace
  <2>6. QED
    BY <2>1, <2>2, <2>3, <2>4, <2>5 DEF CeilingInv, WatchedOrPolled
<1>2. QED
  BY <1>1, Ceiling, TypeCorrect, DeadTime, PTL

-----------------------------------------------------------------------------
(* The two tasks together *)

\* The types the argument needs.
LatchType ==
  /\ closeFault \in [Valves -> BOOLEAN] /\ closeFailed \in [Valves -> BOOLEAN]
  /\ position \in [Valves -> Positions]

\* What both tasks keep: a close that failed is latched, a latched valve is not said to be open,
\* nothing is latched while the node starts, when every position is set afresh, and no
\* relay write or timer start has failed.
Latched(v) == (closeFailed[v] => closeFault[v]) /\ (closeFault[v] => position[v] # "open")
LatchInv ==
  /\ faults = 0
  /\ LatchType
  /\ \A v \in Valves : Latched(v)
  /\ pc = "boot" => \A v \in Valves : ~ closeFault[v]

LEMMA LatchStart ==
  ASSUME Init
  PROVE  LatchInv
<1>1. LatchType
  BY DEF Init, LatchType, Positions
<1>2. \A v \in Valves : Latched(v) /\ ~ closeFault[v]
  BY DEF Init, Latched
<1>3. QED
  BY <1>1, <1>2 DEF Init, LatchInv

\* A step that leaves what is latched, and does not go back to start-up.
LEMMA LatchFrame ==
  ASSUME LatchInv, UNCHANGED <<closeFault, closeFailed, position, faults>>, pc' = "boot" => pc = "boot"
  PROVE  LatchInv'
BY DEF LatchInv, LatchType, Latched

\* The end of a drive: the position and the latch are set together.
LEMMA LatchFinish ==
  ASSUME LatchInv, Finish
  PROVE  LatchInv'
<1>0. LatchType
  BY DEF LatchInv
<1>1. Recorded \in Positions
  BY DEF Recorded, Positions
<1>2. LatchType'
  BY <1>0, <1>1 DEF Finish, LatchType
<1>3. ASSUME NEW v \in Valves PROVE Latched(v)'
  <2>1. CASE v = cmd.valve
    <3>1. /\ closeFault'[v] = (cmd.action = "close" /\ Recorded = "unknown")
          /\ closeFailed'[v] = (cmd.action = "close" /\ Recorded = "unknown")
          /\ position'[v] = Recorded
      BY <1>0, <2>1 DEF Finish, LatchType
    <3>2. QED
      BY <3>1 DEF Latched
  <2>2. CASE v # cmd.valve
    <3>1. /\ closeFault'[v] = closeFault[v] /\ closeFailed'[v] = closeFailed[v]
          /\ position'[v] = position[v]
      BY <1>0, <2>2 DEF Finish, LatchType
    <3>2. QED
      BY <3>1 DEF LatchInv, Latched
  <2>3. QED
    BY <2>1, <2>2
<1>4. pc' = "wait" /\ faults' = faults
  BY DEF Finish, EndDrive, relayVars
<1>5. QED
  BY <1>2, <1>3, <1>4 DEF LatchInv

\* A poll of the sensor, after a drive of any length since it looked: it reads the latch itself.
LEMMA LatchReport ==
  ASSUME LatchInv, SenseReport
  PROVE  LatchInv'
<1> DEFINE s == senseValve
           want == Sensed(stable[s], closeFault[s])
<1>0. LatchType
  BY DEF LatchInv
<1>1. want \in Positions
  BY DEF Sensed, Positions
<1>2. /\ closeFault' = [closeFault EXCEPT ![s] = closeFault[s] /\ ~ stable[s]]
      /\ closeFailed' = [closeFailed EXCEPT ![s] = closeFailed[s] /\ ~ stable[s]]
      /\ position' = [position EXCEPT ![s] = want]
      /\ pc' = pc /\ faults' = faults
  BY DEF SenseReport, taskVars, relayVars
<1>3. LatchType'
  BY <1>0, <1>1, <1>2 DEF LatchType
<1>4. ASSUME NEW v \in Valves PROVE Latched(v)' /\ (closeFault'[v] => closeFault[v])
  <2>0. (closeFailed[v] => closeFault[v]) /\ (closeFault[v] => position[v] # "open")
    BY DEF LatchInv, Latched
  <2>1. CASE v = s
    <3>1. /\ closeFault'[v] = (closeFault[v] /\ ~ stable[v])
          /\ closeFailed'[v] = (closeFailed[v] /\ ~ stable[v])
          /\ position'[v] = Sensed(stable[v], closeFault[v])
      BY <1>0, <1>2, <2>1 DEF LatchType
    <3>2. QED
      BY <2>0, <3>1 DEF Latched, Sensed
  <2>2. CASE v # s
    <3>1. /\ closeFault'[v] = closeFault[v] /\ closeFailed'[v] = closeFailed[v]
          /\ position'[v] = position[v]
      BY <1>0, <1>2, <2>2 DEF LatchType
    <3>2. QED
      BY <2>0, <3>1 DEF Latched
  <2>3. QED
    BY <2>1, <2>2
<1>5. QED
  BY <1>2, <1>3, <1>4 DEF LatchInv

LEMMA LatchBoot ==
  ASSUME LatchInv, NEW diClosed, Boot(diClosed)
  PROVE  LatchInv'
<1>1. pc = "boot" /\ pc' = "wait" /\ UNCHANGED <<closeFault, closeFailed, faults>>
  BY DEF Boot, ReleaseAll, WriteRelays
<1>2. position' \in [Valves -> Positions]
  BY DEF Boot, StartPosition, Positions
<1>3. QED
  BY <1>1, <1>2 DEF LatchInv, LatchType, Latched

LEMMA LatchReboot ==
  ASSUME LatchInv, Reboot
  PROVE  LatchInv'
<1>1. LatchType'
  BY DEF Reboot, LatchType, Positions
<1>2. \A v \in Valves : Latched(v)' /\ ~ closeFault'[v]
  BY DEF Reboot, Latched
<1>3. faults' = 0
  BY DEF Reboot, LatchInv
<1>4. QED
  BY <1>1, <1>2, <1>3 DEF LatchInv

\* When nothing fails, the drive task only ends a drive by Finish.
LEMMA LatchDriveStep ==
  ASSUME MAX_FAULTS = 0, LatchInv, DriveStep
  PROVE  LatchInv'
<1>0. faults = 0
  BY DEF LatchInv
<1>1. CASE \E msg \in COMMANDS : CmdRx(msg)
  BY <1>1, LatchFrame DEF CmdRx, taskVars, statusVars, relayVars
<1>2. CASE ReceiveUnknown \/ ReceiveLockedOut \/ ReceiveDrive
  BY <1>2, LatchFrame DEF ReceiveUnknown, ReceiveLockedOut, ReceiveDrive, Receive, statusVars,
     relayVars
<1>3. ASSUME NEW outcome, ReleaseAll(outcome) PROVE faults' = faults
  BY <1>0, <1>3 DEF ReleaseAll, WriteRelays
<1>4. CASE \E outcome \in Outcomes : BeginDrive(outcome) \/ ReleaseDrive(outcome)
  BY <1>3, <1>4, LatchFrame DEF BeginDrive, Break, ReleaseDrive, statusVars
<1>5. CASE StopBeforeBreak \/ StopBeforeArm \/ Arm \/ StartPolling \/ StopAfterRelease
  BY <1>5, LatchFrame DEF StopBeforeBreak, StopBeforeArm, Arm, StartPolling, StopAfterRelease,
     Break, statusVars, relayVars
<1>6. CASE Energize
  BY <1>6, LatchFrame DEF Energize, WriteRelays, statusVars
<1>7. ASSUME NEW outcome \in Outcomes, AbortDrive(outcome) PROVE FALSE
  <2>1. outcome # "ok"
    BY <1>7, NeverRefused DEF AbortDrive
  <2>2. QED
    BY <1>0, <1>7, <2>1 DEF AbortDrive, WriteRelays
<1>8. CASE AbortUnarmed
  BY <1>0, <1>8 DEF AbortUnarmed
<1>9. CASE Finish
  BY <1>9, LatchFinish
<1>10. CASE WatchdogTask
  BY <1>3, <1>10, LatchFrame DEF WatchdogTask, WatchdogExpire, WatchdogRelease, taskVars,
     statusVars, relayVars
<1>11. CASE TimerTask
  BY <1>11, LatchFrame DEF TimerTask, ResyncStart, ResyncSend, taskVars, statusVars, relayVars
<1>12. CASE \E outcome \in WRITE_ERRORS : BootFails(outcome)
  BY <1>3, <1>12, LatchFrame DEF BootFails, statusVars
<1>13. QED
  BY <1>1, <1>2, <1>4, <1>5, <1>6, <1>7, <1>8, <1>9, <1>10, <1>11, <1>12
     DEF DriveStep, DriveTask

LEMMA LatchStep ==
  ASSUME MAX_FAULTS = 0, LatchInv, [NodeNext]_nodeVars
  PROVE  LatchInv'
<1>1. CASE DriveStep
  BY <1>1, LatchDriveStep
<1>2. CASE SenseInit \/ SenseWake \/ SenseSample
  BY <1>2, LatchFrame DEF SenseInit, SenseWake, SenseSample, driveVars, taskVars, statusVars, relayVars
<1>3. CASE SenseSettle
  BY <1>3, LatchFrame DEF SenseSettle, driveVars, taskVars, statusVars, relayVars
<1>4. CASE SenseReport
  BY <1>4, LatchReport
<1>5. CASE NodePoll
  BY <1>5, LatchFrame DEF NodePoll, Poll, statusVars, relayVars
<1>6. CASE NodeBoot
  BY <1>6, LatchBoot DEF NodeBoot
<1>7. CASE NodeReboot
  BY <1>7, LatchReboot DEF NodeReboot
<1>8. CASE NodeTick
  BY <1>8, LatchFrame DEF NodeTick, Tick
<1>9. CASE \E v \in Valves : Flip(v)
  BY <1>9, LatchFrame DEF Flip, driveVars, taskVars, statusVars, relayVars
<1>10. CASE UNCHANGED nodeVars
  BY <1>10, LatchFrame DEF nodeVars, driveVars, taskVars, statusVars, relayVars
<1>11. QED
  BY <1>1, <1>2, <1>3, <1>4, <1>5, <1>6, <1>7, <1>8, <1>9, <1>10 DEF NodeNext, SenseStep

\* A CLOSE that was not confirmed is never relabelled OPEN, however the two tasks interleave and
\* whatever the contacts do, as long as no relay write and no timer start fails
\* (valve_drive.c:135-149, 287-301).
THEOREM CloseFailureKept ==
  ASSUME MAX_FAULTS = 0
  PROVE  NodeSpec => []FailedCloseLatched
<1>1. NodeInit => LatchInv
  BY LatchStart DEF NodeInit
<1>2. LatchInv /\ [NodeNext]_nodeVars => LatchInv'
  BY LatchStep
<1>3. LatchInv => FailedCloseLatched
  BY DEF LatchInv, Latched, FailedCloseLatched
<1>4. QED
  BY <1>1, <1>2, <1>3, PTL DEF NodeSpec

=============================================================================
