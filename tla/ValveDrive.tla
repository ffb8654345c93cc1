----------------------------- MODULE ValveDrive -----------------------------
(***************************************************************************)
(* The driving half of the dump-valve node, valves/main/valve_drive.c over *)
(* components/valve_control/valve_control_driver.c:                        *)
(*   - the ESP-NOW callback that enqueues commands,                        *)
(*   - the drive task that takes them one at a time,                       *)
(*   - the relay expander behind valve_control_apply(), whose I2C writes   *)
(*     may fail, and the one-shot watchdog that cuts the relays: the write, *)
(*     esp_timer_stop() and esp_timer_start_once() are steps of their own, *)
(*     with time and the other tasks between them,                         *)
(*   - the periodic status resend of the FreeRTOS timer task,              *)
(*   - resets of the chip, which the relay expander survives.              *)
(* The sensor task is added by ValveNode.                                  *)
(* Times are in clock units.  The modelled scheduler may keep the drive     *)
(* task waiting for up to SLACK units, in all, from the end of one blocking *)
(* call to the next: before it runs, or between any two of its steps.       *)
(***************************************************************************)
EXTENDS ValveControl

CONSTANTS
  BUILD,         \* "sense", "timed" (no sense circuit) or "test" (no driving)
  RESYNC,        \* TRUE when the resync timer could be created
  COMMANDS,      \* the command frames that arrive
  WRITE_ERRORS,  \* how a failed I2C write fails: "lost", "landed"
  CLOCK_WRAPS,   \* FALSE: behaviours that end before a deadline wraps (49.7 days)
  SLACK,         \* bound: units a task may lose between two blocking calls
  MAX_FAULTS     \* bound: failed I2C writes and timer starts in a behaviour

ASSUME EnvironmentAssumption ==
  /\ BUILD \in {"sense", "timed", "test"}
  /\ RESYNC \in BOOLEAN
  /\ COMMANDS \subseteq [valve : Nat, action : {"open", "close", "other"}]
  /\ WRITE_ERRORS \subseteq {"lost", "landed"}
  /\ CLOCK_WRAPS \in BOOLEAN
  /\ SLACK \in Nat
  /\ DRIVE_CEILING + SENSE_DEBOUNCE + SLACK + SLACK < TICK_MOD
  /\ MAX_FAULTS \in Nat

VARIABLES
  relays,       \* the relays the expander drives
  watchdog,     \* units until s_watchdog expires, NoTimer when it is stopped
  firing,       \* its callback is dispatched and has not written yet
  now,          \* xTaskGetTickCount()
  pc,           \* where the drive task is
  sleep,        \* units it still sleeps; negative: how long it has been ready
  queue,        \* s_cmd_queue
  cmd,          \* the command being driven
  start,        \* tick at which the relays were energised
  result,       \* outcome of the last poll
  position,     \* s_position
  lockoutUntil, \* s_lockout_until
  driving,      \* s_driving
  settleUntil,  \* s_settle_until
  closeFault,   \* s_close_fault
  sent,         \* position in the last status frame of each valve
  resync,       \* where the resync callback is, and the position it has read
  faults        \* failed I2C writes and timer starts so far

\* Variables no code reads, for the properties.
VARIABLES
  onFor,        \* units a relay has been energised since the last reset (0: none
                \* is), up to TICK_MOD
  abandoned,    \* a relay is energised by a drive that has been given up
  quietFor,     \* units since every relay is released, up to BREAK_BEFORE_MAKE
  sinceCycle,   \* units since the last drive of a valve ended, up to the lockout;
                \* start-up counts as long ago: the lockout is not kept over a reset
  closeFailed   \* a CLOSE of the valve ended unconfirmed and nothing has settled
                \* it since: no other drive, no start-up, no reading of closed

relayVars   == <<relays, onFor, quietFor, abandoned, faults>>
timerVars   == <<watchdog, firing>>
taskVars    == <<pc, sleep, cmd, start, result>>
statusVars  == <<position, lockoutUntil, driving, settleUntil, closeFault,
                 sinceCycle, closeFailed>>
reportVars  == <<sent, resync>>
driveVars   == <<relayVars, timerVars, now, taskVars, queue, statusVars, reportVars>>

NoTimer   == -1
Positions == {"unknown", "closed", "open"}
Message   == [valve : Nat, action : {"open", "close", "other"}]
Outcomes  == {"ok"} \cup WRITE_ERRORS
Idle      == [valve |-> VALVE_COUNT, value |-> "unknown"]

\* The task's places in run_drive: before the all-off write, its esp_timer_stop and
\* during the dead time; before the stop, the start and the tick count read after a
\* pair is energised; between two polls; before the all-off write and the stop that
\* end the drive, and before the result is recorded.
PCs == {"boot", "wait", "begin", "broken", "breaking", "energized", "arm", "armed",
        "driving", "release", "released", "finish"}

Capped(n, cap) == IF n < cap THEN n ELSE cap

\* CONFIG_FIREFLY_VALVE_SENSE_ENABLED || CONFIG_FIREFLY_VALVE_SENSE_TEST
SenseLive == BUILD # "timed"

-----------------------------------------------------------------------------
(* valve_control_driver.c: the relay expander and its watchdog *)

\* tca9554_write_reg: a failed write may or may not have reached the chip.
WriteRelays(mask, outcome) ==
  /\ outcome # "ok" => faults < MAX_FAULTS
  /\ faults' = IF outcome = "ok" THEN faults ELSE faults + 1
  /\ relays' = IF outcome = "lost" THEN relays ELSE mask
  /\ onFor' = IF relays' = ALL_OFF THEN 0 ELSE onFor
  /\ quietFor' = IF relays' = ALL_OFF THEN quietFor ELSE 0

\* The write of valve_control_release_all, watchdog_cb and the start-up code: an
\* abandoned drive is over once the relays are off.
ReleaseAll(outcome) ==
  /\ WriteRelays(ALL_OFF, outcome)
  /\ abandoned' = IF relays' = ALL_OFF THEN FALSE ELSE abandoned

\* esp_timer_stop, which does nothing for a stopped timer and does not take back a
\* callback that is dispatched.
StopTimer == watchdog' = NoTimer /\ UNCHANGED firing

\* The esp_timer expires and its callback is dispatched: too late to stop it.
WatchdogExpire ==
  /\ watchdog = 0
  /\ watchdog' = NoTimer
  /\ firing' = TRUE
  /\ UNCHANGED <<relayVars, now, taskVars, queue, statusVars, reportVars>>

\* watchdog_cb: one write, whose failure is only logged.
WatchdogRelease(outcome) ==
  /\ firing
  /\ firing' = FALSE
  /\ ReleaseAll(outcome)
  /\ UNCHANGED <<watchdog, now, taskVars, queue, statusVars, reportVars>>

-----------------------------------------------------------------------------
(* Commands: valve_cmd_rx and the top of valve_drive_task *)

Awake == sleep <= 0

\* valve_cmd_rx: enqueue or drop, never block.  The test build drops everything.
CmdRx(msg) ==
  /\ pc # "boot"
  /\ queue' = IF BUILD # "test" /\ Len(queue) < CMD_QUEUE_LEN
              THEN Append(queue, msg) ELSE queue
  /\ UNCHANGED <<relayVars, timerVars, now, taskVars, statusVars, reportVars>>

Receive ==
  /\ pc = "wait"
  /\ queue # << >>
  /\ queue' = Tail(queue)
  /\ UNCHANGED <<relayVars, timerVars, now, start, result, statusVars, reportVars>>

\* Mutation of LockedOut: one lockout for all valves, that of the first.
LockedOutFirst(valve) == now < lockoutUntil[0]

\* Mutation of LockedOut: the deadline itself is still locked out.
LockedOutInclusive(valve) == now <= lockoutUntil[valve]

LockedOut(valve) == now < lockoutUntil[valve]

\* A command for a valve this node does not have.
ReceiveUnknown ==
  /\ Receive
  /\ Head(queue).valve \notin Valves
  /\ sleep' = 0
  /\ UNCHANGED <<pc, cmd>>

\* A command that arrives during the lockout is gone, not deferred.
ReceiveLockedOut ==
  /\ Receive
  /\ Head(queue).valve \in Valves
  /\ LockedOut(Head(queue).valve)
  /\ sleep' = 0
  /\ UNCHANGED <<pc, cmd>>

\* Every action byte but OPEN's is a CLOSE.
ReceiveDrive ==
  /\ Receive
  /\ Head(queue).valve \in Valves
  /\ ~ LockedOut(Head(queue).valve)
  /\ cmd' = [valve |-> Head(queue).valve,
             action |-> IF Head(queue).action = "open" THEN "open" ELSE "close"]
  /\ pc' = "begin"
  /\ UNCHANGED sleep

-----------------------------------------------------------------------------
(* run_drive *)

\* send_status: the last frame on the air carries the position being set.
Report(valve) == sent' = [sent EXCEPT ![valve] = position'[valve]]

\* run_drive returns: its locals are gone and the task is back at its queue.
NoCommand == [valve |-> 0, action |-> "close"]
EndDrive ==
  /\ pc' = "wait" /\ sleep' = 0
  /\ cmd' = NoCommand /\ start' = 0 /\ result' = "continue"

\* Mutation of Break: no dead time after the release.
BreakAtOnce == pc' = "breaking" /\ sleep' = 0

\* Rule 2, second half: vTaskDelay(VALVE_BREAK_BEFORE_MAKE_MS).
Break == pc' = "breaking" /\ sleep' = BREAK_BEFORE_MAKE

\* Rule 2, first half: drop to all-off.  A failed write returns before the timer is
\* stopped, and run_drive does not look at the result.
BeginDrive(outcome) ==
  /\ pc = "begin"
  /\ driving' = TRUE
  /\ ReleaseAll(outcome)
  /\ IF outcome = "ok" THEN pc' = "broken" /\ UNCHANGED sleep ELSE Break
  /\ UNCHANGED <<timerVars, now, cmd, start, result, queue, position, lockoutUntil,
                 settleUntil, closeFault, sinceCycle, closeFailed, reportVars>>

StopBeforeBreak ==
  /\ pc = "broken"
  /\ StopTimer
  /\ Break
  /\ UNCHANGED <<relayVars, now, cmd, start, result, queue, statusVars, reportVars>>

\* The pair of the command, and whether the interlock lets it pass.
Mask    == DriveMask(cmd.valve, cmd.action)
Refused == ~ MaskIsSafe(Mask)

\* valve_control_apply(mask), in three steps: the pair is energised ...
Energize ==
  /\ pc = "breaking" /\ Awake
  /\ ~ Refused
  /\ WriteRelays(Mask, "ok")
  /\ pc' = "energized"
  /\ UNCHANGED <<abandoned, timerVars, now, sleep, cmd, start, result, queue,
                 statusVars, reportVars>>

\* ... the timer is stopped ...
StopBeforeArm ==
  /\ pc = "energized"
  /\ StopTimer
  /\ pc' = "arm"
  /\ UNCHANGED <<relayVars, now, sleep, cmd, start, result, queue, statusVars,
                 reportVars>>

\* Mutation of Arm: the timer is not started.
ArmNothing ==
  /\ pc = "arm"
  /\ pc' = "armed"
  /\ UNCHANGED <<relayVars, timerVars, now, sleep, cmd, start, result, queue,
                 statusVars, reportVars>>

\* ... and started afresh.
Arm ==
  /\ pc = "arm"
  /\ watchdog' = DRIVE_CEILING
  /\ pc' = "armed"
  /\ UNCHANGED <<relayVars, firing, now, sleep, cmd, start, result, queue,
                 statusVars, reportVars>>

\* valve_control_apply() failed: the drive is given up, with no release and no
\* lockout, in whatever state the relays are.
Abandon ==
  /\ position' = [position EXCEPT ![cmd.valve] = "unknown"]
  /\ settleUntil' = Later(now, SENSE_SETTLE)
  /\ driving' = FALSE
  /\ Report(cmd.valve)
  /\ closeFailed' = [closeFailed EXCEPT ![cmd.valve] = @ \/ cmd.action = "close"]
  /\ abandoned' = (relays' # ALL_OFF)
  /\ EndDrive
  /\ UNCHANGED <<now, queue, lockoutUntil, closeFault, sinceCycle, resync>>

\* The interlock refuses the mask (all-off is written instead and the timer stopped),
\* or the write fails and the timer is not touched.
AbortDrive(outcome) ==
  /\ pc = "breaking" /\ Awake
  /\ ~ Refused => outcome # "ok"
  /\ WriteRelays(IF Refused THEN ALL_OFF ELSE Mask, outcome)
  /\ watchdog' = IF Refused THEN NoTimer ELSE watchdog
  /\ Abandon
  /\ UNCHANGED firing

\* esp_timer_start_once() fails: the pair is energised and the timer is stopped.
AbortUnarmed ==
  /\ pc = "arm"
  /\ faults < MAX_FAULTS
  /\ faults' = faults + 1
  /\ UNCHANGED <<relays, onFor, quietFor, timerVars>>
  /\ Abandon

\* The tick count the polls measure from is read once the timer runs.
StartPolling ==
  /\ pc = "armed"
  /\ start' = now
  /\ pc' = "driving"
  /\ sleep' = SENSE_DEBOUNCE
  /\ UNCHANGED <<relayVars, timerVars, now, cmd, result, queue, statusVars, reportVars>>

\* One poll; diClosed is what the sense input of the driven valve reads.
\* Without sense circuits a CLOSE is confirmed by the nominal time.
Poll(diClosed) ==
  LET elapsed == Elapsed(now, start)
      closed  == /\ cmd.action = "close"
                 /\ IF BUILD = "sense" THEN diClosed ELSE elapsed >= DRIVE_NOMINAL
      step    == DecideStep(cmd.action, elapsed, closed)
  IN /\ pc = "driving" /\ Awake
     /\ result' = step
     /\ pc' = IF step = "continue" THEN "driving" ELSE "release"
     /\ sleep' = IF step = "continue" THEN SENSE_DEBOUNCE ELSE sleep
     /\ UNCHANGED <<relayVars, timerVars, now, cmd, start, queue, statusVars,
                    reportVars>>

\* The position the last poll stands for.
Recorded == IF result \in {"closed", "open"} THEN result ELSE "unknown"

\* Mutation of ReleaseDrive: the timer is stopped although the write failed.
ReleaseDriveUnchecked(outcome) ==
  /\ pc = "release"
  /\ ReleaseAll(outcome)
  /\ pc' = "released"
  /\ UNCHANGED <<timerVars, now, sleep, cmd, start, result, queue, statusVars,
                 reportVars>>

\* The release that ends the drive; run_drive does not look at its result either.
ReleaseDrive(outcome) ==
  /\ pc = "release"
  /\ ReleaseAll(outcome)
  /\ pc' = IF outcome = "ok" THEN "released" ELSE "finish"
  /\ UNCHANGED <<timerVars, now, sleep, cmd, start, result, queue, statusVars,
                 reportVars>>

StopAfterRelease ==
  /\ pc = "released"
  /\ StopTimer
  /\ pc' = "finish"
  /\ UNCHANGED <<relayVars, now, sleep, cmd, start, result, queue, statusVars,
                 reportVars>>

\* Record the position, lock the valve out, report.
Finish ==
  /\ pc = "finish"
  /\ position' = [position EXCEPT ![cmd.valve] = Recorded]
  /\ lockoutUntil' = [lockoutUntil EXCEPT ![cmd.valve] = Later(now, REDRIVE_LOCKOUT)]
  /\ closeFault' = [closeFault EXCEPT ![cmd.valve] =
                      cmd.action = "close" /\ Recorded = "unknown"]
  /\ settleUntil' = Later(now, SENSE_SETTLE)
  /\ driving' = FALSE
  /\ Report(cmd.valve)
  /\ sinceCycle' = [sinceCycle EXCEPT ![cmd.valve] = 0]
  /\ closeFailed' = [closeFailed EXCEPT ![cmd.valve] =
                       cmd.action = "close" /\ Recorded = "unknown"]
  /\ EndDrive
  /\ UNCHANGED <<relayVars, timerVars, now, queue, resync>>

-----------------------------------------------------------------------------
(* resync_timer_cb: for each valve in turn, read the position, send it *)

\* Mutation of ResyncRead: the last valve is left out.
ResyncReadShort(valve) ==
  IF valve < VALVE_COUNT - 1 THEN [valve |-> valve, value |-> position[valve]] ELSE Idle

ResyncRead(valve) ==
  IF valve < VALVE_COUNT THEN [valve |-> valve, value |-> position[valve]] ELSE Idle

ResyncStart ==
  /\ RESYNC /\ pc # "boot"
  /\ resync = Idle
  /\ resync' = ResyncRead(0)
  /\ UNCHANGED <<relayVars, timerVars, now, taskVars, queue, statusVars, sent>>

ResyncSend ==
  /\ resync # Idle
  /\ sent' = [sent EXCEPT ![resync.valve] = resync.value]
  /\ resync' = ResyncRead(resync.valve + 1)
  /\ UNCHANGED <<relayVars, timerVars, now, taskVars, queue, statusVars>>

-----------------------------------------------------------------------------
(* Reset and start-up *)

\* A panic or brown-out: RAM is lost, the expander keeps its outputs unless its
\* own supply went away too.
Reboot ==
  /\ pc # "boot"
  /\ relays' \in {relays, ALL_OFF}
  /\ onFor' = 0 /\ abandoned' = FALSE
  /\ quietFor' = IF relays' = ALL_OFF THEN quietFor ELSE 0
  /\ watchdog' = NoTimer /\ firing' = FALSE
  /\ now' = 0 /\ queue' = << >>
  /\ pc' = "boot" /\ sleep' = 0
  /\ cmd' = NoCommand /\ start' = 0 /\ result' = "continue"
  /\ position' = [v \in Valves |-> "unknown"]
  /\ lockoutUntil' = [v \in Valves |-> 0]
  /\ driving' = FALSE /\ settleUntil' = 0
  /\ closeFault' = [v \in Valves |-> FALSE]
  /\ sinceCycle' = [v \in Valves |-> REDRIVE_LOCKOUT]
  /\ closeFailed' = [v \in Valves |-> FALSE]
  /\ resync' = Idle
  /\ UNCHANGED <<sent, faults>>

\* valve_drive_init: the position a valve starts with, given its sense input.
StartPosition(closed) == IF SenseLive /\ ~closed THEN "open" ELSE "closed"

\* valve_control_driver_init, which writes all-off before anything else, then
\* valve_drive_init; diClosed is what the sense inputs read.
Boot(diClosed) ==
  /\ pc = "boot"
  /\ ReleaseAll("ok")
  /\ position' = [v \in Valves |-> StartPosition(diClosed[v])]
  /\ pc' = "wait" /\ sleep' = 0
  /\ UNCHANGED <<timerVars, now, cmd, start, result, queue, lockoutUntil, driving,
                 settleUntil, closeFault, sinceCycle, closeFailed, reportVars>>

\* The expander does not answer: ESP_ERROR_CHECK resets the chip again.
BootFails(outcome) ==
  /\ pc = "boot"
  /\ outcome # "ok"
  /\ ReleaseAll(outcome)
  /\ now' = 0 /\ sleep' = 0
  /\ UNCHANGED <<timerVars, pc, cmd, start, result, queue, statusVars, reportVars>>

-----------------------------------------------------------------------------
(* Time *)

\* The drive task is blocked on its empty queue.
Blocked == pc = "wait" /\ queue = << >>

\* The timer interrupt: the esp_timer task outranks every other, so a due or
\* dispatched watchdog is served first; the drive task may be SLACK units late.
Tick ==
  /\ watchdog # 0 /\ ~firing
  /\ Blocked \/ sleep > -SLACK
  /\ CLOCK_WRAPS \/ now + 1 + REDRIVE_LOCKOUT < TICK_MOD
  /\ now' = Later(now, 1)
  /\ watchdog' = IF watchdog = NoTimer THEN NoTimer ELSE watchdog - 1
  /\ sleep' = IF Blocked THEN 0 ELSE sleep - 1
  /\ onFor' = IF relays = ALL_OFF THEN 0 ELSE Capped(onFor + 1, TICK_MOD)
  /\ quietFor' = IF relays = ALL_OFF THEN Capped(quietFor + 1, BREAK_BEFORE_MAKE) ELSE 0
  /\ sinceCycle' = [v \in Valves |-> Capped(sinceCycle[v] + 1, REDRIVE_LOCKOUT)]
  /\ UNCHANGED <<relays, abandoned, faults, firing, pc, cmd, start, result, queue, position,
                 lockoutUntil, driving, settleUntil, closeFault, closeFailed,
                 reportVars>>

-----------------------------------------------------------------------------
(* The specification *)

\* Power-on: the expander's pins are inputs, so no relay is energised.
Init ==
  /\ relays = ALL_OFF /\ onFor = 0 /\ quietFor = 0 /\ abandoned = FALSE /\ faults = 0
  /\ watchdog = NoTimer /\ firing = FALSE
  /\ now = 0
  /\ pc = "boot" /\ sleep = 0
  /\ cmd = NoCommand /\ start = 0 /\ result = "continue"
  /\ queue = << >>
  /\ position = [v \in Valves |-> "unknown"]
  /\ lockoutUntil = [v \in Valves |-> 0]
  /\ driving = FALSE /\ settleUntil = 0
  /\ closeFault = [v \in Valves |-> FALSE]
  /\ sinceCycle = [v \in Valves |-> REDRIVE_LOCKOUT]
  /\ closeFailed = [v \in Valves |-> FALSE]
  /\ sent = [v \in Valves |-> "unknown"]
  /\ resync = Idle

\* The drive task, but for the poll, which reads a sense input.
DriveTask ==
  \/ ReceiveUnknown
  \/ ReceiveLockedOut
  \/ ReceiveDrive
  \/ \E outcome \in Outcomes : BeginDrive(outcome)
  \/ StopBeforeBreak
  \/ Energize
  \/ StopBeforeArm
  \/ Arm
  \/ \E outcome \in Outcomes : AbortDrive(outcome)
  \/ AbortUnarmed
  \/ StartPolling
  \/ \E outcome \in Outcomes : ReleaseDrive(outcome)
  \/ StopAfterRelease
  \/ Finish

WatchdogTask ==
  \/ WatchdogExpire
  \/ \E outcome \in Outcomes : WatchdogRelease(outcome)

TimerTask == ResyncStart \/ ResyncSend

\* Every step of this module that neither reads a sense input nor involves time.
DriveStep ==
  \/ \E msg \in COMMANDS : CmdRx(msg)
  \/ DriveTask
  \/ WatchdogTask
  \/ TimerTask
  \/ \E outcome \in WRITE_ERRORS : BootFails(outcome)

Next ==
  \/ DriveStep
  \/ \E diClosed \in BOOLEAN : Poll(diClosed)
  \/ \E diClosed \in [Valves -> BOOLEAN] : Boot(diClosed)
  \/ Reboot
  \/ Tick

Spec == Init /\ [][Next]_driveVars

\* The tasks run when they are ready, and time passes however fast commands come
\* (hence the strong fairness).  Commands and resets are up to the environment.
Fairness ==
  /\ WF_driveVars(DriveTask)
  /\ WF_driveVars(\E diClosed \in BOOLEAN : Poll(diClosed))
  /\ WF_driveVars(\E diClosed \in [Valves -> BOOLEAN] : Boot(diClosed))
  /\ WF_driveVars(WatchdogTask)
  /\ WF_driveVars(TimerTask)
  /\ SF_driveVars(Tick)

FairSpec == Spec /\ Fairness

-----------------------------------------------------------------------------
(* Properties *)

TypeOK ==
  /\ relays \in Masks
  /\ watchdog \in {NoTimer} \cup 0 .. DRIVE_CEILING
  /\ firing \in BOOLEAN
  /\ now \in Ticks
  /\ pc \in PCs
  /\ sleep \in Int
  /\ queue \in Seq(Message) /\ Len(queue) <= CMD_QUEUE_LEN
  /\ cmd \in [valve : Valves, action : Actions]
  /\ start \in Ticks
  /\ result \in StepResults
  /\ position \in [Valves -> Positions]
  /\ lockoutUntil \in [Valves -> Ticks]
  /\ driving \in BOOLEAN
  /\ settleUntil \in Ticks
  /\ closeFault \in [Valves -> BOOLEAN]
  /\ sent \in [Valves -> Positions]
  /\ resync \in [valve : 0 .. VALVE_COUNT, value : Positions]
  /\ faults \in 0 .. MAX_FAULTS
  /\ onFor \in 0 .. TICK_MOD
  /\ abandoned \in BOOLEAN
  /\ quietFor \in 0 .. BREAK_BEFORE_MAKE
  /\ sinceCycle \in [Valves -> 0 .. REDRIVE_LOCKOUT]
  /\ closeFailed \in [Valves -> BOOLEAN]

\* Whoever will cut the relays: the timer, its callback, the drive in flight (which
\* has armed the timer or is about to) or the start-up code.
ReleaseComing ==
  \/ watchdog # NoTimer \/ firing
  \/ pc \in {"energized", "arm", "armed", "driving", "release", "boot"}

\* Whichever single I2C write or timer start fails, and whether or not the failed
\* write reached the chip, a motor is never left energised with nobody about to
\* release it, but for one case: a drive given up because valve_control_apply() of
\* its own pair failed.  The other failure paths, of both releases of run_drive, of
\* watchdog_cb() and of the start-up code, leave another release pending.
ReleasePending ==
  faults <= 1 /\ relays # ALL_OFF => ReleaseComing \/ abandoned

\* valve_control_driver.h:35, "arms (or re-arms) the independent 2 s watchdog
\* whenever mask != 0": once valve_control_apply() is through, an energised motor is
\* covered by the timer, or the timer has had its turn.  The code does not keep it:
\* a failed write that did reach the chip returns before the timer is armed.
EnergizedIsWatched ==
  relays # ALL_OFF =>
    \/ watchdog # NoTimer \/ firing \/ onFor >= DRIVE_CEILING
    \/ pc \in {"energized", "arm", "boot"}

\* Rule 3: no motor is energised for longer than the ceiling, counted from the
\* re-arm, which comes at most SLACK after the write that energises it, however late
\* the drive task runs later.  When the watchdog's own write is the one that fails,
\* the drive task releases at its next poll.  The abandoned drive of ReleasePending
\* is the one exception.
Grace == IF faults = 0 THEN 0 ELSE SENSE_DEBOUNCE + SLACK
CeilingHeld ==
  faults <= 1 /\ ~ abandoned => onFor <= DRIVE_CEILING + SLACK + Grace

\* Rule 2: a pair is energised only from all-off, after the whole dead time, even
\* when the release before it failed or the watchdog cut in.
BreakBeforeMake ==
  [][ faults' <= 1 /\ relays' \notin {relays, ALL_OFF}
        => relays = ALL_OFF /\ quietFor = BREAK_BEFORE_MAKE ]_driveVars

Energizes(valve, action) == relays' = DriveMask(valve, action) /\ relays' # relays

\* The re-drive lockout: a valve whose last cycle ended less than the lockout ago
\* is not energised again, in either direction.
LockoutHeld ==
  [][ \A v \in Valves, a \in Actions :
        Energizes(v, a) => sinceCycle[v] >= REDRIVE_LOCKOUT ]_driveVars

\* The lockout ends: a command is only refused for it within the lockout time of
\* the valve's last cycle (DRAINMASTER-VALVES.md, Timing: 3000 ms).
LockoutExpires ==
  [][ \A v \in Valves :
        /\ pc = "wait" /\ pc' = "wait"
        /\ queue # << >> /\ queue' = Tail(queue) /\ Head(queue).valve = v
        => sinceCycle[v] < REDRIVE_LOCKOUT ]_driveVars

\* The resend repairs: once a position stays what it is, the last frame the
\* panels were sent for that valve is that position, although a resend that read
\* the position before a change may go out after it.
StatusRepaired ==
  \A v \in Valves, p \in Positions :
    <>[](position[v] = p) => <>[](sent[v] = p)
=============================================================================
