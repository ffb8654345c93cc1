----------------------------- MODULE ValveNode ------------------------------
(***************************************************************************)
(* The whole dump-valve node: ValveDrive and the sensor task of            *)
(* valves/main/valve_drive.c (valve_sense_task), which polls the position  *)
(* inputs, debounces them and keeps the reported position equal to them    *)
(* while no drive is in flight.  The two tasks share s_position,           *)
(* s_close_fault, s_driving and s_settle_until without a lock; the sensor  *)
(* task is the lower-priority one and may be preempted between the reads   *)
(* and the writes of one poll.                                             *)
(***************************************************************************)
EXTENDS ValveDrive

VARIABLES
  di,          \* what each sense input reads now: TRUE is closed
  sensePc,     \* where the sensor task is
  senseSleep,  \* units it still sleeps; negative: how long it has been ready
  senseValve,  \* the valve this poll is at
  senseNow,    \* the tick count this poll works with
  lastRaw,     \* last_raw, in the polarity of di
  stable,      \* stable_closed
  changedAt    \* changed_at

senseVars == <<sensePc, senseSleep, senseValve, senseNow, lastRaw, stable, changedAt>>
nodeVars  == <<driveVars, di, senseVars>>

SensePCs == {"off", "init", "asleep", "sample", "settle", "report"}

-----------------------------------------------------------------------------
(* The sensor task *)

\* Its start: the first level of every input is taken as stable.
SenseInit ==
  /\ sensePc = "init"
  /\ lastRaw' = di
  /\ stable' = di
  /\ changedAt' = [v \in Valves |-> now]
  /\ sensePc' = "asleep"
  /\ senseSleep' = SENSE_POLL
  /\ UNCHANGED <<driveVars, di, senseValve, senseNow>>

\* A poll begins: the tick count is read once for all valves.
SenseWake ==
  /\ sensePc = "asleep" /\ senseSleep <= 0
  /\ senseNow' = now
  /\ senseValve' = 0
  /\ sensePc' = "sample"
  /\ UNCHANGED <<driveVars, di, senseSleep, lastRaw, stable, changedAt>>

\* Mutation of SenseSample: every sample restarts the debounce.
SenseSampleRestarts ==
  /\ sensePc = "sample"
  /\ lastRaw' = [lastRaw EXCEPT ![senseValve] = di[senseValve]]
  /\ changedAt' = [changedAt EXCEPT ![senseValve] = senseNow]
  /\ sensePc' = "settle"
  /\ UNCHANGED <<driveVars, di, senseSleep, senseValve, senseNow, stable>>

\* The first read of the input: a changed level restarts the debounce.
SenseSample ==
  /\ sensePc = "sample"
  /\ lastRaw' = [lastRaw EXCEPT ![senseValve] = di[senseValve]]
  /\ changedAt' = IF di[senseValve] = lastRaw[senseValve] THEN changedAt
                  ELSE [changedAt EXCEPT ![senseValve] = senseNow]
  /\ sensePc' = "settle"
  /\ UNCHANGED <<driveVars, di, senseSleep, senseValve, senseNow, stable>>

\* On to the next valve, or back to sleep.
NextValve ==
  IF senseValve + 1 < VALVE_COUNT
  THEN /\ senseValve' = senseValve + 1
       /\ sensePc' = "sample"
       /\ UNCHANGED <<senseSleep, senseNow>>
  ELSE /\ senseValve' = 0
       /\ sensePc' = "asleep"
       /\ senseSleep' = SENSE_POLL
       /\ senseNow' = 0

\* Reporting is off while a drive is in flight and until the settle time.
ReportingAllowed == SenseLive /\ ~driving /\ senseNow >= settleUntil

\* The second read of the input, the debounce decision, and the check that the
\* position may be reported.
SenseSettle ==
  LET closed == di[senseValve]
      accept == /\ closed # stable[senseValve]
                /\ Elapsed(senseNow, changedAt[senseValve]) >= SENSE_DEBOUNCE
  IN /\ sensePc = "settle"
     /\ stable' = IF accept THEN [stable EXCEPT ![senseValve] = closed] ELSE stable
     /\ IF ReportingAllowed
        THEN sensePc' = "report" /\ UNCHANGED <<senseSleep, senseValve, senseNow>>
        ELSE NextValve
     /\ UNCHANGED <<driveVars, di, lastRaw, changedAt>>

\* Mutation of Sensed: the fault latch is not looked at.
SensedUnlatched(closed, fault) == IF closed THEN "closed" ELSE "open"

\* What the sensor says the position is, given the fault latch.
Sensed(closed, fault) ==
  IF closed THEN "closed" ELSE IF fault THEN "unknown" ELSE "open"

\* Clear the fault of a valve seen closed, make the position the sensed one and
\* report it if that changed it.
SenseReport ==
  LET v    == senseValve
      want == Sensed(stable[v], closeFault[v])
  IN /\ sensePc = "report"
     /\ closeFault' = [closeFault EXCEPT ![v] = @ /\ ~stable[v]]
     /\ closeFailed' = [closeFailed EXCEPT ![v] = @ /\ ~stable[v]]
     /\ position' = [position EXCEPT ![v] = want]
     /\ sent' = IF want = position[v] THEN sent ELSE [sent EXCEPT ![v] = want]
     /\ NextValve
     /\ UNCHANGED <<relayVars, timerVars, now, taskVars, queue, lockoutUntil, driving,
                    settleUntil, sinceCycle, resync, di, lastRaw, stable,
                    changedAt>>

-----------------------------------------------------------------------------
(* The composition *)

\* The contact of a valve opens or closes: the motor, the wall rocker, bounce.
Flip(v) ==
  /\ di' = [di EXCEPT ![v] = ~ @]
  /\ UNCHANGED <<driveVars, senseVars>>

\* A reset stops the sensor task; its variables are on its stack.
NodeReboot ==
  /\ Reboot
  /\ sensePc' = "off" /\ senseSleep' = 0 /\ senseValve' = 0 /\ senseNow' = 0
  /\ lastRaw' = [v \in Valves |-> FALSE]
  /\ stable' = [v \in Valves |-> FALSE]
  /\ changedAt' = [v \in Valves |-> 0]
  /\ UNCHANGED di

NodeBoot ==
  /\ Boot(di)
  /\ sensePc' = "init" /\ senseSleep' = 0
  /\ UNCHANGED <<di, senseValve, senseNow, lastRaw, stable, changedAt>>

NodePoll == Poll(di[cmd.valve]) /\ UNCHANGED <<di, senseVars>>

\* The sensor task too is at most SLACK units late.
NodeTick ==
  /\ Tick
  /\ sensePc = "off" \/ senseSleep > -SLACK
  /\ senseSleep' = IF sensePc = "off" THEN 0 ELSE senseSleep - 1
  /\ UNCHANGED <<di, sensePc, senseValve, senseNow, lastRaw, stable, changedAt>>

NodeInit ==
  /\ Init
  /\ di \in [Valves -> BOOLEAN]
  /\ sensePc = "off" /\ senseSleep = 0 /\ senseValve = 0 /\ senseNow = 0
  /\ lastRaw = [v \in Valves |-> FALSE]
  /\ stable = [v \in Valves |-> FALSE]
  /\ changedAt = [v \in Valves |-> 0]

SenseStep == SenseInit \/ SenseWake \/ SenseSample \/ SenseSettle \/ SenseReport

NodeNext ==
  \/ DriveStep /\ UNCHANGED <<di, senseVars>>
  \/ SenseStep
  \/ NodePoll
  \/ NodeBoot
  \/ NodeReboot
  \/ NodeTick
  \/ \E v \in Valves : Flip(v)

NodeSpec == NodeInit /\ [][NodeNext]_nodeVars

\* The tasks run when they are ready, and time passes however fast commands come
\* (hence the strong fairness); commands, the contacts and resets are up to the
\* environment.
NodeFairness ==
  /\ WF_nodeVars(DriveTask /\ UNCHANGED <<di, senseVars>>)
  /\ WF_nodeVars(NodePoll)
  /\ WF_nodeVars(NodeBoot)
  /\ WF_nodeVars(WatchdogTask /\ UNCHANGED <<di, senseVars>>)
  /\ WF_nodeVars(TimerTask /\ UNCHANGED <<di, senseVars>>)
  /\ WF_nodeVars(SenseStep)
  /\ SF_nodeVars(NodeTick)

FairNodeSpec == NodeSpec /\ NodeFairness

-----------------------------------------------------------------------------
(* Properties *)

NodeTypeOK ==
  /\ TypeOK
  /\ di \in [Valves -> BOOLEAN]
  /\ sensePc \in SensePCs
  /\ senseSleep \in Int
  /\ senseValve \in Valves
  /\ senseNow \in Ticks
  /\ lastRaw \in [Valves -> BOOLEAN]
  /\ stable \in [Valves -> BOOLEAN]
  /\ changedAt \in [Valves -> Ticks]

\* A CLOSE that was not confirmed is never relabelled OPEN: until the valve is
\* seen closed, driven again or the node restarts, the panels are not told that
\* it is open (DRAINMASTER-VALVES.md, "Close is verified, open is not").
FailedCloseLatched == \A v \in Valves : closeFailed[v] => position[v] # "open"

\* "The reported position follows the sensor": once an input holds its level and
\* the node drives nothing, the reported position comes to agree with it, unknown
\* for a valve that is not closed after a failed CLOSE.
SensorFollowed ==
  \A v \in Valves, c \in BOOLEAN :
    <>[](di[v] = c /\ pc = "wait") =>
      <>[](position[v] = Sensed(c, closeFault[v]))
=============================================================================
