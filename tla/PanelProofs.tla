----------------------------- MODULE PanelProofs -----------------------------
(***************************************************************************)
(* Theorems about what is touched on a panel: its screen and the valve      *)
(* buttons on it, for any sections, tanks and time limits; and the light    *)
(* buttons, for any grid, groups, queue and number of faults.               *)
(***************************************************************************)
EXTENDS ValveButton, LightControl, SequenceTheorems, TLAPS

ButtonTypeOK == ScreenTypeOK /\ ValveButtonTypeOK

\* An armed button shows the valve closed and fresh, and has since the tap that armed it: the
\* time left and the time since then make up the window.
ArmIsWatched == armed => ReadsClosed /\ armLeft >= 0 /\ watch = VALVE_ARM_WINDOW - armLeft

\* Two halves that are inductive each on its own: the overlay changes with the backlight alone,
\* and no step of the screen arms a button.
ScreenInv == ScreenTypeOK /\ DarkScreen
ArmInv == ValveButtonTypeOK /\ ArmIsWatched

\* The times, as the arithmetic needs them.
LEMMA SecondsAre ==
  /\ VALVE_ARM_WINDOW \in Nat \ {0} /\ VALVE_STALE \in Nat /\ NotSeen \in Nat
  /\ IDLE_DIM_TIMEOUT \in Nat /\ IDLE_OFF_TIMEOUT \in Nat
BY ScreenAssumption, ValveButtonAssumption DEF NotSeen

\* At the start the screen is bright and nothing is armed.
LEMMA ButtonStart ==
  ASSUME ButtonInit
  PROVE  ScreenInv /\ ArmInv
<1>1. ScreenTypeOK
  <2>1. 0 \in 0 .. IDLE_OFF_TIMEOUT + 1 /\ PANEL_DEFAULT_SCREEN \in SCREENS
    BY SecondsAre, ScreenAssumption
  <2>2. clickable \in BOOLEAN /\ popup \in BOOLEAN /\ critical \in BOOLEAN
    BY DEF ButtonInit, ScreenInit
  <2>3. tank \in [TANKS -> {"none", "ok", "full"}]
    BY DEF ButtonInit, ScreenInit
  <2>4. QED
    BY <2>1, <2>2, <2>3 DEF ButtonInit, ScreenInit, ScreenTypeOK
<1>2. ValveButtonTypeOK
  <2>1. NotSeen \in 0 .. NotSeen /\ -1 \in -1 .. VALVE_ARM_WINDOW
    BY SecondsAre
  <2>2. /\ cached = "UNKNOWN" /\ position = "UNKNOWN" /\ cacheAge = NotSeen /\ sent = "none"
        /\ stale = FALSE /\ armed = FALSE /\ armLeft = -1 /\ watch = -1
    BY DEF ButtonInit, ValveInit
  <2>3. QED
    BY <2>1, <2>2 DEF ValveButtonTypeOK, Positions
<1>3. DarkScreen
  BY DEF ButtonInit, ScreenInit, DarkScreen
<1>4. ArmIsWatched
  BY DEF ButtonInit, ValveInit, ArmIsWatched
<1>5. QED
  BY <1>1, <1>2, <1>3, <1>4 DEF ScreenInv, ArmInv

-----------------------------------------------------------------------------
(* The screen *)

\* The seconds without a touch stay in their range.
LEMMA InactiveStays ==
  ASSUME ScreenTypeOK
  PROVE  /\ 0 \in 0 .. IDLE_OFF_TIMEOUT + 1
         /\ (IF inactive > IDLE_OFF_TIMEOUT THEN inactive ELSE inactive + 1)
              \in 0 .. IDLE_OFF_TIMEOUT + 1
BY SecondsAre DEF ScreenTypeOK

\* A press keeps the backlight and the overlay together.
LEMMA PressStep ==
  ASSUME ScreenInv, inactive' = 0, UNCHANGED <<tank, critical, due>>,
         \/ WakePress
         \/ UNCHANGED <<backlight, clickable>> /\ popup' \in BOOLEAN /\ active' = active
         \/ Press /\ UNCHANGED <<backlight, clickable, popup>> /\ active' \in SCREENS
  PROVE  ScreenInv'
<1>1. ScreenTypeOK'
  BY InactiveStays DEF ScreenInv, ScreenTypeOK, WakePress
<1>2. DarkScreen'
  BY DEF ScreenInv, ScreenTypeOK, DarkScreen, WakePress, Press
<1>3. QED
  BY <1>1, <1>2 DEF ScreenInv

LEMMA IdleStep ==
  ASSUME ScreenInv, IdleTimer
  PROVE  ScreenInv'
<1>1. UNCHANGED <<popup, inactive, tank, critical>> /\ due' \subseteq {"idle", "tanks", "valves"}
  BY DEF IdleTimer, Ran, ScreenInv, ScreenTypeOK
<1>2. /\ backlight' \in {"NORMAL", "DIMMED", "OFF"} /\ clickable' \in BOOLEAN
      /\ active' \in SCREENS
  BY ScreenAssumption DEF IdleTimer, Light, Undim, Dim, GoDark, ScreenInv, ScreenTypeOK
<1>3. DarkScreen'
  BY DEF IdleTimer, Light, Undim, Dim, GoDark, ScreenInv, ScreenTypeOK, DarkScreen
<1>4. QED
  BY <1>1, <1>2, <1>3 DEF ScreenInv, ScreenTypeOK

LEMMA TankTimerStep ==
  ASSUME ScreenInv, TankTimer
  PROVE  ScreenInv'
<1>1. critical' \in BOOLEAN /\ due' \subseteq {"idle", "tanks", "valves"}
  BY DEF TankTimer, Ran, FullTank, ScreenInv, ScreenTypeOK
<1>2. QED
  BY <1>1 DEF TankTimer, ScreenInv, ScreenTypeOK, DarkScreen

LEMMA TankReportStep ==
  ASSUME ScreenInv, NEW t \in TANKS, NEW level \in {"none", "ok", "full"}, TankReport(t, level)
  PROVE  ScreenInv'
<1>1. tank' \in [TANKS -> {"none", "ok", "full"}]
  BY DEF TankReport, ScreenInv, ScreenTypeOK
<1>2. QED
  BY <1>1 DEF TankReport, ScreenInv, ScreenTypeOK, DarkScreen

LEMMA SecondStep ==
  ASSUME ScreenInv, NextSecond({"idle", "tanks", "valves"})
  PROVE  ScreenInv'
<1>1. inactive' \in 0 .. IDLE_OFF_TIMEOUT + 1
  BY InactiveStays DEF NextSecond, ScreenInv
<1>2. QED
  BY <1>1 DEF NextSecond, ScreenInv, ScreenTypeOK, DarkScreen

LEMMA ScreenStep ==
  ASSUME ScreenInv, [ButtonNext]_buttonVars
  PROVE  ScreenInv'
<1>1. CASE WakePress
  BY <1>1, PressStep DEF WakePress
<1>2. CASE OpenPopup
  BY <1>2, PressStep DEF OpenPopup, Press
<1>3. CASE ClosePopup
  BY <1>3, PressStep DEF ClosePopup
<1>4. CASE IdleTimer
  BY <1>4, IdleStep
<1>5. CASE TankTimer
  BY <1>5, TankTimerStep
<1>6. ASSUME NEW s \in SCREENS, ShowScreen(s) PROVE ScreenInv'
  BY <1>6, PressStep DEF ShowScreen, Press
<1>7. ASSUME NEW t \in TANKS, NEW level \in {"none", "ok", "full"}, TankReport(t, level)
      PROVE  ScreenInv'
  BY <1>7, TankReportStep
<1>8. CASE ValveTimer
  BY <1>8 DEF ValveTimer, Ran, ScreenInv, ScreenTypeOK, DarkScreen
<1>9. CASE ValveTap
  <2>1. popup' = popup /\ popup \in BOOLEAN
    BY <1>9 DEF ValveTap, ScreenInv, ScreenTypeOK
  <2>2. QED
    BY <1>9, <2>1, PressStep DEF ValveTap, Press
<1>10. CASE Second
  BY <1>10, SecondStep DEF Second
<1>11. CASE UNCHANGED screenVars
  BY <1>11 DEF screenVars, ScreenInv, ScreenTypeOK, DarkScreen
<1>12. QED
  BY <1>1, <1>2, <1>3, <1>4, <1>5, <1>6, <1>7, <1>8, <1>9, <1>10, <1>11
  DEF ButtonNext, ValveStatus, ArmTimeout, buttonVars

-----------------------------------------------------------------------------
(* The button *)

\* A button that is no longer armed.
LEMMA Disarmed ==
  ASSUME ArmInv, armed' = FALSE, armLeft' = -1, cached' \in Positions, position' \in Positions,
         cacheAge' \in 0 .. NotSeen, stale' \in BOOLEAN, sent' \in {"none", "OPEN", "CLOSE"},
         watch' \in -1 .. VALVE_ARM_WINDOW
  PROVE  ArmInv'
<1>1. armLeft' \in -1 .. VALVE_ARM_WINDOW
  BY SecondsAre
<1>2. armed' \in BOOLEAN /\ ~ armed'
  BY Zenon
<1>3. ValveButtonTypeOK'
  BY <1>1, <1>2 DEF ValveButtonTypeOK
<1>4. ArmIsWatched'
  BY <1>2 DEF ArmIsWatched
<1>5. QED
  BY <1>3, <1>4 DEF ArmInv

LEMMA ArmTimerStep ==
  ASSUME ArmInv, ValveTimer
  PROVE  ArmInv'
<1>0. VALVE_ARM_WINDOW \in Nat \ {0} /\ VALVE_STALE \in Nat /\ NotSeen \in Nat
  BY SecondsAre
<1>1. /\ position' = cached /\ stale' = CacheStale /\ sent' = "none"
      /\ UNCHANGED <<cached, cacheAge>>
  BY DEF ValveTimer, UpdateValve
<1>2. watch' \in -1 .. VALVE_ARM_WINDOW
  BY <1>0 DEF ValveTimer, ArmInv, ValveButtonTypeOK
<1>3. /\ cached' \in Positions /\ position' \in Positions /\ cacheAge' \in 0 .. NotSeen
      /\ stale' \in BOOLEAN
  BY <1>1 DEF ArmInv, ValveButtonTypeOK, CacheStale
<1>4. CASE armed' = FALSE /\ armLeft' = -1
  BY <1>1, <1>2, <1>3, <1>4, Disarmed
<1>5. CASE UNCHANGED <<armed, armLeft>> /\ (armed => cached = "CLOSED" /\ ~ CacheStale)
  <2>1. ValveButtonTypeOK'
    BY <1>1, <1>2, <1>3, <1>5 DEF ArmInv, ValveButtonTypeOK
  <2>2. ArmIsWatched'
    BY <1>1, <1>5 DEF ValveTimer, ArmInv, ArmIsWatched, ReadsClosed
  <2>3. QED
    BY <2>1, <2>2 DEF ArmInv
<1>6. QED
  BY <1>4, <1>5 DEF ValveTimer, UpdateValve, ArmInv, ArmIsWatched, ReadsClosed

LEMMA ArmTapStep ==
  ASSUME ArmInv, ValveTap
  PROVE  ArmInv'
<1>0. VALVE_ARM_WINDOW \in Nat \ {0}
  BY SecondsAre
<1>1. UNCHANGED <<cached, cacheAge, position, stale>>
  BY DEF ValveTap
<1>2. watch' \in {0, -1}
  BY DEF ValveTap
<1>3. watch' \in -1 .. VALVE_ARM_WINDOW
  BY <1>0, <1>2
<1>4. CASE Confirm
  <2>1. armed' = FALSE /\ armLeft' = -1 /\ sent' \in {"none", "OPEN", "CLOSE"}
    BY <1>4 DEF Confirm
  <2>2. /\ cached' \in Positions /\ position' \in Positions /\ cacheAge' \in 0 .. NotSeen
        /\ stale' \in BOOLEAN
    BY <1>1 DEF ArmInv, ValveButtonTypeOK
  <2>3. QED
    BY <1>3, <2>1, <2>2, Disarmed
<1>5. CASE Close
  <2>1. ~ armed /\ UNCHANGED <<armed, armLeft>> /\ sent' = "CLOSE"
    BY <1>5 DEF Close
  <2>2. QED
    BY <1>1, <1>3, <2>1 DEF ArmInv, ArmIsWatched, ValveButtonTypeOK
<1>6. CASE Arm
  <2>1. /\ armed' = TRUE /\ armLeft' = VALVE_ARM_WINDOW /\ sent' = "none" /\ ReadsClosed
        /\ watch' = 0
    BY <1>6 DEF Arm, ValveTap
  <2>2. ValveButtonTypeOK'
    BY <1>0, <1>1, <2>1 DEF ArmInv, ValveButtonTypeOK
  <2>3. ArmIsWatched'
    BY <1>0, <1>1, <2>1 DEF ArmIsWatched, ReadsClosed
  <2>4. QED
    BY <2>2, <2>3 DEF ArmInv
<1>7. QED
  BY <1>4, <1>5, <1>6 DEF ValveTap

LEMMA ArmSecondStep ==
  ASSUME ArmInv, Second
  PROVE  ArmInv'
<1>0. VALVE_ARM_WINDOW \in Nat \ {0} /\ VALVE_STALE \in Nat /\ NotSeen \in Nat
      /\ NotSeen = VALVE_STALE + 1
  BY SecondsAre DEF NotSeen
<1>1. /\ armLeft # 0 /\ armLeft' = IF armLeft > 0 THEN armLeft - 1 ELSE armLeft
      /\ watch' = IF watch \in 0 .. VALVE_ARM_WINDOW - 1 THEN watch + 1 ELSE -1
      /\ cacheAge' = IF cacheAge = NotSeen THEN cacheAge ELSE cacheAge + 1
      /\ sent' = "none" /\ UNCHANGED <<cached, position, stale, armed>>
  BY DEF Second, CacheStale
<1>2. ValveButtonTypeOK'
  <2>1. cacheAge' \in 0 .. NotSeen
    BY <1>0, <1>1 DEF ArmInv, ValveButtonTypeOK
  <2>2. armLeft' \in -1 .. VALVE_ARM_WINDOW /\ watch' \in -1 .. VALVE_ARM_WINDOW
    BY <1>0, <1>1 DEF ArmInv, ValveButtonTypeOK
  <2>3. QED
    BY <1>1, <2>1, <2>2 DEF ArmInv, ValveButtonTypeOK
<1>3. ArmIsWatched'
  BY <1>0, <1>1 DEF ArmInv, ArmIsWatched, ReadsClosed, ValveButtonTypeOK
<1>4. QED
  BY <1>2, <1>3 DEF ArmInv

LEMMA ArmStep ==
  ASSUME ArmInv, [ButtonNext]_buttonVars
  PROVE  ArmInv'
<1>0. VALVE_ARM_WINDOW \in Nat \ {0} /\ VALVE_STALE \in Nat /\ NotSeen \in Nat
  BY SecondsAre
<1>1. CASE Aside
  BY <1>1 DEF Aside, ArmInv, ArmIsWatched, ReadsClosed, ValveButtonTypeOK
<1>2. ASSUME NEW p \in Positions, ValveStatus(p) PROVE ArmInv'
  BY <1>0, <1>2 DEF ValveStatus, ArmInv, ArmIsWatched, ReadsClosed, ValveButtonTypeOK
<1>3. CASE ValveTimer
  BY <1>3, ArmTimerStep
<1>4. CASE ArmTimeout
  <2>1. armed' = FALSE /\ armLeft' = -1 /\ sent' = "none"
    BY <1>4 DEF ArmTimeout
  <2>2. /\ cached' \in Positions /\ position' \in Positions /\ cacheAge' \in 0 .. NotSeen
        /\ stale' \in BOOLEAN /\ watch' \in -1 .. VALVE_ARM_WINDOW
    BY <1>4 DEF ArmTimeout, ArmInv, ValveButtonTypeOK
  <2>3. QED
    BY <2>1, <2>2, Disarmed
<1>5. CASE ValveTap
  BY <1>5, ArmTapStep
<1>6. CASE Second
  BY <1>6, ArmSecondStep
<1>7. CASE UNCHANGED buttonVars
  BY <1>7 DEF buttonVars, valveVars, ArmInv, ArmIsWatched, ReadsClosed, ValveButtonTypeOK
<1>8. QED
  BY <1>1, <1>2, <1>3, <1>4, <1>5, <1>6, <1>7 DEF ButtonNext

-----------------------------------------------------------------------------
(* The theorems *)

LEMMA ButtonInvHolds == ButtonSpec => [](ScreenInv /\ ArmInv)
<1>1. ButtonInit => ScreenInv /\ ArmInv
  BY ButtonStart
<1>2. ScreenInv /\ ArmInv /\ [ButtonNext]_buttonVars => (ScreenInv /\ ArmInv)'
  BY ScreenStep, ArmStep
<1>3. QED
  BY <1>1, <1>2, PTL DEF ButtonSpec

\* Every variable of the screen and of the button keeps its type.
THEOREM ButtonTypeCorrect == ButtonSpec => []ButtonTypeOK
<1>1. ScreenInv /\ ArmInv => ButtonTypeOK
  BY DEF ScreenInv, ArmInv, ButtonTypeOK
<1>2. QED
  BY <1>1, ButtonInvHolds, PTL

\* The overlay and the home section go with the dark, whichever of a touch, a tank and the clock
\* changes the screen (ui.c:254-316).
THEOREM DarkKept == ButtonSpec => []DarkScreen
<1>1. ScreenInv /\ ArmInv => DarkScreen
  BY DEF ScreenInv
<1>2. QED
  BY <1>1, ButtonInvHolds, PTL

\* A valve opens only by two deliberate taps, for any arm window and any staleness limit
\* (ui_dimmer_button.c:270-305, 748-760).
THEOREM OpenKept == ButtonSpec => OpenIsDeliberate
<1>1. ASSUME ScreenInv, ArmInv, [ButtonNext]_buttonVars
      PROVE  [sent' = "OPEN" => watch >= 0 /\ backlight # "OFF"]_buttonVars
  <2>1. CASE ValveTap
    <3> SUFFICES ASSUME sent' = "OPEN" PROVE watch >= 0 /\ backlight # "OFF"
      OBVIOUS
    <3>1. Press /\ armed
      BY <2>1 DEF ValveTap, Confirm, Close, Arm
    <3>2. watch >= 0
      BY <1>1, <3>1, SecondsAre DEF ArmInv, ArmIsWatched, ValveButtonTypeOK
    <3>3. backlight # "OFF"
      BY <1>1, <3>1 DEF Press, ScreenInv, DarkScreen
    <3>4. QED
      BY <3>2, <3>3
  <2>2. CASE sent' = "none"
    BY <2>2
  <2>3. CASE UNCHANGED buttonVars
    BY <2>3
  <2>4. QED
    BY <1>1, <2>1, <2>2, <2>3 DEF ButtonNext, Aside, ValveStatus, ValveTimer, ArmTimeout, Second
<1>2. QED
  BY <1>1, ButtonInvHolds, PTL DEF ButtonSpec, OpenIsDeliberate

-----------------------------------------------------------------------------
(* The lights *)

\* Whom a command may be for: the lights, and what the sweep's list names.
Receivers == LIGHTS \cup {SweepList[k] : k \in Nat}
CommandSet ==
  [to : SUBSET Receivers,
   cmd : {"ON_DELAY", "OFF", "MEMORY_OFF", "SET_LEVEL", "RAMP_UP", "RAMP_DOWN", "STOP"}]

IsRamp(c) == c.cmd \in {"RAMP_UP", "RAMP_DOWN"}

\* After position j of the commands s, i is told something that ends a ramp.
Stopped(s, j, i) == \E k \in j + 1 .. Len(s) : i \in s[k].to /\ ~IsRamp(s[k])

\* Every ramp among the commands s is ended by a later one, but for the lights of H.
Covered(s, H) ==
  \A j \in 1 .. Len(s) : IsRamp(s[j]) => \A i \in s[j].to : i \in H \/ Stopped(s, j, i)

\* The commands on their way, in the order the coach gets them.
Way == txq \o air

Finger == IF ramping = "none" THEN {} ELSE LightsOf(ramping)

Confirmations ==
  [armed : BOOLEAN, cmd : {"ON_DELAY", "OFF"}, target : BOOLEAN, retries : 0 .. CONFIRM_MAX_RETRIES]

LightTypes ==
  /\ txq \in Seq(CommandSet) /\ Len(txq) <= TX_QUEUE_LEN
  /\ air \in Seq(CommandSet) /\ (~remote => air = <<>>)
  /\ faults \in Nat
  /\ ramping \in DIMMERS \cup {"none"}
  /\ confirm \in [BUTTONS -> Confirmations]
  /\ sweep \in [armed : BOOLEAN, idx : Nat, on : BOOLEAN]
  /\ ramps \in [LIGHTS -> {"RAMP_UP", "RAMP_DOWN", "STOP"}]
  /\ dead => \A i \in LIGHTS : ramps[i] = "STOP"

RampsEnd ==
  faults = 0 =>
    /\ Covered(Way, Finger)
    /\ \A i \in LIGHTS : ramps[i] # "STOP" => i \in Finger \/ Stopped(Way, 0, i)

LightInv == LightTypes /\ RampsEnd

\* The constants, as the proofs need them.
LEMMA LightNumbers ==
  /\ TX_QUEUE_LEN \in Nat /\ CONFIRM_MAX_RETRIES \in Nat
  /\ \A b \in BUTTONS : LIGHTS_OF[b] \in Seq(LIGHTS)
  /\ DIMMERS \subseteq BUTTONS /\ "none" \notin BUTTONS
  /\ GROUPS \in Seq(SUBSET LIGHTS)
BY LightAssumption

\* What is put behind the commands on their way.
LEMMA StoppedBehind ==
  ASSUME NEW s \in Seq(CommandSet), NEW t \in Seq(CommandSet), NEW i
  PROVE  /\ \A j \in 0 .. Len(s) : Stopped(s \o t, j, i) <=> Stopped(s, j, i) \/ Stopped(t, 0, i)
         /\ \A j \in 0 .. Len(t) : Stopped(s \o t, Len(s) + j, i) <=> Stopped(t, j, i)
<1> DEFINE u == s \o t
           m == Len(s)
           n == Len(t)
<1>1. /\ u \in Seq(CommandSet) /\ Len(u) = m + n /\ m \in Nat /\ n \in Nat
      /\ \A k \in 1 .. m : u[k] = s[k]
      /\ \A k \in 1 .. n : u[m + k] = t[k]
  BY ConcatProperties, LenProperties
<1> HIDE DEF u, m, n
<1>2. ASSUME NEW j \in 0 .. n, Stopped(t, j, i) PROVE Stopped(u, m + j, i)
  <2>1. PICK k \in j + 1 .. n : i \in t[k].to /\ ~IsRamp(t[k])
    BY <1>2 DEF Stopped, n
  <2>2. u[m + k] = t[k] /\ m + k \in (m + j) + 1 .. Len(u)
    BY <1>1, <2>1
  <2>3. QED
    BY <2>1, <2>2 DEF Stopped
<1>3. ASSUME NEW j \in 0 .. n, Stopped(u, m + j, i) PROVE Stopped(t, j, i)
  <2>1. PICK k \in (m + j) + 1 .. m + n : i \in u[k].to /\ ~IsRamp(u[k])
    BY <1>1, <1>3 DEF Stopped
  <2>2. k - m \in j + 1 .. n /\ k - m \in 1 .. n /\ m + (k - m) = k
    BY <1>1, <2>1
  <2>3. t[k - m] = u[k]
    BY <1>1, <2>2
  <2>4. i \in t[k - m].to /\ ~IsRamp(t[k - m])
    BY <2>1, <2>3
  <2>5. QED
    BY <2>2, <2>4 DEF Stopped, n
<1>4. ASSUME NEW j \in 0 .. m, Stopped(s, j, i) PROVE Stopped(u, j, i)
  <2>1. PICK k \in j + 1 .. m : i \in s[k].to /\ ~IsRamp(s[k])
    BY <1>4 DEF Stopped, m
  <2>2. u[k] = s[k] /\ k \in j + 1 .. Len(u)
    BY <1>1, <2>1
  <2>3. QED
    BY <2>1, <2>2 DEF Stopped
<1>5. ASSUME NEW j \in 0 .. m, Stopped(t, 0, i) PROVE Stopped(u, j, i)
  <2>1. Stopped(u, m + 0, i)
    BY <1>1, <1>2, <1>5
  <2>2. PICK k \in m + 1 .. Len(u) : i \in u[k].to /\ ~IsRamp(u[k])
    BY <1>1, <2>1 DEF Stopped
  <2>3. k \in j + 1 .. Len(u)
    BY <1>1, <2>2
  <2>4. QED
    BY <2>2, <2>3 DEF Stopped
<1>6. ASSUME NEW j \in 0 .. m, Stopped(u, j, i) PROVE Stopped(s, j, i) \/ Stopped(t, 0, i)
  <2>1. PICK k \in j + 1 .. m + n : i \in u[k].to /\ ~IsRamp(u[k])
    BY <1>1, <1>6 DEF Stopped
  <2>2. CASE k <= m
    <3>1. s[k] = u[k] /\ k \in j + 1 .. m
      BY <1>1, <2>1, <2>2
    <3>2. QED
      BY <2>1, <3>1 DEF Stopped, m
  <2>3. CASE k > m
    <3>1. k \in (m + 0) + 1 .. Len(u)
      BY <1>1, <2>1, <2>3
    <3>2. Stopped(u, m + 0, i)
      BY <2>1, <3>1 DEF Stopped
    <3>3. QED
      BY <1>1, <1>3, <3>2
  <2>4. QED
    BY <1>1, <2>1, <2>2, <2>3
<1>7. QED
  BY <1>2, <1>3, <1>4, <1>5, <1>6 DEF u, m, n

\* A head that the coach has taken.
LEMMA StoppedTail ==
  ASSUME NEW s \in Seq(CommandSet), s # <<>>, NEW i
  PROVE  /\ \A j \in 0 .. Len(Tail(s)) : Stopped(Tail(s), j, i) <=> Stopped(s, j + 1, i)
         /\ Stopped(s, 0, i) <=> (i \in Head(s).to /\ ~IsRamp(Head(s))) \/ Stopped(Tail(s), 0, i)
<1> DEFINE u == Tail(s)
           n == Len(s)
<1>1. /\ u \in Seq(CommandSet) /\ Len(u) = n - 1 /\ n \in Nat /\ n >= 1 /\ Head(s) = s[1]
      /\ \A k \in 1 .. n - 1 : u[k] = s[k + 1]
  BY HeadTailProperties, LenProperties, EmptySeq
<1> HIDE DEF u, n
<1>2. ASSUME NEW j \in 0 .. n - 1, Stopped(u, j, i) PROVE Stopped(s, j + 1, i)
  <2>1. PICK k \in j + 1 .. n - 1 : i \in u[k].to /\ ~IsRamp(u[k])
    BY <1>1, <1>2 DEF Stopped
  <2>2. u[k] = s[k + 1] /\ k + 1 \in (j + 1) + 1 .. n
    BY <1>1, <2>1
  <2>3. QED
    BY <2>1, <2>2 DEF Stopped, n
<1>3. ASSUME NEW j \in 0 .. n - 1, Stopped(s, j + 1, i) PROVE Stopped(u, j, i)
  <2>1. PICK k \in (j + 1) + 1 .. n : i \in s[k].to /\ ~IsRamp(s[k])
    BY <1>3 DEF Stopped, n
  <2>2. k - 1 \in j + 1 .. n - 1 /\ k - 1 \in 1 .. n - 1 /\ (k - 1) + 1 = k
    BY <1>1, <2>1
  <2>3. u[k - 1] = s[k]
    BY <1>1, <2>2
  <2>4. i \in u[k - 1].to /\ ~IsRamp(u[k - 1]) /\ k - 1 \in j + 1 .. Len(u)
    BY <1>1, <2>1, <2>2, <2>3
  <2>5. QED
    BY <2>4 DEF Stopped
<1>4. Stopped(s, 0, i) <=> (i \in s[1].to /\ ~IsRamp(s[1])) \/ Stopped(s, 1, i)
  <2>1. \A k : k \in 0 + 1 .. n <=> k = 1 \/ k \in 1 + 1 .. n
    BY <1>1
  <2>2. QED
    BY <2>1 DEF Stopped, n
<1>5. \A j \in 0 .. n - 1 : Stopped(u, j, i) <=> Stopped(s, j + 1, i)
  BY <1>2, <1>3
<1>6. Stopped(u, 0, i) <=> Stopped(s, 1, i)
  <2>1. 0 \in 0 .. n - 1 /\ 0 + 1 = 1
    BY <1>1
  <2>2. QED
    BY <1>5, <2>1
<1>7. QED
  BY <1>1, <1>4, <1>5, <1>6 DEF u

\* What is put behind ends what is before it, or is under a finger.
LEMMA CoveredBehind ==
  ASSUME NEW s \in Seq(CommandSet), NEW t \in Seq(CommandSet), NEW H, NEW G,
         Covered(s, H), Covered(t, G), \A i \in H : i \in G \/ Stopped(t, 0, i)
  PROVE  Covered(s \o t, G)
<1> DEFINE u == s \o t
           m == Len(s)
           n == Len(t)
<1>1. /\ Len(u) = m + n /\ m \in Nat /\ n \in Nat
      /\ \A k \in 1 .. m : u[k] = s[k]
      /\ \A k \in 1 .. n : u[m + k] = t[k]
  BY ConcatProperties, LenProperties
<1>2. \A i : /\ \A j \in 0 .. m : Stopped(u, j, i) <=> Stopped(s, j, i) \/ Stopped(t, 0, i)
             /\ \A j \in 0 .. n : Stopped(u, m + j, i) <=> Stopped(t, j, i)
  BY StoppedBehind
<1> HIDE DEF u, m, n
<1> SUFFICES ASSUME NEW j \in 1 .. Len(u), IsRamp(u[j]), NEW i \in u[j].to
             PROVE  i \in G \/ Stopped(u, j, i)
  BY DEF Covered, u
<1>3. CASE j <= m
  <2>1. j \in 1 .. m /\ j \in 0 .. m /\ u[j] = s[j]
    BY <1>1, <1>3
  <2>2. i \in H \/ Stopped(s, j, i)
    BY <2>1 DEF Covered, m
  <2>3. QED
    BY <1>2, <2>1, <2>2
<1>4. CASE j > m
  <2>1. j - m \in 1 .. n /\ j - m \in 0 .. n /\ m + (j - m) = j
    BY <1>1, <1>4
  <2>2. u[j] = t[j - m]
    BY <1>1, <2>1
  <2>3. i \in G \/ Stopped(t, j - m, i)
    BY <2>1, <2>2 DEF Covered, n
  <2>4. QED
    BY <1>2, <2>1, <2>3
<1>5. QED
  BY <1>1, <1>3, <1>4

\* What leaves at the front leaves the rest covered.
LEMMA CoveredTail ==
  ASSUME NEW s \in Seq(CommandSet), s # <<>>, NEW H, Covered(s, H)
  PROVE  /\ Covered(Tail(s), H)
         /\ IsRamp(Head(s)) => \A i \in Head(s).to : i \in H \/ Stopped(Tail(s), 0, i)
<1> DEFINE u == Tail(s)
           n == Len(s)
<1>1. /\ Len(u) = n - 1 /\ n \in Nat /\ n >= 1 /\ Head(s) = s[1]
      /\ \A k \in 1 .. n - 1 : u[k] = s[k + 1]
  BY HeadTailProperties, LenProperties, EmptySeq
<1>2. \A i : \A j \in 0 .. n - 1 : Stopped(u, j, i) <=> Stopped(s, j + 1, i)
  BY <1>1, StoppedTail
<1> HIDE DEF u, n
<1>3. ASSUME NEW j \in 1 .. n - 1, IsRamp(u[j]), NEW i \in u[j].to
      PROVE  i \in H \/ Stopped(u, j, i)
  <2>1. j + 1 \in 1 .. n /\ j \in 0 .. n - 1 /\ u[j] = s[j + 1]
    BY <1>1
  <2>2. i \in H \/ Stopped(s, j + 1, i)
    BY <1>3, <2>1 DEF Covered, n
  <2>3. QED
    BY <1>2, <2>1, <2>2
<1>4. ASSUME IsRamp(s[1]), NEW i \in s[1].to
      PROVE  i \in H \/ Stopped(u, 0, i)
  <2>1. 1 \in 1 .. n /\ 0 \in 0 .. n - 1 /\ 0 + 1 = 1
    BY <1>1
  <2>2. i \in H \/ Stopped(s, 1, i)
    BY <1>4, <2>1 DEF Covered, n
  <2>3. QED
    BY <1>2, <2>1, <2>2
<1>5. QED
  BY <1>1, <1>3, <1>4 DEF u, Covered

\* Commands are put behind those on their way, or one is dropped.
LEMMA EnqueueStep ==
  ASSUME LightTypes, NEW cmds \in Seq(CommandSet), Enqueue(cmds), remote' = remote
  PROVE  /\ txq' \in Seq(CommandSet) /\ Len(txq') <= TX_QUEUE_LEN
         /\ air' \in Seq(CommandSet) /\ (~remote' => air' = <<>>)
         /\ Dropped(cmds) \in {0, 1}
         /\ Dropped(cmds) = 0 => Way' = Way \o cmds
<1>1. /\ txq \in Seq(CommandSet) /\ Len(txq) <= TX_QUEUE_LEN /\ Len(txq) \in Nat
      /\ air \in Seq(CommandSet) /\ (~remote => air = <<>>) /\ TX_QUEUE_LEN \in Nat
  BY LightNumbers, LenProperties DEF LightTypes
<1>2. Dropped(cmds) \in {0, 1}
  BY DEF Dropped
<1>3. CASE remote
  <2>1. air' = air \o cmds /\ txq' = txq
    BY <1>3 DEF Enqueue
  <2>2. air' \in Seq(CommandSet)
    BY <1>1, <2>1, ConcatProperties
  <2>3. txq \o (air \o cmds) = (txq \o air) \o cmds
    BY <1>1, ConcatAssociative
  <2>4. Way' = Way \o cmds
    BY <2>1, <2>3 DEF Way
  <2>5. QED
    BY <1>1, <1>2, <1>3, <2>1, <2>2, <2>4
<1>4. CASE ~remote
  <2> DEFINE q == txq \o cmds
  <2>1. air' = <<>> /\ txq' = Fit(q)
    BY <1>1, <1>4 DEF Enqueue
  <2>2. q \in Seq(CommandSet) /\ Len(q) = Len(txq) + Len(cmds) /\ Len(q) \in Nat
    BY <1>1, ConcatProperties, LenProperties
  <2> HIDE DEF q
  <2>3. Fit(q) \in Seq(CommandSet) /\ Len(Fit(q)) <= TX_QUEUE_LEN
    <3>1. CASE Len(q) > TX_QUEUE_LEN
      <4>1. Fit(q) = SubSeq(q, 1, TX_QUEUE_LEN)
        BY <3>1 DEF Fit
      <4>2. \A k \in 1 .. TX_QUEUE_LEN : q[k] \in CommandSet
        BY <1>1, <2>2, <3>1, ElementOfSeq
      <4>3. /\ SubSeq(q, 1, TX_QUEUE_LEN) \in Seq(CommandSet)
            /\ Len(SubSeq(q, 1, TX_QUEUE_LEN)) = IF 1 <= TX_QUEUE_LEN THEN TX_QUEUE_LEN - 1 + 1 ELSE 0
        BY <1>1, <4>2, SubSeqProperties
      <4> DEFINE l == Len(SubSeq(q, 1, TX_QUEUE_LEN))
      <4> HIDE DEF l
      <4>4. l = IF 1 <= TX_QUEUE_LEN THEN TX_QUEUE_LEN - 1 + 1 ELSE 0
        BY <4>3 DEF l
      <4>5. l <= TX_QUEUE_LEN
        BY <1>1, <4>4
      <4>6. QED
        BY <4>1, <4>3, <4>5 DEF l
    <3>2. CASE ~(Len(q) > TX_QUEUE_LEN)
      BY <1>1, <2>2, <3>2 DEF Fit
    <3>3. QED
      BY <3>1, <3>2
  <2>4. ASSUME Dropped(cmds) = 0 PROVE Way' = Way \o cmds
    <3>1. ~(Len(q) > TX_QUEUE_LEN)
      BY <1>4, <2>2, <2>4 DEF Dropped
    <3>2. txq' = txq \o cmds
      BY <2>1, <3>1 DEF Fit, q
    <3>3. (txq \o cmds) \o <<>> = txq \o cmds /\ txq \o <<>> = txq
      BY <1>1, <2>2, ConcatEmptySeq DEF q
    <3>4. Way' = txq \o cmds
      BY <2>1, <3>2, <3>3 DEF Way
    <3>5. Way = txq
      BY <1>1, <1>4, <3>3 DEF Way
    <3>6. QED
      BY <3>4, <3>5
  <2>5. <<>> \in Seq(CommandSet)
    BY EmptySeq
  <2>6. QED
    BY <1>2, <2>1, <2>3, <2>4, <2>5
<1>5. QED
  BY <1>3, <1>4

\* A step that sends cmds and leaves the coach alone.
LEMMA SendsStep ==
  ASSUME LightInv, NEW cmds \in Seq(CommandSet), ramps' = ramps,
         faults' = 0 => faults = 0 /\ Way' = Way \o cmds,
         Covered(cmds, Finger'), \A i \in Finger : i \in Finger' \/ Stopped(cmds, 0, i)
  PROVE  RampsEnd'
<1> SUFFICES ASSUME faults' = 0
             PROVE  /\ Covered(Way', Finger')
                    /\ \A i \in LIGHTS : ramps'[i] # "STOP" => i \in Finger' \/ Stopped(Way', 0, i)
  BY DEF RampsEnd
<1>1. Way \in Seq(CommandSet)
  BY ConcatProperties DEF Way, LightInv, LightTypes
<1>2. faults = 0 /\ Way' = Way \o cmds
  OBVIOUS
<1>3. /\ Covered(Way, Finger)
      /\ \A i \in LIGHTS : ramps[i] # "STOP" => i \in Finger \/ Stopped(Way, 0, i)
  BY <1>2 DEF LightInv, RampsEnd
<1>4. Covered(Way \o cmds, Finger')
  BY <1>1, <1>3, CoveredBehind
<1>5. ASSUME NEW i \in LIGHTS, ramps[i] # "STOP"
      PROVE  i \in Finger' \/ Stopped(Way \o cmds, 0, i)
  <2>1. i \in Finger \/ Stopped(Way, 0, i)
    BY <1>3, <1>5
  <2>2. 0 \in 0 .. Len(Way)
    BY <1>1, LenProperties
  <2>3. Stopped(Way \o cmds, 0, i) <=> Stopped(Way, 0, i) \/ Stopped(cmds, 0, i)
    BY <1>1, <2>2, StoppedBehind
  <2>4. QED
    BY <2>1, <2>3
<1>6. QED
  BY <1>2, <1>4, <1>5

\* A step that sends nothing and leaves coach and finger alone.
LEMMA StillStep ==
  ASSUME LightInv, ramps' = ramps, ramping' = ramping,
         faults' = 0 => faults = 0 /\ Way' = Way
  PROVE  RampsEnd'
BY DEF LightInv, RampsEnd, Finger

\* The same command to each light of a button.
LEMMA CommandsAre ==
  ASSUME NEW b \in BUTTONS,
         NEW c \in {"ON_DELAY", "OFF", "MEMORY_OFF", "SET_LEVEL", "RAMP_UP", "RAMP_DOWN", "STOP"}
  PROVE  /\ Commands(b, c) \in Seq(CommandSet)
         /\ c \notin {"RAMP_UP", "RAMP_DOWN"} => \A G : Covered(Commands(b, c), G)
         /\ Covered(Commands(b, c), LightsOf(b))
         /\ c \notin {"RAMP_UP", "RAMP_DOWN"} => \A i \in LightsOf(b) : Stopped(Commands(b, c), 0, i)
<1> DEFINE q == Commands(b, c)
           l == LIGHTS_OF[b]
           n == Len(l)
<1>1. l \in Seq(LIGHTS) /\ n \in Nat /\ DOMAIN l = 1 .. n /\ \A k \in 1 .. n : l[k] \in LIGHTS
  BY LightNumbers, LenProperties, ElementOfSeq
<1>2. q = [k \in 1 .. n |-> [to |-> {l[k]}, cmd |-> c]]
  BY <1>1 DEF Commands
<1>3. LightsOf(b) = {l[k] : k \in 1 .. n}
  BY <1>1 DEF LightsOf, ToSet
<1> HIDE DEF q, l, n
<1>4. \A k \in 1 .. n : [to |-> {l[k]}, cmd |-> c] \in CommandSet
  BY <1>1 DEF CommandSet, Receivers
<1>5. q \in Seq(CommandSet) /\ Len(q) = n
  BY <1>1, <1>2, <1>4
<1>6. \A k \in 1 .. n : q[k].to = {l[k]} /\ q[k].cmd = c
  BY <1>2
<1>7. ASSUME NEW G, c \notin {"RAMP_UP", "RAMP_DOWN"} PROVE Covered(q, G)
  BY <1>5, <1>6, <1>7 DEF Covered, IsRamp
<1>8. Covered(q, LightsOf(b))
  BY <1>3, <1>5, <1>6 DEF Covered
<1>9. ASSUME c \notin {"RAMP_UP", "RAMP_DOWN"}, NEW i \in LightsOf(b) PROVE Stopped(q, 0, i)
  <2>1. PICK k \in 1 .. n : l[k] = i
    BY <1>3
  <2>2. i \in q[k].to /\ ~IsRamp(q[k]) /\ k \in 0 + 1 .. Len(q)
    BY <1>5, <1>6, <1>9, <2>1 DEF IsRamp
  <2>3. QED
    BY <2>2 DEF Stopped
<1>10. QED
  BY <1>5, <1>7, <1>8, <1>9 DEF q

\* Faults are counted.
LEMMA FaultIs ==
  ASSUME LightTypes, NEW n \in {0, 1}, Fault(n)
  PROVE  faults' \in Nat /\ (faults' = 0 => faults = 0 /\ n = 0)
BY LightNumbers DEF LightTypes, Fault

\* A button has a light on or has none.
LEMMA AnyOnIsBoolean == \A b : AnyOn(b) \in BOOLEAN
BY Zenon DEF AnyOn

\* At the start nothing is on its way and no light ramps.
LEMMA LightStart == LightInit => LightInv
<1> SUFFICES ASSUME LightInit PROVE LightInv
  OBVIOUS
<1>1. <<>> \in Seq(CommandSet) /\ Len(<<>>) = 0 /\ <<>> \o <<>> = <<>>
  BY EmptySeq
<1>2. LightTypes
  <2>1. NoConfirm \in Confirmations
    BY LightNumbers DEF NoConfirm, Confirmations
  <2>2. QED
    BY <1>1, <2>1, LightNumbers DEF LightInit, LightTypes
<1>3. Way = <<>>
  BY <1>1 DEF LightInit, Way
<1>4. Covered(Way, Finger)
  BY <1>1, <1>3 DEF Covered
<1>5. RampsEnd
  BY <1>4 DEF LightInit, RampsEnd
<1>6. QED
  BY <1>2, <1>5 DEF LightInv

\* A tap sends no ramp.
LEMMA TapStep ==
  ASSUME LightInv, NEW b \in BUTTONS, Tap(b)
  PROVE  LightInv'
<1> DEFINE c == IF AnyOn(b) THEN "OFF" ELSE "ON_DELAY"
           cmds == Commands(b, c)
<1>1. LightTypes
  BY DEF LightInv
<1>2. /\ Enqueue(cmds) /\ faults' = faults + Dropped(cmds) /\ remote' = remote
      /\ confirm' = [confirm EXCEPT ![b] = Confirming(c, ~AnyOn(b))]
      /\ UNCHANGED <<ramping, dead, ramps, sweep>>
  BY DEF Tap, Asked, coach
<1>3. /\ cmds \in Seq(CommandSet) /\ \A G : Covered(cmds, G)
  BY CommandsAre
<1>4. c \in {"ON_DELAY", "OFF"}
  OBVIOUS
<1> HIDE DEF cmds, c
<1>5. /\ txq' \in Seq(CommandSet) /\ Len(txq') <= TX_QUEUE_LEN
      /\ air' \in Seq(CommandSet) /\ (~remote' => air' = <<>>)
      /\ Dropped(cmds) \in {0, 1}
      /\ Dropped(cmds) = 0 => Way' = Way \o cmds
  BY <1>1, <1>2, <1>3, EnqueueStep
<1>6. confirm' \in [BUTTONS -> Confirmations]
  <2>1. (~AnyOn(b)) \in BOOLEAN
    BY AnyOnIsBoolean, Zenon
  <2>2. CONFIRM_MAX_RETRIES \in 0 .. CONFIRM_MAX_RETRIES
    BY LightNumbers
  <2>3. Confirming(c, ~AnyOn(b)) \in Confirmations
    BY <1>4, <2>1, <2>2, Zenon DEF Confirming, Confirmations
  <2>4. QED
    BY <1>1, <1>2, <2>3 DEF LightTypes
<1>7. faults' \in Nat /\ (faults' = 0 => faults = 0 /\ Dropped(cmds) = 0)
  BY <1>1, <1>2, <1>5 DEF LightTypes
<1>8. LightTypes'
  BY <1>1, <1>2, <1>5, <1>6, <1>7 DEF LightTypes
<1>9. RampsEnd'
  BY <1>2, <1>3, <1>5, <1>7, SendsStep DEF Finger
<1>10. QED
  BY <1>8, <1>9 DEF LightInv

\* Nor does the one resend.
LEMMA ConfirmStep ==
  ASSUME LightInv, NEW b \in BUTTONS, ConfirmTimeout(b)
  PROVE  LightInv'
<1>1. LightTypes
  BY DEF LightInv
<1>2. UNCHANGED <<remote, dead, ramping, ramps, sweep>>
  BY DEF ConfirmTimeout, coach
<1>3. CASE Resend(b)
  <2> DEFINE cmds == Commands(b, confirm[b].cmd)
  <2>1. Enqueue(cmds) /\ Fault(Dropped(cmds)) /\ confirm' = [confirm EXCEPT ![b].retries = @ - 1]
    BY <1>3 DEF Resend, Issue
  <2>2. cmds \in Seq(CommandSet) /\ \A G : Covered(cmds, G)
    <3>1. confirm[b].cmd \in {"ON_DELAY", "OFF"}
      BY <1>1 DEF LightTypes, Confirmations
    <3>2. QED
      BY <3>1, CommandsAre
  <2> HIDE DEF cmds
  <2>3. /\ txq' \in Seq(CommandSet) /\ Len(txq') <= TX_QUEUE_LEN
        /\ air' \in Seq(CommandSet) /\ (~remote' => air' = <<>>)
        /\ Dropped(cmds) \in {0, 1}
        /\ Dropped(cmds) = 0 => Way' = Way \o cmds
    BY <1>1, <1>2, <2>1, <2>2, EnqueueStep
  <2>4. faults' \in Nat /\ (faults' = 0 => faults = 0 /\ Dropped(cmds) = 0)
    BY <1>1, <2>1, <2>3, FaultIs
  <2>5. confirm' \in [BUTTONS -> Confirmations]
    <3>1. confirm[b] \in Confirmations /\ confirm[b].retries > 0
      BY <1>1, <1>3 DEF LightTypes, Resend
    <3>2. [confirm[b] EXCEPT !.retries = @ - 1] \in Confirmations
      BY <3>1, LightNumbers DEF Confirmations
    <3>3. QED
      BY <1>1, <2>1, <3>2 DEF LightTypes
  <2>6. LightTypes'
    BY <1>1, <1>2, <2>3, <2>4, <2>5 DEF LightTypes
  <2>7. RampsEnd'
    BY <1>2, <2>2, <2>3, <2>4, SendsStep DEF Finger
  <2>8. QED
    BY <2>6, <2>7 DEF LightInv
<1>4. CASE StopConfirming(b)
  <2>1. confirm' = [confirm EXCEPT ![b].armed = FALSE] /\ UNCHANGED <<air, txq, faults>>
    BY <1>4 DEF StopConfirming
  <2>2. confirm' \in [BUTTONS -> Confirmations]
    <3>1. confirm[b] \in Confirmations
      BY <1>1 DEF LightTypes
    <3>2. [confirm[b] EXCEPT !.armed = FALSE] \in Confirmations
      BY <3>1 DEF Confirmations
    <3>3. QED
      BY <1>1, <2>1, <3>2 DEF LightTypes
  <2>3. LightTypes'
    BY <1>1, <1>2, <2>1, <2>2 DEF LightTypes
  <2>4. RampsEnd'
    BY <1>2, <2>1, StillStep DEF Way
  <2>5. QED
    BY <2>3, <2>4 DEF LightInv
<1>5. QED
  BY <1>3, <1>4 DEF ConfirmTimeout

\* A finger that is held sends ramps for its own lights alone.
LEMMA HoldStep ==
  ASSUME LightInv, NEW b \in DIMMERS, Hold(b) \/ (HoldRepeat /\ ramping = b)
  PROVE  LightInv'
<1>1. LightTypes /\ b \in BUTTONS /\ b # "none"
  BY LightNumbers DEF LightInv
<1>2. PICK c \in {"RAMP_UP", "RAMP_DOWN"} :
        /\ Enqueue(Commands(b, c)) /\ ramping' = b
        /\ faults' = faults + Dropped(Commands(b, c))
  <2>1. CASE Hold(b)
    <3>1. Ramp(b, rampUp'[b]) = Commands(b, IF rampUp'[b] THEN "RAMP_UP" ELSE "RAMP_DOWN")
      BY DEF Ramp
    <3>2. QED
      BY <2>1, <3>1 DEF Hold, Asked
  <2>2. CASE HoldRepeat /\ ramping = b
    <3>1. Ramp(b, rampUp[b]) = Commands(b, IF rampUp[b] THEN "RAMP_UP" ELSE "RAMP_DOWN")
      BY DEF Ramp
    <3>2. faults \in Nat
      BY <1>1 DEF LightTypes
    <3>3. QED
      BY <2>2, <3>1, <3>2 DEF HoldRepeat, widgets
  <2>3. QED
    BY <2>1, <2>2
<1>3. UNCHANGED <<remote, dead, ramps, confirm, sweep>> /\ ramping \in {"none", b}
  BY DEF Hold, HoldRepeat, Asked, coach, widgets
<1> DEFINE cmds == Commands(b, c)
<1>4. cmds \in Seq(CommandSet) /\ Covered(cmds, LightsOf(b))
  BY <1>1, CommandsAre
<1> HIDE DEF cmds
<1>5. /\ txq' \in Seq(CommandSet) /\ Len(txq') <= TX_QUEUE_LEN
      /\ air' \in Seq(CommandSet) /\ (~remote' => air' = <<>>)
      /\ Dropped(cmds) \in {0, 1}
      /\ Dropped(cmds) = 0 => Way' = Way \o cmds
  BY <1>1, <1>2, <1>3, <1>4, EnqueueStep DEF cmds
<1>6. faults' \in Nat /\ (faults' = 0 => faults = 0 /\ Dropped(cmds) = 0)
  BY <1>1, <1>2, <1>5 DEF LightTypes, cmds
<1>7. Finger' = LightsOf(b) /\ Finger \subseteq LightsOf(b)
  BY <1>1, <1>2, <1>3 DEF Finger
<1>8. LightTypes'
  BY <1>1, <1>2, <1>3, <1>5, <1>6 DEF LightTypes
<1>9. RampsEnd'
  BY <1>3, <1>4, <1>5, <1>6, <1>7, SendsStep
<1>10. QED
  BY <1>8, <1>9 DEF LightInv

\* The STOPs of a finger that is lifted come after all it sent.
LEMMA ReleaseStep ==
  ASSUME LightInv, Release
  PROVE  LightInv'
<1>1. LightTypes /\ ramping \in BUTTONS
  BY LightNumbers DEF LightInv, LightTypes, Release
<1> DEFINE cmds == Commands(ramping, "STOP")
<1>2. /\ Enqueue(cmds) /\ Fault(Dropped(cmds)) /\ ramping' = "none"
      /\ UNCHANGED <<remote, dead, ramps, confirm, sweep>>
  BY DEF Release, Issue, coach
<1>3. /\ cmds \in Seq(CommandSet) /\ \A G : Covered(cmds, G)
      /\ \A i \in LightsOf(ramping) : Stopped(cmds, 0, i)
  BY <1>1, CommandsAre
<1> HIDE DEF cmds
<1>4. /\ txq' \in Seq(CommandSet) /\ Len(txq') <= TX_QUEUE_LEN
      /\ air' \in Seq(CommandSet) /\ (~remote' => air' = <<>>)
      /\ Dropped(cmds) \in {0, 1}
      /\ Dropped(cmds) = 0 => Way' = Way \o cmds
  BY <1>1, <1>2, <1>3, EnqueueStep
<1>5. faults' \in Nat /\ (faults' = 0 => faults = 0 /\ Dropped(cmds) = 0)
  BY <1>1, <1>2, <1>4, FaultIs
<1>6. Finger = LightsOf(ramping)
  BY <1>1, LightNumbers DEF Finger
<1>7. LightTypes'
  BY <1>1, <1>2, <1>4, <1>5 DEF LightTypes
<1>8. RampsEnd'
  BY <1>2, <1>3, <1>4, <1>5, <1>6, SendsStep
<1>9. QED
  BY <1>7, <1>8 DEF LightInv

\* Nor does a master, which asks of all groups at once.
LEMMA MasterStep ==
  ASSUME LightInv, MasterTap
  PROVE  LightInv'
<1> DEFINE c == IF AnyLightOn THEN "MEMORY_OFF" ELSE "SET_LEVEL"
           cmds == [k \in DOMAIN GROUPS |-> [to |-> GROUPS[k], cmd |-> c]]
<1>1. LightTypes
  BY DEF LightInv
<1>2. /\ Enqueue(cmds) /\ faults' = faults + Dropped(cmds)
      /\ UNCHANGED <<remote, dead, ramps, confirm, sweep, ramping>>
  BY DEF MasterTap, Asked, coach, widgets
<1>3. cmds \in Seq(CommandSet) /\ \A G : Covered(cmds, G)
  <2> DEFINE n == Len(GROUPS)
  <2>1. n \in Nat /\ DOMAIN GROUPS = 1 .. n /\ \A k \in 1 .. n : GROUPS[k] \in SUBSET LIGHTS
    BY LightNumbers, LenProperties, ElementOfSeq
  <2>2. c \in {"MEMORY_OFF", "SET_LEVEL"}
    OBVIOUS
  <2> HIDE DEF n, c
  <2>3. \A k \in 1 .. n : [to |-> GROUPS[k], cmd |-> c] \in CommandSet
    BY <2>1, <2>2 DEF CommandSet, Receivers
  <2>4. cmds \in Seq(CommandSet) /\ Len(cmds) = n
    BY <2>1, <2>3
  <2>5. \A k \in 1 .. n : cmds[k].cmd = c
    BY <2>1
  <2>6. \A k \in 1 .. n : ~IsRamp(cmds[k])
    BY <2>2, <2>5 DEF IsRamp
  <2>7. QED
    BY <2>4, <2>6 DEF Covered
<1> HIDE DEF cmds
<1>4. /\ txq' \in Seq(CommandSet) /\ Len(txq') <= TX_QUEUE_LEN
      /\ air' \in Seq(CommandSet) /\ (~remote' => air' = <<>>)
      /\ Dropped(cmds) \in {0, 1}
      /\ Dropped(cmds) = 0 => Way' = Way \o cmds
  BY <1>1, <1>2, <1>3, EnqueueStep
<1>5. faults' \in Nat /\ (faults' = 0 => faults = 0 /\ Dropped(cmds) = 0)
  BY <1>1, <1>2, <1>4 DEF LightTypes
<1>6. LightTypes'
  BY <1>1, <1>2, <1>4, <1>5 DEF LightTypes
<1>7. RampsEnd'
  BY <1>2, <1>3, <1>4, <1>5, SendsStep DEF Finger
<1>8. QED
  BY <1>6, <1>7 DEF LightInv

\* Nor does the sweep.
LEMMA SweepSteps ==
  ASSUME LightInv, SweepTap \/ SweepStep
  PROVE  LightInv'
<1>1. LightTypes /\ UNCHANGED <<remote, dead, ramps, confirm, ramping>>
  BY DEF LightInv, SweepTap, SweepStep, Asked, coach, widgets
<1>2. PICK cmds \in Seq(CommandSet) :
        /\ \A G : Covered(cmds, G)
        /\ (Enqueue(cmds) /\ (faults' = faults + Dropped(cmds) \/ Fault(Dropped(cmds))))
             \/ UNCHANGED <<air, txq, faults>>
  <2>1. <<>> \in Seq(CommandSet) /\ \A G : Covered(<<>>, G)
    BY EmptySeq DEF Covered
  <2>2. CASE SweepTap
    <3>1. Enqueue(<<>>) /\ faults' = faults + Dropped(<<>>)
      BY <2>2 DEF SweepTap, Asked
    <3>2. QED
      BY <2>1, <3>1
  <2>3. CASE UNCHANGED <<air, txq, faults>>
    BY <2>1, <2>3
  <2> DEFINE c == [to |-> {SweepList[sweep.idx]}, cmd |-> IF sweep.on THEN "ON_DELAY" ELSE "OFF"]
  <2>4. CASE Issue(<<c>>)
    <3>1. sweep.idx \in Nat
      BY <1>1 DEF LightTypes
    <3>2. c \in CommandSet /\ ~IsRamp(c)
      BY <3>1 DEF CommandSet, Receivers, IsRamp
    <3> HIDE DEF c
    <3>3. <<c>> \in Seq(CommandSet) /\ Len(<<c>>) = 1 /\ <<c>>[1] = c
      BY <3>2
    <3>4. \A G : Covered(<<c>>, G)
      BY <3>2, <3>3 DEF Covered
    <3>5. QED
      BY <2>4, <3>3, <3>4 DEF Issue
  <2>5. SweepStep => Issue(<<c>>) \/ UNCHANGED <<air, txq, faults>>
    BY DEF SweepStep
  <2> HIDE DEF c
  <2>6. QED
    BY <2>2, <2>3, <2>4, <2>5
<1>3. sweep' \in [armed : BOOLEAN, idx : Nat, on : BOOLEAN]
  <2>1. sweep \in [armed : BOOLEAN, idx : Nat, on : BOOLEAN]
    BY <1>1 DEF LightTypes
  <2>2. CASE SweepTap
    <3>1. (~AnyLightOn) \in BOOLEAN
      BY Zenon DEF AnyLightOn
    <3>2. [armed |-> TRUE, idx |-> 1, on |-> ~AnyLightOn] \in [armed : BOOLEAN, idx : Nat, on : BOOLEAN]
      <4> DEFINE a == ~AnyLightOn
      <4> HIDE DEF a
      <4>1. a \in BOOLEAN
        BY <3>1 DEF a
      <4>2. QED
        BY <4>1 DEF a
    <3>3. QED
      BY <2>2, <3>2 DEF SweepTap
  <2>3. CASE SweepStep
    <3>1. [sweep EXCEPT !.armed = FALSE] \in [armed : BOOLEAN, idx : Nat, on : BOOLEAN]
      BY <2>1
    <3>2. [sweep EXCEPT !.idx = @ + 1] \in [armed : BOOLEAN, idx : Nat, on : BOOLEAN]
      BY <2>1
    <3>3. QED
      BY <2>3, <3>1, <3>2 DEF SweepStep
  <2>4. QED
    BY <2>2, <2>3
<1>4. CASE UNCHANGED <<air, txq, faults>>
  <2>1. LightTypes'
    BY <1>1, <1>3, <1>4 DEF LightTypes
  <2>2. RampsEnd'
    BY <1>1, <1>4, StillStep DEF Way
  <2>3. QED
    BY <2>1, <2>2 DEF LightInv
<1>5. CASE Enqueue(cmds) /\ (faults' = faults + Dropped(cmds) \/ Fault(Dropped(cmds)))
  <2>1. /\ txq' \in Seq(CommandSet) /\ Len(txq') <= TX_QUEUE_LEN
        /\ air' \in Seq(CommandSet) /\ (~remote' => air' = <<>>)
        /\ Dropped(cmds) \in {0, 1}
        /\ Dropped(cmds) = 0 => Way' = Way \o cmds
    BY <1>1, <1>2, <1>5, EnqueueStep
  <2>2. faults' \in Nat /\ (faults' = 0 => faults = 0 /\ Dropped(cmds) = 0)
    <3>1. CASE faults' = faults + Dropped(cmds)
      BY <1>1, <2>1, <3>1 DEF LightTypes
    <3>2. CASE Fault(Dropped(cmds))
      BY <1>1, <2>1, <3>2, FaultIs
    <3>3. QED
      BY <1>5, <3>1, <3>2
  <2>3. LightTypes'
    BY <1>1, <1>3, <2>1, <2>2 DEF LightTypes
  <2>4. RampsEnd'
    BY <1>1, <1>2, <2>1, <2>2, SendsStep DEF Finger
  <2>5. QED
    BY <2>3, <2>4 DEF LightInv
<1>6. QED
  BY <1>2, <1>4, <1>5

\* The queue and the air as one sequence: what the bridge receives moves within it.
LEMMA QueueFacts ==
  ASSUME LightTypes
  PROVE  /\ txq \in Seq(CommandSet) /\ air \in Seq(CommandSet) /\ Way \in Seq(CommandSet)
         /\ txq # <<>> => /\ Tail(txq) \in Seq(CommandSet) /\ Len(Tail(txq)) <= TX_QUEUE_LEN
                          /\ Way # <<>> /\ Head(Way) = Head(txq) /\ Tail(Way) = Tail(txq) \o air
         /\ air # <<>> => Head(air) \in CommandSet /\ Tail(air) \in Seq(CommandSet)
         /\ air # <<>> => Append(txq, Head(air)) \o Tail(air) = Way
<1>1. txq \in Seq(CommandSet) /\ air \in Seq(CommandSet) /\ Len(txq) <= TX_QUEUE_LEN /\ TX_QUEUE_LEN \in Nat
  BY LightNumbers DEF LightTypes
<1>2. Way \in Seq(CommandSet) /\ Len(Way) = Len(txq) + Len(air)
  BY <1>1, ConcatProperties DEF Way
<1>3. ASSUME txq # <<>>
      PROVE  /\ Tail(txq) \in Seq(CommandSet) /\ Len(Tail(txq)) <= TX_QUEUE_LEN
             /\ Way # <<>> /\ Head(Way) = Head(txq) /\ Tail(Way) = Tail(txq) \o air
  <2>1. /\ Tail(txq) \in Seq(CommandSet) /\ Len(Tail(txq)) = Len(txq) - 1
        /\ Len(txq) \in Nat /\ Len(txq) >= 1 /\ Head(txq) = txq[1] /\ Len(air) \in Nat
        /\ \A k \in 1 .. Len(txq) - 1 : Tail(txq)[k] = txq[k + 1]
    BY <1>1, <1>3, HeadTailProperties, LenProperties, EmptySeq
  <2>2. /\ \A k \in 1 .. Len(txq) : Way[k] = txq[k]
        /\ \A k \in 1 .. Len(air) : Way[Len(txq) + k] = air[k]
    BY <1>1, ConcatProperties DEF Way
  <2>3. Way # <<>> /\ Head(Way) = Way[1]
    BY <1>2, <2>1, EmptySeq, HeadTailProperties
  <2> DEFINE t == Tail(txq)
             u == Tail(Way)
             w == Tail(txq) \o air
             n == Len(txq)
             m == Len(air)
  <2>4. /\ u \in Seq(CommandSet) /\ Len(u) = n - 1 + m
        /\ \A k \in 1 .. n + m - 1 : u[k] = Way[k + 1]
    BY <1>2, <2>1, <2>3, HeadTailProperties
  <2>5. /\ w \in Seq(CommandSet) /\ Len(w) = n - 1 + m
        /\ \A k \in 1 .. n - 1 : w[k] = t[k]
        /\ \A k \in 1 .. m : w[n - 1 + k] = air[k]
    BY <1>1, <2>1, ConcatProperties
  <2> HIDE DEF t, u, w, n, m
  <2>6. ASSUME NEW k \in 1 .. n - 1 + m PROVE u[k] = w[k]
    <3>0. n \in Nat /\ m \in Nat /\ n >= 1
      BY <2>1 DEF n, m
    <3>1. u[k] = Way[k + 1]
      BY <2>4, <3>0
    <3>2. CASE k <= n - 1
      <4>1. w[k] = t[k] /\ t[k] = txq[k + 1] /\ Way[k + 1] = txq[k + 1]
        BY <2>1, <2>2, <2>5, <3>0, <3>2 DEF t, n
      <4>2. QED
        BY <3>1, <4>1
    <3>3. CASE k > n - 1
      <4> DEFINE d == k - (n - 1)
      <4>1. d \in 1 .. m /\ n - 1 + d = k /\ n + d = k + 1
        BY <3>0, <3>3
      <4> HIDE DEF d
      <4>2. w[k] = air[d]
        BY <2>5, <4>1
      <4>3. Way[k + 1] = air[d]
        BY <2>2, <4>1 DEF n, m
      <4>4. QED
        BY <3>1, <4>2, <4>3
    <3>4. QED
      BY <3>0, <3>2, <3>3
  <2>7. u = w
    BY <2>4, <2>5, <2>6, SeqEqual
  <2>8. QED
    BY <1>1, <2>1, <2>2, <2>3, <2>7 DEF u, w
<1>4. ASSUME air # <<>> PROVE /\ Head(air) \in CommandSet /\ Tail(air) \in Seq(CommandSet)
                             /\ Append(txq, Head(air)) \o Tail(air) = Way
  <2> DEFINE h == Head(air)
             t == Tail(air)
  <2>1. h \in CommandSet /\ t \in Seq(CommandSet) /\ air = <<h>> \o t
    BY <1>1, <1>4, HeadTailProperties, ConcatSimplifications
  <2> HIDE DEF h, t
  <2>2. <<h>> \in Seq(CommandSet)
    BY <2>1
  <2>3. Append(txq, h) = txq \o <<h>>
    BY <1>1, <2>1, AppendIsConcat
  <2>4. (txq \o <<h>>) \o t = txq \o (<<h>> \o t)
    BY <1>1, <2>1, <2>2, ConcatAssociative
  <2>5. QED
    BY <2>1, <2>3, <2>4 DEF Way, h, t
<1>5. QED
  BY <1>1, <1>2, <1>3, <1>4

\* Commands that leave the queues for good, and those that go from the air to the queue.
LEMMA QueueStep ==
  ASSUME LightInv, BridgeReceive \/ AirLoss \/ Transmit \/ TransmitFails
  PROVE  LightInv'
<1>1. LightTypes /\ UNCHANGED <<remote, dead, confirm, sweep, ramping>>
  BY DEF LightInv, BridgeReceive, AirLoss, Transmit, TransmitFails, widgets
<1>2. /\ txq \in Seq(CommandSet) /\ Len(txq) <= TX_QUEUE_LEN /\ Len(txq) \in Nat
      /\ air \in Seq(CommandSet) /\ (~remote => air = <<>>) /\ TX_QUEUE_LEN \in Nat
      /\ faults \in Nat /\ ramps \in [LIGHTS -> {"RAMP_UP", "RAMP_DOWN", "STOP"}]
  BY <1>1, LightNumbers, LenProperties DEF LightTypes
<1>3. CASE BridgeReceive
  <2> DEFINE h == Head(air)
             q == Append(txq, h)
             n == IF Len(txq) = TX_QUEUE_LEN THEN 1 ELSE 0
  <2>1. /\ air # <<>> /\ air' = Tail(air) /\ txq' = Fit(q) /\ Fault(n)
        /\ ramps' = ramps /\ remote
    BY <1>2, <1>3 DEF BridgeReceive, coach
  <2>2. h \in CommandSet /\ Tail(air) \in Seq(CommandSet) /\ q \o Tail(air) = Way
    BY <1>1, <2>1, QueueFacts
  <2> HIDE DEF h
  <2>3. q \in Seq(CommandSet) /\ Len(q) = Len(txq) + 1 /\ \A k \in 1 .. Len(txq) : q[k] = txq[k]
    BY <1>2, <2>2, AppendProperties
  <2>4. faults' \in Nat /\ (faults' = 0 => faults = 0 /\ n = 0)
    BY <1>1, <2>1, FaultIs
  <2> HIDE DEF q
  <2>5. CASE Len(txq) = TX_QUEUE_LEN
    <3>1. n = 1 /\ faults' # 0
      BY <2>4, <2>5
    <3>2. txq' = SubSeq(q, 1, Len(txq))
      BY <1>2, <2>1, <2>3, <2>5 DEF Fit
    <3>3. \A k \in 1 .. Len(txq) : q[k] \in CommandSet
      BY <1>2, <2>3, ElementOfSeq
    <3>4. /\ txq' \in Seq(CommandSet)
          /\ Len(txq') = IF 1 <= Len(txq) THEN Len(txq) - 1 + 1 ELSE 0
      BY <1>2, <3>2, <3>3, SubSeqProperties
    <3> DEFINE l == Len(txq')
    <3> HIDE DEF l
    <3>5. l = IF 1 <= Len(txq) THEN Len(txq) - 1 + 1 ELSE 0
      BY <3>4 DEF l
    <3>6. l <= TX_QUEUE_LEN
      BY <1>2, <3>5
    <3>7. LightTypes'
      BY <1>1, <2>1, <2>2, <2>4, <3>4, <3>6 DEF LightTypes, l
    <3>8. QED
      BY <3>1, <3>7 DEF LightInv, RampsEnd
  <2>6. CASE Len(txq) # TX_QUEUE_LEN
    <3>1. Len(q) <= TX_QUEUE_LEN /\ ~(Len(q) > TX_QUEUE_LEN)
      BY <1>2, <2>3, <2>6
    <3>2. txq' = q
      BY <2>1, <3>1 DEF Fit
    <3>3. LightTypes'
      BY <1>1, <2>1, <2>2, <2>3, <2>4, <3>1, <3>2 DEF LightTypes
    <3>4. Way' = Way
      BY <2>1, <2>2, <3>2 DEF Way
    <3>5. RampsEnd'
      BY <1>1, <2>1, <2>4, <3>4, StillStep
    <3>6. QED
      BY <3>3, <3>5 DEF LightInv
  <2>7. QED
    BY <2>5, <2>6
<1>4. CASE AirLoss \/ TransmitFails
  <2>1. Fault(1) /\ ramps' = ramps
    BY <1>4 DEF AirLoss, TransmitFails, coach
  <2>2. faults' \in Nat /\ faults' # 0
    BY <1>1, <2>1, FaultIs
  <2>3. /\ air' \in Seq(CommandSet) /\ (~remote => air' = <<>>)
        /\ txq' \in Seq(CommandSet) /\ Len(txq') <= TX_QUEUE_LEN
    BY <1>1, <1>2, <1>4, QueueFacts DEF AirLoss, TransmitFails
  <2>4. LightTypes'
    BY <1>1, <2>1, <2>2, <2>3 DEF LightTypes
  <2>5. QED
    BY <2>2, <2>4 DEF LightInv, RampsEnd
<1>5. CASE Transmit
  <2> DEFINE c == Head(txq)
  <2>1. /\ txq # <<>> /\ txq' = Tail(txq) /\ air' = air /\ faults' = faults
        /\ IF dead THEN UNCHANGED coach ELSE Execute(c)
    BY <1>5 DEF Transmit
  <2>2. /\ Tail(txq) \in Seq(CommandSet) /\ Len(Tail(txq)) <= TX_QUEUE_LEN
        /\ Way \in Seq(CommandSet) /\ Way # <<>> /\ c = Head(Way) /\ Way' = Tail(Way)
    BY <1>1, <2>1, QueueFacts DEF Way
  <2> HIDE DEF c
  <2>3. \A i \in LIGHTS : ramps'[i] = IF dead \/ i \notin c.to THEN ramps[i]
                                    ELSE IF IsRamp(c) THEN c.cmd ELSE "STOP"
    BY <2>1 DEF coach, Execute, IsRamp
  <2>4. ramps' \in [LIGHTS -> {"RAMP_UP", "RAMP_DOWN", "STOP"}]
    <3>1. CASE dead
      BY <1>2, <2>1, <3>1 DEF coach
    <3>2. CASE ~dead
      BY <1>2, <2>1, <3>2 DEF Execute
    <3>3. QED
      BY <3>1, <3>2
  <2>5. dead => \A i \in LIGHTS : ramps'[i] = "STOP"
    BY <1>1, <2>3 DEF LightTypes
  <2>6. LightTypes'
    BY <1>1, <1>2, <2>1, <2>2, <2>4, <2>5 DEF LightTypes
  <2>7. ASSUME faults = 0
        PROVE  /\ Covered(Way', Finger')
               /\ \A i \in LIGHTS : ramps'[i] # "STOP" => i \in Finger' \/ Stopped(Way', 0, i)
    <3>1. /\ Covered(Way, Finger)
          /\ \A i \in LIGHTS : ramps[i] # "STOP" => i \in Finger \/ Stopped(Way, 0, i)
      BY <2>7 DEF LightInv, RampsEnd
    <3>2. Finger' = Finger
      BY <1>1 DEF Finger
    <3>3. /\ Covered(Way', Finger)
          /\ IsRamp(c) => \A i \in c.to : i \in Finger \/ Stopped(Way', 0, i)
      BY <2>2, <3>1, CoveredTail
    <3>4. ASSUME NEW i \in LIGHTS, ramps'[i] # "STOP"
          PROVE  i \in Finger \/ Stopped(Way', 0, i)
      <4>1. Stopped(Way, 0, i) <=> (i \in c.to /\ ~IsRamp(c)) \/ Stopped(Way', 0, i)
        BY <2>2, StoppedTail
      <4>2. ~dead
        BY <2>5, <3>4
      <4>3. CASE i \in c.to
        BY <2>3, <3>3, <3>4, <4>2, <4>3
      <4>4. CASE i \notin c.to
        BY <2>3, <3>1, <3>4, <4>1, <4>4
      <4>5. QED
        BY <4>3, <4>4
    <3>5. QED
      BY <3>2, <3>3, <3>4
  <2>8. RampsEnd'
    BY <2>1, <2>7 DEF RampsEnd
  <2>9. QED
    BY <2>6, <2>8 DEF LightInv
<1>6. QED
  BY <1>3, <1>4, <1>5

\* The coach: a status, a switch on the wall, the end of a ramp down.
LEMMA CoachStep ==
  ASSUME LightInv, NEW i \in LIGHTS, Status(i) \/ WallSwitch(i) \/ RampedOff(i)
  PROVE  LightInv'
<1>1. LightTypes /\ UNCHANGED <<remote, dead, ramping, sweep, air, txq, faults>>
  BY DEF LightInv, Status, WallSwitch, RampedOff, widgets
<1>2. /\ ramps \in [LIGHTS -> {"RAMP_UP", "RAMP_DOWN", "STOP"}]
      /\ ramps' = ramps \/ ramps' = [ramps EXCEPT ![i] = "STOP"]
  BY <1>1 DEF LightTypes, Status, WallSwitch, RampedOff, coach
<1>3. ramps' \in [LIGHTS -> {"RAMP_UP", "RAMP_DOWN", "STOP"}]
  BY <1>2
<1>4. \A k \in LIGHTS : ramps'[k] # "STOP" => ramps'[k] = ramps[k]
  BY <1>2
<1>5. confirm' \in [BUTTONS -> Confirmations]
  <2>1. confirm \in [BUTTONS -> Confirmations]
    BY <1>1 DEF LightTypes
  <2>2. CASE Status(i)
    <3> DEFINE On(b) == confirm[b].armed /\ ~(i \in LightsOf(b) /\
                          (\E k \in LightsOf(b) : shown'[k]) = confirm[b].target)
    <3>1. confirm' = [b \in BUTTONS |-> [confirm[b] EXCEPT !.armed = On(b)]]
      BY <2>2 DEF Status
    <3>2. \A b \in BUTTONS : On(b) \in BOOLEAN
      BY Zenon
    <3> HIDE DEF On
    <3>3. \A b \in BUTTONS : [confirm[b] EXCEPT !.armed = On(b)] \in Confirmations
      BY <2>1, <3>2 DEF Confirmations
    <3>4. QED
      BY <3>1, <3>3
  <2>3. CASE WallSwitch(i) \/ RampedOff(i)
    BY <2>1, <2>3 DEF WallSwitch, RampedOff, widgets
  <2>4. QED
    BY <2>2, <2>3
<1>6. LightTypes'
  BY <1>1, <1>3, <1>4, <1>5 DEF LightTypes
<1>7. Way' = Way /\ Finger' = Finger
  BY <1>1 DEF Way, Finger
<1>8. RampsEnd'
  BY <1>1, <1>4, <1>7 DEF LightInv, RampsEnd
<1>9. QED
  BY <1>6, <1>8 DEF LightInv

\* Every step keeps the invariant.
LEMMA LightStep ==
  ASSUME LightInv, [LightNext]_lightVars
  PROVE  LightInv'
<1>1. ASSUME NEW b \in BUTTONS, Tap(b) \/ ConfirmTimeout(b) PROVE LightInv'
  BY <1>1, TapStep, ConfirmStep
<1>2. ASSUME NEW b \in DIMMERS, Hold(b) PROVE LightInv'
  BY <1>2, HoldStep
<1>3. CASE HoldRepeat
  <2>1. ramping \in DIMMERS
    BY <1>3 DEF LightInv, LightTypes, HoldRepeat
  <2>2. QED
    BY <1>3, <2>1, HoldStep
<1>4. CASE Release
  BY <1>4, ReleaseStep
<1>5. CASE MasterTap
  BY <1>5, MasterStep
<1>6. CASE SweepTap \/ SweepStep
  BY <1>6, SweepSteps
<1>7. CASE BridgeReceive \/ AirLoss \/ Transmit \/ TransmitFails
  BY <1>7, QueueStep
<1>8. ASSUME NEW i \in LIGHTS, Status(i) \/ WallSwitch(i) \/ RampedOff(i) PROVE LightInv'
  BY <1>8, CoachStep
<1>9. CASE UNCHANGED lightVars
  BY <1>9 DEF lightVars, LightInv, LightTypes, RampsEnd, Way, Finger, coach, widgets
<1>10. QED
  BY <1>1, <1>2, <1>3, <1>4, <1>5, <1>6, <1>7, <1>8, <1>9 DEF LightNext

\* Every ramp that is on its way is ended by a command behind it, or by the STOP of the finger that
\* is still held: STOPs are put behind all a finger sent, and neither the air nor the queue changes
\* their order (ui_dimmer_button.c:404-445, bridge_tx.c, twai_tasks.c).
THEOREM RampsKept == LightSpec => []RampStops
<1>1. LightInv => RampStops
  <2> SUFFICES ASSUME LightInv, ramping = "none", air = <<>>, txq = <<>>, faults = 0, NEW i \in LIGHTS
               PROVE  ramps[i] = "STOP"
    BY DEF RampStops
  <2>1. Finger = {}
    BY DEF Finger
  <2>2. Way = <<>> /\ Len(<<>>) = 0
    BY EmptySeq, ConcatProperties DEF Way
  <2>3. ~Stopped(Way, 0, i)
    BY <2>2 DEF Stopped
  <2>4. QED
    BY <2>1, <2>3 DEF LightInv, RampsEnd
<1>2. QED
  BY <1>1, LightStart, LightStep, PTL DEF LightSpec

\* The queue never overflows, a tap is sent again at most CONFIRM_MAX_RETRIES times and only as the ON
\* or OFF it was, and lights that nobody obeys for never ramp (twai_tasks.c, ui_dimmer_button.c:332-346).
THEOREM LightTypeCorrect == LightSpec => []LightTypes
<1>1. LightInv => LightTypes
  BY DEF LightInv
<1>2. QED
  BY <1>1, LightStart, LightStep, PTL DEF LightSpec

=============================================================================
