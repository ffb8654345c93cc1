----------------------------- MODULE Telemetry -----------------------------
(***************************************************************************)
(* Readings on their way from a device to the readout of a panel            *)
(* (proxy/main/proxy_main.c, main/main.c, main/ui/ui.c, jbd_bms_combine).   *)
(*                                                                          *)
(* A Bluetooth client keeps the last reading of its device.  The proxy task *)
(* looks at it once per interval and broadcasts it; a panel stores what it  *)
(* receives and repaints once per second, by its own idea of how old the    *)
(* stored reading may be.  Nothing is acknowledged, every frame may be      *)
(* lost, either end may restart.  The kinds of reading share no state: a    *)
(* behaviour follows one kind.  "local" is the thermostat on the panel that *)
(* holds its link, "hvac" the same thermostat on every other panel.         *)
(*                                                                          *)
(* The unit of time is the period of the producer: the proxy's pass of 10 s *)
(* and more, the second of the thermostat's pump.  The panel repaints every *)
(* second, so the readout is a function of what it has stored.              *)
(***************************************************************************)
EXTENDS Integers, Sequences, FiniteSets, FiniteSetsExt

CONSTANTS
  PACKS,          \* slots of the batteries with an address
  ZONES,          \* zones of the thermostat
  PACK_READINGS,  \* PACK_READINGS[d]: each <<soc_percent, full_capacity_ah>> d may report
  POLL,           \* FIREFLY_*_POLL_INTERVAL_MS
  HVAC_EVERY,     \* FIREFLY_HVAC_BROADCAST_INTERVAL_MS
  WD_WINDOW,      \* WD_STALE_WINDOW_MS
  SHORE_STALE     \* SHORE_POWER_STALE_MS

ASSUME TelemetryAssumption ==
  /\ IsFiniteSet(PACKS) /\ IsFiniteSet(ZONES)
  /\ PACK_READINGS \in [PACKS -> SUBSET ((0 .. 100) \X Nat)]
  /\ {POLL, HVAC_EVERY, WD_WINDOW, SHORE_STALE} \subseteq Nat \ {0}

VARIABLES
  kind,     \* what is followed
  source,   \* source[d]: the client's last reading of d and its age
  ticks,    \* battery_tick, solar_tick, or the pump's tick
  cache,    \* cache[i]: the panel's *_seen, *_online (or *_valid), age of *_last_ms
  cached,   \* cached[d]: the stored reading; <<>> before the first
  passed,   \* the producer has run in this unit of time
  calm,     \* the environment no longer fails
  since     \* for the properties: since[d][r] units ago d read r

telemetryVars == <<kind, source, ticks, cache, cached, passed, calm, since>>

Kinds == {"shore", "battery", "solar", "hvac", "local"}

Lines == {"L1", "L2"}

Devices == CASE kind = "shore" -> Lines
             [] kind = "battery" -> PACKS
             [] kind = "solar" -> {"controller"}
             [] OTHER -> ZONES

\* What a client may decode: what the pack reports, a temperature, a voltage.
Readings(d) == CASE kind = "battery" -> PACK_READINGS[d]
                 [] kind = "solar" -> {<<-1>>, <<1>>}
                 [] OTHER -> {<<1>>}

\* All zones come in one answer, lines and packs each in its own.
Answers == IF kind \in {"hvac", "local"} THEN {Devices} ELSE {{d} : d \in Devices}

\* The caches: one per battery, one for all lines or zones.
Items == IF kind = "battery" THEN PACKS ELSE {"all"}

ItemOf(d) == IF kind = "battery" THEN d ELSE "all"

\* How old a reading may get in the client before the client disowns it.
Window == IF kind = "shore" THEN WD_WINDOW ELSE 3 * POLL

\* Mutation of StaleAfter: the poll interval itself.
StaleAfterOne == IF kind = "shore" THEN SHORE_STALE ELSE POLL

\* How old a stored reading may get on a panel: *_STALE_MS.
StaleAfter == CASE kind = "shore" -> SHORE_STALE
                [] kind \in {"battery", "solar"} -> 3 * POLL
                [] OTHER -> 3 * HVAC_EVERY

\* The proxy broadcasts on every so many of its passes.
Every == POLL + 1

\* Longer than any reading should be on its way to the readout, and on it.
Bound == Window + StaleAfter + 1

NoReading == [have |-> FALSE, reading |-> <<>>, age |-> 0]

Unseen == [seen |-> FALSE, online |-> FALSE, age |-> 0]

TelemetryInit ==
  /\ kind \in Kinds
  /\ source = [d \in Devices |-> NoReading]
  /\ ticks = 0
  /\ cache = [i \in Items |-> Unseen]
  /\ cached = [d \in Devices |-> <<>>]
  /\ passed = FALSE
  /\ calm = FALSE
  /\ since = [d \in Devices |-> [r \in Readings(d) |-> Bound + 1]]

panelVars == <<cache, cached>>

-----------------------------------------------------------------------------
(* The clients. *)

\* A device answers, and the client stores the readings with the time.
Measure(answer) ==
  /\ \E r \in [answer -> UNION {Readings(d) : d \in answer}] :
       /\ \A d \in answer : r[d] \in Readings(d)
       /\ source' = [d \in Devices |-> IF d \in answer THEN [have |-> TRUE, reading |-> r[d], age |-> 0]
                                                        ELSE source[d]]
       /\ since' = [d \in Devices |-> IF d \in answer THEN [since[d] EXCEPT ![r[d]] = 0] ELSE since[d]]
  /\ UNCHANGED <<kind, ticks, panelVars, passed, calm>>

\* The shore and solar clients forget their readings with the link; the battery
\* and thermostat clients keep theirs.
LinkLost ==
  /\ ~calm /\ kind \in {"shore", "solar"}
  /\ source' = [d \in Devices |-> NoReading]
  /\ UNCHANGED <<kind, ticks, panelVars, passed, calm, since>>

\* get_reading, get_status and healthy: the reading, if it is young enough.
Available(d) == source[d].have /\ source[d].age < Window

-----------------------------------------------------------------------------
(* The producers.  A broadcast reaches the panel in whole frames, or not. *)

\* ui_on_*: only the cache, its flag and the time of arrival.
Stored(on) == [seen |-> TRUE, online |-> on, age |-> 0]

\* remote_telem_rx
Deliver(frames) ==
  \E got \in SUBSET frames :
    /\ calm => got = frames
    /\ cache' = [i \in Items |->
                   IF \E f \in got : f.item = i
                     THEN Stored(\E f \in got : f.item = i /\ f.online)
                     ELSE cache[i]]
    /\ cached' = [d \in Devices |->
                    IF \E f \in got : d \in DOMAIN f.readings
                      THEN (CHOOSE f \in got : d \in DOMAIN f.readings).readings[d]
                      ELSE cached[d]]

Frame(item, on, readings) == [item |-> item, online |-> on, readings |-> readings]

\* scale_u16: what is negative becomes 0.
ScaleU16(r) == [n \in DOMAIN r |-> IF r[n] < 0 THEN 0 ELSE r[n]]

\* scale_i16, and the temperature on the wire, keep the sign.
ScaleI16(r) == r

\* Mutation of SolarFields: temperatures are scaled like the other fields.
SolarFieldsUnsigned(r) == ScaleU16(r)

SolarFields(r) == ScaleI16(r)

Passed == /\ ~passed
          /\ passed' = TRUE
          /\ UNCHANGED <<kind, source, calm, since>>

\* broadcast_shore_power: one frame, the fields of a line without a reading stay 0;
\* silence when no line has one.
BroadcastShore ==
  /\ kind = "shore" /\ Passed
  /\ UNCHANGED ticks
  /\ \/ /\ \E d \in Lines : Available(d)
        /\ Deliver({Frame("all", TRUE, [d \in Lines |-> IF Available(d) THEN ScaleU16(source[d].reading)
                                                                        ELSE <<0>>])})
     \/ /\ ~\E d \in Lines : Available(d)
        /\ UNCHANGED <<cache, cached>>

\* What broadcast_batteries says of a pack, and broadcast_solar of the controller:
\* a frame without readings marks it offline.
PackFrame(d) == IF Available(d) THEN Frame(d, TRUE, [x \in {d} |-> ScaleU16(source[d].reading)])
                                ELSE Frame(d, FALSE, [x \in {d} |-> <<0, 0>>])

SolarFrame(d) == IF Available(d) THEN Frame("all", TRUE, [x \in {d} |-> SolarFields(source[d].reading)])
                                 ELSE Frame("all", FALSE, [x \in {d} |-> <<0>>])

\* proxy_task: the slow kinds go out on every so many passes.
SlowBroadcast(frames) ==
  /\ Passed
  /\ \/ ticks + 1 >= Every /\ ticks' = 0 /\ Deliver(frames)
     \/ ticks + 1 < Every /\ ticks' = ticks + 1 /\ UNCHANGED <<cache, cached>>

BroadcastBatteries == kind = "battery" /\ SlowBroadcast({PackFrame(d) : d \in PACKS})

BroadcastSolar == kind = "solar" /\ SlowBroadcast({SolarFrame(d) : d \in Devices})

\* easytouch_client_get_status: all zones are read at once and kept for good.
Have == \E d \in Devices : source[d].have

ZonesPresent == {d \in Devices : source[d].have}

\* hvac_pump_timer_cb, the broadcasting half: what there is, however old.
PumpToAir ==
  /\ kind = "hvac" /\ Passed
  /\ \/ /\ Have
        /\ ticks' = (ticks + 1) % HVAC_EVERY
        /\ \/ /\ ticks = 0
              /\ Deliver({Frame("all", TRUE, [x \in {d} |-> source[d].reading]) : d \in ZonesPresent})
           \/ /\ ticks # 0
              /\ UNCHANGED <<cache, cached>>
     \/ /\ ~Have
        /\ UNCHANGED <<ticks, cache, cached>>

\* Mutation of PumpToUi: the client's verdict is not asked for.
PumpToUiUnasked ==
  /\ kind = "local" /\ Passed
  /\ UNCHANGED ticks
  /\ \/ /\ Have
        /\ cache' = [i \in Items |-> Stored(TRUE)]
        /\ cached' = [d \in Devices |-> source[d].reading]
     \/ /\ ~Have
        /\ UNCHANGED <<cache, cached>>

\* The other half: to the panel's own screen (ui_on_hvac_status), with the verdict
\* of easytouch_client_healthy.
PumpToUi ==
  /\ kind = "local" /\ Passed
  /\ UNCHANGED ticks
  /\ \/ /\ \E d \in Devices : Available(d)
        /\ cache' = [i \in Items |-> Stored(TRUE)]
        /\ cached' = [d \in Devices |-> source[d].reading]
     \/ /\ ~\E d \in Devices : Available(d)
        /\ cache' = [i \in Items |-> [cache[i] EXCEPT !.online = FALSE]]
        /\ UNCHANGED cached

Produce == BroadcastShore \/ BroadcastBatteries \/ BroadcastSolar \/ PumpToAir \/ PumpToUi

-----------------------------------------------------------------------------
(* The panel. *)

Young(i) == cache[i].seen /\ cache[i].age <= StaleAfter

\* shore_power_timer_cb decides whether the cache is live, ui_shore_panel_set draws as
\* many lines as the frame had readings.
ShoreValid == Young("all")

ShorePanel(d) ==
  LET line_count == Cardinality({l \in Lines : cached[l] # <<0>>})
  IN IF ShoreValid /\ (d = "L1" \/ line_count = 2) THEN cached[d] ELSE <<>>

\* Mutation of SolarValid: the age of the stored reading is not looked at.
SolarValidForEver == cache["all"].seen /\ cache["all"].online

SolarValid == Young("all") /\ cache["all"].online

SolarPanel(d) == IF SolarValid THEN cached[d] ELSE <<>>

HvacValid == Young("all") /\ cache["all"].online

ZonePage(d) == IF HvacValid THEN cached[d] ELSE <<>>

\* battery_slot_fresh
Fresh(d) == Young(d) /\ cache[d].online

\* battery_status_timer_cb: the packs it combines and the rows of the popup.
LivePacks == {d \in PACKS : Fresh(d)}

PackRow(d) == IF d \in LivePacks THEN cached[d] ELSE <<>>

Sum(f(_), packs) == FoldSet(LAMBDA d, sum : sum + f(d), 0, packs)

\* Rounded as (uint8_t)(x + 0.5) rounds.
Rounded(a, b) == (2 * a + b) \div (2 * b)

\* Mutation of Combine: the mean is taken over the configured packs.
CombineAll(packs) ==
  LET soc(d) == cached[d][1]
      full(d) == cached[d][2]
      ah == Sum(full, packs)
  IN IF ah > 0 THEN Rounded(Sum(LAMBDA d : soc(d) * full(d), packs), ah)
               ELSE Rounded(Sum(soc, packs), Cardinality(PACKS))

\* jbd_bms_combine: the states of charge weighted by capacity, or a plain mean when
\* no pack reports a capacity.
Combine(packs) ==
  LET soc(d) == cached[d][1]
      full(d) == cached[d][2]
      ah == Sum(full, packs)
  IN IF ah > 0 THEN Rounded(Sum(LAMBDA d : soc(d) * full(d), packs), ah)
               ELSE Rounded(Sum(soc, packs), Cardinality(packs))

\* What the readout says of d, <<>> for "--".
Shown(d) == CASE kind = "shore" -> ShorePanel(d)
              [] kind = "battery" -> PackRow(d)
              [] kind = "solar" -> SolarPanel(d)
              [] OTHER -> ZonePage(d)

\* ui_battery_summary_set_bank: <<soc_percent, pack_count>>, <<>> for "--".
Bank == IF kind = "battery" /\ LivePacks # {} THEN <<Combine(LivePacks), Cardinality(LivePacks)>> ELSE <<>>

-----------------------------------------------------------------------------
(* Time, failures, and their end. *)

Older(n, limit) == IF n <= limit THEN n + 1 ELSE n

Due(d) == ~source[d].have \/ source[d].age >= POLL

\* Ages are counted as far as anyone compares them.
Tick ==
  /\ passed
  /\ calm => \A d \in Devices : ~Due(d)
  /\ passed' = FALSE
  /\ source' = [d \in Devices |-> [source[d] EXCEPT !.age = IF source[d].have THEN Older(@, Window - 1) ELSE @]]
  /\ cache' = [i \in Items |-> [cache[i] EXCEPT !.age = IF cache[i].seen THEN Older(@, StaleAfter) ELSE @]]
  /\ since' = [d \in Devices |-> [r \in Readings(d) |-> Older(since[d][r], Bound)]]
  /\ UNCHANGED <<kind, ticks, cached, calm>>

ProducerRestart ==
  /\ ~calm
  /\ source' = [d \in Devices |-> NoReading]
  /\ ticks' = 0
  /\ UNCHANGED <<kind, panelVars, passed, calm, since>>

PanelRestart ==
  /\ ~calm
  /\ cache' = [i \in Items |-> Unseen]
  /\ cached' = [d \in Devices |-> <<>>]
  /\ UNCHANGED <<kind, source, ticks, passed, calm, since>>

\* From here on the devices answer at every poll and no frame is lost.
Settle ==
  /\ ~calm
  /\ calm' = TRUE
  /\ UNCHANGED <<kind, source, ticks, panelVars, passed, since>>

TelemetryNext ==
  \/ \E answer \in Answers : Measure(answer)
  \/ LinkLost \/ ProducerRestart \/ PanelRestart \/ Settle
  \/ Produce \/ Tick

TelemetrySpec == TelemetryInit /\ [][TelemetryNext]_telemetryVars

\* The tasks and timers run; a device answers its poll once nothing fails.
TelemetryFair ==
  /\ WF_telemetryVars(Produce) /\ WF_telemetryVars(Tick)
  /\ WF_telemetryVars(\E answer \in Answers : calm /\ (\E d \in answer : Due(d)) /\ Measure(answer))

FairTelemetrySpec == TelemetrySpec /\ TelemetryFair

-----------------------------------------------------------------------------
(* Properties. *)

ZeroReading(d) == kind = "shore" /\ Shown(d) = <<0>>

Recent(d) == \E r \in Readings(d) : Shown(d) = r /\ since[d][r] <= Bound

\* A readout that is not "--" tells what the device did report, no longer ago than
\* the client's window and the panel's window together (ui.c:64-92, the staleness
\* windows): neither a lost link, nor a lost frame, nor a restart leaves an old
\* reading on display.  The zero of a line without a reading and the thermostat on
\* the other panels are left to the next two properties, which the code does not keep.
LiveIsFresh ==
  kind # "hvac" =>
    \A d \in Devices : Shown(d) # <<>> /\ ~ZeroReading(d) => Recent(d)

\* "a frame full of zeroes, which a panel would render as a real 0 V reading"
\* (proxy_main.c:104-106) is what the proxy means to avoid.
NoZeroReading == \A d \in Devices : ~ZeroReading(d)

\* The panel "ages the reading out on silence" (ui.c:587-590), so a thermostat that
\* is out of reach does not stay on display on the other panels.
ThermostatAgesOut == kind = "hvac" => \A d \in Devices : Shown(d) # <<>> => Recent(d)

\* "A pack dropping off shrinks the bank rather than dragging the averages toward
\* zero" (ui.c:415-419): the state of charge lies between those of the packs on
\* display, and the count is theirs.
BankIsOfLivePacks ==
  Bank # <<>> =>
    LET live == {d \in Devices : Shown(d) # <<>>}
        socs == {Shown(d)[1] : d \in live}
    IN /\ Bank[2] = Cardinality(live)
       /\ \E lo, hi \in socs : lo <= Bank[1] /\ Bank[1] <= hi

\* A device that answers every poll over a link that loses nothing is on display for
\* good: no window is shorter than the interval it has to outlast (ui.c:89-95).
SteadyIsShown == <>calm => <>[](\A d \in Devices : Shown(d) # <<>>)

=============================================================================
