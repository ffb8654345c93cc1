# firefly-touch: TLA+ models, checks and proofs

firefly-touch is the firmware of a set of ESP32 boards in a motor coach: touch
panels, one of which bridges to the coach's RV-C (CAN) bus, a Bluetooth proxy
that listens to batteries, solar, shore power and thermostat, and a node that
drives the dump valves. The boards talk over ESP-NOW, which acknowledges nothing
that the code looks at. This directory holds TLA+ models of the parts whose
behaviour is hard to test, the TLC runs that check them on small instances, and
TLAPS proofs of theorems about them.

## 1. Inventory

| Part (source) | State | Operations | Talks to |
|---|---|---|---|
| **Dump-valve node** (`valves/main`, `components/valve_control`) | relay outputs of an I2C expander, one-shot watchdog, command queue (4), position, lockout, settle time and fault latch per valve, debounce state | command callback, drive task, sensor task, watchdog callback, resend timer, start-up | ESP-NOW link (commands in, status out) |
| **Battery client** (`components/jbd_bms`) | three slots: connection state, back-off, GATT handles, reassembly buffer, last reading | client task pass (retry, poll), GATT event handler, scan callback, notification handler | BLE host |
| **BLE host** (`components/ble_host`) | registered clients, scan matchers, wanted/pending scan, scanning flag | register, scan want, GAP/GATT dispatch | Bluedroid; all BLE clients |
| **Thermostat client** (`components/easytouch`) | connection state, pending change, poll and settle times, cached status | submit change, drain, GATT handler, authentication, JSON status parse | BLE host; panel, pump |
| **Shore-power client** (`components/hughes_watchdog`) | connection state, two-part frame, line readings with time stamps | GATT handler, frame assembly, staleness | BLE host; proxy |
| **Solar client** (`components/renogy_solar`) | device id, connection state, request in flight, reading, stall count | discovery, id rotation, Modbus-like request and reply | BLE host; proxy |
| **ESP-NOW link** (`components/espnow_link`) | receive queue (16), peers and keys, handlers, time of last frame | start-up, receive callback, receive task, send | all boards |
| **RV-C bus** (`main/twai_tasks.c`, `components/rvc_protocol`) | driver state, transmit queue, counters | receive task, transmit task, alert handling and bus-off recovery, frame encode/decode | coach; state manager |
| **State manager** (`main/state_manager.c`) | last known level per load, tank levels | dispatch to the UI or the bridge, iterate the known states | RV-C task, resync timer, UI |
| **Bridge / panel application** (`main/main.c`, `bridge_tx.c`) | command queues, last HVAC status, caches of telemetry | relay RV-C to ESP-NOW and back, resync timer, HVAC pump, start-up order | ESP-NOW, RV-C, UI |
| **Proxy** (`proxy/main`) | tick counts | periodic broadcast of battery, solar and shore data | BLE clients, ESP-NOW |
| **Panel UI** (`main/ui`, `components/ui_common`) | backlight, section, armed button, confirmations, pending thermostat edits, staleness timers | taps, holds, masters, sweep, arm-then-fire, refresh, idle dimming | state manager, ESP-NOW, thermostat |
| **Boards** (`components/board`) | pins of the output expander, kept over a reset | start-up, backlight, CAN multiplexer | expander chip |
| `sim`, `panels`, `tools` | - | desktop stand-in, configuration data, scripts | - |

What is hard about each, and what makes it correct:

- **Valve node.** Three tasks of different priorities and a timer callback share
  the relays and the position without a lock; I2C writes fail; a reset leaves
  the relays as they are. Correct: both wires of a motor are never on both
  rails, a polarity change always passes through the dead time, a motor is
  never driven past the ceiling, a valve is not driven again in its lockout,
  what the panels are told is what the sensor or the last drive says, and a
  failed close is never shown as open.
- **BLE clients.** Callbacks of the Bluetooth stack race the client's own task;
  connection attempts fail late; one scanner serves several clients; a
  notification is lost or comes while the buffer it goes to is being emptied.
  Correct: every device gets its turn and comes back, no state without a way out,
  no reading made of two frames, and none that outlives its link.
- **Thermostat.** A user's change may be superseded while it is being written; the
  status may be cut anywhere. Correct: the last change submitted is the last one
  written, and what is told of a zone is what the thermostat said of it.
- **ESP-NOW, RV-C, bridge.** Frames are lost, queues overflow, the resend reads
  tables while they change, addresses are typed by hand, nodes are flashed one at a
  time. Correct: every table shown on a panel converges to the source, nothing
  that actuates leaves under a wrong key, no kind of frame is starved by another.
- **Telemetry.** A reading ages in the client and again on the panel. Correct: what
  is shown was reported within the two windows, and what is reported is shown.
- **UI.** Several timers, several buttons for a load, and a screen that dims under the
  finger. Correct: taps are obeyed, ramps end, no valve opens on a single tap, and a
  page that shows a wish returns to the truth.
- **Boards.** The expander swallows writes and outlives a reset. Correct: after every
  start the pins are what the start asked for.

## 2. Plan

All parts of the plan are done.

| # | Modules | What for | State |
|---|---|---|---|
| 1 | `ValveControl`, `ValveDrive`, `ValveNode` | the valve node, the only part that can do harm | checked, proved |
| 2 | `BatteryLinks` | connection scheduling of the battery client | checked, proved |
| 3 | `Thermostat`, `StatusPayload` | pending changes against polls, completions and failures; the cut status | checked, proved |
| 4 | `BleScan`, `ProxyBle` | scan arbitration of the BLE host under the shore-power and the solar client | checked, proved |
| 5 | `StatusRelay`; abstract specification `LoadDisplay` | lost and torn frames, full queues, resend, restarts | checked, refinement proved |
| 6 | `SolarPoll`, `ShoreStream`, `JbdStream` | frame reassembly of three clients, each with its own way to lose its place | checked, proved |
| 7 | `Telemetry` | a reading from client to readout, by kind | checked, proved |
| 8 | `EspNowLink`, `BoardIo` | a node's start and keys; the board's pins | checked, proved |
| 9 | `LightControl`, `ThermostatPage` | touches, confirmations, masters, sweep, ramps, transmit queue, bus-off; the thermostat's page | checked; safety of `LightControl` proved |
| 10 | `PanelScreen`, `ValveButton` | idle dimming and the two taps that open a valve | checked, proved |

## 3. Modules and runs

The type invariants of `ValveDrive`, `BatteryLinks`, `Thermostat`, `StatusRelay`,
`EspNowLink`, `ValveButton` (with `PanelScreen`) and `LightControl` are proved and so take
no run; the runs are spent on what could really be wrong.
`MCProxy`, `MCPanel` and `MCNode` each put several modules in one run. Their parts
share no variable, so a selector (`looked`, `used`, `side`) picks one part per
behaviour and the fairness of a part counts only where it is picked; the state
spaces add up and do not multiply.

### 3.1 Valve node: `ValveControl`, `ValveDrive`, `ValveNode`

`ValveControl` is the pure part (`valve_control.c`): which relay masks are safe,
which mask drives a valve which way, and what a drive does next.

`ValveDrive` is the half that drives. The variables are the relay outputs, the esp_timer
countdown (`watchdog_cb`), the command queue, position, lockout, settle time and fault
latch of each valve, and the program counter of `valve_drive_task`. A write to the
expander may fail once at any point, either lost or carried out and reported as failed
(`WRITE_ERRORS`), or the start of the timer may fail instead. The write of
`valve_control_apply`, its `esp_timer_stop` and its `esp_timer_start_once` are steps of
their own, with time, the watchdog's callback and resets between them. A reset may come
at any time: RAM starts again, the expander keeps its outputs. `SLACK` is how late the
drive task may be, in all, between two of its blocking calls: before it runs, or between
any two of its steps. The periodic resend runs on the timer task and reads the position
in one step and sends it in another.

`ValveNode` adds `valve_sense_task` and the position contacts: samples, debounce,
the check of `s_driving`/`s_settle_until`, and the report made from it, are
separate steps, so a whole command can run in between. The last step is one action:
the task has a lower priority than the drive task, but between check and report it
only computes.

What an error return of `valve_control_apply` leaves behind is followed to the end. If
the write of a drive pair landed although it was reported as failed, or the timer did
not start after it, `run_drive` gives up without a release and the motor stays on:
`abandoned` marks that drive, `ReleasePending` and `CeilingHeld` except it by name, and
`ValveUnwatched.cfg` (section 5) shows it. Every other failure is covered.

The environment (commands, contacts, resets) is unfair. The tasks are weakly
fair, because FreeRTOS schedules every ready task of these few; time is strongly
fair, as commands could otherwise pre-empt it for ever.

| Run | Distinct states | Shows |
|---|---|---|
| `valve_drive` | 2,927,882 | but for an abandoned drive, no motor energised without a release pending or beyond the ceiling; none without the dead time or in the lockout; the lockout ends |
| `valve_node` | 1,769,532 | a close that timed out is never relabelled open; the reported position settles on the sensor |
| `valve_status` | 1,134,458 | the last frame on the air settles on the true position, although the timer task may send an old one |

Bounds: both of the node's valves (one in `valve_node`, where the sensor task adds its
own interleavings), a queue of one command (the code's four only lengthen the backlog),
times of one to four units that keep the order of the code's (dead time < nominal drive
< ceiling < lockout in `valve_drive`), a drive task at most one unit late, also between
the write and the re-arm, one failure. `ValveLatch.cfg` (`MCValveNode`, 6,486,884
states, passes) has `SLACK = 3`, so that a whole CLOSE runs between the sensor task's
check and its report, and the latch holds. `CeilingHeld` counts from the re-arm: the
write before it may be `SLACK` earlier. `sinceCycle` and `onFor`, which no code reads,
count from the last reset: a reset forgets the lockout and the time a motor has been on,
and the properties say so.

### 3.2 Battery client: `BatteryLinks`, `JbdStream`

`BatteryLinks`: one task pass per second looks at the slots in order
(`jbd_bms_task`), may start one connection and sends the polls that are due. Between
the opening call and the assignment after it (`try_connect`) there is a step, as
there is between the check of a ready slot and its poll. The Bluetooth stack is
external: it ends an attempt within `OPEN_TIMEOUT`, answers a discovery, carries out
a close; it owes neither a registration nor a disconnect. A link comes up later than
`try_connect` returns; only a failure may be reported earlier (`"early"`). The unit
of time is the task's period, and a pass ends within its period. The configured
addresses are distinct (`OwnEvent`).

| Run | Distinct states | Shows |
|---|---|---|
| `proxy` (3.5) | | at most one attempt in flight, every slot tells what its link is, a battery gets its turn although one before it is away |
| `battery_starved` | violation | with two batteries away the third never gets its turn (finding) |

Bounds: all three batteries. `battery_starved` has the code's own back-off of 5 s,
poll interval and timeout of an attempt, and no fault at all. In `proxy` the times are
scaled (2 < 3 < 4) but keep their order, on which the starvation rests: a failing
attempt outlasts the back-off. `BatteryTurns.cfg` (`MCBatteryLinks`, 186,342 states,
passes) checks the same three properties with 5 s and 30 s. `TurnBehindOneAway` is what
is left of `EveryBatteryTried`: the attempts of one battery before the one that waits,
and of any after it, may fail for ever, if the others before it settle. It excepts links
whose discovery stalled, for which the code has no timeout. Failures reported before the
opening call returned are in `BatteryStuck.cfg` (section 5).

`JbdStream` is the poll of one pack (run `proxy`): `try_poll` empties the buffer and
asks, the answer comes in two notifications, `on_notify_data` ends a frame at the first
byte 0x77. Emptying and appending are not atomic, as they are not in the code. A byte
is a pair of the reading it belongs to and its position, so that a frame made of two
readings is told from a whole one.

### 3.3 Thermostat client: `Thermostat`, `StatusPayload`

`Thermostat` has three threads: the task (`easytouch_task`), whose look at `s_state`
and whose act on it are separate steps; the stack's callbacks (`on_gattc_event`,
`scan_match`, `scan_found`), one action per event and outcome; and whoever submits a
change (`easytouch_client_submit_change`, under `s_lock`). `pending`, `flag` and
`cmdZone` are the code's; `told` is what the thermostat has carried out; `wanted` is
for the properties. A reply that comes in a state that does not wait for it is
dropped, as in the code. Negotiating the MTU and searching the service are one
request (`discover`), and the 400 ms before a status is read are part of the request.
An attempt goes on when `close_conn` is called before the link is up, and may come up
at any later time.

| Run | Distinct states | Shows |
|---|---|---|
| `thermostat` | 877,515 | no value submitted is lost and each arrives, every cycle lets go of its link, cycles keep coming |
| `thermostat_lost` | violation | a change submitted while its zone is being written is lost (finding) |

Bounds: two zones and two fields (enough for one zone overtaking another and for
merging by field), four changes, at most two faults out of seven kinds, times in
the code's order (1 < 2 < 3 < 4 < 5 for settle, retry, timeout, poll and back-off) and
two failures before a new scan instead of three. `OVERTAKING = FALSE` restricts the
environment to the case in which the code keeps its promise; `thermostat_lost` lifts
it. The fairness is that of the task, of time, of a stack that answers and a
scanner that finds a thermostat that advertises; faults are bounded and unfair.

Two exceptions are part of the properties. `CycleEndsReleased` excepts a call of
`try_connect`: the task may have decided on it before a late link came up, and the
refused call then sets the state back to idle with that link up. What this can
come to is `Marooned`: the client scans for a thermostat that does not advertise,
because it is connected to this very client; the liveness properties except it.
It takes a refused call at the right moment.

`StatusPayload` (run `proxy`) is `easytouch_parse_status` on a payload that an MTU cut
at any point: what is stored of a zone is an array the thermostat sent for that zone,
whole, and "active" is shown only if some zone was. Left out: the build without a
password (it only idles), and `scan_found`'s stores being torn apart on a dual-core
chip.

### 3.4 Status relay: `LoadDisplay`, `StatusRelay`

The way a light's or a tank's state takes from a frame on the bus to the screens.
`LoadDisplay` is what a panel promises: it shows values that were reported of the
item, and either whole reports or, with `TEARS`, an amount of one report and a flag of
another.

`StatusRelay` is the code. `TwaiReceive` decodes a frame and posts or drops it;
`state_manager_task` and `tank_state_task` (`mgr`) take a message and store it, show a
change, and, for a light, forward it, each in a step of its own. The timer daemon
(`resend`) goes through a table item by item and reads an entry's two fields in separate
steps before it sends them; a manager's stores are one step, because a reader that
falls between two of them sees what it would see between two reads. `FIRST_READ` is the
order the compiler gives the two reads. The bridge's own widgets are `panel`, the
remote's `remote`. A frame may be lost on the air or dropped at a full queue. A light and
a tank may have the same instance number. Either panel may restart at any time.

| Run | Distinct states | Shows |
|---|---|---|
| `status_relay` | 250,214 | no stored report goes unshown; both screens implement `LoadDisplay`, the bridge's without torn values; the remote converges to the bridge's table |

Bounds: one light (off and on) and one tank (one reading), with the same instance
number, queues of one entry, so that they overflow, one restart of either panel, the
amount read first. With one item of a kind a sweep has one step; what a sweep of several
adds is more stale frames in the air, and the theorems hold for any number. Fairness:
the daemon and the remote's receive task run, both timers keep expiring (the daemon
serves them in order of expiry), not every copy of a frame that is sent for ever is
lost, and the remote's queue is not full at every one. The bus and the managers owe
nothing: `RemoteConverges` speaks of a table that is at rest. It does not say that the
table is right: a report dropped at a full queue, or missed during a restart, is made
good only by the coach's next report.

Left out here: other frames, the health tests, and a panel that hears both the bus and
the bridge.

### 3.5 Bluetooth at the proxy: `BleScan`, `ProxyBle`, `SolarPoll`, `ShoreStream`

`BleScan` is the arbiter (`ble_host.c`) as operators on one record, so that a client's
callback that asks for a scan composes with the handler that called it. `ProxyBle` is
the shore-power and the solar client over it. Callbacks run one at a time in the
Bluetooth task; the solar client's own task wants a scan in three separate steps
(`TaskWants`, `TaskClearsPending`, `TaskEnsures`: the two stores of `ble_host_scan_want`
and its call of `scan_ensure`), between which callbacks run. The stack is external: what
it is asked it does in order, and opens, procedures, scans and links may fail at any
point, `MaxLinkFaults` times in all. A connection of the solar client has an id that may
be 0, as Bluedroid's ids do (`connId`); the stall timer closes a link only if its id is
not 0 (`CloseStalled`), and a link it leaves open keeps its device from advertising. A
failed procedure leaves the link open with nothing outstanding (`"stalled"`). Every
client sees the connection events of every peer, those of a battery included.

`SolarPoll` is what goes over the solar link: one request per tick, a device id tried
until one is answered, answers that are late or in two parts, a buffer the poll task
empties while the Bluetooth task may be appending. `ShoreStream` is the Watchdog's
unasked stream: packets for two lines in turn, no checksum, the three header bytes
the only way to find one's place again. With `BatteryLinks`, `JbdStream` and
`StatusPayload` they make up the run.

| Run | Distinct states | Shows |
|---|---|---|
| `proxy` | 133,367 | a lost link takes its readings; a wanted scan is under way; only whole frames are stored, and each stitched shore reading costs a lost notification; a cut status changes no zone to what it never was; both clients come back; the batteries get their turns (3.2); every stream is read again and again |

Bounds: two link faults, two faults per stream; three unanswered requests or
notifications on their way; a shore packet of 40 bytes in two notifications, as in the
code; a solar answer of three units, because what matters is which part is missing;
ids 255 (never answered), 17 (answered) and 1; a battery frame of six bytes, with an end
byte inside one of its readings; a status of two zones, one that is no zone of the
panel, and the first zone a second time. Packets and requests are numbered in a circle
just longer than what can be outstanding.

Fairness: the stack executes what it is asked, devices in range advertise in a scan that
lasts, and the tasks tick. A solar tick may be held up by a full command queue, so it is
strongly fair, as is a scan window's end. The properties name what the code does not
recover from: `ShoreRecovers` excepts a stalled link and a refused scan, which are never
retried; `SolarRecovers`, whose stall timer covers the first, excepts a stalled link
with id 0 (`Held`), a refused scan and the lost race (`Forgotten`), all of section 5;
`PackHealthy` is about a pack that settles on a reading without an end byte in it;
`SolarKeepsReading` excepts an answer that confirmed an id after the client had moved
on.

### 3.6 Telemetry: `Telemetry`

One behaviour follows one kind of reading (battery, solar, shore, the thermostat on the
panel that holds its link, and on every other panel) from client to readout: the
client's last reading and its age, the producer's pass with its tick count, the frame
and its validity, the panel's cache and its staleness window, and, for the batteries,
`jbd_bms_combine`. Either end may restart, the link may be lost, every frame may be
lost. `calm` is the moment from which none of that happens.

| Run | Distinct states | Shows |
|---|---|---|
| `telemetry` | 1,007,296 | what is shown was reported within the two windows together; the bank is that of the packs on display; a device that answers over a lossless link stays on display |
| `shore_zero` | violation | with only Line 2 valid the panel draws Line 1 as 0 V (finding) |

Bounds: two packs, one with no capacity in one of its readings (the combination
divides), two zones, two lines. The unit of time is the producer's period; the windows
keep their ratio to it. Ages are counted as far as anything compares them. `LiveIsFresh`
excepts the two cases that section 5 lists (the zero line and the thermostat on other
panels). The fairness is that of the tasks, and of a device that answers once calm.

### 3.7 A panel's buttons: `LightControl`, `PanelScreen`, `ValveButton`, `ThermostatPage`

`LightControl` follows a touch to the lamp and the lamp's status back to the button: taps
of a button for one or several lights with their confirmation and one resend, holds that
ramp, master and sweep, the transmit queue, a transmission that fails, bus-off with
recovery (`dead` is a bus on which nobody obeys), and the same commands from a remote
panel over the air. `PanelScreen` is `idle_timer_cb`, the dimming overlay, sections,
pop-ups and the tank alert; timers of a second run in any order. `ValveButton` puts the
valve button, its arm timer and its staleness on that screen; `watch` is for the
property. `ThermostatPage` is the optimistic page: collected set points, modes sent at
once, confirmation by status, and the 25 s without one, which each zone's mode and each
zone's set point count for themselves.

| Run | Distinct states | Shows |
|---|---|---|
| `panel` | 587,035 | taps are obeyed although a frame is lost, unless something else was asked; the panel rests; a ramp ends; the dark has its overlay and nothing else has; a full tank lights the screen; a valve opens only by two taps that saw it closed; touches on a settled page arrive, and the page comes to show what the thermostat has |

Bounds: two lights, a dimmer of one and a switch of both (so that two buttons disagree
about a light), two groups, a transmit queue of two, two inputs (a third adds no new
pair of actors and would not end in five minutes), one fault; one resend, as in the
code; a dim at one second, dark at two, two sections, two tanks, an arm window and a
staleness limit of two seconds; two zones with three set points, two touches, one
fault. What `want`, `asked` and `watch` remember is for the properties alone.

Fairness: timers fire, the transmit task and the remote's receive task run, a finger is
lifted (`Release`), a light that changed reports its status and the thermostat is read
again. Fingers, tanks, the coach's switches and faults are unfair.

### 3.8 A node coming up: `EspNowLink`, `BoardIo`

`EspNowLink` takes the start of `espnow_link_init` and `app_main` one call at a time
(`Steps`), while frames arrive already: peers and keys in the driver's table, handlers,
the receive queue, the length test by which `on_espnow_recv` tells kinds apart.
`BUILDS` are address configurations; an address may be a node, a placeholder, zero,
unparsable, a group address or the broadcast address, and several fields may name one
node. The driver refuses a group address as an encrypted peer, which `espnow_link_init`
only logs; the broadcast address it then adds open, so what is sent to a peer of that
address leaves in the clear: `SentUnderItsKey` says so by name.
A neighbour of another build may lay out a kind of frame differently (`differs`).
`BoardIo` is the same for the pins of the output expander: each write sends the whole
shadow byte, may be lost, and a reset of the processor leaves the pins as they were.

| Run | Distinct states | Shows |
|---|---|---|
| `node` | 1,110,618 | what actuates leaves under its receiver's key or not at all, but for a peer that is the broadcast address; a kind that keeps coming keeps reaching its handler; after a start the board holds its pins |

Bounds: all six nodes under 120 configurations, a queue of two, one reset; all boards
with and without CAN, two lost writes, one reset. The fairness is that of the start, of
the receive task, and of the sender that keeps sending a kind: `FramesArrive` says that
it gets through the queue if that is not full at every one.

## 4. Proofs

All for every value of the constants that the modules' assumptions allow. Every safety
invariant and action property that a passing run checks has its theorem.

- **`ValveProofs`**, of the driving task. `TypeCorrect`. `BreaksBeforeMaking` rests on
  `DeadTimeInv`: without a failed write the relays are off outside a drive, and with at
  most one they are off while the task waits out the dead time, and have been for as
  long as it has slept. `AlwaysReleasePending` and `CeilingKept` rest on `CeilingInv`
  (the task's sleep is bounded, a poll comes in time, the watchdog covers what the task
  does not, elapsed time is the time the motor has been on, each also between the write
  that energises and the re-arm), for lost and for landed writes and for failed starts
  of the timer; they except the abandoned drive (3.1), and `ValveUnwatched.cfg` shows
  why. `LockoutKept` and `LockoutEnds` rest on `LockoutInv` (a valve being driven is out
  of its lockout, and before the wrap the age of a deadline is the age of the last
  cycle) and assume a tick counter that does not wrap: `ValveDriveWrap.cfg` shows why.
- **`ValveProofs`**, of both tasks. `CloseFailureKept`: with no failed relay write and
  no failed start of the timer (`MAX_FAULTS = 0`) a close that was not confirmed is
  never relabelled open. `FailedCloseLatched` alone is not inductive, because the sensor
  task writes the position on the strength of `s_close_fault`; `LatchInv` says that a
  failed close is latched, that a latched valve is not said to be open, and that nothing
  is latched while the node starts. The assumption is needed: `ValveAbortedClose.cfg`.
- **`BatteryLinksProofs`.** `LinksTypeCorrect`. `OneAttemptAtATime` rests on `GateInv`: an
  attempt shows in its slot's state or in `connect_in_flight`, and the gate is open
  only if none shows. `SlotsTellLinks` assumes that no failure overtakes the opening
  call: `BatteryStuck.cfg` shows why.
- **`ThermostatProofs`.** `ThermostatTypeCorrect`. `ChangesKept` rests on `LossInv`:
  what is pending is what is wanted (`PendingIsWanted`), a write in flight is that of
  a pending zone and carries exactly what is pending (`WriteIsPending`, `WriteIsExact`),
  and what was taken has been told (`TakenIsTold`). `WriteIsExact` needs `OVERTAKING =
  FALSE`: `thermostat_lost` shows why. `CyclesEndReleased` holds step by step.
- **`StatusRelayProofs`.** `RelayTypeCorrect` includes what the codecs decode.
  `PanelFollowsTable` rests on `WorkIsStored`: what a manager is about to show is what the
  table holds. `OwnDisplayImplemented` rests on `BridgeTrue`: what waits in a queue, what
  a manager works on and what the table holds was reported of that item.
  `RemoteDisplayImplemented` adds `RemoteTrue`: what the daemon holds and what is in the
  air is made of two fields that were reported of that item. No fairness and no bound
  on restarts is assumed.
- **`ProxyProofs`**, of the arbiter. `ScanKept` rests on `ScanInv`: when the parameters
  are asked for, their completion is still to come (`Sound`), the node believes in a
  scan only while the radio scans, and every step that leaves a scan wanted leaves one
  under way (`Runs`), which `EnsureKeeps`, `WantKeeps` and `RestartKeeps` show of the
  arbiter's operators once for all callers. `ReadingKept` follows from the same
  invariant. No fairness is used; faults may be any number.
- **`ProxyProofs`**, of the streams. `StoredKept` is about three decoders, two of which
  take a notification byte by byte, by recursion on the byte. What such a function
  computes is proved by induction on the number of bytes: `LeastNat` (from the library's
  well-foundedness of the naturals), `UpTo` and `IterationExists` (the recursion has a
  solution, so that `CHOOSE` has something to choose) are stated once.
  `StoredIsOneResponse`, of the solar client, is inductive as it stands. `JbdInv`: the
  buffer holds no end byte (`CleanBuffers`), so that a frame with the end byte of one
  reading in it has nothing of another (`WholeReadings`). `ShoreInv`: more than one byte
  held is the first half of some packet; as long as that packet is not the one being
  sent (`ShoreInPhase`), one loss has not been paid for yet (`stitched < lost`); a whole
  packet since (`intact`) means in phase. `ZonesStayTold` rests on `PayloadInv`: the
  table is what `ZonesOf` makes of the payload read last.
- **`NodeProofs`**, of the link. `EspNowTypeCorrect`. `KeysKept` rests on `KeyInv`: the
  calls that register peers come before the broadcast and the valve peer (`PeersFirst`),
  and the driver keeps the first key it is given for an address, so a field that is
  believed registered has the key its frames need. The build may name the broadcast
  address; the exception this takes is in the theorem's statement, not in an assumption.
- **`NodeProofs`**, of the board. `PinsStayHeld` rests on `BoardInv`: each pin a running
  panel needs is either still to be raised by a write ahead that nothing ahead undoes
  (`Rises`), or is in the shadow byte and nothing ahead clears it; and what the expander
  has forgotten or swallows is undone by a mode write ahead, or by one of the two output
  writes with which every start ends.
- **`PanelProofs`**, of the screen and the valve button. `ButtonTypeCorrect`.
  `DarkKept`. `OpenKept` rests on `ArmIsWatched`: an armed button shows its valve closed
  and fresh, and the time left and the time since the tap that armed it make up the
  window.
- **`PanelProofs`**, of the lights. `LightTypeCorrect`. `RampsKept` rests on `RampsEnd`:
  in the queue followed by the air (`Way`), each ramp command has a command behind it
  that ends the ramp, or the finger that sent it is still down (`Covered`), and so has
  each lamp that ramps. The lemmas about sequences say what appending to either, and
  taking a command from the front of either, does to what is behind a command.
- **`TelemetryProofs`.** `TelemetryKept` rests on nothing but itself: what a client
  holds is no younger than it says (`SourceInv`), all zones of the thermostat are of one
  age (`ZonesTogether`, without which the first young zone would pass off an old one),
  and what a panel takes for a reading is one, read within the client's window of its
  arrival (`ToldInv`). `FreshKept` adds the panel's window. `BankKept` is about a sum
  over a set: `SumExists` solves the recursion of the library's `FoldSet` by as many
  rounds as there are packs, `SumBetween` shows by induction on the size of the set that
  bounds on the terms are bounds on the sums (also of the plain mean, as counting is a
  sum too), and `RoundedBetween` that rounding respects them.

Only model-checked: every liveness property (`SensorFollowed`, `StatusRepaired`,
`TurnBehindOneAway`, `ChangesArrive`, `StatusKeepsComing`, `RemoteConverges`,
`ClientsRecover`, `StreamsRead`, `SteadyIsShown`, `TapsObeyed`, `PanelRests`,
`FullTankIsLit`, `TouchesArrive`, `PageTellsTruth`, `FramesArrive`), because the prover
has no rules for fairness; and the wrap of the tick counter. `ThermostatPage` promises
nothing but liveness and has no theorem. The library's induction theorems take an
operator as a parameter, which the provers cannot instantiate; where an induction was
needed it goes by way of the least element of a set of numbers, as above.

## 5. Where code and documents disagree

Three disagreements have a run (PROJECT.json, "findings"): the lost change
(`thermostat_lost`), the line drawn as 0 V (`shore_zero`) and the battery that never
gets its turn (`battery_starved`): the comment at `jbd_bms_client.c:177-183` says that
this was put right, but the gate goes to the lowest slot that is due, and two absent
batteries pass it to each other. For seven more a configuration is kept, and TLC
violates its one property:

| `tlc -config` | Module | Property | What happens |
|---|---|---|---|
| `ValveUnwatched.cfg` | `MCValveDrive` | `EnergizedIsWatched` | a write that landed but was reported as failed leaves a motor energised without a watchdog; `apply` "arms (or re-arms)" it "whenever mask != 0" (`valve_control_driver.h:35`) only after a write that succeeded |
| `ValveDriveWrap.cfg` | `MCValveDrive` | `LockoutExpires` | with a tick counter that wraps, the lockout of 3 s (`DRAINMASTER-VALVES.md:420`) does not end for 49.7 days, or not at all |
| `ValveAbortedClose.cfg` | `MCValveNode` | `FailedCloseLatched` | a close abandoned on a relay error sets no fault latch and is relabelled open, although `DRAINMASTER-VALVES.md:424-427` says never |
| `BatteryStuck.cfg` | `MCBatteryLinks` | `SlotTellsLink` | a failure reported before the opening call returned leaves a slot connecting for ever (`jbd_bms_client.c:387`) |
| `SolarHeld.cfg` | `MCProxy` | `StallsAreRetried` | a stalled link with connection id 0 is not closed (`renogy_solar_client.c:598`); its controller does not advertise, and the retry that the task "owns" (`:588-591`) finds nothing |
| `ScanRefused.cfg` | `MCProxy` | `ScansAreRetried` | a scan that the stack refuses is not asked for again (`ble_host.c:261-264`, `:271-276`), although `renogy_solar_client.c:573-574` has the host retry "on its own" |
| `NodeClear.cfg` | `MCNode` | `ActuatingIsEncrypted` | with FF:FF:FF:FF:FF:FF as command or thermostat peer, commands, statuses and thermostat changes go out in the clear by way of the open broadcast peer (`espnow_link.c:205-233`, `:578-583`), although they "stay encrypted unicast" (`espnow_link.h:78-80`) |

And these are violated when put in a configuration of the run named, in place of its
properties:

| Property | Module, run | Said | Done |
|---|---|---|---|
| `ScanningIsRetried` | `ProxyBle`, `proxy` | a scan is retried by the host "on its own" (`renogy_solar_client.c:573-574`) | a match delivered between the two stores of `ble_host_scan_want` takes the want back, and the second store drops the match (`ble_host.c:319-321`); the other cause, a refused start, is `ScanRefused.cfg` |
| `StoredIsOnePacket` | `ShoreStream`, `proxy` | a resync "can't stitch" two packets (`hughes_wd_client.c:151-153`) | after a lost second half, the next first half completes the packet |
| `AnsweringPackHealthy` | `JbdStream`, `proxy` | the window tolerates a missed poll or two (`jbd_bms_client.c:56-58`) | a reading with a byte 0x77 in it never parses (`:151`), however often it is answered |
| `ConfirmedIdAnswers` | `SolarPoll`, `proxy` | the id that was answered is known | a late answer confirms after the client had moved on to a wrong id |
| `ShortReadIsBad` | `StatusPayload`, `proxy` | "fewer zones than last time" is a bad read (`easytouch_protocol.h:215-217`) | the client stores what was parsed (`easytouch_client.c:348-351`) |
| `ThermostatAgesOut` | `Telemetry`, `telemetry` | the pump stops when the client is unhealthy (`ui.c:584-586`) | it broadcasts without asking |
| `DarkPressWakes` | `PanelScreen`, `panel` | the first press in the dark wakes and is swallowed (`ui.c:254-259`) | a pop-up lies above the overlay and takes it |
| `PlaceholderIsOff` | `EspNowLink`, `node` | a placeholder address means "valve control off" (`main.c:378-380`) | it is added like any other (`espnow_link.c:459-498`) |

Noticed while reading, without a property:

- Valve node: `valve_drive.h:23` says a valve without a sensor is never assumed closed;
  the timed build starts with CLOSED (`valve_drive.c:338-341`). The sensor task reads
  each input twice in a poll and debounces the first read but adopts the second
  (`valve_drive.c:272`, `:278`). A fifth queued command is dropped, and only logged.
- Battery: a reconnected pack is polled at once, however recent the last request
  (`jbd_bms_client.c:290`), although `SYSTEM.md:341-343` has a floor of 20 s enforced. A
  link lost while it is polled waits 30 s instead of 5 s. `status_valid` is not cleared
  at a disconnect; only the window ends the reading.
- Thermostat: a change submitted after a refused password starts the next attempt within
  1.2 s (`easytouch_client.c:564`), although `:339-340` says "Back off hard". A change
  submitted during a cycle waits for a whole poll interval: the cycle's end sets the poll
  time anew.
- Shore power: the client has no timeout on a stalled link. `SHORE_POWER_STALE_MS` is a
  fixed 20 s (`ui.c:87`), the broadcast interval may be up to 60 s.
- BLE host: two requests before the first event start the scan twice; the second start
  fails and is ignored. A link that comes up after the stall timer has started over
  leaves the solar client's want set while it is ready.
- Status relay: a panel with the bus and the telemetry gets tank levels from both, and
  `main.c:150-154` says they carry the same numbers; they do not while the bridge, after
  a restart, sends its tanks as invalid. The resend reads level and state of a light
  without a lock (`state_manager.c:56`): a remote may show a pair that was never
  reported. The status sink is registered (`main.c:376`) after the bus is started
  (`:365`), and frames that come before a handler is registered vanish.
- Lights: the resend of an earlier tap can undo a later master OFF, group or hold; a
  running sweep overrides later taps; master, sweep and the STOP of a ramp are sent once.
  A switch of two instances whose ON is lost for one is confirmed by the other, although
  `ui_dimmer_button.h:5-8` says grouped loads never desync; the same lines say
  single-instance dimmers send TOGGLE, but the code sends ON or OFF. A bus that is off
  is recovered only when a next transmission fails.
- Thermostat's page: `ui_thermostat.h:7-11` says a tap never flips the view; the page
  shows it at once. A set point goes into the field of the mode that is effective 650 ms
  later. A bump back to the old value is "confirmed" by the old status and never sent
  (`ui_thermostat.c:598-605`); the page is right all the same, as that value stands.
- ESP-NOW: `espnow_link_healthy` has no caller in the firmware, and its difference of
  ticks makes a dead peer healthy again for one window every 49.7 days; it is left out.
  With a group address for the command peer the node believes it has a peer that the
  driver refused.
- Boards: `board_lcd7b.c:357-359` means to "fail loudly" when the CAN pin does not read
  back; it logs. A failed backlight write is ignored by the user interface.

## 6. Not modelled

- The simulator, the panel tables and the tools: a desktop stand-in, data and scripts.
- The bench test mode of the valve node and its eight-pin scan, which only log; the
  sniffer build and the bus-health icon; layout and drawing; panel timings, LVGL glue
  and touch read-out, which hold no state a property could be about.
- The bytes of frames. A codec is modelled by what it maps to what (`RelayTypeCorrect`,
  `Telemetry`'s validity), not byte by byte; the three reassemblies work on bytes because
  a property is about them.
- `system_active` of a remote, which once set stays set; the limits on observers and
  matchers of the BLE host, which registration before the first scan never reaches.
- A shore packet with the header inside its payload: `ShoreStream` has none.
- The radio, the driver's encryption, the Bluetooth stack and FreeRTOS are external: they
  do what their callers rely on, and fail where the code handles a failure.

## 7. Running

In this directory: `tlc -config Panel.cfg MCPanel` (the pairs of module and
configuration are in PROJECT.json, "runs", and in section 5), and `tlapm
ValveProofs.tla` and the other `*Proofs.tla`. A property of a run that is a
conjunction or holds for one part only (`StoredIsWhole`, `StreamsRead`, `ClientsRecover`,
`TurnsComeRound`) is taken apart in the MC module. `ValveLatch.cfg` (`MCValveNode`) and
`BatteryTurns.cfg` (`MCBatteryLinks`) take the same questions further than the runs do;
both pass.
