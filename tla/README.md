# Formal model of the habinari firmware

TLA+ modules that model the firmware of the habinari room controller (an ESP32
board with air-quality sensors, an HVAC controller and one or more field-bus
adapters), the TLC configurations that check them, and TLAPS proofs of the
results that matter most. Paths below are relative to the repository.

    ProgrammingMode   who selected this board, and how it stops being selected
    ModbusSlave       the Modbus RTU register image, commissioning, line settings
    Thermostat        one control cycle of the room thermostat
    SensorFusion      one measurand behind several sensors that may lie or die
    RoomEvents        fire, people and open windows, inferred from the readings
    RoomControl       the state the tasks share, the control tick, alarms, ventilation
    LatestWins        what a place that holds one request promises (abstract)
    KnxService        the KNX adapter: downloads, ticks, offers, the limited bus
    WifiStation       how the station comes up, associates and comes back
    KnxIpRouting      joining the routing group of KNXnet/IP
    MqttService       the MQTT adapter, its flags and the broker
    Network           a station with one of the two adapters on it (composition)
    OobBle            the BLE service channel: radio, host, session, timers
    Settings          the settings each part contributes, and its hooks
    DeviceConfig      the registry that parses, stores and shows them
    Commissioning     channel, registry and boots together (composition)
    SensorBus         the sensor task, BSEC's task and the external probe
    <Module>Proofs    theorems about <Module>, checked by tlapm
    AdapterProofs     theorems about KnxService and Network
    SensorProofs      theorems about SensorFusion and SensorBus
    MC<Module>        values of the constants for TLC

To check one run: `tlc -config programming_mode.cfg MCProgrammingMode`; to check a proof
module: `tlapm ThermostatProofs.tla`. `PROJECT.json` lists every run, the source
lines each definition translates, a mutation of the code that breaks each
property, the hazards of the code, and the findings.

## 1. The system

FreeRTOS tasks on one core, preemptive, each adapter with a task of its own:

| component (source) | state | operations | hard part | correct when |
|---|---|---|---|---|
| control service (`control_service.cpp`) | `ServiceState` under one mutex: settings, inputs, outputs, programming mode; two deferred-work flags | tick, command write, state read, set/toggle programming mode | callbacks run outside the lock; the tick works on a copy; deferred flags are raised and cleared by different tasks | no command lost, one state seen by all, programming mode always ends |
| room controller core (`control_core.hpp`, `hvac_control.hpp`) | latches, integrators, timers between two ticks | one tick: monitors, thermostat, ventilation, status | order of protections inside one cycle; early exits on sensor faults; latches over lost sensors | never heats and cools, never heats a hot slab, never starves |
| sensor fusion (`sensor_fusion.hpp`, `sensor_fusion_service.cpp`) | one filter per source, trend windows, fire/occupancy/window latches | update per sample, configure, acknowledge | resynchronisation after rejects, staleness, latches while a source is gone, configuration from another task | a bad sample never reaches control, a dead source drops out, alarms neither stick nor chatter |
| sensor acquisition (`sensor_service.c`, `sensor_bus.c`, `ext_probe.c`, `components/*`) | the record of a cycle, BSEC's last outputs, the probe and its power | sample, start-up, look for the probe | one transaction of several fails, BSEC keeps a pace of its own, a probe comes and goes, a sensor forgets its set-up | each living sensor that is set up is heard, no value is made up |
| Modbus RTU (`mb_rtu_slave.c`, `modbus_registers.h`) | register areas shared with the stack, shadow copy, line settings, serial selection | snapshot, apply, refresh, restart of the stack, commissioning | a master's frame lands between any two steps; read-back against write; restart of the stack on failure | each write applied once and none invented; one selection, one commit |
| KNX (`knx_service.cpp`, `knx_product.hpp`) | group objects, per-object transmit state, ETS parameters, the stack's own programming-mode flag | parameter load, telegram handlers, cyclic/COV publish | the second copy of programming mode; a download against ticks and against telegrams that write the same settings | both copies agree; every due value is sent |
| MQTT (`mqtt_service.c`, `mqtt_payload.c`), Wi-Fi (`wifi_service.c`) | connected, discovery and forced flags, last payload; reconnect timer | connect events, publish, command, reconnect | event callbacks against the publish task; a broker or a lease that is new | a reconnect happens; the broker ends up with the state |
| BLE commissioning (`oob_ble.c`) | radio, advertising, session, selected item, timers | start/stop radio, pair, select, read, write, commit, end | radio started and stopped by the main loop, commands in the NimBLE task, timers that outlive their session | selected exactly when reachable; nobody is served unauthenticated |
| device configuration (`device_config.c`, the hooks of each owner) | the registry, what waits for a restart; NVS behind the hooks | register, parse, store, show | a restart at any point between the writes of one client; text that means two things | the channel never lies about a setting |
| start-up (`main.c`, `board.c`, `protocol_registry.c`) | button state machine, LED | start adapters in order, button, factory reset | a button polled by a loop that may block | short, long and reset presses are told apart |

Interactions. The sensor task samples, runs fusion and hands the record to every
adapter (`protocol_adapters_publish`). The control task copies settings and
inputs under the lock, ticks the core on the latest record and stores the
outputs. Adapters write inputs with `control_state_write` and read them back with
`control_state_get`; each polls at its own pace. Programming mode is entered by
the button, by ETS through the KNX stack or by the first boot of a BLE image, is
left by the button, ETS, a BLE client or its deadline, and every change is told to
the LED and the BLE channel by a callback.

Where an action boundary lies follows from that: one action per section of code
under a lock, or per step of a task that others may run between. Code that one
task runs on data no other task touches (the thermostat) is one action.

## 2. Modules

### ProgrammingMode

State: `service` is the part of `ServiceState` under the lock; `led`, `armed`,
`oobMode`, `radio` are the copies the callback keeps up to date; `stack` is the
flag of the KNX stack's device object; `pc`/`arg` hold where each task stands
between the lock and its callbacks; `clock`, `deadline` count modulo `TickMod` as the
32-bit tick counter does. `Set`, `FanOutLed`, `FanOutOob` are the three parts of
`control_service_set_programming_mode`; `Expire`, `CtlTake`, `CtlRead` the control
task's half of the timeout; `KnxTake`, `EtsWrite` the KNX task; `OobStart`, `LongPress`,
`OobLoop` the main task; `LeaveRequest`, `LeaveFires` the BLE client's request and
the timer that carries it out. `MayRun` is the preemptive scheduler: a task runs
only while no task of higher priority is in mid-routine.

* `programming_mode`: a KNX board without BLE, where the LED and the stack's flag agree
  with the service whenever no call is in flight (`OneIndication`), and a board with
  BLE that was never commissioned. In both the window is bounded over the wrap of the
  counter (`WindowBounded`), closes neither early nor late (`OnTime`), and always closes,
  in the stack's copy too (`Lapses`).

Bounds: a timeout of 3 ticks and a counter modulo 16 put every phase of the
window against every phase of the wrap; one control cycle may be late. They are
enough because nothing depends on the size of the timeout except its
order against the tick, half the counter and the period, all of which occur.
Fairness: weak on every step of every task and on time (all
tasks get the processor, since each blocks in a delay or a queue); none on the
button, ETS or the BLE client.

Known, and kept out of the run:

* With BLE two tasks change the state (`control_service.cpp:395`), and the later of two
  callbacks may be the older one: the control task leaves the lock having entered the
  mode, the leave timer preempts it, ends the mode and runs its callback, and the
  control task then delivers its TRUE. The LED stays lit on a board that is not selected,
  although `main.c:147` says "one state, one indication". `OneIndication` therefore speaks of
  images without BLE; take `~HasOob` out of it and TLC shows the trace.
* An image with KNX/IP *and* BLE (`tools/build_variants.sh` builds one): a client that ends
  commissioning (`oob_ble.c:648`) clears the service's state and its deadline, not the KNX
  stack's, which stays in programming mode for good, against
  `control_service.cpp:377` ("no route into programming mode that leaves it open
  indefinitely"). Add `[knx |-> TRUE, oob |-> TRUE, provisioned |-> TRUE]` to `MCImages` and
  `Lapses` fails. On such a board out of the box the first expiry switches the stack
  *on*, since the boot selected the service only: the first window lasts twice the timeout.
* The timeout is a toggle that a task carries out later (`control_service.cpp:168`). If ETS
  or a client ends the window in between, the toggle enters one that nobody asked for. It is
  bounded like any other.

### ModbusSlave

State: `hold` is the register image, `applied` the task's shadow copy, `cur` its
snapshot; `line`, `nvs`, `listen` the line settings in use, stored and being
listened to; `sel` the armed serial selection. The service task is the cycle
`Get, Snap, Apply, Refresh, Decide (, StopStack, StopStack, StartStack)`; a frame
(`WriteFrame`) may land between any two. One setpoint stands for the writable
holding registers and one momentary coil for the coils: each register is handled
by the same comparison with the shadow copy.

* `mb_commissioning`: legal line settings whatever is written or half stored,
  one commit per selection, one acknowledge per write, no read-back taken for a
  command (`NoEcho`, `AtMostOnce`), and an unassigned board that comes up on the commissioning
  address while it is selected and goes mute again (`FollowsProgrammingMode`).
* `mb_window` (violated): a write between snapshot and refresh is never applied.

Bounds: two frames, one selection window of one or two ticks,
two changes of programming mode, one restart. A frame set that
selects, stages, commits, un-assigns and is refused covers every branch of
`mb_apply_writes`. Fairness: weak on the task's steps and the tick; none on
the master, the button or the power.

Known and not a finding: a commit made in programming mode is looked at twice
(the register is cleared a cycle later), so the record is stored and the stack
restarted twice (`AtMostOnce` is about the serial route); a baud code stored over BLE is overwritten by a later commit of
the pair in use; a selection stays armed while the select registers keep the
same value. They follow from the same reads of the image and contradict no document.
One consequence does: an address that is staged in one frame and committed in a
later one is put back by the refresh in between (`docs/modbus-register-map.md:329` tells
the installer to stage, then commit), unless both fall into one cycle.

### Thermostat

One `ControlCycle` is `ThermostatController::update`; `HoldCycle` and `ShutCycle`
are its two early exits on a failed room sensor. Between two cycles the
installation changes the inputs (`Sense`) or the tuning (`Configure`). `fresh`,
`ranHeat`, `ranCool` and `coldFor` are history: whether the outputs were decided on
the inputs that are there, how long ago each direction was commanded, and how long a cold room
that is not cooled has gone without heat. Temperatures are integers, outputs percents, the
integrator an integer that is clamped as the code clamps it; the derivative term is left
out (it is off by default). `CfgAssumption` takes the ranges of the parameters from the product
tables (a proportional band and a threshold of at least 1, `knx_product.hpp:1306`).

* `hvac_thermostat`: four tunings and 31 inputs, in any order. `OutputsSafe` gathers what
  keeps the commands off (floor limit, lost probe, blocking, forgotten sums), `RoomServed`
  what keeps them coming (a dead band, and a cold room that is heated once the pause is
  over), `ChangeoverKept` the pause itself, and that cooling lets go of a room that has turned cold.
* `hvac_both` (violated): with floor comfort on a system that also cools, a hot
  room over a cold slab is heated and cooled at once.

Known beside it: heating a room that has turned cold may wait for longer than the changeover
delay. Cooling goes on as long as its integrator holds more than the proportional term takes off
(`hvac_control.hpp:704`), the delay keeps heating off meanwhile (682), and only then does the delay
count down. The manual does not promise otherwise; `CoolingLetsGo` is what the code does
guarantee, that every such cycle takes from the sum, and `RoomServed` counts from its end.

With held outputs (`HoldLast`, a failed room sensor) the cycle
returns before the floor limit is looked at (`hvac_control.hpp:598`), although the manual says
that the limit "overrides everything on the heating side" (line 711). `SlabProtected`
therefore excludes held cycles; with `~Held` taken out of it TLC shows the slab
that goes on being heated.

Bounds: rooms of 20, 22 and 27 degrees lie below, at and above the setpoints, which are
one degree apart, so that an integrator outlives a change of side; floors lie below, inside and above the limit's hysteresis; a
changeover delay of two units and a timer that stops at four (one more
cycle than the delay is told apart from longer rests by nothing in the code).

### SensorFusion

One measurand: per source a `FilteredChannel` (`value`, `age`, `rejects`, `valid`), then
the comparison (`fused`). The sensor task feeds the sources one after the other
(`Miss`, `Accept`, `Reject` are the outcomes of a transfer) and fuses them (`Fuse`);
the control task may exchange the whole tuning (`Configure`) between any two of
these steps, because it has the higher priority and `applyConfig` takes no lock the
sensor task holds. `quiet` and `dropped` keep the history of one source, any of them.

* `fusion`: the gate drops at most its quota in a row; a source silent beyond the
  limit is not published by a cycle of one tuning; whoever is reported stands
  against two healthy sources that agree; what is believed and published is
  physically possible (`TypeOK`). A cycle in which the tuning changes may judge one source
  by the old limit and the next by the new: of those nothing is said about silence.

Bounds: three sources (the code's largest number), readings that agree, that
jump and that are impossible, a quota of one, a tolerance between the readings:
every branch of the gate and of the comparison occurs. Time stops one past the limit.

Known: agreement within a tolerance is not transitive. Three sources in a chain,
each within the tolerance of its neighbour, have both ends reported while
`sensor_fusion.hpp:271` speaks of the one that left the others. The code never acts on a
report (`docs/hvac-controller-manual.md:661` says "voted out": nothing is).

### RoomEvents

The three detectors that share a cycle of the sensor task: `FireDetector`,
`OccupancyEstimator`, `WindowDetector`, behind the run-in of their trends. One cycle is
`Sample`, `FireTimer` and `Finish`, since the acknowledgement (`Acknowledge`) and a new tuning
(`Configure`) come from the control task and may fall between the timer and the latch.
History timers (`sustained`, `calm`, `empty`, `flip`) measure what the
properties say independently of the code's timers.

* `room_events`: an alarm needs the whole confirmation time and ends by
  acknowledgement or after the clear time (`AlarmSound`); a window neither opens nor shuts
  faster than its two times; a room is released at the end of a quiet wait.
  `NoChatter` counts time and not evidence, which the code's timer may also lose and
  regain. A window that is open when detection is switched off keeps its latch, and
  is published as it was left when it is switched on again.

Known, and arithmetic over one quantity: the baseline creeps up by 20 ppm an hour while the
room is occupied (`sensor_fusion.hpp:676`). A room held at 170 ppm above the fresh air is within the
lower threshold of 75 ppm after four and three quarter hours, and is released a quarter
of an hour later over the people in it, while line 637 says "slow enough that a full
working day of occupancy cannot drag it up".

Bounds: three scenes (fire, people, draught), each with readings on both sides of
every threshold and failing sensors; intervals of one and two units against
times of two and three; a clock that stops at five, past every time.

### RoomControl and LatestWins

State: `plan`, `in`, `rec`, `dirty`, `ack`, `out` are `ServiceState`; `pc` and `snap` are
where `runControlTick` stands and its copies; `dew`, `damp`, `wet` the latches
of the monitors. `Write`, `Parametrise`, `Tune`, `RequestAck` (adapters) and
`SensorData` (the sensor task) are one section under the lock each; the tick is
`Snapshot`, `Push`, `Acknowledge`, `Store`, and anything may happen between them.
What the controllers make of a copy are operators on it (`Outputs`). The
psychrometric formulas are tables over the few pairs of temperature and
humidity that occur: the latches depend on their values and not on how they are computed.

Writes, tunings and acknowledgements are numbered as they are made (`asked`), as
they are copied (`taken`) and as they take effect (`served`). `LatestWins` is the
abstract promise of a place for one request: nobody is served out of order and
whoever asks is served, or somebody later. `RoomControl` implements it three
times, with the numbers of each kind as the mapping.

* `room_control`: no flag lowered over a request that is not carried out, and the three
  refinements with their fairness (`EachIsServed`); contact, detector and
  fan mode decide once they have spoken; the condensation alarm falls only with the
  room air known, a chosen surface in sight, and all that are in sight clear (`DewHeld`).

Bounds: three installations (window and presence; a fan; a cooled ceiling),
because what they link does not interact; two writes, one tuning and one
acknowledgement, so that one arrives before and one during a tick. Fairness: weak on
the tick only: the control task is woken every second by `vTaskDelayUntil` and
blocks on nothing but the short lock. None on the adapters or the sensors.

Known and not kept as runs: a fitted floor probe that stops delivering is reported
"out of service", since `control_core.hpp:543` tells the two apart by the present
reading, while the manual (line 439) has "fault" for "fitted but not reading";
a standing slab-humidity alarm is kept when its limit is set to 0, which `hvac_control.hpp:1071`
calls disabled (`DampNext`: a limit of 0 leaves the latch); the condensation alarm is
kept when the surface to look at is set to none. With floor and flow both chosen a cold floor
probe that drops out during the alarm leaves the flow alone to be compared, and a warm flow ends the
alarm (`hvac_control.hpp:1022` to 1045), although the comment at 1034 has a probe that drops out
mid-alarm hold the latch. `DewHeld` therefore asks for one surface in sight and not for all.

### KnxService

State: `hvac`, `on`, `rec`, `alarm` are what the adapter uses of `ServiceState`; `pending` the flag that
`knxAdapterOnControlTick` raises and the KNX task lowers, without a lock; `pc`, `due`, `gate`,
`snap` where `knxServiceTask` stands, with its snapshot and the silence after power-up; `policy`,
`offered`, `sent`, `age`, `waiting`, `budget` the stack's transmit state of each object. ETS loads
parameters (`Load`), which the application hears of one by one (`ParameterChanged`) while the control
task ticks (`StoreOutputs`, `OnControlTick`). One pass of the loop is `Seed`/`Drain`, `Check`,
`ApplyTransmitPolicies`, `TakeSnapshot`, `PublishAllState`, `Wake`. The stack is a submodule and external:
it sends an offer on change, on a heartbeat, or later when the repetition time or the five
telegrams a second do not allow it (`Worth`, `Ready`, `Batches`). A telegram sets an input, or a
setting of the download (`Telegram` on an object of kind "setting"): the base setpoint
(`knx_service.cpp:1070`) and the CO2 setpoint (1164) replace the value of ETS until it is downloaded
again or the device restarts; `overruled` is the history of that.

* `knx_service`: every tick with news is on offer or held by somebody (`TickHeld`); a read and
  a spontaneous send never disagree (`ReadsAgree`); no alarm is dropped, and one that waits
  has found the second used up (`AlarmPrompt`); every parameter that no telegram has replaced since
  comes into force, and the bus ends up knowing the room as closely as they ask for (`BusCatchesUp`).

Bounds: one object of each of the five kinds, since objects of a kind differ in a row of a
table; a measurement, an alarm, a state and a setpoint compete for three telegrams a second, so that one
always waits. Two downloads, which differ in setpoint, step and heartbeat, and two changes. Fairness: weak
on the loop, the control task and the stack; none on ETS, the bus or the sensors.

`BusCatchesUp` holds where the heartbeats in force leave the rate limit room (`Roomy`). The product allows
heartbeats from 1 to 65535 s (`knx_product.hpp:840`), and five telegrams a second
(`knx_service.cpp:89`) for some fifty objects do not carry those below 11 s: with them the
limit is used up by heartbeats, and which object goes is the stack's choice. The invariants and the
theorems, `QuietMeansTold` among them, make no such restriction.

`AlarmPrompt` bounds no waiting time. Which of the deferred objects goes first is the stack's
choice; where it prefers others, states that change every second with a repetition time of 0 can
keep an alarm back for as long as they go on changing.

Known beside it: the manual (line 269) says of the minimum repetition time "no object sends more often than
this", while alarms are exempt from it (`knx_service.cpp:416`) as they should be; the
floor humidity of a read (lines 976 to 979) is not clamped where the sent one is
(`control_core.hpp:283`), which the model leaves out: a reading above 100 is answered as it is.

### WifiStation, KnxIpRouting, MqttService, Network

`WifiStation` is `wifi_service.c`: `events` is the queue of the event loop, so that its handlers see an
event after the radio has moved on; `timer` is the one-shot that tries again. `KnxIpRouting` is
the start of the KNX task on KNXnet/IP, where the socket joins the group on the
interface it finds, checks again after it has registered for events, and then follows
`dirty`. `MqttService` is the event handler (`OnConnected`, `Announce`) against the publishing task (`TaskWake`
to `Remember`), which share three flags and the last document without a lock: each access is
an action. The broker is external and forgets what it retained when it restarts.
`Network` puts one of the two on a station that loses its access point and its lease.

* `network`: a station that is not associated and not trying has something coming that will make it
  try, and what adapters are told is true once the events are handled (`StationRecovers`);
  on a network that stays, the KNX device ends up in the group with the address it has, and
  the broker with the entities and, after them, the state of the room (`AdapterCatchesUp`).

Bounds: two changes of network or lease (lost and back), two addresses, one
change of state and one command. Fairness: weak on tasks, event loop, timer and driver, and on
the control tick; none on the access point, the broker or who commands.

Known: a network lost, or a lease changed, between the check (`knx_service.cpp:672`) and the
registration (1918) is never made up for, since the second look (1936) is only taken when the first
found nothing; the history variable `unlucky` marks it. A
rejoin that the socket refuses while the link is up, and the two stores with which a callback and its
argument are registered (`wifi_service.c:371`), are not modelled. A command handled between the two steps
in which the task reads and clears `publish_forced` (`mqtt_service.c:433`) is answered at the next change
of the state or heartbeat, while `docs/mqtt-integration.md:96` promises it at once.

### OobBle, Settings, DeviceConfig, Commissioning

`OobBle` keeps `s_ctx` next to what it is about: the host (`host`), the air (`air`), what the host has yet
to tell (`news`). The main loop brings the radio up and takes it down in steps (`RadioStop`,
`DropClient`, `HostStops` or `HostWillNotStop`, `Deinit`) between which the callbacks of
the host and the timers come. `Settings` holds the tables of every owner and the hooks
that read and write NVS; `DeviceConfig` is the registry that checks, stores and renders
them; `Commissioning` adds the requests of a client (`SelectItem`, `WriteValue`, `Commit`, `Reboot`,
`FactoryReset`), the order of start-up, and boots, which lose the RAM or, after a
factory reset, the NVS.

* `commissioning`: nothing of a session outlives its link, and no timer calls into a host that is
  gone (`SessionEnds`); a setting the device does not run on is announced as waiting
  for a restart, and what is shown, written back, is the same setting (`SettingsTold`); the radio of
  a device left alone goes down, and a selected one stays reachable (`RadioFollows`); the selected
  item exists (`TypeOK`).

Bounds: one selection after the boot's own, one link, one fault of the host, two writes, one
restart; the settings of an RS-485 image and a secret, texts that mean one thing as a
label and another as a number. `EveryTableFits` is evaluated over the tables of all owners.
Fairness: weak on the tasks of firmware and host and on the timers; none on the client. The timer callbacks
are single actions because the `esp_timer` task outranks the rest on the one core.

Known: the second half of `RadioFollows` excludes four cases, marked by `unlucky`, in which a selected device
goes silent until it is selected again. A failed `nimble_port_stop` leaves `advertising` set although advertising
was stopped, so that starting it again returns early (`oob_ble.c:919` to 933, against the
comment at 1062). The advertising timer may fire before the host has freed a failed
connection. The host may have no usable address when it comes up (801 to 804), or refuse
the advertising data or the start (761 to 794): both are logged, and nobody tries again. Programming mode may go off and on between two passes of the loop after advertising
was lost. The line settings are also stored by the Modbus route, which is in `ModbusSlave`, not here. A value that
`nvs_set` took and `nvs_commit` did not is a value that is not stored.

### SensorBus

One action per transaction of `sensor_bus_read` and of the probe, so that a sensor may die
between two. `sample` is the measurement a sensor holds until it is read; `record` says of each
value where it came from (made for this cycle, given before, or never written); `latest` is
what BSEC's task leaves for the sensor task, its climate and its air quality. `setup` and `calibrated` say which sensors have their
settings and whether `bme68x_init` read the calibration. `status` and `rail` are the probe's, which
may be missing, fitted or shorted at any time. Start-up is `Enable`, `InitBme` (whose result nobody looks
at, `sensor_bus.c:62`) and `ConfigureBme`; a CO2 sensor or BME688 that does not take its command aborts
and restarts the board, a BSEC that does not start is only logged (87 to 96).

* `sensors`: what a cycle hands over of the HDC3020, the CO2 sensor and the probe was measured in it, and so it is of
  the BME688 in an image that reads it directly, as long as the sensor has its settings and its calibration was
  read (`RecordTrue`). Each sensor that lives and keeps its settings is heard again and again
  whichever others are dead, a probe that is plugged in is found, a dead one goes quiet, and a shorted one is not
  powered again (`EachForItself`).

Bounds: any set of dead sensors, one change of the hardware (one that dies or returns, one whose power dips so
that it forgets its set-up, which stands for one that dies and comes back, one probe plugged or pulled), one
transaction that fails on its own, a retry every second cycle (the build has 60; only that
there are cycles with and without one matters). Fairness: weak on both tasks and on the CO2 sensor's own clock. Weak
fairness on the sensor task is more than the BSEC image guarantees: `bsec_step` comes back at once when BSEC
reports an error (`bsec_integration.c:293`), without its delay, in a task of higher priority.

Known, and what the antecedents of the two properties are for:

* A CO2 sensor or BME688 that is dead at start-up restarts the board for ever (`sensor_bus.c:137`
  through `ESP_ERROR_CHECK` at `main.c:207`), while `scd4x.c:77` says "a sensor that will not attach is a degraded
  board, not a reason to panic"; `EachForItself` speaks of boards that get to sample.
* One transaction that fails in `bme68x_init` leaves the calibration at zero, and what is computed
  from it is published. A BME688 whose power dips loses its settings, and a CO2 sensor then stops
  measuring: nothing sets either up again before a restart (`sensor_bus.c:137` runs once).
* BSEC's air quality may be a value nobody measured: the outputs of its first step start from the stack
  (253), and BSEC gives only some of them without its configuration blob, which is an optional file beside a
  library that is not part of the repository, or without a valid gas reading. Its last outputs
  are given for ever after its sensor dies (34; the manual, line 441, has a dead sensor drop out). Where it
  did not start, a living BME688 is never heard. No image of `tools/build_variants.sh` has BSEC.
* A probe bus that cannot be created leaves the rail on. A probe shorted while it works is never found to be.
  Counters of errors are left out.

## 3. Proofs

`TypeCorrect` in each proof module: the ranges, for all constants. They carry
the assumptions named in the modules, which say no more than the configuration
code guarantees (a timeout below half the counter; tunings and inputs of the
right type; frames that name known fields).

* `AlwaysBounded` (ProgrammingMode): `WindowBounded` is inductive given
  `TypeOK`. Its five disjuncts are the five places the obligation to close the window can be:
  the deadline, the toggle, or a task that took the toggle and has not set the mode yet.
* `ClosesOnTime`: `OnTime`, over the wrap of the counter. The invariant `OnSchedule` says that
  the deadline lies as far ahead of the clock as the age of the window leaves of its span, up to one
  turn of the counter, and that it is overdue by no more than the control task is late; so the
  signed difference (`TickReached`) tells past from future (`ReachedMeansDue`). It takes that
  timeout and lateness are below half the counter, 24 days in the build.
* `CopiesAgree`: `OneIndication`, on every image. The strengthening
  `SoleCaller` says that without BLE only the KNX task (or, without KNX, only the
  control task) is ever between lock and callback, and that its argument is the value of the mode
  from `Set` to the last callback.
* `ReadbackIsNoCommand` (ModbusSlave): a field on which image and shadow differ
  holds the value the master wrote last; the invariant follows the pair through
  snapshot and refresh.
* `OneCommitPerSelection`: the count of commits since the selection was armed is
  0 while it is armed, and at most 1; an edge of the coil needs a write since the last.
* `SafeOutputs` (Thermostat): `OutputsSafe` is the conjunction of the four
  protections, inductive as it stands once a blocked direction is shown to command nothing
  (`NotAllowedIsOff`).
* `OneDirection`, `ChangeoverHolds`: under `ComfortOnlyHeats` (no tuning that
  cools has floor comfort). `OneWay` adds that the reported state is the
  commanded direction and that the controller's timers equal the history
  timers; without it the changeover test, which reads the state, says nothing
  about the commands. `hvac_both` shows that the assumption cannot be dropped.
* `ColdRoomServed`: `RoomServed`. The setpoints stay a dead band apart (`SetpointsApart`), so a cold
  room has an error that heating answers in the very cycle it may run (`ColdIsHeated`); what keeps it from running is
  the pause, and `ColdSinceCooling` ties the time the room has waited to the time cooling has been off. The
  other half of `ChangeoverKept` rests on `ColdCoolingRunsDown`: with the error of a cold room
  only the integrator can ask for cooling, and it was above zero and sinks.

* `GateOpens`, `DeadSourceDropsOut`, `NoReportWithoutWitnesses` (SensorFusion): for any
  number of sources. The invariant ties `dropped` to the channel's own count of
  rejects, and says of every source already fed in this cycle that a valid one
  is not older than the limit.
* `RecordsAreTrue` (SensorBus): every entry is marked by the step that fetched it from its sensor (`MarkTrue`), start-up
  leaves the BME688's empty, and nothing sets it up later. It holds of both
  images, for any number of changes, with what `RecordTrue` says of the BME688 alone as its antecedents.
* `AlarmIsConfirmed`, `AlarmIsKept` (together `AlarmIsSound`), `WindowIsSteady`, `RoomIsReleasedLate` (RoomEvents): the
  invariant is that no timer of the code runs ahead of the history timer of
  the condition it stands for, at each of the three places in the cycle.
* `NothingIsForgotten`, `BusAlwaysWins`, `DewIsHeld`, `PlacesRefine` (RoomControl): the
  strengthening says where a request can be: a flag that is down has nothing
  new behind it (`taken = asked`), and what was copied is carried out before
  the control task goes on (`served = taken`, but for the one step where it is
  in hand). `PlacesRefine` is the safety half of `EachIsServed`, for any number of requests.

* `NoTickLost` (KnxService): for any set of objects and parameters a tick with news is held
  by the control task, by the flag, or by the offer that is due. What the flag may be
  lowered for is the hard step: the invariant says with which snapshot the loop goes on.
  `TypeCorrect` there shows that every value offered is in the range of its object.
* `NoDisagreement`: `ReadsAgree`. While nothing is new, the snapshot in hand and the values
  offered are those of the present state (`SnapshotFresh`), and a read computes the same value as an offer (`AnswerIsValue`).
* `AlarmsGoFirst`: `AlarmPrompt` is inductive; an alarm is a candidate of every batch
  (`AlarmsMayGo`), and a batch leaves a candidate out only when it uses the second up (`BatchUsesUp`).
* `QuietMeansTold`: the safety half of `BusCatchesUp`, as `NothingUntold`: with no tick, flag, offer or
  deferred telegram left, every parameter no telegram has replaced is in force, and no object is worth a telegram. It needs
  `NoTickLost`, that a policy of earlier settings has a tick ahead of it (`PolicyDue`), and `OfferStands`: an
  offer of the present is on the bus, deferred, or not worth sending.
* `AlwaysRecovers` (Network): `StationRecovers`, for any number of outages and addresses. The invariant
  has the queue of events, the timer and the handler's step together: what is still queued ends in the
  state the radio is in, and each place where the station is down has an event, a timer or a call
  behind it. `NetworkTypes` are the ranges of the composition.
* `RestIsTold`: the safety half of `AdapterCatchesUp`, as `NothingMissed`: a device with no event, flag or
  notification left is in the routing group with its address shown, or the broker has entities,
  document and present state. The invariants say who owes what is missing. `GroupOwed`: the flag, an
  event or the second look after the callback. `BrokerOwed`: an announcement on its way
  (in the client's queue, in the handler, in the flag or in the task), a forced document, or a notification; it
  needs `HandlerHears`, that a handler with an old idea of the connection has a newer event to come. TLC checked
  these with four changes of the network and two of state and commands before the proof (8.5 million states).
* `SessionIsOver` (Commissioning): whatever is left of a session has a link, or the news of its end,
  behind it, and a host that is not up has neither; so the timer's callback, which needs a session, never
  finds the host off. The link's failures, resets and the three steps of taking the radio down all keep that.
* `SelectedIsReachable`: the safety half of `RadioFollows`, as `NotForgotten`. The invariants say that the flag `advertising`
  is true of the air but for what the handler has not heard of (`AdvertisingTrue`), and that a
  host without link and news has the timer behind it (`SomebodyStarts`); the cases in which the code
  leaves a device silent are `unlucky`, as in the liveness property. (That a device left alone goes off the air needs no invariant: `RadioStop` is enabled.)
* `SettingsAreTold`: NVS holds under each key nothing, or what the parser of that item let through
  (`StoredLegal`); then what is shown reads back, by cases on the type. For an enumeration it takes
  labels that differ (`ItemAssumption`): with two the same, the second would read back as the first.

Every invariant and action property of a passing run is proved, but for the last line of `EachForItself`. Liveness (`Lapses`,
`FollowsProgrammingMode`, `BusCatchesUp`, `AdapterCatchesUp`, `RadioFollows`, `EachForItself`, the
fairness in `EachIsServed`) stays with TLC: it is out of the prover's reach. Of the three about a device that catches
up, the theorems `QuietMeansTold`, `RestIsTold` and `SelectedIsReachable` prove that one which has stopped has
done so; that it gets there is what TLC adds. Their invariants were run through TLC before the proofs, at bounds of
the runs' size or above.

## 4. Plan

Every component with concurrency or state of its own has its module. What would come next:

1. Composition: `RoomControl` over `Thermostat`; `ModbusSlave` and `MqttService` as writers of
   `RoomControl`'s command path, which inherits `LatestWins` from it.
2. The image with KNX/IP and BLE, once the stack's flag follows the service's.

## 5. Not modelled

Pure conversions (payload layout, register scaling, KNX data types, the parsing of addresses), the
sensor drivers' register sequences, BSEC and the BME68x driver (vendored), the storing of
BSEC's calibration, the scan that identifies the probe, NimBLE, esp-mqtt, esp-modbus and KNstaX (external; each
appears only as the events and results the firmware sees), web page and host
tools. The device secret derives keys from a burnt-in value: cryptography and one eFuse write at
manufacture, and the tool key of KNX Data Secure is loaded, or generated, once at start-up. `sensor_service_stop` and `sensor_bus_disable` have no caller.
The registry accepts booleans, signed numbers and floats, which no owner registers.
