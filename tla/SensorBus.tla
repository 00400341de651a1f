------------------------------ MODULE SensorBus ------------------------------
(***************************************************************************)
(* The acquisition of measurements: the task that walks over the sensors   *)
(* once per cycle and hands one record to the fusion, BSEC's task that     *)
(* measures with one of them at a pace of its own, and the probe that is   *)
(* plugged in and out.  The sensors are external: they answer or do not,   *)
(* a transaction with one that answers may fail all the same, and each     *)
(* holds the measurement it made until it is read.  Values are left out;   *)
(* what is told apart is where a reading comes from.                       *)
(***************************************************************************)
EXTENDS Naturals

CONSTANTS
  Builds,        \* images: "direct" reads the BME688 itself, "bsec" through BSEC
  RetryCycles,   \* SENSOR_SERVICE_PROBE_RETRY_CYCLES
  MaxFaults,     \* bound: transactions that fail without a reason
  MaxChanges     \* bound: sensors that die or come back, probes that come or go

Sensors == {"hdc", "bme", "scd"}
Slots == Sensors \cup {"probe"}

ASSUME BuildAssumption == Builds \subseteq {"direct", "bsec"}
ASSUME SensorAssumption == RetryCycles \in Nat \ {0} /\ {MaxFaults, MaxChanges} \subseteq Nat

VARIABLES
  build,
  alive,         \* the sensors on the board that answer
  socket,        \* what is plugged in: "empty" | "fitted" | "shorted"
  setup,         \* the sensors that have been set up since they were last without power
  calibrated,    \* bme68x_init() has read the BME688's calibration
  sample,        \* the measurements the sensors hold: "none" | "new"
  pc,            \* where the sensor task stands, before it exists the main task
  record,        \* the results of the cycle: "none" | "fresh" | "again" | "junk"
  bpc,           \* where BSEC's task stands: "off" | "idle" | "measuring"
  latest,        \* s_latest: its climate, and its air quality where that has an accuracy
  status,        \* the probe's: "none" | "operational" | "failed" | "absent" | "short"
  rail,          \* the probe is powered
  cycle,         \* modulo RetryCycles
  faults, changes

hardware == <<build, alive, socket>>
settings == <<setup, calibrated>>
reader   == <<pc, record, cycle>>
bsec     == <<bpc, latest>>
probe    == <<status, rail>>
bounds   == <<faults, changes>>
bus     == <<hardware, settings, sample, reader, bsec, probe, bounds>>

UsesBsec == build = "bsec"

-----------------------------------------------------------------------------
(* Transactions.                                                           *)

Answers(s) == IF s = "probe" THEN socket = "fitted" /\ rail ELSE s \in alive

Done(s) == Answers(s) /\ UNCHANGED faults

Failed(s) == \/ ~Answers(s) /\ UNCHANGED faults
             \/ Answers(s) /\ faults < MaxFaults /\ faults' = faults + 1

At(p) == pc = p
Go(p) == pc' = p

\* A sensor that was asked for a measurement has one; it can be read once.
Measure(s) ==
  \/ Done(s) /\ sample' = [sample EXCEPT ![s] = "new"]
  \/ Failed(s) /\ UNCHANGED sample

Fetch(s) == sample[s] = "new" /\ Done(s) /\ sample' = [sample EXCEPT ![s] = "none"]

NoFetch(s) == \/ sample[s] = "none" /\ UNCHANGED <<sample, faults>>
              \/ sample[s] = "new" /\ Failed(s) /\ UNCHANGED sample

\* A BME688 that was not set up, or whose raw values are taken without its calibration,
\* says something all the same.
Quality(s) == IF s = "bme" /\ ~(calibrated /\ "bme" \in setup) THEN "junk" ELSE "fresh"

Mark(s) == record' = [record EXCEPT ![s] = Quality(s)]

-----------------------------------------------------------------------------
(* sensor_bus_read().                                                      *)

Empty == [s \in Slots |-> "none"]

\* Mutant: the mask is left as the last cycle filled it.
Uncleared == [s \in Slots |-> IF record[s] = "none" THEN "none" ELSE "again"]

\* memset() over the whole record.
Cleared == Empty

StartCycle ==
  /\ At("cycle") /\ Go("hdc")
  /\ record' = Cleared
  /\ UNCHANGED <<hardware, settings, sample, cycle, bsec, probe, bounds>>

HdcStart == At("hdc") /\ Go("hdc_read") /\ Measure("hdc")
            /\ UNCHANGED <<hardware, settings, record, cycle, bsec, probe, changes>>

\* Mutant: a cycle without the room sensor is no cycle.
HdcReadOrNothing ==
  /\ At("hdc_read")
  /\ \/ Fetch("hdc") /\ Mark("hdc") /\ Go("bme")
     \/ NoFetch("hdc") /\ Go("probe") /\ UNCHANGED record
  /\ UNCHANGED <<hardware, settings, cycle, bsec, probe, changes>>

HdcRead ==
  /\ At("hdc_read") /\ Go("bme")
  /\ \/ Fetch("hdc") /\ Mark("hdc")
     \/ NoFetch("hdc") /\ UNCHANGED record
  /\ UNCHANGED <<hardware, settings, cycle, bsec, probe, changes>>

Repeated(q) == IF q = "fresh" THEN "again" ELSE q

\* Whatever BSEC has had to say last; its air quality once it has begun to calibrate.
BsecSnapshot ==
  /\ At("bme") /\ UsesBsec /\ Go("pressure")
  /\ record' = [record EXCEPT !["bme"] = IF latest.air = "junk" THEN "junk" ELSE latest.climate]
  /\ latest' = [latest EXCEPT !.climate = Repeated(@)]
  /\ UNCHANGED <<hardware, settings, sample, cycle, bpc, probe, bounds>>

BmeForce == At("bme") /\ ~UsesBsec /\ Go("bme_read") /\ Measure("bme")
            /\ UNCHANGED <<hardware, settings, record, cycle, bsec, probe, changes>>

BmeRead ==
  /\ At("bme_read") /\ Go("pressure")
  /\ \/ Fetch("bme") /\ Mark("bme")
     \/ NoFetch("bme") /\ UNCHANGED record
  /\ UNCHANGED <<hardware, settings, cycle, bsec, probe, changes>>

\* The air pressure corrects the CO2 sensor.
SetPressure ==
  /\ At("pressure") /\ Go("scd")
  /\ IF record["bme"] = "none" THEN UNCHANGED faults ELSE Done("scd") \/ Failed("scd")
  /\ UNCHANGED <<hardware, settings, sample, record, cycle, bsec, probe, changes>>

\* Most cycles find nothing, and so does one whose question went unanswered; a reading
\* whose checksum is wrong is gone.
ScdRead ==
  /\ At("scd") /\ Go("probe")
  /\ \/ Fetch("scd") /\ Mark("scd")
     \/ NoFetch("scd") /\ UNCHANGED record
     \/ sample["scd"] = "new" /\ Failed("scd") /\ Answers("scd")
        /\ sample' \in {sample, [sample EXCEPT !["scd"] = "none"]}
        /\ UNCHANGED record
  /\ UNCHANGED <<hardware, settings, cycle, bsec, probe, changes>>

-----------------------------------------------------------------------------
(* The rest of the cycle: the probe, the hand-over, the next try.          *)

ProbeStart ==
  /\ At("probe")
  /\ \/ status # "operational" /\ Go("fuse") /\ UNCHANGED <<sample, faults>>
     \/ status = "operational" /\ Done("probe") /\ Go("probe_read")
        /\ sample' = [sample EXCEPT !["probe"] = "new"]
     \/ status = "operational" /\ Failed("probe") /\ Go("fuse") /\ UNCHANGED sample
  /\ UNCHANGED <<hardware, settings, record, cycle, bsec, probe, changes>>

ProbeRead ==
  /\ At("probe_read") /\ Go("fuse")
  /\ \/ Fetch("probe") /\ Mark("probe")
     \/ NoFetch("probe") /\ UNCHANGED record
  /\ UNCHANGED <<hardware, settings, cycle, bsec, probe, changes>>

\* sensor_fusion_update() and the callback take the record; then, now and then, the
\* probe is looked for.  A shorted one is left alone.
HandOver ==
  /\ At("fuse")
  /\ cycle' = (cycle + 1) % RetryCycles
  /\ Go(IF cycle' = 0 /\ status \notin {"operational", "short"} THEN "retry" ELSE "cycle")
  /\ UNCHANGED <<hardware, settings, sample, record, bsec, probe, bounds>>

\* ext_probe_deinit(), and the power is on for the next try.
ProbePower ==
  /\ At("retry") \/ At("boot")
  /\ Go(IF At("boot") THEN "boot_probe" ELSE "retry_probe")
  /\ status' = "none" /\ rail' = TRUE
  /\ UNCHANGED <<hardware, settings, sample, record, cycle, bsec, bounds>>

\* The rail has settled: a short is seen on the lines; else the bus is made, and the probe
\* answers at one of its addresses or is not there.  Without a bus the power stays on.
ProbeInit ==
  /\ At("retry_probe") \/ At("boot_probe")
  /\ Go(IF At("boot_probe") THEN "enable" ELSE "cycle")
  /\ \/ socket = "shorted" /\ status' = "short" /\ rail' = FALSE /\ UNCHANGED faults
     \/ socket # "shorted" /\ Done("probe") /\ status' = "operational" /\ UNCHANGED rail
     \/ socket # "shorted" /\ Failed("probe") /\ status' = "absent" /\ rail' = FALSE
     \/ socket # "shorted" /\ faults < MaxFaults /\ faults' = faults + 1
        /\ status' = "failed" /\ UNCHANGED rail
  /\ UNCHANGED <<hardware, settings, sample, record, cycle, bsec, changes>>

-----------------------------------------------------------------------------
(* Start-up.  Nobody asks the HDC3020 for anything here; the other two must *)
(* take a command, or app_main() aborts and the board restarts.             *)

Enable ==
  /\ At("enable")
  /\ \/ Done("scd") /\ Go("init_bme") /\ setup' = setup \cup {"scd"}
     \/ Failed("scd") /\ Go("panic") /\ UNCHANGED setup
  /\ UNCHANGED <<hardware, calibrated, sample, record, cycle, bsec, probe, changes>>

\* Nobody looks at what bme68x_init() answers.
InitBme ==
  /\ At("init_bme") /\ Go("configure_bme")
  /\ \/ Done("bme") /\ calibrated' = TRUE
     \/ Failed("bme") /\ UNCHANGED calibrated
  /\ UNCHANGED <<hardware, setup, sample, record, cycle, bsec, probe, changes>>

\* Where BSEC or its task cannot be started the device goes on without a word from it.
ConfigureBme ==
  /\ At("configure_bme")
  /\ \/ Done("bme") /\ Go("cycle") /\ setup' = setup \cup {"bme"}
        /\ bpc' \in (IF UsesBsec THEN {"idle", "off"} ELSE {"off"})
     \/ Failed("bme") /\ Go("panic") /\ UNCHANGED <<setup, bpc>>
  /\ UNCHANGED <<hardware, calibrated, sample, record, cycle, latest, probe, changes>>

NoOutput == [climate |-> "none", air |-> "none"]

\* esp_restart() takes the sensors' power with it.
Restart ==
  /\ At("panic") /\ Go("boot")
  /\ setup' = {} /\ calibrated' = FALSE
  /\ sample' = Empty /\ record' = Empty /\ cycle' = 0
  /\ bpc' = "off" /\ latest' = NoOutput /\ status' = "none" /\ rail' = FALSE
  /\ UNCHANGED <<hardware, bounds>>

-----------------------------------------------------------------------------
(* BSEC's task.                                                            *)

BsecTrigger ==
  /\ bpc = "idle"
  /\ \/ Done("bme") /\ bpc' = "measuring" /\ sample' = [sample EXCEPT !["bme"] = "new"]
     \/ Failed("bme") /\ UNCHANGED <<bpc, sample>>
  /\ UNCHANGED <<hardware, settings, reader, latest, probe, changes>>

\* apply_outputs() starts from the outputs it had, which the first time is whatever the
\* stack held, and replaces those that BSEC gave: without its configuration, or without
\* a valid gas reading, that is no air quality.
Outputs(given) ==
  [climate : IF "climate" \in given THEN {Quality("bme")}
             ELSE IF latest = NoOutput THEN {"junk"} ELSE {latest.climate},
   air     : IF "air" \in given THEN {Quality("bme"), "none"}
             ELSE IF latest = NoOutput THEN {"junk", "none"} ELSE {latest.air}]

\* BSEC may refuse what was measured, or give some of its outputs.
BsecStep ==
  /\ bpc = "measuring" /\ bpc' = "idle"
  /\ \/ /\ Fetch("bme")
        /\ latest' \in {latest} \cup
             UNION {Outputs(given) : given \in SUBSET {"climate", "air"}}
     \/ NoFetch("bme") /\ UNCHANGED latest
  /\ UNCHANGED <<hardware, settings, reader, probe, changes>>

-----------------------------------------------------------------------------
(* The hardware.                                                           *)

\* The CO2 sensor measures at a pace of its own, about every sixth cycle, once it was told to.
ScdSamples ==
  /\ "scd" \in alive \cap setup
  /\ sample["scd"] = "none" /\ sample' = [sample EXCEPT !["scd"] = "new"]
  /\ UNCHANGED <<hardware, settings, reader, bsec, probe, bounds>>

Change == changes < MaxChanges /\ changes' = changes + 1

SensorDies(s) ==
  /\ Change /\ s \in alive /\ alive' = alive \ {s} /\ sample' = [sample EXCEPT ![s] = "none"]
  /\ UNCHANGED <<build, socket, settings, reader, bsec, probe, faults>>

\* One that was without power has forgotten what it was told.
SensorReturns(s) ==
  /\ Change /\ s \notin alive /\ alive' = alive \cup {s} /\ setup' \in {setup, setup \ {s}}
  /\ UNCHANGED <<build, socket, calibrated, sample, reader, bsec, probe, faults>>

\* Its power dips.
SensorForgets(s) ==
  /\ Change /\ s \in alive \cap setup /\ setup' = setup \ {s} /\ sample' = [sample EXCEPT ![s] = "none"]
  /\ UNCHANGED <<build, alive, socket, calibrated, reader, bsec, probe, faults>>

Plug(what) ==
  /\ Change /\ socket # what /\ socket' = what /\ sample' = [sample EXCEPT !["probe"] = "none"]
  /\ UNCHANGED <<build, alive, settings, reader, bsec, probe, faults>>

Hardware == \/ \E s \in Sensors : SensorDies(s) \/ SensorReturns(s) \/ SensorForgets(s)
            \/ \E what \in {"empty", "fitted", "shorted"} : Plug(what)

-----------------------------------------------------------------------------

SensorTask ==
  \/ StartCycle \/ HdcStart \/ HdcRead \/ BsecSnapshot \/ BmeForce \/ BmeRead \/ SetPressure
  \/ ScdRead \/ ProbeStart \/ ProbeRead \/ HandOver \/ ProbePower \/ ProbeInit
  \/ Enable \/ InitBme \/ ConfigureBme \/ Restart

BsecTask == BsecTrigger \/ BsecStep

BusInit ==
  /\ build \in Builds /\ alive \in SUBSET Sensors /\ socket \in {"empty", "fitted", "shorted"}
  /\ setup = {} /\ calibrated = FALSE
  /\ sample = Empty /\ record = Empty /\ cycle = 0
  /\ pc = "boot" /\ bpc = "off" /\ latest = NoOutput
  /\ status = "none" /\ rail = FALSE /\ faults = 0 /\ changes = 0

BusNext == SensorTask \/ BsecTask \/ ScdSamples \/ Hardware

\* The tasks run, and a CO2 sensor that answers measures.
BusSpec == BusInit /\ [][BusNext]_bus /\ WF_bus(SensorTask) /\ WF_bus(BsecTask) /\ WF_bus(ScdSamples)

-----------------------------------------------------------------------------
(* Properties.                                                             *)

\* Whatever fails in a cycle, what it hands over of the room sensor, the CO2 sensor and
\* the probe was measured in it by that sensor.  So is what a direct image hands over of
\* the BME688, as long as the sensor keeps its settings and its calibration was read.
RecordTrue ==
  /\ \A s \in {"hdc", "scd", "probe"} : record[s] \in {"none", "fresh"}
  /\ ~UsesBsec /\ calibrated /\ "bme" \in setup => record["bme"] \in {"none", "fresh"}

Sampling == pc \notin {"boot", "boot_probe", "enable", "init_bme", "configure_bme", "panic"}

Reported(s)  == At("fuse") /\ record[s] # "none"
Delivered(s) == At("fuse") /\ record[s] = "fresh"

\* The sensor answers and is still set up: nothing sets it up again.
Able(s) == /\ s \in alive
           /\ s \in {"bme", "scd"} => s \in setup
           /\ s = "bme" => calibrated

\* Where the image reads the BME688 through BSEC: BSEC has given what it is asked for.
Heard(s) == s = "bme" /\ UsesBsec => latest.climate = "fresh" /\ latest.air # "junk"

\* Each sensor is heard for itself.  One that answers for good is heard again and again,
\* whichever others are dead, and so is a probe that is plugged in while the device runs
\* if no short was ever seen.  One that has died for good is not reported for ever,
\* so that the next can take over; only BSEC goes on giving the last thing it said.
\* A probe that was found shorted is not powered again before a restart.
EachForItself ==
  /\ <>Sampling =>
       /\ \A s \in Sensors : <>[]Able(s) /\ []<>Heard(s) => []<>Delivered(s)
       /\ <>[](socket = "fitted") /\ [](status # "short") => []<>Delivered("probe")
  /\ \A s \in Sensors : <>[](s \notin alive /\ ~(s = "bme" /\ UsesBsec)) => <>[](~Reported(s))
  /\ <>[](socket # "fitted") => <>[](~Reported("probe"))
  /\ [][status = "short" => ~rail']_bus
=============================================================================
