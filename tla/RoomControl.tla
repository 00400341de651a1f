------------------------------ MODULE RoomControl ------------------------------
(***************************************************************************)
(* The control service: the state that the adapters, the sensor task and   *)
(* the control task share under one lock, and the control tick, which      *)
(* copies it, pushes the fusion tuning and the acknowledgement down to the *)
(* sensor side, runs the controllers on its copy and stores the result.    *)
(*                                                                         *)
(* Of the controllers the monitors and the ventilation are here; the       *)
(* thermostat, which is told what is in out, is the module Thermostat.     *)
(***************************************************************************)
EXTENDS Integers

CONSTANTS
  Plans,       \* the settings an installer may choose
  Rooms,       \* installations: [linked, records], the objects something is linked
               \* to, and the records the sensor task may deliver
  Flows,       \* flow temperatures a bus may report
  Air,         \* <<temperature, humidity>> pairs the formulas are used on
  DewTable, ContentTable,   \* psychro: what is computed for a pair
  MaxAsks      \* how many requests of each of Kinds are made

Kinds     == {"in", "tuning", "ack"}
VentModes == {"auto", "manual", "boost", "off"}

Plan == [surface : SUBSET {"floor", "flow"}, margin : Nat, gap : Nat,
         damp : Nat, dampGap : Nat, excess : Nat, excessGap : Nat,
         co2 : Nat, band : Nat, humid : Nat, humidBand : Nat,
         base : 0 .. 100, manual : 0 .. 100]
Record == [tempOk : BOOLEAN, humOk : BOOLEAN, air : Air,
           floorOk : BOOLEAN, wetOk : BOOLEAN, floor : Air,
           co2Ok : BOOLEAN, co2 : Nat, draught : BOOLEAN, people : BOOLEAN, fire : BOOLEAN]
Inputs == [window : BOOLEAN, windowKnown : BOOLEAN, presence : BOOLEAN,
           presenceKnown : BOOLEAN, central : BOOLEAN, flow : Flows, flowKnown : BOOLEAN,
           vent : VentModes]

ASSUME PlanAssumption   == Plans \subseteq Plan /\ Plans # {}
ASSUME RoomAssumption   == \A r \in Rooms : r.records \subseteq Record
ASSUME FlowAssumption   == Flows \subseteq Int /\ 0 \in Flows
ASSUME AskAssumption    == MaxAsks \in [Kinds -> Nat]
ASSUME AirAssumption ==
  /\ <<0, 0>> \in Air /\ \A a \in Air : a[1] \in Int /\ a[2] \in Nat
  /\ DewTable \in [Air -> Int] /\ ContentTable \in [Air -> Nat]

VARIABLES
  room,
  plan, in, rec,      \* ServiceState: hvac, in, latestSensorData
  dirty, ack,         \* fusionConfigDirty, acknowledgeAlarmsRequested
  out,                \* the result of the last tick
  pc, snap,           \* the control task: where it stands, and its copies
  dew, damp, wet,     \* DewPointMonitor, FloorMoistureMonitor
  asked,    \* the number of the last write, tuning and acknowledgement
  taken,    \* ... as of the control task's copies
  served    \* ... as of the outputs, and of the sensor side

service  == <<plan, in, rec, dirty, ack>>
monitors == <<dew, damp, wet>>
vars     == <<room, service, out, pc, snap, monitors, asked, taken, served>>

-----------------------------------------------------------------------------
(* What the controllers make of a copy s of the shared state.              *)

DewPoint(a) == DewTable[a]
Content(a)  == ContentTable[a]
AirOk(s)    == s.rec.tempOk /\ s.rec.humOk
ProbeOk(s)  == s.rec.floorOk /\ s.rec.wetOk

\* Mutant: the detector's guess is taken although a contact is there.
WindowGuessed(s) == s.in.window \/ s.rec.draught

Window(s)   == IF s.in.windowKnown THEN s.in.window ELSE s.in.window \/ s.rec.draught

Presence(s) == IF s.in.presenceKnown THEN (IF s.in.presence THEN "in" ELSE "out")
               ELSE IF s.rec.people THEN "in" ELSE "unknown"

\* The surfaces water may condense on, as far as they are known.
Surfaces(s) ==
  {t \in {s.rec.floor[1]} : "floor" \in s.plan.surface /\ s.rec.floorOk}
    \cup {t \in {s.in.flow} : "flow" \in s.plan.surface /\ s.in.flowKnown}

Margin(s, t) == t - DewPoint(s.rec.air)
Comparable(s) == AirOk(s) /\ Surfaces(s) # {}

\* Mutant: nothing to compare clears the alarm.
DewNextCleared(s) ==
  /\ Comparable(s)
  /\ \E t \in Surfaces(s) : Margin(s, t) < s.plan.margin + (IF dew THEN s.plan.gap ELSE 1)

\* The coldest of the known surfaces decides; with none known the alarm is held.
DewNext(s) ==
  IF ~Comparable(s) THEN dew
  ELSE \E t \in Surfaces(s) :
         \/ Margin(s, t) <= s.plan.margin
         \/ dew /\ Margin(s, t) < s.plan.margin + s.plan.gap

\* Two detectors, each of which can be turned off by a limit of 0.
DampNext(s) ==
  /\ ProbeOk(s)
  /\ IF s.plan.damp = 0 THEN damp
     ELSE \/ s.rec.floor[2] >= s.plan.damp
          \/ damp /\ s.rec.floor[2] > s.plan.damp - s.plan.dampGap
WetNext(s) ==
  LET excess == Content(s.rec.floor) - Content(s.rec.air) IN
  /\ ProbeOk(s) /\ AirOk(s) /\ s.plan.excess > 0
  /\ \/ excess >= s.plan.excess
     \/ wet /\ excess > s.plan.excess - s.plan.excessGap

Larger(a, b) == IF a < b THEN b ELSE a

\* Mutant: no end to the band.
RampUncapped(x, limit, band) ==
  IF x <= limit THEN 0 ELSE IF band = 0 THEN 100
  ELSE (200 * (x - limit) + band) \div (2 * band)

\* Percent of the way from the limit to the end of its band.
Ramp(x, limit, band) ==
  IF x <= limit THEN 0
  ELSE IF band = 0 \/ x >= limit + band THEN 100
  ELSE (200 * (x - limit) + band) \div (2 * band)

AutoDemand(s) ==
  Larger(IF s.rec.co2Ok THEN Ramp(s.rec.co2, s.plan.co2, s.plan.band) ELSE 0,
  Larger(IF s.rec.humOk THEN Ramp(s.rec.air[2], s.plan.humid, s.plan.humidBand) ELSE 0,
         IF Presence(s) = "in" THEN s.plan.base ELSE 0))

Demand(s) == CASE s.in.vent = "off"    -> 0
               [] s.in.vent = "boost"  -> 100
               [] s.in.vent = "manual" -> s.plan.manual
               [] s.in.vent = "auto"   -> AutoDemand(s)

Level(d) == IF d = 0 THEN "off" ELSE IF d < 34 THEN "low" ELSE IF d < 67 THEN "medium"
            ELSE IF d < 100 THEN "high" ELSE "boost"

\* packStatusGen(): nothing there, there but not well, well.
Status(present, healthy) ==
  IF ~present THEN "out of service" ELSE IF healthy THEN "ok" ELSE "fault"

\* What the thermostat is told, and what the adapters publish.
Outputs(s) ==
  [window |-> Window(s), presence |-> Presence(s),
   dew    |-> s.in.central \/ DewNext(s),
   moist  |-> DampNext(s) \/ WetNext(s),
   demand |-> Demand(s), level |-> Level(Demand(s)),
   dry    |-> s.rec.humOk /\ s.rec.air[2] > s.plan.humid,
   floor  |-> Status(s.rec.floorOk \/ s.rec.wetOk, ProbeOk(s)),
   fault  |-> ~AirOk(s) \/ s.rec.fire]

-----------------------------------------------------------------------------
(* The adapters and the sensor task, each in one section under the lock.   *)

Contact(b)  == [in EXCEPT !.window = b, !.windowKnown = TRUE]
Detector(b) == [in EXCEPT !.presence = b, !.presenceKnown = TRUE]
Flow(t)     == [in EXCEPT !.flow = t, !.flowKnown = TRUE]

Number(k) == asked[k] < MaxAsks[k] /\ asked' = [asked EXCEPT ![k] = asked[k] + 1]

\* control_state_write(), or a telegram.
Write ==
  /\ Number("in")
  /\ \E o \in room.linked :
       \/ o = "contact"  /\ \E b \in BOOLEAN : in' = Contact(b)
       \/ o = "detector" /\ \E b \in BOOLEAN : in' = Detector(b)
       \/ o = "central"  /\ \E b \in BOOLEAN : in' = [in EXCEPT !.central = b]
       \/ o = "flow"     /\ \E t \in Flows : in' = Flow(t)
       \/ o = "fan"      /\ \E m \in VentModes : in' = [in EXCEPT !.vent = m]
  /\ UNCHANGED <<room, plan, rec, dirty, ack, out, pc, snap, monitors, taken, served>>

Parametrise ==
  /\ Number("in") /\ plan' \in Plans
  /\ UNCHANGED <<room, in, rec, dirty, ack, out, pc, snap, monitors, taken, served>>

Tune ==
  /\ Number("tuning") /\ dirty' = TRUE
  /\ UNCHANGED <<room, plan, in, rec, ack, out, pc, snap, monitors, taken, served>>

RequestAck ==
  /\ Number("ack") /\ ack' = TRUE
  /\ UNCHANGED <<room, plan, in, rec, dirty, out, pc, snap, monitors, taken, served>>

SensorData ==
  /\ rec' \in room.records
  /\ UNCHANGED <<room, plan, in, dirty, ack, out, pc, snap, monitors, asked, taken, served>>

-----------------------------------------------------------------------------
(* runControlTick().                                                       *)

\* Everything is copied, and the two flags lowered, in one section.
Snapshot ==
  /\ pc = "sleep" /\ pc' = "push"
  /\ snap' = [plan |-> plan, in |-> in, rec |-> rec, dirty |-> dirty, ack |-> ack]
  /\ taken' = asked
  /\ dirty' = FALSE /\ ack' = FALSE
  /\ UNCHANGED <<room, plan, in, rec, out, monitors, asked, served>>

\* sensor_fusion_configure(), with the copy and outside the lock.
Push ==
  /\ pc = "push" /\ pc' = "acknowledge"
  /\ served' = [served EXCEPT !["tuning"] = IF snap.dirty THEN taken["tuning"] ELSE @]
  /\ UNCHANGED <<room, service, out, snap, monitors, asked, taken>>

\* sensor_fusion_acknowledge_alarms().
Acknowledge ==
  /\ pc = "acknowledge" /\ pc' = "store"
  /\ served' = [served EXCEPT !["ack"] = IF snap.ack THEN taken["ack"] ELSE @]
  /\ UNCHANGED <<room, service, out, snap, monitors, asked, taken>>

\* Mutant: a tick without a measurement does nothing.
StoreWithData ==
  /\ pc = "store" /\ pc' = "sleep"
  /\ IF ~AirOk(snap) /\ ~ProbeOk(snap)
     THEN UNCHANGED <<out, monitors, served>>
     ELSE /\ out' = Outputs(snap)
          /\ dew' = DewNext(snap) /\ damp' = DampNext(snap) /\ wet' = WetNext(snap)
          /\ served' = [served EXCEPT !["in"] = taken["in"]]
  /\ UNCHANGED <<room, service, snap, asked, taken>>

\* Core::tick() on the copies, then the outputs are stored under the lock.
Store ==
  /\ pc = "store" /\ pc' = "sleep"
  /\ out' = Outputs(snap)
  /\ dew' = DewNext(snap) /\ damp' = DampNext(snap) /\ wet' = WetNext(snap)
  /\ served' = [served EXCEPT !["in"] = taken["in"]]
  /\ UNCHANGED <<room, service, snap, asked, taken>>

-----------------------------------------------------------------------------

Nothing == [tempOk |-> FALSE, humOk |-> FALSE, air |-> <<0, 0>>, floorOk |-> FALSE,
            wetOk |-> FALSE, floor |-> <<0, 0>>, co2Ok |-> FALSE, co2 |-> 0,
            draught |-> FALSE, people |-> FALSE, fire |-> FALSE]

\* The record and the outputs the service starts with say nothing yet.
Init ==
  /\ room \in Rooms /\ plan \in Plans
  /\ in = [window |-> FALSE, windowKnown |-> FALSE, presence |-> FALSE, presenceKnown |-> FALSE,
           central |-> FALSE, flow |-> 0, flowKnown |-> FALSE, vent |-> "auto"]
  /\ rec = Nothing
  /\ dirty = TRUE /\ ack = FALSE /\ pc = "sleep"
  /\ snap = [plan |-> plan, in |-> in, rec |-> rec, dirty |-> FALSE, ack |-> FALSE]
  /\ out = [window |-> FALSE, presence |-> "unknown", dew |-> FALSE, moist |-> FALSE,
            demand |-> 0, level |-> "off", dry |-> FALSE, floor |-> "ok", fault |-> FALSE]
  /\ dew = FALSE /\ damp = FALSE /\ wet = FALSE
  /\ asked = [k \in Kinds |-> 0] /\ taken = asked /\ served = asked

Tick == Snapshot \/ Push \/ Acknowledge \/ Store
Next == Write \/ Parametrise \/ Tune \/ RequestAck \/ SensorData \/ Tick

\* The control task is woken every second and nothing blocks it.
Spec == Init /\ [][Next]_vars /\ WF_vars(Tick)

-----------------------------------------------------------------------------
(* Properties.                                                             *)

Output == [window : BOOLEAN, presence : {"in", "out", "unknown"}, dew : BOOLEAN,
           moist : BOOLEAN, demand : 0 .. 100,
           level : {"off", "low", "medium", "high", "boost"}, dry : BOOLEAN,
           floor : {"ok", "fault", "out of service"}, fault : BOOLEAN]

\* Every variable keeps its range; a demand is a percentage.
TypeOK ==
  /\ room \in Rooms /\ plan \in Plans /\ in \in Inputs /\ rec \in Record /\ out \in Output
  /\ {dirty, ack, dew, damp, wet} \subseteq BOOLEAN
  /\ pc \in {"sleep", "push", "acknowledge", "store"}
  /\ snap \in [plan : Plans, in : Inputs, rec : Record, dirty : BOOLEAN, ack : BOOLEAN]
  /\ \A k \in Kinds : {asked[k], taken[k], served[k]} \subseteq 0 .. MaxAsks[k]

\* A tuning or an acknowledgement that is not carried out yet is still held,
\* by its flag or by the control task's copy of it.
NothingForgotten ==
  /\ served["tuning"] # asked["tuning"] =>
       dirty \/ (pc = "push" /\ snap.dirty /\ taken["tuning"] = asked["tuning"])
  /\ served["ack"] # asked["ack"] =>
       ack \/ (pc \in {"push", "acknowledge"} /\ snap.ack /\ taken["ack"] = asked["ack"])

\* Nothing that was asked for is lost on the way, and each of the three places keeps
\* the promise of LatestWins: writes reach the outputs, tunings the channels,
\* acknowledgements the alarm.
Commands == INSTANCE LatestWins WITH asked <- asked["in"], served <- served["in"]
Tunings  == INSTANCE LatestWins WITH asked <- asked["tuning"], served <- served["tuning"]
Acks     == INSTANCE LatestWins WITH asked <- asked["ack"], served <- served["ack"]

EachIsServed == []NothingForgotten /\ Commands!Spec /\ Tunings!Spec /\ Acks!Spec

\* "A real contact or PIR always wins": when the last write is in the outputs
\* the thermostat follows the contact and the detector that have spoken, and
\* the fan the mode it was given, whatever is inferred and measured.
BusWins ==
  served["in"] = asked["in"] =>
    /\ in.windowKnown => out.window = in.window
    /\ in.presenceKnown => out.presence = (IF in.presence THEN "in" ELSE "out")
    /\ in.vent = "off" => out.demand = 0
    /\ in.vent = "boost" => out.level = "boost"

\* A surface is in sight of a tick, and warmer than the dew point by margin and gap.
Sighted(s, w) == IF w = "floor" THEN s.rec.floorOk ELSE s.in.flowKnown
Clear(s, w) ==
  LET t == IF w = "floor" THEN s.rec.floor[1] ELSE s.in.flow IN
  t - DewPoint(s.rec.air) >= s.plan.margin + s.plan.gap

\* A condensation alarm never falls unseen: it takes the room air, one of the surfaces
\* chosen at least, every surface in sight clear of the dew point, and no central alarm.
\* Where one surface is chosen its probe dropping out therefore keeps the alarm.  Where
\* both are, it does not: the one left in sight ends the alarm alone, however cold the
\* other was.
DewHeld ==
  [][out.dew /\ ~out'.dew =>
       /\ ~snap.in.central
       /\ dew => /\ AirOk(snap)
                 /\ \E w \in snap.plan.surface : Sighted(snap, w)
                 /\ \A w \in snap.plan.surface : Sighted(snap, w) => Clear(snap, w)]_vars
=============================================================================
