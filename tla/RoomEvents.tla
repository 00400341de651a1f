------------------------------ MODULE RoomEvents ------------------------------
(***************************************************************************)
(* What the room is doing, inferred from its trends: rapid heat            *)
(* (FireDetector), people (OccupancyEstimator) and an open window          *)
(* (WindowDetector), run by the sensor task once per cycle.                *)
(*                                                                         *)
(* The control task may preempt the sensor task anywhere in the cycle.  It *)
(* applies a new tuning, and it acknowledges a latched alarm: the latch is *)
(* shared without a lock, so the cycle decides before and stores after.    *)
(***************************************************************************)
EXTENDS Integers, FiniteSets

CONSTANTS
  Scenes,      \* the courses of events: each a set of readings
  Tunings,     \* [rise, top, arm, confirm, clear, corroborate, presence, window]
  Dts,         \* the intervals between two cycles
  VocRise,     \* vocRiseIndexPerMin
  OnDelta, OffDelta, Co2Rise, Creep, OnAfter, OffAfter,   \* OccupancyConfig
  Fall, Co2Fall, Stopped, OpenAfter, MinOpen,             \* WindowDetectConfig
  TimeCap      \* where the model stops counting time

Tuning == [rise : Nat, top : Nat, arm : Nat, confirm : Nat, clear : Nat,
           corroborate : BOOLEAN, presence : BOOLEAN, window : BOOLEAN]
Reading == [ok : BOOLEAN, temp : Int, rate : Int, co2ok : BOOLEAN, co2 : Int,
            co2rate : Int, vocok : BOOLEAN, vocrate : Int, calibrated : BOOLEAN]

ASSUME SceneAssumption  == \A c \in Scenes : c \subseteq Reading /\ c # {}
ASSUME TuningAssumption == Tunings \subseteq Tuning
ASSUME TimeAssumption ==
  /\ Dts \subseteq Nat \ {0} /\ TimeCap \in Nat
  /\ {OnAfter, OffAfter, OpenAfter, MinOpen} \subseteq 1 .. TimeCap
  /\ \A t \in Tunings : t.confirm <= TimeCap /\ t.clear <= TimeCap
ASSUME LevelAssumption ==
  /\ {VocRise, OnDelta, OffDelta, Co2Rise, Creep, Fall, Co2Fall, Stopped} \subseteq Nat
  /\ OffDelta < OnDelta

VARIABLES
  scene,       \* the course of events of this behaviour
  tune,        \* the configuration of the detectors
  pc,          \* where the sensor task stands: "sample", "timer", "latch"
  dt, in,      \* the length of this cycle, and what it has measured
  copy,        \* its copy of the two enables
  run,         \* TrendMonitor: samples in a row, per trend, up to three
  confirm, clear, latched, reason,     \* FireDetector
  verdict,     \* what the cycle has found, and decided about the latch
  base, known, onTimer, offTimer, occupied,      \* OccupancyEstimator
  open, openTimer, shutTimer,                    \* WindowDetector
  events,      \* what the cycle publishes
  mixed,       \* history: a tuning was applied in the middle of this cycle
  sustained,   \* history: how long every sight of the room showed the condition
  calm,        \* history: how long none did
  empty,       \* history: how long no reading spoke for people
  flip         \* history: how long the window has been what it is

fire    == <<confirm, clear, latched, reason, verdict>>
people  == <<base, known, onTimer, offTimer, occupied>>
window  == <<open, openTimer, shutTimer>>
history == <<sustained, calm, empty, flip>>
vars    == <<scene, tune, pc, dt, in, copy, run, fire, people, window, events, mixed, history>>

NoVerdict   == [hit |-> FALSE, reasons |-> {}, latch |-> "keep"]
Later(t)    == IF t + dt < TimeCap THEN t + dt ELSE TimeCap
Least(a, b) == IF a < b THEN a ELSE b

-----------------------------------------------------------------------------
(* TrendMonitor: three valid samples in a row make a rate, a gap ends it.  *)

RunNext(n, ok) == IF ok THEN Least(n + 1, 3) ELSE 0

\* What the detectors see of reading r: a rate is 0 until it means something.
Seen(r) ==
  LET Rate(n, ok, x) == IF ok /\ RunNext(n, ok) = 3 THEN x ELSE 0 IN
  [r EXCEPT !.rate    = Rate(run.temp, r.ok, r.rate),
            !.co2rate = Rate(run.co2, r.co2ok, r.co2rate),
            !.vocrate = Rate(run.voc, r.vocok, r.vocrate)]

\* The cycle measures, updates the trends and copies the two enables.
Sample ==
  /\ pc = "sample" /\ pc' = "timer"
  /\ dt' \in Dts
  /\ \E r \in scene :
       /\ in' = Seen(r)
       /\ run' = [temp |-> RunNext(run.temp, r.ok), co2 |-> RunNext(run.co2, r.co2ok),
                  voc |-> RunNext(run.voc, r.vocok)]
  /\ copy' = [presence |-> tune.presence, window |-> tune.window]
  /\ mixed' = FALSE
  /\ UNCHANGED <<scene, tune, fire, people, window, events, history>>

-----------------------------------------------------------------------------
(* FireDetector::update().                                                 *)

Volatiles == in.vocok /\ run.voc = 3 /\ in.calibrated /\ VocRise > 0 /\ in.vocrate >= VocRise
RateHit   == /\ tune.rise > 0 /\ in.rate >= tune.rise /\ in.temp >= tune.arm
             /\ tune.corroborate => Volatiles
TopHit    == tune.top > 0 /\ in.temp >= tune.top
Hit       == RateHit \/ TopHit
Reasons   == {w \in {"rate", "top", "volatiles"} :
                \/ w = "rate" /\ RateHit
                \/ w = "top" /\ TopHit
                \/ w = "volatiles" /\ Volatiles}

\* Mutant: a cycle without the condition leaves the timer standing.
ConfirmKept == IF in.ok /\ Hit THEN Later(confirm) ELSE confirm

ConfirmNext == IF ~in.ok THEN confirm ELSE IF Hit THEN Later(confirm) ELSE 0

ClearNext ==
  IF in.ok /\ Hit THEN 0
  ELSE IF in.ok /\ latched THEN (IF Later(clear) >= tune.clear THEN 0 ELSE Later(clear))
  ELSE clear

\* The timers are stored; whether the latch changes is settled here, whatever
\* an acknowledgement does before it is stored.  Without a temperature there is
\* no opinion.
FireTimer ==
  /\ pc = "timer" /\ pc' = "latch"
  /\ confirm' = ConfirmNext /\ clear' = ClearNext
  /\ verdict' = [hit |-> in.ok /\ Hit, reasons |-> IF in.ok THEN Reasons ELSE {},
                 latch |-> IF in.ok /\ Hit /\ confirm' >= tune.confirm THEN "set"
                           ELSE IF in.ok /\ ~Hit /\ latched /\ Later(clear) >= tune.clear
                           THEN "drop" ELSE "keep"]
  /\ sustained' = IF ~in.ok THEN sustained ELSE IF Hit THEN Later(sustained) ELSE 0
  /\ calm'      = IF ~in.ok THEN calm ELSE IF Hit THEN 0 ELSE Later(calm)
  /\ UNCHANGED <<scene, tune, dt, in, copy, run, latched, reason, people, window, events,
                 mixed, empty, flip>>

-----------------------------------------------------------------------------
(* OccupancyEstimator::update().                                           *)

\* Mutant: the baseline may creep past the reading.
BaseUncapped == IF ~known \/ in.co2 < base THEN in.co2 ELSE base + Creep * dt

\* A new low is the fresh air; otherwise the baseline creeps up, slowly.
BaseNext == IF ~known \/ in.co2 < base THEN in.co2 ELSE Least(in.co2, base + Creep * dt)

Excess   == in.co2 - BaseNext
Evidence == Excess >= OnDelta \/ in.co2rate >= Co2Rise
Vacant   == Excess <= OffDelta /\ in.co2rate <= 0

Arriving == ~occupied /\ Evidence
Leaving  == occupied /\ Vacant

\* Mutant: a reading that speaks for people does not start the wait again.
OffNextKept ==
  IF Leaving THEN (IF Later(offTimer) >= OffAfter THEN 0 ELSE Later(offTimer)) ELSE offTimer

OnNext  == IF Arriving /\ Later(onTimer) < OnAfter THEN Later(onTimer) ELSE 0
OffNext == IF Leaving /\ Later(offTimer) < OffAfter THEN Later(offTimer) ELSE 0

Estimate ==
  IF copy.presence /\ in.co2ok
  THEN /\ base' = BaseNext /\ known' = TRUE
       /\ onTimer' = OnNext /\ offTimer' = OffNext
       /\ occupied' = \/ Arriving /\ Later(onTimer) >= OnAfter
                      \/ occupied /\ ~(Leaving /\ Later(offTimer) >= OffAfter)
       /\ empty' = IF Vacant THEN Later(empty) ELSE 0
  ELSE UNCHANGED <<people, empty>>

-----------------------------------------------------------------------------
(* WindowDetector::update().                                               *)

Trusted   == in.ok /\ run.temp = 3
Co2Trend  == in.co2ok /\ run.co2 = 3
Draught   == /\ in.rate <= -Fall
             /\ Co2Fall > 0 /\ Co2Trend => in.co2rate <= -Co2Fall

\* Mutant: closing leaves the old evidence standing.
ShutNextKept == IF open THEN shutTimer ELSE IF Draught THEN Later(shutTimer) ELSE 0

Closing  == open /\ in.rate > -Stopped /\ Later(openTimer) >= MinOpen
ShutNext == IF Closing THEN 0 ELSE IF open THEN shutTimer
            ELSE IF Draught THEN Later(shutTimer) ELSE 0

\* Disabled detection runs with a fall of 0: nothing is updated then.
Watch ==
  IF Trusted /\ tune.window /\ Fall > 0
  THEN /\ shutTimer' = ShutNext
       /\ open' = IF open THEN ~Closing ELSE Draught /\ Later(shutTimer) >= OpenAfter
       /\ openTimer' = IF open THEN Later(openTimer)
                       ELSE IF open' THEN 0 ELSE openTimer
  ELSE UNCHANGED window

-----------------------------------------------------------------------------

\* The rest of the cycle: the latch, the people, the window, the record.
Finish ==
  /\ pc = "latch" /\ pc' = "sample"
  /\ \/ verdict.latch = "set"  /\ latched' = TRUE  /\ reason' = verdict.reasons
     \/ verdict.latch = "drop" /\ latched' = FALSE /\ reason' = {}
     \/ verdict.latch = "keep" /\ UNCHANGED <<latched, reason>>
  /\ Estimate /\ Watch
  /\ events' = [alarm |-> latched', pre |-> verdict.hit /\ ~latched',
                reason |-> IF in.ok /\ latched' THEN reason' \cup verdict.reasons
                           ELSE verdict.reasons,
                occupied |-> copy.presence /\ occupied', window |-> copy.window /\ open']
  /\ verdict' = NoVerdict
  /\ flip' = IF open' = open THEN Later(flip) ELSE 0
  /\ UNCHANGED <<scene, tune, dt, in, copy, run, confirm, clear, mixed, sustained, calm>>

\* sensor_fusion_acknowledge_alarms(), from the control task.
Acknowledge ==
  /\ latched' = FALSE /\ reason' = {} /\ confirm' = 0 /\ clear' = 0
  /\ UNCHANGED <<scene, tune, pc, dt, in, copy, run, verdict, people, window, events,
                 mixed, history>>

\* sensor_fusion_configure(), from the control task.
Configure ==
  /\ tune' \in Tunings \ {tune}
  /\ mixed' = (pc # "sample")
  /\ UNCHANGED <<scene, pc, dt, in, copy, run, fire, people, window, events, history>>

Nothing == [ok |-> FALSE, temp |-> 0, rate |-> 0, co2ok |-> FALSE, co2 |-> 0, co2rate |-> 0,
            vocok |-> FALSE, vocrate |-> 0, calibrated |-> FALSE]

Init ==
  /\ scene \in Scenes /\ tune \in Tunings /\ pc = "sample" /\ dt \in Dts /\ in = Nothing
  /\ copy = [presence |-> FALSE, window |-> FALSE]
  /\ run = [temp |-> 0, co2 |-> 0, voc |-> 0]
  /\ confirm = 0 /\ clear = 0 /\ latched = FALSE /\ reason = {} /\ verdict = NoVerdict
  /\ base = 0 /\ known = FALSE /\ onTimer = 0 /\ offTimer = 0 /\ occupied = FALSE
  /\ open = FALSE /\ openTimer = 0 /\ shutTimer = 0
  /\ events = [alarm |-> FALSE, pre |-> FALSE, reason |-> {}, occupied |-> FALSE,
               window |-> FALSE]
  /\ mixed = FALSE
  /\ sustained = 0 /\ calm = 0 /\ empty = 0 /\ flip = 0

Next == Sample \/ FireTimer \/ Finish \/ Acknowledge \/ Configure

Spec == Init /\ [][Next]_vars

-----------------------------------------------------------------------------
(* Properties.                                                             *)

\* Every timer keeps its range, and the CO2 baseline never runs ahead of the
\* reading it follows.
TypeOK ==
  /\ scene \in Scenes /\ tune \in Tunings /\ pc \in {"sample", "timer", "latch"}
  /\ dt \in Dts /\ in \in Reading /\ mixed \in BOOLEAN
  /\ copy \in [presence : BOOLEAN, window : BOOLEAN]
  /\ run \in [temp : 0 .. 3, co2 : 0 .. 3, voc : 0 .. 3]
  /\ {confirm, clear, onTimer, offTimer, openTimer, shutTimer, sustained, calm, empty, flip}
      \subseteq 0 .. TimeCap
  /\ {latched, occupied, open, known} \subseteq BOOLEAN
  /\ base \in Int
  /\ pc = "sample" /\ known /\ copy.presence /\ in.co2ok => base <= in.co2

\* "A confirmation time, so a hairdryer or a sunbeam has to sustain the rise":
\* the alarm is raised only when every look at the room has shown the condition
\* for the confirmation time, also across gaps and acknowledgements.
AlarmConfirmed == [][~latched /\ latched' /\ ~mixed => sustained >= tune.confirm]_vars

\* An alarm ends by acknowledgement, or when the room has been seen without the
\* condition for the clear time: a dead sensor or its return ends none.
AlarmKept == [][latched /\ ~latched' /\ ~mixed => Acknowledge \/ calm >= tune.clear]_vars

\* An alarm neither comes nor goes on less than the whole waiting time.
AlarmSound == AlarmConfirmed /\ AlarmKept

\* The window cannot chatter: once open it stays so for the minimum time, and once
\* shut at least as long as the confirmation takes, whatever is seen meanwhile.
NoChatter ==
  [][open' # open => Later(flip) >= (IF open THEN MinOpen ELSE OpenAfter)]_vars

\* "CO2 decays slowly; do not release early": the room is released only after
\* every reading of the whole waiting time has spoken against people.
ReleasedLate == [][occupied /\ ~occupied' => empty' >= OffAfter]_vars
=============================================================================
