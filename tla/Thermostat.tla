------------------------------ MODULE Thermostat ------------------------------
(***************************************************************************)
(* ThermostatController: one decision per control cycle, from the latest   *)
(* inputs and from what the controller remembers of earlier cycles - the   *)
(* floor limit and floor comfort latches, the two-point requests, the      *)
(* integrators, and how long ago each direction was active.                *)
(*                                                                         *)
(* The installation changes the inputs, and whoever configures the device  *)
(* its tuning, between any two cycles.  Temperatures are integers of one   *)
(* unit, control values whole percents, and the two PID loops run without  *)
(* their derivative term (tdSeconds = 0, the default).                     *)
(***************************************************************************)
EXTENDS Integers

CONSTANTS
  Cfgs,      \* the tunings (ThermostatConfig) the device may be given
  Inputs,    \* the inputs (ThermostatInputs) it may meet
  Dts,       \* the intervals between two cycles
  TimerCap   \* where the model stops counting the time since a direction ran

Percents == 0 .. 100
Presets  == {"auto", "comfort", "standby", "economy", "protection"}
Modes    == {"auto", "heat", "cool", "off"}
Reported == {"fault", "preset", "heatSp", "coolSp", "heatBlocked", "coolBlocked",
             "frost", "overheat"}

ASSUME InputAssumption ==
  Inputs \subseteq
    [room : Int, roomValid : BOOLEAN, floor : Int, floorValid : BOOLEAN,
     enable : BOOLEAN, op : Presets, mode : Modes, bus : BOOLEAN,
     window : BOOLEAN, presence : {"unknown", "yes", "no"}, shift : Int,
     switchHeat : BOOLEAN, switchCool : BOOLEAN, dew : BOOLEAN]

ASSUME CfgAssumption ==
  Cfgs \subseteq
    [heatOn : BOOLEAN, coolOn : BOOLEAN, inverted : BOOLEAN, dewBlocks : BOOLEAN,
     changeover : {"auto", "bus", "fixedHeat", "fixedCool"},
     heatAlgo : {"pi", "twoPoint"}, coolAlgo : {"pi", "twoPoint"},
     strategy : {"hysteresis", "threshold"}, threshold : Percents \ {0},
     comfortSp : Int, standbyHeat : Nat, economyHeat : Nat, protHeat : Int,
     deadband : Nat, standbyCool : Nat, economyCool : Nat, protCool : Int,
     minSp : Int, maxSp : Int, maxShift : Nat, hyst : Nat, kp : Nat \ {0}, ti : Nat,
     floorMax : Int, floorMin : Int, floorHyst : Nat, comfortOut : Percents,
     frost : Int, overheat : Int, minDelay : Nat,
     window : {"ignore", "protection", "block"}, away : {"standby", "economy"},
     fault : {"hold", "off", "pass"},
     heatMin : Percents, heatMax : Percents, coolMin : Percents, coolMax : Percents]

ASSUME TimeAssumption ==
  /\ Dts \subseteq Nat \ {0} /\ Dts # {} /\ TimerCap \in Nat
  /\ \A c \in Cfgs : c.minDelay < TimerCap

VARIABLES
  cfg,                 \* config_
  in,                  \* the inputs the next cycle will read
  heating, cooling,    \* outputs_: the control values
  heatReq, coolReq,    \* outputs_: the two-point requests
  limit, comfort,      \* outputs_: floorLimitActive, floorComfortActive
  state,               \* outputs_.heatCoolState
  report,              \* outputs_: what is only reported
  heatSum, coolSum,    \* integral_ of the two loops
  sinceHeat, sinceCool,\* secondsSinceHeating_, secondsSinceCooling_
  lastRoom,            \* lastValidRoomTemperatureC_, with its flag
  probeSeen,           \* floorProbeSeen_
  fresh,               \* history: the outputs were decided on these inputs
  ranHeat, ranCool,    \* history: time since each direction was commanded
  coldFor              \* history: how long a cold room that is not cooled has gone without heat

commands == <<heating, cooling, heatReq, coolReq>>
latches  == <<limit, comfort, probeSeen>>
loops    == <<heatSum, coolSum>>
timers   == <<sinceHeat, sinceCool>>
vars == <<cfg, in, commands, latches, state, report, loops, timers, lastRoom,
          fresh, ranHeat, ranCool, coldFor>>

-----------------------------------------------------------------------------
(* Setpoints: preset, ladder, shift, clamp, dead band.                     *)

Clamp(v, lo, hi) == IF v < lo THEN lo ELSE IF v > hi THEN hi ELSE v
Above(a, b)      == IF a > b THEN a ELSE b

\* resolveActivePreset()
Preset ==
  IF in.window /\ cfg.window = "protection" THEN "protection"
  ELSE IF in.op = "protection"              THEN "protection"
  ELSE IF in.presence = "yes"               THEN "comfort"
  ELSE IF in.presence = "no"                THEN cfg.away
  ELSE IF in.op # "auto"                    THEN in.op
  ELSE "comfort"

LadderHeat == CASE Preset = "standby"    -> cfg.comfortSp - cfg.standbyHeat
                [] Preset = "economy"    -> cfg.comfortSp - cfg.economyHeat
                [] Preset = "protection" -> cfg.protHeat
                [] OTHER                 -> cfg.comfortSp

LadderCool == CASE Preset = "standby"    -> cfg.comfortSp + cfg.deadband + cfg.standbyCool
                [] Preset = "economy"    -> cfg.comfortSp + cfg.deadband + cfg.economyCool
                [] Preset = "protection" -> cfg.protCool
                [] OTHER                 -> cfg.comfortSp + cfg.deadband

Shift  == Clamp(in.shift, -cfg.maxShift, cfg.maxShift)
HeatSp == Clamp(LadderHeat + Shift, cfg.minSp, cfg.maxSp)

CoolSp == Above(Clamp(LadderCool + Shift, cfg.minSp, cfg.maxSp), HeatSp + cfg.deadband)

-----------------------------------------------------------------------------
(* The room temperature, and what is left of it when the sensor fails.     *)

Held == ~in.roomValid /\ cfg.fault = "hold"
Shut == ~in.roomValid /\ cfg.fault = "off"

\* With "pass" the last good reading stands in; before the first one there
\* is nothing, and the reading marked invalid is used as it is.
Room == IF in.roomValid \/ ~lastRoom.known THEN in.room ELSE lastRoom.t

-----------------------------------------------------------------------------
(* updateFloorLimit(): comfort band and limit, each with its hysteresis.   *)

ComfortNext ==
  /\ cfg.floorMin > 0 /\ in.floorValid
  /\ \/ in.floor <= cfg.floorMin - cfg.floorHyst
     \/ comfort /\ in.floor < cfg.floorMin

SeenNext == probeSeen \/ (cfg.floorMax > 0 /\ in.floorValid)

LimitNext ==
  /\ cfg.floorMax > 0
  /\ IF in.floorValid
     THEN in.floor >= cfg.floorMax \/ (limit /\ in.floor > cfg.floorMax - cfg.floorHyst)
     ELSE probeSeen /\ (cfg.fault = "off" \/ (cfg.fault = "hold" /\ limit))

-----------------------------------------------------------------------------
(* Which directions may run.                                               *)

\* resolveDirection()
WantsHeat ==
  CASE in.mode # "auto"          -> in.mode = "heat"
    [] cfg.changeover = "auto"   -> TRUE
    [] cfg.changeover = "bus"    -> in.bus # cfg.inverted
    [] OTHER                     -> cfg.changeover = "fixedHeat"

WantsCool ==
  CASE in.mode # "auto"          -> in.mode = "cool"
    [] cfg.changeover = "auto"   -> TRUE
    [] cfg.changeover = "bus"    -> in.bus = cfg.inverted
    [] OTHER                     -> cfg.changeover = "fixedCool"

\* Controller off, mode Off, or an open window with "block outputs".
Off == ~in.enable \/ in.mode = "off" \/ (in.window /\ cfg.window = "block")

\* Mutant: the pause ends one unit early.
HeldOffEarly(since, other) ==
  since + 1 < cfg.minDelay /\ state # (IF other = "cooling" THEN "heating" ELSE "cooling")

\* The minimum changeover delay: it never turns a running direction off.
HeldOff(since, other) ==
  since < cfg.minDelay /\ state # (IF other = "cooling" THEN "heating" ELSE "cooling")

AllowHeat ==
  /\ WantsHeat /\ cfg.heatOn /\ in.switchHeat /\ ~Off
  /\ ~HeldOff(sinceCool, "cooling")

AllowCool ==
  /\ WantsCool /\ cfg.coolOn /\ in.switchCool /\ ~Off
  /\ ~(in.dew /\ cfg.dewBlocks)
  /\ ~HeldOff(sinceHeat, "heating")

-----------------------------------------------------------------------------
(* The two loops.  PidController::update() integrates unless the output is  *)
(* saturated in the direction of the error, and returns the new sum.       *)

\* Mutant: the sum is not limited to the output's range.
SumUnclamped(sum, error, dt) ==
  LET out == cfg.kp * error + sum IN
  IF cfg.ti = 0 THEN 0
  ELSE IF (out >= 100 /\ error > 0) \/ (out <= 0 /\ error < 0) THEN sum
  ELSE sum + (cfg.kp * error * dt) \div cfg.ti

Sum(sum, error, dt) ==
  LET out == cfg.kp * error + sum IN
  IF cfg.ti = 0 THEN 0
  ELSE IF (out >= 100 /\ error > 0) \/ (out <= 0 /\ error < 0) THEN sum
  ELSE Clamp(sum + (cfg.kp * error * dt) \div cfg.ti, 0, 100)

HeatError == HeatSp - Room
CoolError == Room - CoolSp

HeatSumNext(dt) == IF cfg.heatAlgo = "pi" THEN Sum(heatSum, HeatError, dt) ELSE heatSum
CoolSumNext(dt) == IF cfg.coolAlgo = "pi" THEN Sum(coolSum, CoolError, dt) ELSE coolSum

Value(algo, error, sum) ==
  IF algo = "pi" THEN Clamp(cfg.kp * error + sum, 0, 100)
  ELSE IF error >= cfg.hyst THEN 100 ELSE 0

HeatValue(dt) == IF AllowHeat THEN Value(cfg.heatAlgo, HeatError, HeatSumNext(dt)) ELSE 0
CoolValue(dt) == IF AllowCool THEN Value(cfg.coolAlgo, CoolError, CoolSumNext(dt)) ELSE 0

\* The two-point request of one direction.
Request(allow, error, value, before) ==
  /\ allow
  /\ IF cfg.strategy = "threshold" THEN value >= cfg.threshold
     ELSE error >= cfg.hyst \/ (before /\ error > -cfg.hyst)

HeatAsked(dt) == Request(AllowHeat, HeatError, HeatValue(dt), heatReq)
CoolAsked(dt) == Request(AllowCool, CoolError, CoolValue(dt), coolReq)

\* Heating wins: any demand for heat takes cooling out of the cycle.
HeatWins(dt) == HeatAsked(dt) \/ HeatValue(dt) > 0

\* clampOutputPercent()
Opening(v, lo, hi) ==
  LET out == Clamp(v, 0, hi) IN IF out > 0 /\ out < lo THEN lo ELSE out

\* Floor comfort raises heating, and the floor limit then takes it all.
ComfortRaises == ComfortNext /\ AllowHeat

HeatingNext(dt) ==
  IF LimitNext THEN 0
  ELSE Opening(IF ComfortRaises THEN Above(HeatValue(dt), cfg.comfortOut) ELSE HeatValue(dt),
               cfg.heatMin, cfg.heatMax)

\* Mutant: heat demand takes the cooling request and not the control value.
CoolingNextAlways(dt) == Opening(CoolValue(dt), cfg.coolMin, cfg.coolMax)

CoolingNext(dt) ==
  IF HeatWins(dt) THEN 0 ELSE Opening(CoolValue(dt), cfg.coolMin, cfg.coolMax)

\* Mutant: the floor limit takes the control value and not the request.
HeatReqPastLimit(dt) == ComfortRaises \/ HeatAsked(dt)

HeatReqNext(dt) == ~LimitNext /\ (ComfortRaises \/ HeatAsked(dt))

CoolReqNext(dt) == CoolAsked(dt) /\ ~HeatWins(dt)

StateNext(dt) ==
  IF HeatingNext(dt) > 0 \/ HeatReqNext(dt) THEN "heating"
  ELSE IF CoolingNext(dt) > 0 \/ CoolReqNext(dt) THEN "cooling"
  ELSE "neutral"

-----------------------------------------------------------------------------
(* update(): one of three ways through a cycle.                            *)

Later(t, dt) == Clamp(t + dt, 0, TimerCap)

\* Mutant: a direction at rest does not count its pause.
AdvanceActiveOnly(dt) ==
  /\ sinceHeat' = IF state' = "heating" THEN 0
                  ELSE IF state' = "cooling" THEN Later(sinceHeat, dt) ELSE sinceHeat
  /\ sinceCool' = IF state' = "cooling" THEN 0
                  ELSE IF state' = "heating" THEN Later(sinceCool, dt) ELSE sinceCool

\* advanceChangeoverTimers(), for the direction the outputs now show.
Advance(dt) ==
  /\ sinceHeat' = IF state' = "heating" THEN 0 ELSE Later(sinceHeat, dt)
  /\ sinceCool' = IF state' = "cooling" THEN 0 ELSE Later(sinceCool, dt)

\* History: the room is cold and every condition for heating it holds.
ColdRoom ==
  /\ in.roomValid /\ WantsHeat /\ cfg.heatOn /\ in.switchHeat /\ ~Off
  /\ cfg.floorMax > 0 => /\ in.floorValid /\ in.floor < cfg.floorMax
                         /\ in.floor <= cfg.floorMax - cfg.floorHyst
  /\ HeatError > 0 /\ HeatError >= cfg.hyst
  /\ cfg.heatMax > 0

\* History: what was commanded, whatever the controller thinks it did.
Record(dt) ==
  /\ ranHeat' = IF heating' > 0 \/ heatReq' THEN 0 ELSE Later(ranHeat, dt)
  /\ ranCool' = IF cooling' > 0 \/ coolReq' THEN 0 ELSE Later(ranCool, dt)
  /\ coldFor' = IF ColdRoom /\ heating' = 0 /\ cooling' = 0 /\ ~coolReq'
                THEN Later(coldFor, dt) ELSE 0
  /\ fresh' = TRUE

\* HoldLast: the outputs stay, the fault is reported, time passes.
HoldCycle(dt) ==
  /\ Held
  /\ report' = [k \in Reported |-> IF k = "fault" THEN TRUE ELSE report[k]]
  /\ UNCHANGED <<cfg, in, commands, latches, state, loops, lastRoom>>
  /\ Advance(dt) /\ Record(dt)

\* ForceOff: everything off, whatever the rest of the inputs say.
ShutCycle(dt) ==
  /\ Shut
  /\ heating' = 0 /\ cooling' = 0 /\ heatReq' = FALSE /\ coolReq' = FALSE
  /\ heatSum' = 0 /\ coolSum' = 0 /\ state' = "neutral"
  /\ report' = [k \in Reported |->
                  CASE k \in {"fault", "heatBlocked", "coolBlocked"} -> TRUE
                    [] k \in {"frost", "overheat"}                   -> FALSE
                    [] OTHER                                         -> report[k]]
  /\ Advance(dt) /\ Record(dt)
  /\ UNCHANGED <<cfg, in, latches, lastRoom>>

HeatSumLeft(dt) == IF AllowHeat /\ ~LimitNext THEN HeatSumNext(dt) ELSE 0

ControlCycle(dt) ==
  /\ ~Held /\ ~Shut
  /\ heating' = HeatingNext(dt) /\ heatReq' = HeatReqNext(dt)
  /\ cooling' = CoolingNext(dt) /\ coolReq' = CoolReqNext(dt)
  /\ limit' = LimitNext /\ comfort' = ComfortNext /\ probeSeen' = SeenNext
  /\ state' = StateNext(dt)
  /\ heatSum' = HeatSumLeft(dt)
  /\ coolSum' = IF AllowCool THEN CoolSumNext(dt) ELSE 0
  /\ lastRoom' = IF in.roomValid THEN [known |-> TRUE, t |-> in.room] ELSE lastRoom
  /\ report' = [fault |-> ~in.roomValid, preset |-> Preset,
                heatSp |-> HeatSp, coolSp |-> CoolSp,
                heatBlocked |-> ~AllowHeat \/ LimitNext, coolBlocked |-> ~AllowCool,
                frost |-> cfg.frost > 0 /\ Room < cfg.frost,
                overheat |-> cfg.overheat > 0 /\ Room > cfg.overheat]
  /\ Advance(dt) /\ Record(dt)
  /\ UNCHANGED <<cfg, in>>

Update == \E dt \in Dts : HoldCycle(dt) \/ ShutCycle(dt) \/ ControlCycle(dt)

\* Between two cycles: new inputs, or a new tuning (configure() keeps state).
Sense ==
  /\ in' \in Inputs /\ fresh' = FALSE
  /\ UNCHANGED <<cfg, commands, latches, state, report, loops, timers, lastRoom,
                 ranHeat, ranCool, coldFor>>

Configure ==
  /\ cfg' \in Cfgs /\ fresh' = FALSE /\ coldFor' = 0
  /\ UNCHANGED <<in, commands, latches, state, report, loops, timers, lastRoom,
                 ranHeat, ranCool>>

Init ==
  /\ cfg \in Cfgs /\ in \in Inputs
  /\ heating = 0 /\ cooling = 0 /\ heatReq = FALSE /\ coolReq = FALSE
  /\ limit = FALSE /\ comfort = FALSE /\ probeSeen = FALSE /\ state = "neutral"
  /\ report = [fault |-> FALSE, preset |-> "comfort", heatSp |-> cfg.comfortSp,
               coolSp |-> cfg.comfortSp + cfg.deadband, heatBlocked |-> FALSE,
               coolBlocked |-> FALSE, frost |-> FALSE, overheat |-> FALSE]
  /\ heatSum = 0 /\ coolSum = 0
  /\ sinceHeat = TimerCap /\ sinceCool = TimerCap
  /\ lastRoom = [known |-> FALSE, t |-> 0]
  /\ fresh = FALSE /\ ranHeat = TimerCap /\ ranCool = TimerCap /\ coldFor = 0

Next == Update \/ Sense \/ Configure

Spec == Init /\ [][Next]_vars

-----------------------------------------------------------------------------
(* Properties.                                                             *)

Temperature == [known : BOOLEAN, t : Int]

\* Commands are percents that the actuator limits of the tuning allow; the
\* latches, timers and integrators keep their ranges.
TypeOK ==
  /\ cfg \in Cfgs /\ in \in Inputs
  /\ {heating, cooling, heatSum, coolSum} \subseteq Percents
  /\ {heatReq, coolReq, limit, comfort, probeSeen, fresh} \subseteq BOOLEAN
  /\ state \in {"neutral", "heating", "cooling"}
  /\ {sinceHeat, sinceCool, ranHeat, ranCool, coldFor} \subseteq 0 .. TimerCap
  /\ lastRoom \in Temperature

Heats == heating > 0 \/ heatReq
Cools == cooling > 0 \/ coolReq

\* "The two can never be commanded together": a slow integrator still heats a
\* room that is already warm enough to be cooled.  It holds where no tuning
\* that cools also has floor comfort.
NeverBoth == ~(Heats /\ Cools)

SlabHot == cfg.floorMax > 0 /\ in.floorValid /\ in.floor >= cfg.floorMax

\* "The floor limit overrides everything on the heating side", unless the
\* outputs are held over a failed room sensor: a cycle that saw a slab at its
\* limit commands no heat, nor does one whose probe used to report and no longer
\* does, when the tuning says that a failed sensor switches the outputs off.
SlabProtected ==
  fresh /\ ~Held =>
    /\ SlabHot => ~Heats
    /\ cfg.floorMax > 0 /\ ~in.floorValid /\ probeSeen /\ cfg.fault = "off" => ~Heats

\* An installation without a floor probe has no floor limit.
NoProbeNoLimit == limit => probeSeen

\* "After running one direction, the other is held off for this long": by
\* what was commanded, not by what the controller's own timers say.
DelayKept ==
  /\ ~Heats /\ Heats' => ranCool >= cfg.minDelay
  /\ ~Cools /\ Cools' => ranHeat >= cfg.minDelay

\* Heating has to wait for cooling, so a room that has turned cold must not be cooled
\* for good: a cycle that still does has taken from the sum that makes it.
CoolingLetsGo ==
  ColdRoom /\ fresh' /\ Cools' => coolSum' < coolSum

\* A change of direction is neither too early nor put off for ever.
ChangeoverKept == [][DelayKept /\ CoolingLetsGo]_vars

\* A cycle that saw the controller off, a window that blocks, a disabled
\* direction or a condensation risk commands nothing it must not.
BlockedIsOff ==
  fresh /\ ~Held =>
    /\ Off => ~Heats /\ ~Cools
    /\ ~cfg.heatOn \/ ~in.switchHeat => ~Heats
    /\ ~cfg.coolOn \/ ~in.switchCool => ~Cools
    /\ in.dew /\ cfg.dewBlocks => ~Cools

\* A loop that is not allowed to run forgets what it had integrated, so it
\* starts afresh when it may run again.
BlockedForgets ==
  /\ report.heatBlocked => heatSum = 0
  /\ report.coolBlocked => coolSum = 0

\* What keeps the commands off is never passed by, whichever path the cycle takes.
OutputsSafe == SlabProtected /\ BlockedIsOff /\ NoProbeNoLimit /\ BlockedForgets

\* "So a deadband-style Auto changeover can never demand both at once": the
\* setpoints a cycle worked to are a dead band apart, clamped or not.
DeadBandOpen ==
  fresh /\ ~Held /\ ~Shut => report.coolSp - report.heatSp >= cfg.deadband

\* A room that stays cold is heated within a cycle of the changeover delay once
\* cooling has let go: the delay does not starve heating, the setpoints do not meet.
RoomServed == DeadBandOpen /\ \E dt \in Dts : coldFor < cfg.minDelay + dt
=============================================================================
