--------------------------- MODULE ThermostatProofs ---------------------------
(***************************************************************************)
(* What the thermostat guarantees for every tuning, every sequence of      *)
(* inputs and every interval between two cycles.                           *)
(***************************************************************************)
EXTENDS Thermostat, TLAPS

LEMMA ClampRange ==
  ASSUME NEW v \in Int, NEW lo \in Int, NEW hi \in Int, lo <= hi
  PROVE  Clamp(v, lo, hi) \in lo .. hi
BY DEF Clamp

LEMMA PercentRange ==
  ASSUME NEW v \in Int
  PROVE  Clamp(v, 0, 100) \in Percents
BY DEF Clamp, Percents

LEMMA LaterRange ==
  ASSUME NEW t \in 0 .. TimerCap, NEW dt \in Dts
  PROVE  Later(t, dt) \in 0 .. TimerCap
<1>1. dt \in Nat /\ TimerCap \in Nat
  BY TimeAssumption
<1> QED
  BY <1>1 DEF Later, Clamp

LEMMA OpeningRange ==
  ASSUME NEW v \in Percents, NEW lo \in Percents, NEW hi \in Percents
  PROVE  Opening(v, lo, hi) \in Percents
BY DEF Opening, Clamp, Percents

LEMMA SumRange ==
  ASSUME cfg \in Cfgs, NEW sum \in Percents, NEW error \in Int, NEW dt \in Dts
  PROVE  Sum(sum, error, dt) \in Percents
<1>1. cfg.kp \in Nat /\ cfg.ti \in Nat /\ dt \in Nat
  BY CfgAssumption, TimeAssumption
<1>2. cfg.kp * error * dt \in Int
  BY <1>1
<1>3. CASE cfg.ti = 0
  BY <1>3 DEF Sum, Percents
<1>4. CASE cfg.ti # 0
  <2> DEFINE step == (cfg.kp * error * dt) \div cfg.ti
  <2>1. step \in Int
    BY <1>1, <1>2, <1>4
  <2> HIDE DEF step
  <2>2. sum + step \in Int
    BY <2>1 DEF Percents
  <2>3. Clamp(sum + step, 0, 100) \in Percents
    BY <2>2, PercentRange
  <2> QED
    BY <2>3, <1>4 DEF Sum, step
<1> QED
  BY <1>3, <1>4

LEMMA ValueRange ==
  ASSUME cfg \in Cfgs, NEW algo, NEW sum \in Percents, NEW error \in Int
  PROVE  Value(algo, error, sum) \in Percents
<1>1. cfg.kp \in Int /\ sum \in Int
  BY CfgAssumption DEF Percents
<1>2. cfg.kp * error \in Int
  BY <1>1
<1> DEFINE out == cfg.kp * error + sum
<1>3. out \in Int
  BY <1>1, <1>2
<1> HIDE DEF out
<1>4. Clamp(out, 0, 100) \in Percents
  BY <1>3, PercentRange
<1> QED
  BY <1>4 DEF Value, Percents, out

\* The errors of the two loops are numbers whatever the preset and the shift.
LEMMA ErrorRange ==
  ASSUME TypeOK
  PROVE  HeatError \in Int /\ CoolError \in Int
<1>1. cfg \in Cfgs /\ in \in Inputs /\ lastRoom \in Temperature
  BY DEF TypeOK
<1>2. Room \in Int
  BY <1>1, InputAssumption DEF Room, Temperature
<1>3. /\ cfg.comfortSp \in Int /\ cfg.deadband \in Int /\ cfg.minSp \in Int
      /\ cfg.maxSp \in Int /\ cfg.maxShift \in Int /\ in.shift \in Int
      /\ cfg.standbyHeat \in Int /\ cfg.economyHeat \in Int /\ cfg.protHeat \in Int
      /\ cfg.standbyCool \in Int /\ cfg.economyCool \in Int /\ cfg.protCool \in Int
  BY <1>1, CfgAssumption, InputAssumption
<1>4. Shift \in Int
  BY <1>3 DEF Shift, Clamp
<1>5. LadderHeat \in Int /\ LadderCool \in Int
  BY <1>3 DEF LadderHeat, LadderCool
<1>6. HeatSp \in Int
  BY <1>3, <1>4, <1>5 DEF HeatSp, Clamp
<1>7. CoolSp \in Int
  BY <1>3, <1>4, <1>5, <1>6 DEF CoolSp, Clamp, Above
<1> QED
  BY <1>2, <1>6, <1>7 DEF HeatError, CoolError

\* What the loops ask for, and what a full cycle commands, is a percent.
LEMMA ValueOfHeat ==
  ASSUME TypeOK, NEW dt \in Dts
  PROVE  HeatValue(dt) \in Percents
<1>1. cfg \in Cfgs /\ heatSum \in Percents
  BY DEF TypeOK
<1>2. HeatSumNext(dt) \in Percents
  BY <1>1, ErrorRange, SumRange DEF HeatSumNext
<1>3. Value(cfg.heatAlgo, HeatError, HeatSumNext(dt)) \in Percents
  BY <1>1, <1>2, ErrorRange, ValueRange
<1> QED
  BY <1>3 DEF HeatValue, Percents

LEMMA OutputRange ==
  ASSUME TypeOK, NEW dt \in Dts
  PROVE  /\ HeatSumNext(dt) \in Percents /\ CoolSumNext(dt) \in Percents
         /\ HeatingNext(dt) \in Percents /\ CoolingNext(dt) \in Percents
<1>1. cfg \in Cfgs /\ heatSum \in Percents /\ coolSum \in Percents
  BY DEF TypeOK
<1>2. HeatSumNext(dt) \in Percents /\ CoolSumNext(dt) \in Percents
  BY <1>1, ErrorRange, SumRange DEF HeatSumNext, CoolSumNext
<1>3. HeatValue(dt) \in Percents /\ CoolValue(dt) \in Percents
  <2>1. Value(cfg.coolAlgo, CoolError, CoolSumNext(dt)) \in Percents
    BY <1>1, <1>2, ErrorRange, ValueRange
  <2> QED
    BY <2>1, ValueOfHeat DEF CoolValue, Percents
<1>4. /\ cfg.heatMin \in Percents /\ cfg.heatMax \in Percents
      /\ cfg.coolMin \in Percents /\ cfg.coolMax \in Percents
      /\ cfg.comfortOut \in Percents
  BY <1>1, CfgAssumption
<1>5. Above(HeatValue(dt), cfg.comfortOut) \in Percents
  BY <1>3, <1>4 DEF Above
<1>6. 0 \in Percents
  BY DEF Percents
<1>7. /\ Opening(HeatValue(dt), cfg.heatMin, cfg.heatMax) \in Percents
      /\ Opening(Above(HeatValue(dt), cfg.comfortOut), cfg.heatMin, cfg.heatMax) \in Percents
      /\ Opening(CoolValue(dt), cfg.coolMin, cfg.coolMax) \in Percents
  BY <1>3, <1>4, <1>5, OpeningRange
<1>8. HeatingNext(dt) \in Percents
  BY <1>6, <1>7 DEF HeatingNext
<1>9. CoolingNext(dt) \in Percents
  BY <1>6, <1>7 DEF CoolingNext
<1> QED
  BY <1>2, <1>8, <1>9

\* Time: the timers and the histories keep their range in every cycle.
LEMMA TimeRange ==
  ASSUME TypeOK, NEW dt \in Dts, Advance(dt), Record(dt)
  PROVE  /\ {sinceHeat', sinceCool', ranHeat', ranCool', coldFor'} \subseteq 0 .. TimerCap
         /\ fresh' = TRUE
<1> DEFINE Span == 0 .. TimerCap
<1>0. /\ sinceHeat \in Span /\ sinceCool \in Span /\ ranHeat \in Span
      /\ ranCool \in Span /\ coldFor \in Span
  BY DEF TypeOK
<1>1. /\ Later(sinceHeat, dt) \in Span /\ Later(sinceCool, dt) \in Span
      /\ Later(ranHeat, dt) \in Span /\ Later(ranCool, dt) \in Span
      /\ Later(coldFor, dt) \in Span
  BY <1>0, LaterRange
<1>2. 0 \in Span
  BY TimeAssumption
<1> HIDE DEF Span
<1>3. sinceHeat' \in Span /\ sinceCool' \in Span
  BY <1>1, <1>2 DEF Advance
<1>4. ranHeat' \in Span
  BY <1>1, <1>2 DEF Record
<1>5. ranCool' \in Span
  BY <1>1, <1>2 DEF Record
<1>6. coldFor' \in Span
  BY <1>1, <1>2 DEF Record
<1>7. fresh' = TRUE
  BY DEF Record
<1> QED
  BY <1>3, <1>4, <1>5, <1>6, <1>7 DEF Span

\* Every variable keeps its range.
THEOREM TypeCorrect == Spec => []TypeOK
<1>1. ASSUME Init PROVE TypeOK
  <2>1. 0 \in 0 .. TimerCap /\ TimerCap \in 0 .. TimerCap
    BY TimeAssumption
  <2>2. 0 \in Percents
    BY DEF Percents
  <2>3. {sinceHeat, sinceCool, ranHeat, ranCool, coldFor} \subseteq 0 .. TimerCap
    BY <1>1, <2>1 DEF Init
  <2>4. {heating, cooling, heatSum, coolSum} \subseteq Percents
    BY <1>1, <2>2 DEF Init
  <2>5. lastRoom \in Temperature
    BY <1>1 DEF Init, Temperature
  <2> QED
    BY <1>1, <2>3, <2>4, <2>5 DEF Init, TypeOK
<1>2. TypeOK /\ [Next]_vars => TypeOK'
  <2> SUFFICES ASSUME TypeOK, [Next]_vars PROVE TypeOK'
    OBVIOUS
  <2>1. ASSUME NEW dt \in Dts, HoldCycle(dt) PROVE TypeOK'
    <3>1. Advance(dt) /\ Record(dt)
      BY <2>1 DEF HoldCycle
    <3> QED
      BY <2>1, <3>1, TimeRange DEF HoldCycle, TypeOK, commands, latches, loops
  <2>2. ASSUME NEW dt \in Dts, ShutCycle(dt) PROVE TypeOK'
    <3>1. Advance(dt) /\ Record(dt)
      BY <2>2 DEF ShutCycle
    <3>2. {heating', cooling', heatSum', coolSum'} \subseteq Percents
      BY <2>2 DEF ShutCycle, Percents
    <3>3. {heatReq', coolReq', limit', comfort', probeSeen'} \subseteq BOOLEAN
      BY <2>2 DEF ShutCycle, TypeOK, latches
    <3>4. cfg' \in Cfgs /\ in' \in Inputs /\ state' = "neutral" /\ lastRoom' \in Temperature
      BY <2>2 DEF ShutCycle, TypeOK
    <3> QED
      BY <3>1, <3>2, <3>3, <3>4, TimeRange DEF TypeOK
  <2>3. ASSUME NEW dt \in Dts, ControlCycle(dt) PROVE TypeOK'
    <3>1. Advance(dt) /\ Record(dt)
      BY <2>3 DEF ControlCycle
    <3>2. {heating', cooling'} \subseteq Percents
      BY <2>3, OutputRange DEF ControlCycle
    <3>3. heatSum' \in Percents /\ coolSum' \in Percents
      BY <2>3, OutputRange DEF ControlCycle, HeatSumLeft, Percents
    <3>4. {heatReq', coolReq', limit', comfort', probeSeen'} \subseteq BOOLEAN
      BY <2>3 DEF ControlCycle, HeatReqNext, CoolReqNext, CoolAsked, Request, LimitNext,
         ComfortNext, SeenNext, TypeOK
    <3>5. state' \in {"neutral", "heating", "cooling"}
      BY <2>3 DEF ControlCycle, StateNext
    <3>6. lastRoom' \in Temperature
      <4>1. in.room \in Int
        BY InputAssumption DEF TypeOK
      <4> QED
        BY <2>3, <4>1 DEF ControlCycle, TypeOK, Temperature
    <3>7. cfg' \in Cfgs /\ in' \in Inputs
      BY <2>3 DEF ControlCycle, TypeOK
    <3> QED
      BY <3>1, <3>2, <3>3, <3>4, <3>5, <3>6, <3>7, TimeRange DEF TypeOK
  <2>4. CASE Sense
    BY <2>4 DEF Sense, TypeOK, commands, latches, loops, timers
  <2>5. CASE Configure
    <3>1. 0 \in 0 .. TimerCap
      BY TimeAssumption
    <3> QED
      BY <2>5, <3>1 DEF Configure, TypeOK, commands, latches, loops, timers
  <2>6. CASE UNCHANGED vars
    BY <2>6 DEF vars, TypeOK, commands, latches, loops, timers
  <2> QED
    BY <2>1, <2>2, <2>3, <2>4, <2>5, <2>6 DEF Next, Update
<1> QED
  BY <1>1, <1>2, PTL DEF Spec

-----------------------------------------------------------------------------
(* What one cycle may command.                                             *)

\* A clamped output of zero stays zero whatever the actuator limits.
LEMMA OpeningOfNothing ==
  ASSUME NEW lo \in Percents, NEW hi \in Percents
  PROVE  Opening(0, lo, hi) = 0
BY DEF Opening, Clamp, Percents

\* A direction that is not allowed to run is not commanded by a full cycle.
LEMMA NotAllowedIsOff ==
  ASSUME TypeOK, NEW dt \in Dts, ControlCycle(dt)
  PROVE  /\ ~AllowHeat \/ LimitNext => ~Heats'
         /\ ~AllowCool => ~Cools'
<1>1. /\ cfg.heatMin \in Percents /\ cfg.heatMax \in Percents
      /\ cfg.coolMin \in Percents /\ cfg.coolMax \in Percents
  BY CfgAssumption DEF TypeOK
<1>c. /\ heating' = HeatingNext(dt) /\ heatReq' = HeatReqNext(dt)
      /\ cooling' = CoolingNext(dt) /\ coolReq' = CoolReqNext(dt)
  BY DEF ControlCycle
<1>2. ASSUME LimitNext PROVE ~Heats'
  <2>1. HeatingNext(dt) = 0
    BY <1>2 DEF HeatingNext
  <2>2. ~HeatReqNext(dt)
    BY <1>2 DEF HeatReqNext
  <2> QED
    BY <1>c, <2>1, <2>2 DEF Heats
<1>3. ASSUME ~AllowHeat PROVE ~Heats'
  <2>1. HeatValue(dt) = 0 /\ ~ComfortRaises /\ ~HeatAsked(dt)
    BY <1>3 DEF HeatValue, ComfortRaises, HeatAsked, Request
  <2>2. HeatingNext(dt) = 0
    BY <2>1, <1>1, OpeningOfNothing DEF HeatingNext
  <2>3. ~HeatReqNext(dt)
    BY <2>1 DEF HeatReqNext
  <2> QED
    BY <1>c, <2>2, <2>3 DEF Heats
<1>4. ASSUME ~AllowCool PROVE ~Cools'
  <2>1. CoolValue(dt) = 0 /\ ~CoolAsked(dt)
    BY <1>4 DEF CoolValue, CoolAsked, Request
  <2>2. CoolingNext(dt) = 0
    BY <2>1, <1>1, OpeningOfNothing DEF CoolingNext
  <2>3. ~CoolReqNext(dt)
    BY <2>1 DEF CoolReqNext
  <2> QED
    BY <1>c, <2>2, <2>3 DEF Cools
<1> QED
  BY <1>2, <1>3, <1>4

\* Each condition on the outputs follows from the cycle that made them, and says
\* nothing once the inputs changed.
LEMMA CycleIsSafe ==
  ASSUME TypeOK, OutputsSafe, NEW dt \in Dts,
         HoldCycle(dt) \/ ShutCycle(dt) \/ ControlCycle(dt)
  PROVE  OutputsSafe'
<1>1. CASE HoldCycle(dt)
  <2>1. Held' /\ UNCHANGED <<limit, probeSeen, heatSum, coolSum>>
    BY <1>1 DEF HoldCycle, Held, latches, loops
  <2>2. report'.heatBlocked = report.heatBlocked /\ report'.coolBlocked = report.coolBlocked
    BY <1>1 DEF HoldCycle, Reported
  <2> QED
    BY <2>1, <2>2 DEF OutputsSafe, SlabProtected, BlockedIsOff, NoProbeNoLimit, BlockedForgets
<1>2. CASE ShutCycle(dt)
  <2>1. ~Heats' /\ ~Cools' /\ UNCHANGED <<limit, probeSeen>> /\ heatSum' = 0 /\ coolSum' = 0
    BY <1>2 DEF ShutCycle, Heats, Cools, latches
  <2> QED
    BY <2>1 DEF OutputsSafe, SlabProtected, BlockedIsOff, NoProbeNoLimit, BlockedForgets
<1>3. CASE ControlCycle(dt)
  <2>1. UNCHANGED <<cfg, in>> /\ limit' = LimitNext /\ probeSeen' = SeenNext
    BY <1>3 DEF ControlCycle
  <2>2. SlabProtected'
    <3>1. ASSUME SlabHot PROVE LimitNext
      BY <3>1 DEF SlabHot, LimitNext
    <3>2. ASSUME cfg.floorMax > 0, ~in.floorValid, probeSeen', cfg.fault = "off"
          PROVE  LimitNext
      BY <2>1, <3>2 DEF SeenNext, LimitNext
    <3>3. SlabHot' = SlabHot
      BY <2>1 DEF SlabHot
    <3>4. LimitNext => ~Heats'
      BY <1>3, NotAllowedIsOff
    <3>5. cfg' = cfg /\ in' = in
      BY <2>1
    <3> QED
      BY <3>1, <3>2, <3>3, <3>4, <3>5 DEF SlabProtected
  <2>3. BlockedIsOff'
    <3>1. Off \/ ~cfg.heatOn \/ ~in.switchHeat => ~AllowHeat
      BY DEF AllowHeat
    <3>2. Off \/ ~cfg.coolOn \/ ~in.switchCool \/ (in.dew /\ cfg.dewBlocks) => ~AllowCool
      BY DEF AllowCool
    <3>3. Off' = Off
      BY <2>1 DEF Off
    <3>4. (~AllowHeat => ~Heats') /\ (~AllowCool => ~Cools')
      BY <1>3, NotAllowedIsOff
    <3>5. cfg' = cfg /\ in' = in
      BY <2>1
    <3> QED
      BY <3>1, <3>2, <3>3, <3>4, <3>5 DEF BlockedIsOff
  <2>4. NoProbeNoLimit'
    <3>1. NoProbeNoLimit
      BY DEF OutputsSafe
    <3> QED
      BY <2>1, <3>1 DEF NoProbeNoLimit, LimitNext, SeenNext
  <2>5. BlockedForgets'
    <3>1. /\ report'.heatBlocked = (~AllowHeat \/ LimitNext)
          /\ report'.coolBlocked = ~AllowCool
      BY <1>3 DEF ControlCycle
    <3> QED
      BY <1>3, <3>1 DEF BlockedForgets, ControlCycle, HeatSumLeft
  <2> QED
    BY <2>2, <2>3, <2>4, <2>5 DEF OutputsSafe
<1> QED
  BY <1>1, <1>2, <1>3

\* A cycle that saw a slab at its limit, the controller off, a window that
\* blocks, a disabled direction or a condensation risk commands nothing it
\* must not; a floor limit needs a probe; a blocked loop has forgotten.
THEOREM SafeOutputs == Spec => []OutputsSafe
<1>1. Init => OutputsSafe
  BY DEF Init, OutputsSafe, SlabProtected, BlockedIsOff, NoProbeNoLimit, BlockedForgets
<1>2. TypeOK /\ OutputsSafe /\ [Next]_vars => OutputsSafe'
  <2> SUFFICES ASSUME TypeOK, OutputsSafe, [Next]_vars PROVE OutputsSafe'
    OBVIOUS
  <2>1. CASE Update
    BY <2>1, CycleIsSafe DEF Update
  <2>2. CASE Sense \/ Configure
    BY <2>2 DEF Sense, Configure, OutputsSafe, SlabProtected, BlockedIsOff, NoProbeNoLimit,
       BlockedForgets, latches, loops
  <2>3. CASE UNCHANGED vars
    BY <2>3 DEF vars, OutputsSafe, SlabProtected, BlockedIsOff, NoProbeNoLimit, BlockedForgets,
       SlabHot, Heats, Cools, Held, Off, commands, latches, loops
  <2> QED
    BY <2>1, <2>2, <2>3 DEF Next
<1> QED
  BY <1>1, <1>2, TypeCorrect, PTL DEF Spec

-----------------------------------------------------------------------------
(* One direction at a time, where floor comfort is not set on a system that *)
(* cools: with it the mutual exclusion fails, as the run hvac_both shows.   *)

ComfortOnlyHeats == \A c \in Cfgs : c.coolOn => c.floorMin <= 0

\* state and timers are the truth about what was commanded.
OneWay ==
  /\ NeverBoth
  /\ state = "heating" <=> Heats
  /\ state = "cooling" <=> Cools
  /\ sinceHeat = ranHeat /\ sinceCool = ranCool

LEMMA CycleIsOneWay ==
  ASSUME ComfortOnlyHeats, TypeOK, NEW dt \in Dts, ControlCycle(dt)
  PROVE  /\ ~(Heats' /\ Cools')
         /\ state' = "heating" <=> Heats'
         /\ state' = "cooling" <=> Cools'
<1>1. /\ heating' = HeatingNext(dt) /\ heatReq' = HeatReqNext(dt)
      /\ cooling' = CoolingNext(dt) /\ coolReq' = CoolReqNext(dt)
      /\ state' = StateNext(dt)
  BY DEF ControlCycle
<1>2. ~(Heats' /\ Cools')
  <2>1. CASE ~AllowCool
    BY <2>1, NotAllowedIsOff
  <2>2. CASE AllowCool /\ HeatWins(dt)
    <3>1. CoolingNext(dt) = 0
      BY <2>2 DEF CoolingNext
    <3>2. ~CoolReqNext(dt)
      BY <2>2 DEF CoolReqNext
    <3> QED
      BY <1>1, <3>1, <3>2 DEF Cools
  <2>3. CASE AllowCool /\ ~HeatWins(dt)
    <3>1. cfg.floorMin <= 0 /\ cfg.floorMin \in Int /\ cfg.heatMin \in Percents
          /\ cfg.heatMax \in Percents
      BY <2>3, CfgAssumption DEF AllowCool, ComfortOnlyHeats, TypeOK
    <3>2. ~ComfortRaises
      BY <3>1 DEF ComfortRaises, ComfortNext
    <3>3. HeatValue(dt) = 0
      <4>1. HeatValue(dt) \in Percents
        BY ValueOfHeat
      <4> QED
        BY <2>3, <4>1 DEF HeatWins, Percents
    <3>4. HeatingNext(dt) = 0
      BY <3>1, <3>2, <3>3, OpeningOfNothing DEF HeatingNext
    <3>5. ~HeatReqNext(dt)
      BY <2>3, <3>2 DEF HeatWins, HeatReqNext
    <3> QED
      BY <1>1, <3>4, <3>5 DEF Heats
  <2> QED
    BY <2>1, <2>2, <2>3
<1>3. /\ Heats' <=> HeatingNext(dt) > 0 \/ HeatReqNext(dt)
      /\ Cools' <=> CoolingNext(dt) > 0 \/ CoolReqNext(dt)
  BY <1>1 DEF Heats, Cools
<1> QED
  BY <1>1, <1>2, <1>3 DEF StateNext

LEMMA TimersAgree ==
  ASSUME OneWay, NEW dt \in Dts, Advance(dt), Record(dt),
         state' = "heating" <=> Heats', state' = "cooling" <=> Cools'
  PROVE  sinceHeat' = ranHeat' /\ sinceCool' = ranCool'
<1>1. /\ sinceHeat' = IF Heats' THEN 0 ELSE Later(sinceHeat, dt)
      /\ sinceCool' = IF Cools' THEN 0 ELSE Later(sinceCool, dt)
  BY DEF Advance
<1>2. /\ ranHeat' = IF Heats' THEN 0 ELSE Later(ranHeat, dt)
      /\ ranCool' = IF Cools' THEN 0 ELSE Later(ranCool, dt)
  BY DEF Record, Heats, Cools
<1> QED
  BY <1>1, <1>2 DEF OneWay

LEMMA OneWayKept ==
  ASSUME ComfortOnlyHeats, TypeOK, OneWay, [Next]_vars
  PROVE  OneWay'
<1>1. ASSUME NEW dt \in Dts, HoldCycle(dt) PROVE OneWay'
  <2>1. UNCHANGED <<heating, cooling, heatReq, coolReq, state>> /\ Advance(dt) /\ Record(dt)
    BY <1>1 DEF HoldCycle, commands
  <2>2. (Heats' <=> Heats) /\ (Cools' <=> Cools)
    BY <2>1 DEF Heats, Cools
  <2>3. sinceHeat' = ranHeat' /\ sinceCool' = ranCool'
    BY <2>1, <2>2, TimersAgree DEF OneWay
  <2> QED
    BY <2>1, <2>2, <2>3 DEF OneWay, NeverBoth
<1>2. ASSUME NEW dt \in Dts, ShutCycle(dt) PROVE OneWay'
  <2>1. ~Heats' /\ ~Cools' /\ state' = "neutral" /\ Advance(dt) /\ Record(dt)
    BY <1>2 DEF ShutCycle, Heats, Cools
  <2>2. sinceHeat' = ranHeat' /\ sinceCool' = ranCool'
    BY <2>1, TimersAgree
  <2> QED
    BY <2>1, <2>2 DEF OneWay, NeverBoth
<1>3. ASSUME NEW dt \in Dts, ControlCycle(dt) PROVE OneWay'
  <2>1. Advance(dt) /\ Record(dt)
    BY <1>3 DEF ControlCycle
  <2>2. /\ ~(Heats' /\ Cools')
        /\ state' = "heating" <=> Heats'
        /\ state' = "cooling" <=> Cools'
    BY <1>3, CycleIsOneWay
  <2>3. sinceHeat' = ranHeat' /\ sinceCool' = ranCool'
    BY <2>1, <2>2, TimersAgree
  <2> QED
    BY <2>2, <2>3 DEF OneWay, NeverBoth
<1>4. CASE Sense \/ Configure \/ UNCHANGED vars
  <2>1. UNCHANGED <<heating, cooling, heatReq, coolReq, state, sinceHeat, sinceCool,
                    ranHeat, ranCool>>
    BY <1>4 DEF Sense, Configure, vars, commands, timers
  <2>2. (Heats' <=> Heats) /\ (Cools' <=> Cools)
    BY <2>1 DEF Heats, Cools
  <2> QED
    BY <2>1, <2>2 DEF OneWay, NeverBoth
<1> QED
  BY <1>1, <1>2, <1>3, <1>4 DEF Next, Update

LEMMA OneWayHolds ==
  ASSUME ComfortOnlyHeats
  PROVE  Spec => []OneWay
<1>1. ASSUME Init PROVE OneWay
  BY <1>1 DEF Init, OneWay, NeverBoth, Heats, Cools
<1>2. TypeOK /\ OneWay /\ [Next]_vars => OneWay'
  BY OneWayKept
<1> QED
  BY <1>1, <1>2, TypeCorrect, PTL DEF Spec

\* Heating and cooling are never commanded together, whatever the tuning,
\* as long as no tuning that cools has floor comfort.
THEOREM OneDirection ==
  ASSUME ComfortOnlyHeats
  PROVE  Spec => []NeverBoth
<1>1. OneWay => NeverBoth
  BY DEF OneWay
<1> QED
  BY <1>1, OneWayHolds, PTL

-----------------------------------------------------------------------------
(* A room that has turned cold: heating is not starved.                    *)

\* The setpoints of a cycle are a dead band apart, whatever the ladders, the shift and
\* the limits make of them.
LEMMA SetpointsApart ==
  ASSUME TypeOK
  PROVE  /\ HeatSp \in Int /\ CoolSp \in Int /\ Room \in Int
         /\ cfg.deadband \in Nat /\ CoolSp - HeatSp >= cfg.deadband
<1>1. cfg \in Cfgs /\ in \in Inputs /\ lastRoom \in Temperature
  BY DEF TypeOK
<1>2. Room \in Int
  BY <1>1, InputAssumption DEF Room, Temperature
<1>3. /\ cfg.comfortSp \in Int /\ cfg.deadband \in Nat /\ cfg.minSp \in Int
      /\ cfg.maxSp \in Int /\ cfg.maxShift \in Int /\ in.shift \in Int
      /\ cfg.standbyHeat \in Int /\ cfg.economyHeat \in Int /\ cfg.protHeat \in Int
      /\ cfg.standbyCool \in Int /\ cfg.economyCool \in Int /\ cfg.protCool \in Int
  BY <1>1, CfgAssumption, InputAssumption
<1>4. Shift \in Int
  BY <1>3 DEF Shift, Clamp
<1>5. LadderHeat \in Int /\ LadderCool \in Int
  BY <1>3 DEF LadderHeat, LadderCool
<1>6. HeatSp \in Int
  BY <1>3, <1>4, <1>5 DEF HeatSp, Clamp
<1>7. CoolSp \in Int /\ CoolSp >= HeatSp + cfg.deadband
  BY <1>3, <1>4, <1>5, <1>6 DEF CoolSp, Clamp, Above
<1> QED
  BY <1>2, <1>3, <1>6, <1>7

\* A cold room has a heating error of a degree or more, and nothing for cooling to do.
LEMMA ColdErrors ==
  ASSUME TypeOK, ColdRoom
  PROVE  /\ HeatError \in Int /\ CoolError \in Int
         /\ HeatError >= 1 /\ HeatError >= cfg.hyst
         /\ CoolError <= -1 /\ CoolError <= -cfg.hyst
<1>1. /\ HeatSp \in Int /\ CoolSp \in Int /\ Room \in Int
      /\ cfg.deadband \in Nat /\ CoolSp - HeatSp >= cfg.deadband
  BY SetpointsApart
<1>2. HeatError > 0 /\ HeatError >= cfg.hyst
  BY DEF ColdRoom
<1>3. cfg.hyst \in Nat
  BY CfgAssumption DEF TypeOK
<1> QED
  BY <1>1, <1>2, <1>3 DEF HeatError, CoolError

\* Where heating may run, a cold room gets it.
LEMMA ColdIsHeated ==
  ASSUME TypeOK, ColdRoom, AllowHeat, NEW dt \in Dts
  PROVE  HeatValue(dt) > 0 /\ HeatingNext(dt) > 0
<1>1. /\ cfg.kp \in Nat \ {0} /\ cfg.hyst \in Nat /\ cfg.floorMax \in Int
      /\ cfg.floorHyst \in Nat /\ cfg.heatMin \in Percents /\ cfg.heatMax \in Percents
      /\ cfg.comfortOut \in Percents /\ cfg.heatAlgo \in {"pi", "twoPoint"}
      /\ in.floor \in Int
  BY CfgAssumption, InputAssumption DEF TypeOK
<1>2. HeatError \in Int /\ HeatError >= 1 /\ HeatError >= cfg.hyst
  BY ColdErrors
<1>3. HeatSumNext(dt) \in Percents
  BY OutputRange
<1>4. Value(cfg.heatAlgo, HeatError, HeatSumNext(dt)) > 0
  <2>1. CASE cfg.heatAlgo = "pi"
    <3> DEFINE push == cfg.kp * HeatError
    <3>1. push \in Int /\ push >= 1
      BY <1>1, <1>2
    <3> HIDE DEF push
    <3>2. Clamp(push + HeatSumNext(dt), 0, 100) > 0
      BY <1>3, <3>1 DEF Clamp, Percents
    <3> QED
      BY <2>1, <3>2 DEF Value, push
  <2>2. CASE cfg.heatAlgo = "twoPoint"
    BY <1>2, <2>2 DEF Value
  <2> QED
    BY <1>1, <2>1, <2>2
<1>5. HeatValue(dt) > 0 /\ HeatValue(dt) \in Percents
  BY <1>4, ValueOfHeat DEF HeatValue
<1>6. ~LimitNext
  BY <1>1 DEF LimitNext, ColdRoom
<1>7. cfg.heatMax > 0
  BY DEF ColdRoom
<1> DEFINE asked == IF ComfortRaises THEN Above(HeatValue(dt), cfg.comfortOut) ELSE HeatValue(dt)
<1>8. asked \in Percents /\ asked > 0
  BY <1>1, <1>5 DEF Above, Percents
<1>9. HeatingNext(dt) = Opening(asked, cfg.heatMin, cfg.heatMax)
  BY <1>6 DEF HeatingNext
<1> HIDE DEF asked
<1>10. Opening(asked, cfg.heatMin, cfg.heatMax) > 0
  BY <1>1, <1>7, <1>8 DEF Opening, Clamp, Percents
<1> QED
  BY <1>5, <1>9, <1>10

\* What cools a cold room is the integrator alone, and it is running down.
LEMMA ColdCoolingRunsDown ==
  ASSUME TypeOK, ColdRoom, NEW dt \in Dts, ControlCycle(dt), Cools'
  PROVE  coolSum' < coolSum
<1>1. /\ cfg.kp \in Nat \ {0} /\ cfg.ti \in Nat /\ cfg.hyst \in Nat
      /\ cfg.threshold \in Percents \ {0} /\ cfg.strategy \in {"hysteresis", "threshold"}
      /\ cfg.coolMin \in Percents /\ cfg.coolMax \in Percents
      /\ cfg.coolAlgo \in {"pi", "twoPoint"} /\ dt \in Nat \ {0} /\ coolSum \in Percents
  BY CfgAssumption, TimeAssumption DEF TypeOK
<1>2. CoolError \in Int /\ CoolError <= -1 /\ CoolError <= -cfg.hyst
  BY ColdErrors
<1>3. CoolSumNext(dt) \in Percents
  BY OutputRange
<1>4. AllowCool
  BY NotAllowedIsOff
<1>5. CoolValue(dt) \in Percents
  <2>1. cfg \in Cfgs
    BY DEF TypeOK
  <2>2. Value(cfg.coolAlgo, CoolError, CoolSumNext(dt)) \in Percents
    BY <1>2, <1>3, <2>1, ValueRange
  <2> QED
    BY <2>2 DEF CoolValue, Percents
<1>6. CoolValue(dt) > 0
  <2>1. CASE cooling' > 0
    <3>1. CoolingNext(dt) > 0
      BY <2>1 DEF ControlCycle
    <3>2. CoolValue(dt) # 0
      BY <1>1, <3>1, OpeningOfNothing DEF CoolingNext
    <3> QED
      BY <1>5, <3>2 DEF Percents
  <2>2. CASE coolReq'
    <3>1. Request(AllowCool, CoolError, CoolValue(dt), coolReq)
      BY <2>2 DEF ControlCycle, CoolReqNext, CoolAsked
    <3> QED
      BY <1>1, <1>2, <1>5, <3>1 DEF Request, Percents
  <2> QED
    BY <2>1, <2>2 DEF Cools
<1> DEFINE push == cfg.kp * CoolError
<1>7. push \in Int /\ push <= -1
  BY <1>1, <1>2
<1>8. cfg.coolAlgo = "pi"
  BY <1>1, <1>2, <1>4, <1>6 DEF CoolValue, Value
<1>9. CoolSumNext(dt) = Sum(coolSum, CoolError, dt)
  BY <1>8 DEF CoolSumNext
<1>10. Clamp(push + CoolSumNext(dt), 0, 100) > 0
  BY <1>4, <1>6, <1>8 DEF CoolValue, Value
<1> DEFINE step == (push * dt) \div cfg.ti
<1>11. Sum(coolSum, CoolError, dt) =
         IF cfg.ti = 0 THEN 0
         ELSE IF (push + coolSum >= 100 /\ CoolError > 0) \/ (push + coolSum <= 0 /\ CoolError < 0)
              THEN coolSum ELSE Clamp(coolSum + step, 0, 100)
  BY DEF Sum
<1> HIDE DEF push
<1>12. push + CoolSumNext(dt) > 0
  BY <1>3, <1>7, <1>10 DEF Clamp, Percents
<1>13. cfg.ti # 0 /\ push + coolSum > 0
  BY <1>1, <1>2, <1>7, <1>9, <1>11, <1>12 DEF Percents
<1>14. CoolSumNext(dt) = Clamp(coolSum + step, 0, 100)
  BY <1>1, <1>2, <1>7, <1>9, <1>11, <1>13 DEF Percents
<1>15. step \in Int /\ step <= -1
  <2>1. push * dt \in Int /\ push * dt <= -1
    BY <1>1, <1>7
  <2> QED
    BY <1>1, <1>13, <2>1
<1> HIDE DEF step
<1>16. coolSum \in 1 .. 100
  BY <1>1, <1>7, <1>13 DEF Percents
<1>17. Clamp(coolSum + step, 0, 100) < coolSum
  BY <1>15, <1>16 DEF Clamp
<1>18. coolSum' = CoolSumNext(dt)
  BY <1>4 DEF ControlCycle
<1> QED
  BY <1>14, <1>17, <1>18

\* After running one direction the other is held off for the changeover
\* delay, whatever the two setpoints, the algorithms and the sensors do; and
\* cooling that heating has to wait for is on its way out.
THEOREM ChangeoverHolds ==
  ASSUME ComfortOnlyHeats
  PROVE  Spec => ChangeoverKept
<1>1. TypeOK /\ OneWay /\ [Next]_vars => [DelayKept /\ CoolingLetsGo]_vars
  <2> SUFFICES ASSUME TypeOK, OneWay, [Next]_vars, ~UNCHANGED vars
               PROVE  DelayKept /\ CoolingLetsGo
    OBVIOUS
  <2>1. ASSUME NEW dt \in Dts, ControlCycle(dt) PROVE DelayKept /\ CoolingLetsGo
    <3>1. cfg.minDelay \in Nat /\ TimerCap \in Nat
      BY CfgAssumption, TimeAssumption DEF TypeOK
    <3>2. ASSUME ~Heats, Heats' PROVE ranCool >= cfg.minDelay
      <4>1. AllowHeat /\ state # "heating"
        BY <2>1, <3>2, NotAllowedIsOff DEF OneWay
      <4>2. ranCool = sinceCool /\ sinceCool \in 0 .. TimerCap
        BY DEF OneWay, TypeOK
      <4> QED
        BY <3>1, <4>1, <4>2 DEF AllowHeat, HeldOff
    <3>3. ASSUME ~Cools, Cools' PROVE ranHeat >= cfg.minDelay
      <4>1. AllowCool /\ state # "cooling"
        BY <2>1, <3>3, NotAllowedIsOff DEF OneWay
      <4>2. ranHeat = sinceHeat /\ sinceHeat \in 0 .. TimerCap
        BY DEF OneWay, TypeOK
      <4> QED
        BY <3>1, <4>1, <4>2 DEF AllowCool, HeldOff
    <3>4. CoolingLetsGo
      BY <2>1, ColdCoolingRunsDown DEF CoolingLetsGo
    <3> QED
      BY <3>2, <3>3, <3>4 DEF DelayKept
  <2>2. ASSUME NEW dt \in Dts, ShutCycle(dt) PROVE DelayKept /\ CoolingLetsGo
    BY <2>2 DEF ShutCycle, Heats, Cools, DelayKept, CoolingLetsGo
  <2>3. ASSUME NEW dt \in Dts, HoldCycle(dt) PROVE DelayKept /\ CoolingLetsGo
    <3>1. ~ColdRoom /\ (Heats' <=> Heats) /\ (Cools' <=> Cools)
      BY <2>3 DEF HoldCycle, Held, ColdRoom, Heats, Cools, commands
    <3> QED
      BY <3>1 DEF DelayKept, CoolingLetsGo
  <2>4. CASE Sense \/ Configure
    <3>1. fresh' = FALSE /\ (Heats' <=> Heats) /\ (Cools' <=> Cools)
      BY <2>4 DEF Sense, Configure, Heats, Cools, commands
    <3> QED
      BY <3>1 DEF DelayKept, CoolingLetsGo
  <2> QED
    BY <2>1, <2>2, <2>3, <2>4 DEF Next, Update
<1> QED
  BY <1>1, OneWayHolds, TypeCorrect, PTL DEF Spec, ChangeoverKept

\* The time a cold room goes without heat, and is not cooled either, is time since
\* cooling last ran: without this the delay's end would say nothing about the room.
ColdSinceCooling == coldFor <= sinceCool

LEMMA ServedAfterCycle ==
  ASSUME TypeOK, RoomServed, ColdSinceCooling, NEW dt \in Dts, ControlCycle(dt)
  PROVE  RoomServed' /\ ColdSinceCooling'
<1>1. /\ cfg.minDelay \in Nat /\ TimerCap \in Nat /\ dt \in Nat \ {0}
      /\ sinceCool \in 0 .. TimerCap /\ coldFor \in 0 .. TimerCap
      /\ cfg.minDelay < TimerCap
  BY CfgAssumption, TimeAssumption DEF TypeOK
<1>2. cfg' = cfg /\ in' = in /\ Record(dt) /\ Advance(dt)
  BY DEF ControlCycle
<1>3. DeadBandOpen'
  <2>1. report'.coolSp = CoolSp /\ report'.heatSp = HeatSp
    BY DEF ControlCycle
  <2> QED
    BY <1>2, <2>1, SetpointsApart DEF DeadBandOpen
<1> DEFINE Waits == ColdRoom /\ heating' = 0 /\ cooling' = 0 /\ ~coolReq'
<1>4. ASSUME Waits PROVE coldFor' < cfg.minDelay + dt /\ coldFor' <= sinceCool'
  <2>1. heating' = HeatingNext(dt)
    BY DEF ControlCycle
  <2>2. ~AllowHeat
    BY <1>4, <2>1, ColdIsHeated
  <2>3. sinceCool < cfg.minDelay
    BY <1>4, <2>2 DEF AllowHeat, HeldOff, ColdRoom
  <2>4. ~Heats' /\ ~Cools'
    BY <1>4, <2>2, NotAllowedIsOff DEF Cools
  <2>5. state' # "cooling"
    BY <2>4 DEF ControlCycle, StateNext, Cools
  <2>6. sinceCool' = Later(sinceCool, dt)
    BY <1>2, <2>5 DEF Advance
  <2>7. coldFor' = Later(coldFor, dt)
    BY <1>2, <1>4 DEF Record
  <2> QED
    BY <1>1, <2>3, <2>6, <2>7 DEF Later, Clamp, ColdSinceCooling
<1>5. ASSUME ~Waits PROVE coldFor' = 0
  BY <1>2, <1>5 DEF Record
<1>6. sinceCool' \in 0 .. TimerCap
  BY <1>2, TimeRange
<1>7. coldFor' < cfg.minDelay + dt /\ coldFor' <= sinceCool'
  BY <1>1, <1>4, <1>5, <1>6
<1> QED
  BY <1>2, <1>3, <1>7 DEF RoomServed, ColdSinceCooling

\* No cold room waits for heat longer than the changeover delay and one cycle once
\* cooling has let go, and the setpoints never meet: for every tuning and every input.
THEOREM ColdRoomServed == Spec => []RoomServed
<1>0. \A c \in Cfgs : c.minDelay \in Nat
  BY CfgAssumption
<1>1. ASSUME Init PROVE RoomServed /\ ColdSinceCooling
  <2>1. PICK dt \in Dts : dt \in Nat \ {0}
    BY TimeAssumption
  <2>2. coldFor = 0 /\ cfg.minDelay \in Nat
    BY <1>0, <1>1 DEF Init
  <2>3. coldFor < cfg.minDelay + dt
    BY <2>1, <2>2
  <2> QED
    BY <1>1, <2>3, TimeAssumption DEF Init, RoomServed, DeadBandOpen, ColdSinceCooling
<1>2. TypeOK /\ RoomServed /\ ColdSinceCooling /\ [Next]_vars => RoomServed' /\ ColdSinceCooling'
  <2> SUFFICES ASSUME TypeOK, RoomServed, ColdSinceCooling, [Next]_vars
               PROVE  RoomServed' /\ ColdSinceCooling'
    OBVIOUS
  <2>0. PICK first \in Dts : first \in Nat \ {0}
    BY TimeAssumption
  <2>1. ASSUME NEW dt \in Dts, HoldCycle(dt) \/ ShutCycle(dt)
        PROVE  RoomServed' /\ ColdSinceCooling'
    <3>1. cfg' = cfg /\ in' = in /\ Advance(dt) /\ Record(dt) /\ ~ColdRoom
      BY <2>1 DEF HoldCycle, ShutCycle, Held, Shut, ColdRoom
    <3>2. coldFor' = 0
      BY <3>1 DEF Record
    <3>3. sinceCool' \in 0 .. TimerCap
      BY <3>1, TimeRange
    <3>4. cfg'.minDelay \in Nat
      BY <1>0, <3>1 DEF TypeOK
    <3>5. DeadBandOpen'
      BY <2>1 DEF DeadBandOpen, HoldCycle, ShutCycle, Held, Shut
    <3> QED
      BY <2>0, <3>2, <3>3, <3>4, <3>5 DEF RoomServed, ColdSinceCooling
  <2>2. ASSUME NEW dt \in Dts, ControlCycle(dt) PROVE RoomServed' /\ ColdSinceCooling'
    BY <2>2, ServedAfterCycle
  <2>3. CASE Sense
    <3>1. cfg' = cfg /\ coldFor' = coldFor /\ sinceCool' = sinceCool /\ fresh' = FALSE
      BY <2>3 DEF Sense, timers
    <3> QED
      BY <3>1 DEF RoomServed, ColdSinceCooling, DeadBandOpen
  <2>4. CASE Configure
    <3>1. cfg' \in Cfgs /\ coldFor' = 0 /\ sinceCool' = sinceCool /\ fresh' = FALSE
      BY <2>4 DEF Configure, timers
    <3>2. sinceCool \in Nat
      BY DEF TypeOK
    <3> QED
      BY <1>0, <2>0, <3>1, <3>2 DEF RoomServed, ColdSinceCooling, DeadBandOpen
  <2>5. CASE UNCHANGED vars
    BY <2>5 DEF vars, timers, RoomServed, ColdSinceCooling, DeadBandOpen, Held, Shut
  <2> QED
    BY <2>1, <2>2, <2>3, <2>4, <2>5 DEF Next, Update
<1> QED
  BY <1>1, <1>2, TypeCorrect, PTL DEF Spec

=============================================================================
