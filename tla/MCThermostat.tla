----------------------------- MODULE MCThermostat -----------------------------
(* Instances of Thermostat for TLC.                                        *)
EXTENDS Thermostat

\* The factory tuning with coarse temperatures, loops that integrate within
\* a few cycles and a changeover delay of two of them.
Factory ==
  [heatOn |-> TRUE, coolOn |-> TRUE, inverted |-> FALSE, dewBlocks |-> TRUE,
   changeover |-> "auto", heatAlgo |-> "pi", coolAlgo |-> "pi",
   strategy |-> "hysteresis", threshold |-> 50,
   comfortSp |-> 21, standbyHeat |-> 2, economyHeat |-> 4, protHeat |-> 7,
   deadband |-> 1, standbyCool |-> 2, economyCool |-> 4, protCool |-> 35,
   minSp |-> 7, maxSp |-> 35, maxShift |-> 3, hyst |-> 1, kp |-> 20, ti |-> 1,
   floorMax |-> 28, floorMin |-> 0, floorHyst |-> 2, comfortOut |-> 30,
   frost |-> 5, overheat |-> 35, minDelay |-> 2,
   window |-> "block", away |-> "standby", fault |-> "off",
   heatMin |-> 0, heatMax |-> 100, coolMin |-> 0, coolMax |-> 100]

\* Two-point loops with the threshold strategy, narrow setpoint limits, a
\* minimum opening, a changeover that comes from the bus (two pipes), outputs held
\* over a sensor fault.
TwoPoint == [Factory EXCEPT
  !.heatAlgo = "twoPoint", !.coolAlgo = "twoPoint", !.strategy = "threshold",
  !.minSp = 20, !.maxSp = 21, !.heatMin = 20, !.coolMax = 80, !.fault = "hold",
  !.window = "protection", !.changeover = "bus"]

\* Heating only, with floor comfort, on the last good reading.
Bathroom == [Factory EXCEPT
  !.coolOn = FALSE, !.floorMin = 24, !.fault = "pass", !.away = "economy",
  !.window = "ignore"]

\* No pause between the directions: both loops keep their sums.
Eager == [Factory EXCEPT !.minDelay = 0]

MCCfgs == {Factory, TwoPoint, Bathroom, Eager}

Calm ==
  [room |-> 22, roomValid |-> TRUE, floor |-> 20, floorValid |-> TRUE,
   enable |-> TRUE, op |-> "comfort", mode |-> "auto", bus |-> FALSE,
   window |-> FALSE, presence |-> "unknown", shift |-> 0,
   switchHeat |-> TRUE, switchCool |-> TRUE, dew |-> FALSE]

Rooms(i)  == {[i EXCEPT !.room = t] : t \in {20, 22, 27}}
             \cup {[i EXCEPT !.room = 0, !.roomValid = FALSE]}
Floors(i) == {[i EXCEPT !.floor = t] : t \in {20, 27, 30}}
             \cup {[i EXCEPT !.floor = 0, !.floorValid = FALSE]}

\* What the installation may say, in a cold, a hot and an unmeasured room.
Situations ==
  {[Calm EXCEPT !.enable = FALSE], [Calm EXCEPT !.window = TRUE],
   [Calm EXCEPT !.dew = TRUE, !.bus = TRUE], [Calm EXCEPT !.mode = "cool", !.shift = 5],
   [Calm EXCEPT !.mode = "heat", !.presence = "no"]}

MCInputs ==
  UNION {Floors(r) : r \in Rooms(Calm)}
  \cup UNION {{r \in Rooms(s) : r.room # 22} : s \in Situations}

\* A hot and a cold slab, in a calm room.
FewInputs == UNION {{[r EXCEPT !.floor = 30], [r EXCEPT !.floor = 20]} : r \in Rooms(Calm)}

\* Floor comfort on a system that also cools.
MCBoth == {[Factory EXCEPT !.floorMin = 24]}

=============================================================================
