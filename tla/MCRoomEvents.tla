----------------------------- MODULE MCRoomEvents -----------------------------
(* Instances of RoomEvents for TLC.                                        *)
EXTENDS RoomEvents

\* A reading of the temperature alone, of the CO2 alone.
Heat(t, x, v) == [Nothing EXCEPT !.ok = TRUE, !.temp = t, !.rate = x, !.vocok = TRUE,
                                 !.vocrate = v, !.calibrated = (v > 0)]
Air(c, x)     == [Nothing EXCEPT !.co2ok = TRUE, !.co2 = c, !.co2rate = x]
Wind(x, y)    == [Nothing EXCEPT !.ok = TRUE, !.temp = 20, !.rate = x,
                                 !.co2ok = TRUE, !.co2 = 4, !.co2rate = y]

\* Rapid heat, with and without volatiles, and the sensor that fails.
Blaze == {Nothing, Heat(20, 0, 0), Heat(30, 5, 0), Heat(30, 5, 9), Heat(60, 0, 0)}
\* People who come and go, and a fresh morning.
Office == {Nothing, Air(0, 0), Air(1, 0), Air(3, 0), Air(3, 9), Air(4, -1)}
\* A window, a heating that is off, and an air sensor that fails.
Draughts == {Nothing, Wind(-3, -9), Wind(-3, 0), Wind(0, 0), [Wind(-3, 0) EXCEPT !.co2ok = FALSE]}

MCScenes == {Blaze, Office, Draughts}

Plain  == [rise |-> 4, top |-> 55, arm |-> 28, confirm |-> 3, clear |-> 2,
           corroborate |-> FALSE, presence |-> TRUE, window |-> TRUE]
Strict == [Plain EXCEPT !.corroborate = TRUE, !.confirm = 2, !.window = FALSE]
Absent == [Plain EXCEPT !.presence = FALSE, !.top = 0, !.clear = 3]
MCTunings == {Plain, Strict, Absent}
=============================================================================
