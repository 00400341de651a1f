----------------------------- MODULE MCKnxService -----------------------------
(* Instances of KnxService for TLC.                                        *)
EXTENDS KnxService

MCKind == [humidity |-> "measured", enable |-> "state", fault |-> "alarm", window |-> "command",
           setpoint |-> "setting"]

\* They differ in what changes a value, a telegram and a repetition.
Plain == [offset |-> 2, cov |-> 2, minRep |-> 2, heartbeat |-> 0, enable |-> 1, setpoint |-> 20]
Eager == [offset |-> 2, cov |-> 1, minRep |-> 2, heartbeat |-> 2, enable |-> 1, setpoint |-> 21]
MCParameters == {Plain, Eager}
=============================================================================
