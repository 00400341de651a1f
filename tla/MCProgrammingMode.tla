-------------------------- MODULE MCProgrammingMode --------------------------
(* Instances of ProgrammingMode for TLC.                                   *)
EXTENDS ProgrammingMode

\* The priorities of the build: esp_timer 22, KNX 8, control 6, app_main 1.
MCPrio == [t \in Tasks |-> CASE t = "timer"   -> 22
                             [] t = "knx"     -> 8
                             [] t = "control" -> 6
                             [] t = "main"    -> 1]

\* A board on TP1 that ETS knows, and one out of the box with the service channel.
MCImages == {[knx |-> TRUE, oob |-> FALSE, provisioned |-> TRUE],
             [knx |-> FALSE, oob |-> TRUE, provisioned |-> FALSE]}
=============================================================================
