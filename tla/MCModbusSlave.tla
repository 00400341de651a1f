---------------------------- MODULE MCModbusSlave ----------------------------
(* Instances of ModbusSlave for TLC.                                       *)
EXTENDS ModbusSlave

\* Whole frames: one about the control registers (a setpoint outside the
\* limits and the momentary acknowledge coil), the ones that select a board,
\* and a set of line settings that assigns, unassigns or is refused.
BlockFrames ==
  {[sp |-> 350, ack |-> TRUE]}
  \cup {[serial |-> s] : s \in {"mine", "other"}}
  \cup {[addr |-> a, baud |-> 1, commit |-> 1] : a \in {0, 17, 300}}

\* Frames that write the registers one at a time.
SingleFrames ==
  {[serial |-> s] : s \in {"mine", "other"}}
  \cup {[addr |-> 17], [commit |-> 1], [sp |-> 210]}

=============================================================================
