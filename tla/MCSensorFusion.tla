---------------------------- MODULE MCSensorFusion ----------------------------
(* Instances of SensorFusion for TLC.                                      *)
EXTENDS SensorFusion

MCMin == -10

\* The second source reads one unit high; three cycles without a reading are
\* too many.
Plain ==
  [smooth |-> FALSE, stale |-> 2, tolerance |-> 1,
   offset |-> [s \in Sources |-> IF s = 2 THEN -1 ELSE 0]]

\* No correction, smoothing on, never stale.
Patient == [Plain EXCEPT !.offset = [s \in Sources |-> 0], !.stale = 0, !.smooth = TRUE]

MCTunings == {Plain, Patient}
=============================================================================
