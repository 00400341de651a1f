----------------------------- MODULE SensorFusion -----------------------------
(***************************************************************************)
(* One measurand of the room air behind up to three sensors: each source   *)
(* is conditioned by a FilteredChannel of its own (plausibility range,     *)
(* spike gate with resynchronisation, smoothing, staleness), and           *)
(* RedundantMeasurement publishes the healthy source of highest priority   *)
(* and reports which sources have left the others.                         *)
(*                                                                         *)
(* The sensor task feeds the channels one after the other and then fuses   *)
(* them.  It has the lowest priority: the control task, which applies a    *)
(* new tuning in one go, may preempt it between any two of these steps.    *)
(***************************************************************************)
EXTENDS Integers, FiniteSets

CONSTANTS
  Sources,     \* the sources, numbered by priority: 1 is the reference
  Readings,    \* what a transfer may deliver, garbage included
  MinValid, MaxValid,  \* the physically possible range
  Tunings,     \* the tunings the device may be given
  MaxStep,     \* maxStepPerSecond; 0 opens the gate
  Quota,       \* maxConsecutiveRejects
  Dts,         \* the intervals between two cycles
  AgeCap,      \* where the model stops counting time
  Watched      \* the source, any of them, whose history is kept

ASSUME SourceAssumption ==
  /\ Cardinality(Sources) \in Nat \ {0} /\ Sources = 1 .. Cardinality(Sources)
  /\ Watched \in Sources
ASSUME ReadingAssumption == Readings \subseteq Int /\ MinValid \in Int /\ MaxValid \in Int
ASSUME TuningAssumption ==
  /\ Tunings # {}
  /\ Tunings \subseteq [smooth : BOOLEAN, stale : Nat, tolerance : Nat,
                        offset : [Sources -> Int]]
ASSUME TimeAssumption ==
  /\ MaxStep \in Nat /\ Quota \in Nat /\ AgeCap \in Nat /\ Dts \subseteq Nat \ {0} /\ Dts # {}
  /\ \A t \in Tunings : t.stale < AgeCap

VARIABLES
  tune,      \* the configuration of the channels and of the comparison
  value,     \* FilteredChannel::filtered_, per source
  age,       \* ageSeconds_
  rejects,   \* consecutiveRejects_
  valid,     \* valid_
  fused,     \* the published FusedValue, and last_
  todo,      \* the source to be fed next; one past the last: fuse
  dt,        \* the length of this cycle
  steady,    \* history: no new tuning since the cycle began
  quiet,     \* history: time since Watched delivered anything at all
  dropped    \* history: plausible readings of Watched dropped in a row

channels == <<value, age, rejects, valid>>
history  == <<quiet, dropped>>
vars     == <<tune, channels, fused, todo, dt, steady, history>>

Last == Cardinality(Sources)

-----------------------------------------------------------------------------
(* FilteredChannel::accept().                                              *)

Distance(a, b) == IF a < b THEN b - a ELSE a - b
Later(t, d)    == IF t + d < AgeCap THEN t + d ELSE AgeCap
CountOn(n)     == IF n < Quota + 1 THEN n + 1 ELSE n
Between(a, b)  == IF a < b THEN a .. b ELSE b .. a

Plausible(r) == MinValid <= r /\ r <= MaxValid

\* Mutant: the quota is exceeded before the sensor is believed.
ResyncLate(s) == valid[s] /\ MaxStep > 0 /\ rejects[s] > Quota

\* After its quota of rejects in a row the sensor is believed.
Resync(s) == valid[s] /\ MaxStep > 0 /\ rejects[s] >= Quota

\* The gate allows for the whole gap since the last accepted reading.
Spike(s, r) ==
  valid[s] /\ MaxStep > 0 /\ Distance(r, value[s]) > MaxStep * Later(age[s], dt)

Accepted(s, r) == Plausible(r) /\ (Resync(s) \/ ~Spike(s, r))

\* The smoothed value lies between the old one and the reading; how far
\* depends on the time constant and on the gap.
Filtered(s, r) ==
  IF ~valid[s] \/ Resync(s) \/ ~tune.smooth THEN {r} ELSE Between(value[s], r)

-----------------------------------------------------------------------------
(* FilteredChannel::update(), for the source whose turn it is.             *)

\* Mutant: only a source that was asked and failed grows stale.
StaleIfRejected(s) == rejects'[s] > 0 /\ tune.stale > 0 /\ age'[s] > tune.stale

Stale(s) == tune.stale > 0 /\ age'[s] > tune.stale

\* The driver produced nothing for this source.
Miss(s) ==
  /\ todo = s
  /\ age' = [age EXCEPT ![s] = Later(age[s], dt)]
  /\ UNCHANGED <<value, rejects>>
  /\ valid' = [valid EXCEPT ![s] = valid[s] /\ ~Stale(s)]
  /\ quiet' = IF s = Watched THEN Later(quiet, dt) ELSE quiet
  /\ UNCHANGED dropped

Accept(s, r) ==
  /\ todo = s /\ Accepted(s, r)
  /\ \E v \in Filtered(s, r) : value' = [value EXCEPT ![s] = v]
  /\ age'     = [age EXCEPT ![s] = 0]
  /\ rejects' = [rejects EXCEPT ![s] = 0]
  /\ valid'   = [valid EXCEPT ![s] = TRUE]
  /\ quiet'   = IF s = Watched THEN 0 ELSE quiet
  /\ dropped' = IF s = Watched THEN 0 ELSE dropped

\* The reject counter saturates at 255; only its reaching the quota matters.
Reject(s, r) ==
  /\ todo = s /\ ~Accepted(s, r)
  /\ UNCHANGED value
  /\ age'     = [age EXCEPT ![s] = Later(age[s], dt)]
  /\ rejects' = [rejects EXCEPT ![s] = CountOn(rejects[s])]
  /\ valid'   = [valid EXCEPT ![s] = valid[s] /\ ~Stale(s)]
  /\ quiet'   = IF s = Watched THEN 0 ELSE quiet
  /\ dropped' = IF s # Watched THEN dropped
                ELSE IF ~Plausible(r) THEN 0 ELSE CountOn(dropped)

\* Each reading is corrected by the source's offset before it is looked at.
Feed ==
  /\ \E s \in Sources :
       \/ Miss(s)
       \/ \E x \in Readings : LET r == x + tune.offset[s] IN Accept(s, r) \/ Reject(s, r)
  /\ todo' = todo + 1
  /\ UNCHANGED <<tune, fused, dt, steady>>

-----------------------------------------------------------------------------
(* RedundantMeasurement::update(), once every channel is fed.              *)

Healthy     == {s \in Sources : valid[s]}
Agree(a, b) == Distance(value[a], value[b]) <= tune.tolerance
Peers(a)    == {b \in Healthy \ {a} : Agree(a, b)}

\* Mutant: drift is measured against the published source.
SuspectsOfChosen ==
  IF tune.tolerance = 0 THEN {}
  ELSE {a \in Healthy : \E c \in Healthy : ~Agree(a, c) /\ \A b \in Healthy : c <= b}

\* Whoever agrees with fewer of the others than somebody else does.
Suspects ==
  IF tune.tolerance = 0 THEN {}
  ELSE {a \in Healthy : \E b \in Healthy : Cardinality(Peers(a)) < Cardinality(Peers(b))}

Disputed == tune.tolerance > 0 /\ \E a, b \in Healthy : ~Agree(a, b)

Chosen(s) == s \in Healthy /\ \A b \in Healthy : s <= b

\* Strict priority, never a vote.
Published(s) ==
  [valid |-> TRUE, value |-> value[s], source |-> s, suspects |-> Suspects,
   quality |-> IF Healthy = {s} THEN "single"
               ELSE IF Disputed THEN "disputed" ELSE "validated"]

\* Mutant: the record of the last good cycle is kept but for its source.
NothingMarked == [fused EXCEPT !.source = 0]

\* With no source left the last value is held, for display only.
Nothing == [valid |-> FALSE, value |-> fused.value, source |-> 0, suspects |-> {},
            quality |-> "nodata"]

Fuse ==
  /\ todo = Last + 1
  /\ \/ Healthy = {} /\ fused' = Nothing
     \/ \E s \in Sources : Chosen(s) /\ fused' = Published(s)
  /\ todo' = 1 /\ dt' \in Dts /\ steady' = TRUE
  /\ UNCHANGED <<tune, channels, history>>

\* sensor_fusion_configure(), from the control task: no channel loses its state.
Configure ==
  /\ tune' \in Tunings
  /\ steady' = (todo = 1)
  /\ UNCHANGED <<channels, fused, todo, dt, history>>

Init ==
  /\ tune \in Tunings /\ dt \in Dts /\ todo = 1 /\ steady = TRUE
  /\ value = [s \in Sources |-> 0]
  /\ age = [s \in Sources |-> 0] /\ rejects = [s \in Sources |-> 0]
  /\ valid = [s \in Sources |-> FALSE]
  /\ fused = [valid |-> FALSE, value |-> 0, source |-> 0, suspects |-> {}, quality |-> "nodata"]
  /\ quiet = 0 /\ dropped = 0

Next == Feed \/ Fuse \/ Configure

Spec == Init /\ [][Next]_vars

-----------------------------------------------------------------------------
(* Properties.                                                             *)

\* The channels and the published record keep their ranges.  Whatever the drivers
\* deliver, what a channel believes and what is published as valid is physically
\* possible, and what is published as valid has a source.
TypeOK ==
  /\ tune \in Tunings /\ dt \in Dts /\ todo \in 1 .. Last + 1 /\ steady \in BOOLEAN
  /\ value \in [Sources -> Int]
  /\ age \in [Sources -> 0 .. AgeCap] /\ quiet \in 0 .. AgeCap
  /\ rejects \in [Sources -> 0 .. Quota + 1] /\ dropped \in 0 .. Quota + 1
  /\ valid \in [Sources -> BOOLEAN]
  /\ \A s \in Sources : valid[s] => Plausible(value[s])
  /\ fused.value \in Int /\ (fused.valid => Plausible(fused.value))
  /\ fused.source \in Sources \cup {0} /\ (fused.valid <=> fused.source # 0)

Fused == todo = Last + 1 /\ todo' = 1

\* "A source with no accepted reading for this long drops out of the
\* fusion": what a cycle publishes comes from a source that has delivered
\* something within the staleness limit.
DeadDropsOut ==
  [][Fused /\ steady /\ fused'.source = Watched /\ tune.stale > 0
       => quiet <= tune.stale]_vars

\* "So a genuine fast change is not suppressed forever": the gate drops at
\* most its quota of plausible readings in a row.
NotSuppressedForever == dropped <= Quota

\* A source is named as drifted only where two others bear witness: with two
\* sources alive nobody is, and never all of them are.
SuspectsWitnessed ==
  [][Fused => \A s \in fused'.suspects :
       \E a, b \in Healthy \ {s} : a # b /\ Agree(a, b)]_vars
=============================================================================
