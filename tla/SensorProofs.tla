----------------------------- MODULE SensorProofs -----------------------------
(***************************************************************************)
(* Theorems about SensorFusion: the ranges of the channels, the spike gate *)
(* that cannot suppress a sensor forever, the dead source that drops out,  *)
(* and the witnesses of every drift report.  And about SensorBus, which    *)
(* feeds it: what the record of a cycle says was measured was measured.    *)
(***************************************************************************)
EXTENDS SensorFusion, SensorBus, FiniteSetTheorems, TLAPS

\* What a channel stores keeps its range.
LEMMA Ranges ==
  /\ \A t \in 0 .. AgeCap, d \in Dts : Later(t, d) \in 0 .. AgeCap
  /\ \A n \in 0 .. Quota + 1 : CountOn(n) \in 0 .. Quota + 1
  /\ \A a, b \in Int : Between(a, b) \subseteq Int
<1> USE TimeAssumption
<1>1. \A t \in 0 .. AgeCap, d \in Dts : Later(t, d) \in 0 .. AgeCap
  BY DEF Later
<1>2. \A n \in 0 .. Quota + 1 : CountOn(n) \in 0 .. Quota + 1
  BY DEF CountOn
<1>3. \A a, b \in Int : Between(a, b) \subseteq Int
  BY DEF Between
<1> QED BY <1>1, <1>2, <1>3

\* What a source may be fed is a number.
LEMMA Corrected ==
  ASSUME tune \in Tunings, NEW s \in Sources, NEW x \in Readings
  PROVE  x + tune.offset[s] \in Int
BY ReadingAssumption, TuningAssumption

\* A channel accepts a reading, drops it or misses it: in every case it keeps
\* its types.
LEMMA ChannelTypes ==
  ASSUME TypeOK, NEW s \in Sources, NEW r \in Int, Miss(s) \/ Accept(s, r) \/ Reject(s, r)
  PROVE  /\ value' \in [Sources -> Int] /\ valid' \in [Sources -> BOOLEAN]
         /\ age' \in [Sources -> 0 .. AgeCap] /\ quiet' \in 0 .. AgeCap
         /\ rejects' \in [Sources -> 0 .. Quota + 1] /\ dropped' \in 0 .. Quota + 1
<1> USE DEF TypeOK
<1>0. 0 \in 0 .. AgeCap /\ 0 \in 0 .. Quota + 1
  BY TimeAssumption
<1>1. CASE Miss(s)
  BY <1>0, <1>1, Ranges, Zenon DEF Miss
<1>2. CASE Accept(s, r)
  <2>1. PICK v \in Filtered(s, r) : value' = [value EXCEPT ![s] = v]
    BY <1>2 DEF Accept
  <2>2. v \in Int
    BY <2>1, Ranges DEF Filtered
  <2>3. value' \in [Sources -> Int]
    BY <2>1, <2>2
  <2> QED BY <1>0, <1>2, <2>3, Zenon DEF Accept
<1>3. CASE Reject(s, r)
  BY <1>0, <1>3, Ranges, Zenon DEF Reject
<1> QED BY <1>1, <1>2, <1>3

\* What a channel believes stays within the physically possible range: an accepted
\* reading is, and so is whatever lies between two values that are.
LEMMA ChannelPlausible ==
  ASSUME TypeOK, NEW s \in Sources, NEW r \in Int, Miss(s) \/ Accept(s, r) \/ Reject(s, r),
         NEW t \in Sources, valid'[t]
  PROVE  Plausible(value'[t])
<1>0. /\ value \in [Sources -> Int] /\ valid \in [Sources -> BOOLEAN]
      /\ \A u \in Sources : valid[u] => Plausible(value[u])
  BY DEF TypeOK
<1>1. CASE Miss(s) \/ Reject(s, r)
  <2>1. value' = value /\ valid' = [valid EXCEPT ![s] = valid[s] /\ ~Stale(s)]
    BY <1>1, Zenon DEF Miss, Reject
  <2>2. valid[t]
    BY <1>0, <2>1, Zenon
  <2> QED BY <1>0, <2>1, <2>2
<1>2. CASE Accept(s, r)
  <2>1. PICK v \in Filtered(s, r) : value' = [value EXCEPT ![s] = v]
    BY <1>2 DEF Accept
  <2>2. Plausible(r) /\ valid' = [valid EXCEPT ![s] = TRUE]
    BY <1>2 DEF Accept, Accepted
  <2>3. CASE t # s
    BY <1>0, <2>1, <2>2, <2>3
  <2>4. CASE t = s
    <3>1. v = r \/ (valid[s] /\ v \in Between(value[s], r))
      BY <2>1 DEF Filtered
    <3>2. Plausible(v)
      BY <1>0, <2>2, <3>1, ReadingAssumption DEF Plausible, Between
    <3> QED BY <1>0, <2>1, <2>4, <3>2
  <2> QED BY <2>3, <2>4
<1> QED BY <1>1, <1>2

\* The ranges hold for any number of sources, any readings and any tuning.
THEOREM TypeCorrect == Spec => []TypeOK
<1>1. Init => TypeOK
  <2> SUFFICES ASSUME Init PROVE TypeOK
    OBVIOUS
  <2>1. Last \in Nat \ {0}
    BY SourceAssumption DEF Last
  <2> QED BY <2>1, TimeAssumption DEF Init, TypeOK
<1>2. TypeOK /\ [Next]_vars => TypeOK'
  <2> SUFFICES ASSUME TypeOK, [Next]_vars PROVE TypeOK'
    OBVIOUS
  <2>0. Last \in Nat \ {0} /\ Sources = 1 .. Last
    BY SourceAssumption DEF Last
  <2>1. CASE Feed
    <3>1. PICK s \in Sources : \/ Miss(s)
                               \/ \E x \in Readings : Accept(s, x + tune.offset[s])
                                                   \/ Reject(s, x + tune.offset[s])
      BY <2>1 DEF Feed
    <3>2. PICK r \in Int : Miss(s) \/ Accept(s, r) \/ Reject(s, r)
      BY <3>1, Corrected DEF TypeOK
    <3>3. todo' \in 1 .. Last + 1
      <4>1. todo = s
        BY <3>2 DEF Miss, Accept, Reject
      <4> QED BY <2>0, <2>1, <4>1 DEF Feed
    <3>4. UNCHANGED <<tune, fused, dt, steady>>
      BY <2>1 DEF Feed
    <3>5. /\ value' \in [Sources -> Int] /\ valid' \in [Sources -> BOOLEAN]
          /\ age' \in [Sources -> 0 .. AgeCap] /\ quiet' \in 0 .. AgeCap
          /\ rejects' \in [Sources -> 0 .. Quota + 1] /\ dropped' \in 0 .. Quota + 1
      BY <3>2, ChannelTypes
    <3>6. \A t \in Sources : valid'[t] => Plausible(value'[t])
      BY <3>2, ChannelPlausible
    <3> QED BY <3>3, <3>4, <3>5, <3>6 DEF TypeOK, Plausible
  <2>2. CASE Fuse
    <3>1. todo' \in 1 .. Last + 1 /\ dt' \in Dts /\ steady' \in BOOLEAN
      BY <2>0, <2>2 DEF Fuse
    <3>2. /\ fused'.source \in Sources \cup {0} /\ (fused'.valid <=> fused'.source # 0)
          /\ fused'.value \in Int /\ (fused'.valid => Plausible(fused'.value))
      <4>1. CASE fused' = Nothing
        BY <4>1 DEF Nothing, TypeOK
      <4>2. CASE \E s \in Sources : Chosen(s) /\ fused' = Published(s)
        BY <2>0, <4>2 DEF Published, Chosen, Healthy, TypeOK
      <4> QED BY <2>2, <4>1, <4>2 DEF Fuse
    <3> QED BY <2>2, <3>1, <3>2 DEF Fuse, TypeOK, Plausible, channels, history
  <2>3. CASE Configure
    BY <2>3 DEF Configure, TypeOK, Plausible, channels, history
  <2>4. CASE UNCHANGED vars
    BY <2>4 DEF TypeOK, Plausible, vars, channels, history
  <2> QED BY <2>1, <2>2, <2>3, <2>4 DEF Next
<1> QED BY <1>1, <1>2, PTL DEF Spec

-----------------------------------------------------------------------------
(* The gate.  Every reading the gate drops has also been counted as a      *)
(* reject, and the gate drops one only while its quota is not used up.     *)

GateInv == dropped <= rejects[Watched] /\ dropped <= Quota

\* However long and however strange the stream of readings, the gate never
\* drops more than its quota of plausible readings in a row.
THEOREM GateOpens == Spec => []NotSuppressedForever
<1>0. Watched \in Sources
  BY SourceAssumption
<1>1. Init => GateInv
  BY <1>0, TimeAssumption DEF Init, GateInv
<1>2. TypeOK /\ GateInv /\ [Next]_vars => GateInv'
  <2> SUFFICES ASSUME TypeOK, GateInv, [Next]_vars PROVE GateInv'
    OBVIOUS
  <2>0. rejects \in [Sources -> 0 .. Quota + 1] /\ dropped \in 0 .. Quota + 1 /\ Quota \in Nat
    BY TimeAssumption DEF TypeOK
  <2>1. CASE Feed
    <3>1. PICK s \in Sources : \/ Miss(s)
                               \/ \E x \in Readings : Accept(s, x + tune.offset[s])
                                                   \/ Reject(s, x + tune.offset[s])
      BY <2>1 DEF Feed
    <3>2. PICK r \in Int : Miss(s) \/ Accept(s, r) \/ Reject(s, r)
      BY <3>1, Corrected DEF TypeOK
    <3>3. CASE Miss(s)
      BY <3>3 DEF Miss, GateInv
    <3>4. CASE Accept(s, r)
      <4>1. CASE s = Watched
        BY <1>0, <2>0, <3>4, <4>1 DEF Accept, GateInv
      <4>2. CASE s # Watched
        BY <1>0, <2>0, <3>4, <4>2 DEF Accept, GateInv
      <4> QED BY <4>1, <4>2
    <3>5. CASE Reject(s, r)
      <4>1. CASE s # Watched
        BY <1>0, <2>0, <3>5, <4>1 DEF Reject, GateInv
      <4>2. CASE s = Watched /\ ~Plausible(r)
        <5>1. dropped' = 0 /\ rejects'[Watched] = CountOn(rejects[Watched])
          BY <1>0, <2>0, <3>5, <4>2 DEF Reject
        <5>2. CountOn(rejects[Watched]) \in 0 .. Quota + 1
          BY <1>0, <2>0, Ranges
        <5> QED BY <2>0, <5>1, <5>2 DEF GateInv
      <4>3. CASE s = Watched /\ Plausible(r)
        <5>1. rejects[Watched] < Quota
          <6>1. ~Resync(s) /\ Spike(s, r)
            BY <3>5, <4>3 DEF Reject, Accepted
          <6> QED BY <1>0, <2>0, <4>3, <6>1 DEF Resync, Spike
        <5>2. dropped' = CountOn(dropped) /\ rejects'[Watched] = CountOn(rejects[Watched])
          BY <1>0, <2>0, <3>5, <4>3 DEF Reject
        <5>3. rejects[Watched] \in 0 .. Quota + 1
          BY <1>0, <2>0
        <5>4. dropped < Quota
          BY <2>0, <5>1, <5>3 DEF GateInv
        <5> QED BY <2>0, <5>1, <5>2, <5>3, <5>4 DEF GateInv, CountOn
      <4> QED BY <4>1, <4>2, <4>3
    <3> QED BY <3>2, <3>3, <3>4, <3>5
  <2>2. CASE Fuse
    BY <2>2 DEF Fuse, GateInv, channels, history
  <2>3. CASE Configure
    BY <2>3 DEF Configure, GateInv, channels, history
  <2>4. CASE UNCHANGED vars
    BY <2>4 DEF GateInv, vars, channels, history
  <2> QED BY <2>1, <2>2, <2>3, <2>4 DEF Next
<1>3. GateInv => NotSuppressedForever
  BY DEF GateInv, NotSuppressedForever
<1> QED BY <1>1, <1>2, <1>3, TypeCorrect, PTL DEF Spec

-----------------------------------------------------------------------------
(* Staleness.  A source is quiet no longer than its age, and once it has   *)
(* been fed in a cycle of one tuning it is valid only within the limit.    *)

FreshInv ==
  /\ quiet <= age[Watched]
  /\ steady /\ tune.stale > 0 /\ Watched < todo /\ valid[Watched]
       => age[Watched] <= tune.stale

LEMMA FreshInductive == TypeOK /\ FreshInv /\ [Next]_vars => FreshInv'
<1> SUFFICES ASSUME TypeOK, FreshInv, [Next]_vars PROVE FreshInv'
  OBVIOUS
<1>0. /\ Watched \in Sources /\ Last \in Nat \ {0} /\ Sources = 1 .. Last
      /\ age \in [Sources -> 0 .. AgeCap] /\ valid \in [Sources -> BOOLEAN]
      /\ quiet \in 0 .. AgeCap /\ AgeCap \in Nat /\ dt \in Nat /\ todo \in Nat
      /\ tune.stale \in Nat
  BY SourceAssumption, TimeAssumption, TuningAssumption DEF TypeOK, Last
<1>1. CASE Feed
  <2>1. PICK s \in Sources : \/ Miss(s)
                             \/ \E x \in Readings : Accept(s, x + tune.offset[s])
                                                 \/ Reject(s, x + tune.offset[s])
    BY <1>1 DEF Feed
  <2>2. PICK r \in Int : Miss(s) \/ Accept(s, r) \/ Reject(s, r)
    BY <2>1, Corrected DEF TypeOK
  <2>3. todo = s /\ todo' = todo + 1 /\ UNCHANGED <<tune, steady>>
    BY <1>1, <2>2 DEF Feed, Miss, Accept, Reject
  <2>4. CASE s # Watched
    <3>1. age'[Watched] = age[Watched] /\ valid'[Watched] = valid[Watched] /\ quiet' = quiet
      BY <1>0, <2>2, <2>4 DEF Miss, Accept, Reject
    <3>2. Watched < todo' => Watched < todo
      BY <1>0, <2>3, <2>4
    <3> QED BY <2>3, <3>1, <3>2 DEF FreshInv
  <2>5. CASE s = Watched /\ Accept(s, r)
    BY <1>0, <2>3, <2>5 DEF Accept, FreshInv
  <2>6. CASE s = Watched /\ (Miss(s) \/ Reject(s, r))
    <3>0. valid' = [valid EXCEPT ![Watched] = valid[Watched] /\ ~Stale(Watched)]
      BY <2>6, Zenon DEF Miss, Reject
    <3>1. age'[Watched] = Later(age[Watched], dt) /\ quiet' \in {0, Later(quiet, dt)}
      BY <1>0, <2>6 DEF Miss, Reject
    <3>4. valid'[Watched] => ~Stale(Watched)
      BY <1>0, <3>0, Zenon
    <3>2. age'[Watched] \in 0 .. AgeCap /\ quiet' <= age'[Watched]
      BY <1>0, <3>1 DEF Later, FreshInv
    <3>3. valid'[Watched] /\ tune.stale > 0 => age'[Watched] <= tune.stale
      BY <1>0, <3>2, <3>4 DEF Stale
    <3> QED BY <2>3, <3>2, <3>3 DEF FreshInv
  <2> QED BY <2>2, <2>4, <2>5, <2>6
<1>2. CASE Fuse
  BY <1>0, <1>2 DEF Fuse, FreshInv, channels, history
<1>3. CASE Configure
  <2>1. UNCHANGED <<quiet, age, valid, todo>> /\ steady' = (todo = 1)
    BY <1>3 DEF Configure, channels, history
  <2>2. ~(steady' /\ Watched < todo')
    <3>1. steady' => todo = 1
      BY <2>1, Zenon
    <3>2. Watched >= 1 /\ todo' = todo /\ Watched \in Int
      BY <1>0, <2>1
    <3> QED BY <3>1, <3>2
  <2> QED BY <2>1, <2>2 DEF FreshInv
<1>4. CASE UNCHANGED vars
  BY <1>4 DEF FreshInv, vars, channels, history
<1> QED BY <1>1, <1>2, <1>3, <1>4 DEF Next

\* A source that has delivered nothing for longer than the staleness limit is
\* not what a cycle publishes.
THEOREM DeadSourceDropsOut == Spec => DeadDropsOut
<1>1. Init => FreshInv
  <2>1. Watched \in Sources /\ Sources \subseteq Nat \ {0}
    BY SourceAssumption
  <2> QED BY <2>1 DEF Init, FreshInv
<1>2. TypeOK /\ FreshInv /\ [Next]_vars
        => (Fused /\ steady /\ fused'.source = Watched /\ tune.stale > 0 => quiet <= tune.stale)
  <2> SUFFICES ASSUME TypeOK, FreshInv, [Next]_vars, Fused, steady,
                      fused'.source = Watched, tune.stale > 0
               PROVE  quiet <= tune.stale
    OBVIOUS
  <2>0. /\ Watched \in Sources /\ Last \in Nat \ {0} /\ Sources = 1 .. Last
        /\ age \in [Sources -> 0 .. AgeCap] /\ quiet \in 0 .. AgeCap
        /\ AgeCap \in Nat /\ tune.stale \in Nat
    BY SourceAssumption, TimeAssumption, TuningAssumption DEF TypeOK, Last
  <2>1. Fuse
    <3>1. todo = Last + 1 /\ todo' = 1
      BY DEF Fused
    <3>2. ~Feed
      <4>1. Feed => todo' = todo + 1
        BY DEF Feed
      <4>2. Last + 1 + 1 # 1
        BY <2>0
      <4> QED BY <3>1, <4>1, <4>2
    <3>3. todo' # todo
      BY <2>0, <3>1
    <3> QED BY <3>2, <3>3 DEF Next, Configure, vars
  <2>2. valid[Watched]
    <3>1. fused' # Nothing
      <4>1. Nothing.source = 0
        BY DEF Nothing
      <4>2. Watched # 0
        BY <2>0
      <4> QED BY <4>1, <4>2
    <3>2. PICK s \in Sources : Chosen(s) /\ fused' = Published(s)
      BY <2>1, <3>1 DEF Fuse
    <3>3. s = Watched
      BY <3>2 DEF Published
    <3> QED BY <3>2, <3>3 DEF Chosen, Healthy
  <2>3. Watched < todo
    BY <2>0 DEF Fused
  <2> QED BY <2>0, <2>2, <2>3 DEF FreshInv
<1> QED BY <1>1, <1>2, FreshInductive, TypeCorrect, PTL DEF Spec, DeadDropsOut

-----------------------------------------------------------------------------
(* The drift report.                                                       *)

\* Whoever agrees with fewer of the others than somebody else does, stands
\* against two that agree with each other.
LEMMA Witnesses ==
  ASSUME TypeOK, NEW s \in Suspects
  PROVE  \E a, b \in Healthy \ {s} : a # b /\ Agree(a, b)
<1>0. Healthy \subseteq Sources /\ IsFiniteSet(Sources)
  <2>1. IsFiniteSet(1 .. Cardinality(Sources))
    BY SourceAssumption, FS_Interval
  <2> QED BY <2>1, SourceAssumption DEF Healthy
<1>1. \A c \in Sources : IsFiniteSet(Peers(c)) /\ Cardinality(Peers(c)) \in Nat
  <2>1. \A c \in Sources : Peers(c) \subseteq Sources
    BY <1>0 DEF Peers
  <2> QED BY <1>0, <2>1, FS_Subset, FS_CardinalityType
<1>2. s \in Healthy
  BY DEF Suspects
<1>3. PICK b \in Healthy : Cardinality(Peers(s)) < Cardinality(Peers(b))
  BY DEF Suspects
<1>4. b # s
  BY <1>0, <1>1, <1>2, <1>3
<1>5. Peers(b) # {}
  BY <1>0, <1>1, <1>2, <1>3, FS_EmptySet
<1>6. CASE \E c \in Peers(b) : c # s
  BY <1>4, <1>6 DEF Peers
<1>7. CASE Peers(b) = {s}
  <2>1. Cardinality(Peers(b)) = 1
    BY <1>7, FS_Singleton
  <2>2. Agree(b, s)
    BY <1>7 DEF Peers
  <2>3. value[b] \in Int /\ value[s] \in Int
    BY <1>0, <1>2, <1>3 DEF TypeOK
  <2>4. Agree(s, b)
    BY <2>2, <2>3 DEF Agree, Distance
  <2>5. Peers(s) # {}
    BY <1>4, <2>4 DEF Peers
  <2>6. Cardinality(Peers(s)) # 0
    BY <1>0, <1>1, <1>2, <2>5, FS_EmptySet
  <2> QED BY <1>0, <1>1, <1>2, <1>3, <2>1, <2>6
<1> QED BY <1>5, <1>6, <1>7

\* With any number of sources, nobody is reported as drifted on the word of a
\* single other: two healthy sources agree against it.
THEOREM NoReportWithoutWitnesses == Spec => SuspectsWitnessed
<1>1. TypeOK /\ [Next]_vars
        => (Fused => \A s \in fused'.suspects :
                       \E a, b \in Healthy \ {s} : a # b /\ Agree(a, b))
  <2> SUFFICES ASSUME TypeOK, [Next]_vars, Fused, NEW s \in fused'.suspects
               PROVE  \E a, b \in Healthy \ {s} : a # b /\ Agree(a, b)
    OBVIOUS
  <2>0. Last \in Nat \ {0} /\ todo \in Nat
    BY SourceAssumption DEF Last, TypeOK
  <2>1. Fuse
    <3>1. todo = Last + 1 /\ todo' = 1
      BY DEF Fused
    <3>2. ~Feed
      <4>1. Feed => todo' = todo + 1
        BY DEF Feed
      <4>2. Last + 1 + 1 # 1
        BY <2>0
      <4> QED BY <3>1, <4>1, <4>2
    <3>3. todo' # todo
      BY <2>0, <3>1
    <3> QED BY <3>2, <3>3 DEF Next, Configure, vars
  <2>2. fused'.suspects = {} \/ fused'.suspects = Suspects
    BY <2>1 DEF Fuse, Nothing, Published
  <2>3. s \in Suspects
    BY <2>2
  <2> QED BY <2>3, Witnesses
<1> QED BY <1>1, TypeCorrect, PTL DEF Spec, SuspectsWitnessed

-----------------------------------------------------------------------------
(* The acquisition of measurements.                                        *)

Starting == {"boot", "boot_probe", "enable", "init_bme", "configure_bme"}

\* RecordTrue, and what keeps it while the BME688 is being set up: there is no record yet.
BusForm ==
  /\ record = [s \in Slots |-> record[s]]
  /\ RecordTrue
  /\ pc \in Starting => record["bme"] = "none"

\* Steps outside the sensor task's cycle leave the record alone, and set nothing up.
LEMMA RecordLeft ==
  ASSUME BusForm, UNCHANGED <<build, pc, record, calibrated>>, setup' \subseteq setup
  PROVE  BusForm'
BY DEF BusForm, RecordTrue, UsesBsec

\* An entry that is marked was fetched from its sensor; the BME688's says what it is worth.
LEMMA MarkTrue ==
  ASSUME BusForm, NEW s \in Slots, Mark(s), UNCHANGED <<build, settings>>, pc' \notin Starting
  PROVE  BusForm'
<1>0. "bme" \in Slots /\ {"hdc", "scd", "probe"} \subseteq Slots /\ Quality(s) \in {"fresh", "junk"}
  BY DEF Slots, Sensors, Quality
<1>1. /\ record' = [t \in Slots |-> IF t = s THEN Quality(s) ELSE record[t]]
      /\ \A t \in Slots : record'[t] = IF t = s THEN Quality(s) ELSE record[t]
  BY DEF BusForm, Mark
<1>2. record' = [t \in Slots |-> record'[t]]
  BY <1>1
<1>3. RecordTrue'
  <2>1. \A t \in {"hdc", "scd", "probe"} : record'[t] \in {"none", "fresh"}
    <3>1. \A t \in {"hdc", "scd", "probe"} : t = s => Quality(s) = "fresh"
      BY DEF Quality
    <3> QED BY <1>0, <1>1, <3>1 DEF BusForm, RecordTrue
  <2>2. ~UsesBsec /\ calibrated /\ "bme" \in setup => record'["bme"] \in {"none", "fresh"}
    <3>1. s = "bme" /\ calibrated /\ "bme" \in setup => Quality(s) = "fresh"
      BY DEF Quality
    <3> QED BY <1>0, <1>1, <3>1 DEF BusForm, RecordTrue
  <2> QED BY <2>1, <2>2 DEF RecordTrue, UsesBsec, settings
<1> QED BY <1>2, <1>3 DEF BusForm

\* BSEC's outputs go into the BME688's entry and nowhere else.
LEMMA SnapshotTrue ==
  ASSUME BusForm, BsecSnapshot
  PROVE  BusForm'
<1>0. UsesBsec /\ build' = build /\ pc' = "pressure" /\ "bme" \in Slots
  BY DEF BsecSnapshot, hardware, Go, Slots, Sensors
<1>1. PICK q : record' = [record EXCEPT !["bme"] = q]
  BY DEF BsecSnapshot
<1>2. record' = [t \in Slots |-> IF t = "bme" THEN q ELSE record[t]]
  BY <1>0, <1>1 DEF BusForm
<1>3. record' = [t \in Slots |-> record'[t]]
  BY <1>2
<1>4. \A t \in {"hdc", "scd", "probe"} : t \in Slots /\ record'[t] = record[t]
  BY <1>2 DEF Slots, Sensors
<1> QED BY <1>0, <1>3, <1>4 DEF BusForm, RecordTrue, UsesBsec, Starting

\* Each transaction of the cycle marks what was fetched, or leaves the record alone.
LEMMA TransactionTrue ==
  ASSUME BusForm,
         \/ StartCycle \/ HdcStart \/ HdcRead \/ BmeForce \/ BmeRead \/ SetPressure
         \/ ScdRead \/ ProbeStart \/ ProbeRead
  PROVE  BusForm'
<1>0. {"hdc", "bme", "scd", "probe"} \subseteq Slots
  BY DEF Slots, Sensors
<1>1. UNCHANGED <<build, settings>>
  BY DEF StartCycle, HdcStart, HdcRead, BmeForce, BmeRead, SetPressure, ScdRead, ProbeStart, ProbeRead,
         hardware
<1>2. pc' \notin Starting
  BY DEF StartCycle, HdcStart, HdcRead, BmeForce, BmeRead, SetPressure, ScdRead, ProbeStart, ProbeRead,
         Go, Starting
<1>3. CASE StartCycle
  <2>1. record' = [t \in Slots |-> "none"]
    BY <1>3 DEF StartCycle, Cleared, Empty
  <2>2. \A t \in Slots : record'[t] = "none"
    BY <2>1
  <2> QED BY <1>0, <1>2, <2>1, <2>2 DEF BusForm, RecordTrue
<1>4. CASE UNCHANGED record
  BY <1>1, <1>2, <1>4 DEF BusForm, RecordTrue, UsesBsec, settings
<1>5. CASE \E s \in {"hdc", "bme", "scd", "probe"} : Mark(s)
  BY <1>0, <1>1, <1>2, <1>5, MarkTrue
<1>6. StartCycle \/ UNCHANGED record \/ \E s \in {"hdc", "bme", "scd", "probe"} : Mark(s)
  BY DEF HdcStart, HdcRead, BmeForce, BmeRead, SetPressure, ScdRead, ProbeStart, ProbeRead
<1> QED BY <1>3, <1>4, <1>5, <1>6

\* The hand-over and the search for the probe only move the task; a restart forgets
\* everything; while the BME688 is set up there is no record to be wrong.
LEMMA TaskMovesTrue ==
  ASSUME BusForm,
         \/ HandOver \/ ProbePower \/ ProbeInit \/ Enable \/ InitBme \/ ConfigureBme \/ Restart
  PROVE  BusForm'
<1>0. {"hdc", "bme", "scd", "probe"} \subseteq Slots
  BY DEF Slots, Sensors
<1>1. CASE Restart
  <2>1. record' = [t \in Slots |-> "none"]
    BY <1>1 DEF Restart, Empty
  <2>2. \A t \in Slots : record'[t] = "none"
    BY <2>1
  <2> QED BY <1>0, <2>1, <2>2 DEF BusForm, RecordTrue
<1>2. CASE HandOver \/ ProbePower \/ ProbeInit
  <2>1. UNCHANGED <<record, build, settings>>
    BY <1>2 DEF HandOver, ProbePower, ProbeInit, hardware
  <2>2. pc' \in Starting => pc \in Starting
    BY <1>2 DEF HandOver, ProbePower, ProbeInit, At, Go, Starting
  <2> QED BY <2>1, <2>2 DEF BusForm, RecordTrue, UsesBsec, settings
<1>3. CASE Enable \/ InitBme \/ ConfigureBme
  <2>1. UNCHANGED <<record, build>> /\ pc \in Starting
    BY <1>3 DEF Enable, InitBme, ConfigureBme, hardware, At, Starting
  <2> QED BY <2>1 DEF BusForm, RecordTrue, UsesBsec
<1> QED BY <1>1, <1>2, <1>3

\* In every image, whichever sensors die, come back or forget what they were told and
\* whichever transactions fail: what a cycle hands over of the room sensor, the CO2 sensor
\* and the probe was measured in it, and so is what a direct image says of a BME688 that
\* is set up and calibrated.
THEOREM RecordsAreTrue == BusSpec => []RecordTrue
<1>1. BusInit => BusForm
  <2> SUFFICES ASSUME BusInit PROVE BusForm
    OBVIOUS
  <2>1. record = [t \in Slots |-> "none"] /\ {"hdc", "bme", "scd", "probe"} \subseteq Slots
    BY DEF BusInit, Empty, Slots, Sensors
  <2>2. \A t \in Slots : record[t] = "none"
    BY <2>1
  <2> QED BY <2>1, <2>2 DEF BusForm, RecordTrue
<1>2. BusForm /\ [BusNext]_bus => BusForm'
  <2> SUFFICES ASSUME BusForm, [BusNext]_bus PROVE BusForm'
    OBVIOUS
  <2>1. CASE \/ StartCycle \/ HdcStart \/ HdcRead \/ BmeForce \/ BmeRead \/ SetPressure
             \/ ScdRead \/ ProbeStart \/ ProbeRead
    BY <2>1, TransactionTrue
  <2>2. CASE BsecSnapshot
    BY <2>2, SnapshotTrue
  <2>3. CASE HandOver \/ ProbePower \/ ProbeInit \/ Enable \/ InitBme \/ ConfigureBme \/ Restart
    BY <2>3, TaskMovesTrue
  <2>4. CASE BsecStep \/ BsecTrigger \/ ScdSamples
    BY <2>4, RecordLeft DEF BsecStep, BsecTrigger, ScdSamples, hardware, settings, reader
  <2>5. ASSUME NEW s \in Sensors, SensorDies(s) \/ SensorReturns(s) \/ SensorForgets(s) PROVE BusForm'
    BY <2>5, RecordLeft DEF SensorDies, SensorReturns, SensorForgets, settings, reader
  <2>6. ASSUME NEW what \in {"empty", "fitted", "shorted"}, Plug(what) PROVE BusForm'
    BY <2>6, RecordLeft DEF Plug, settings, reader
  <2>7. CASE UNCHANGED bus
    BY <2>7, RecordLeft DEF bus, hardware, settings, reader
  <2> QED BY <2>1, <2>2, <2>3, <2>4, <2>5, <2>6, <2>7 DEF BusNext, SensorTask, BsecTask, Hardware
<1>3. BusForm => RecordTrue
  BY DEF BusForm
<1> QED BY <1>1, <1>2, <1>3, PTL DEF BusSpec
===============================================================================
