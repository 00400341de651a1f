--------------------------- MODULE RoomControlProofs ---------------------------
(***************************************************************************)
(* Theorems about RoomControl: a tuning, an acknowledgement and a write    *)
(* are never lost between the tasks that make them and the control task,   *)
(* the bus has the last word, cooling is never released unseen (DewHeld),   *)
(* for every plan, every installation and every number of requests.        *)
(***************************************************************************)
EXTENDS RoomControl, TLAPS

-----------------------------------------------------------------------------
(* What the controllers compute is in range.                               *)

LEMMA RampRange ==
  ASSUME NEW x \in Nat, NEW limit \in Nat, NEW band \in Nat
  PROVE  Ramp(x, limit, band) \in 0 .. 100
<1>1. CASE x <= limit \/ band = 0 \/ x >= limit + band
  BY <1>1 DEF Ramp
<1>2. CASE ~(x <= limit \/ band = 0 \/ x >= limit + band)
  <2> DEFINE n == 200 * (x - limit) + band
             d == 2 * band
  <2>1. n \in Nat /\ d \in Nat \ {0} /\ n < 101 * d
    BY <1>2
  <2> HIDE DEF n, d
  <2>2. n \div d \in 0 .. 100
    BY <2>1
  <2>3. Ramp(x, limit, band) = n \div d
    BY <1>2 DEF Ramp, n, d
  <2> QED BY <2>2, <2>3
<1> QED BY <1>1, <1>2

\* A copy of the shared state, as the control task takes it.
Copy == [plan : Plans, in : Inputs, rec : Record, dirty : BOOLEAN, ack : BOOLEAN]

LEMMA DemandRange ==
  ASSUME NEW s \in Copy
  PROVE  Demand(s) \in 0 .. 100
<1>1. s.plan \in Plan /\ s.in \in Inputs /\ s.rec \in Record
  BY PlanAssumption DEF Copy
<1>2. /\ s.plan.co2 \in Nat /\ s.plan.band \in Nat /\ s.plan.humid \in Nat
      /\ s.plan.humidBand \in Nat /\ s.plan.base \in 0 .. 100 /\ s.plan.manual \in 0 .. 100
  BY <1>1 DEF Plan
<1>3. s.rec.co2 \in Nat /\ s.rec.air \in Air /\ s.in.vent \in VentModes
  BY <1>1 DEF Record, Inputs
<1>4. s.rec.air[2] \in Nat
  BY <1>3, AirAssumption
<1>5. \A a, b \in 0 .. 100 : Larger(a, b) \in 0 .. 100
  BY DEF Larger
<1> DEFINE C == IF s.rec.co2Ok THEN Ramp(s.rec.co2, s.plan.co2, s.plan.band) ELSE 0
           H == IF s.rec.humOk THEN Ramp(s.rec.air[2], s.plan.humid, s.plan.humidBand) ELSE 0
           B == IF Presence(s) = "in" THEN s.plan.base ELSE 0
<1>6. C \in 0 .. 100
  <2>1. Ramp(s.rec.co2, s.plan.co2, s.plan.band) \in 0 .. 100
    BY <1>2, <1>3, RampRange
  <2> QED BY <2>1
<1>7. H \in 0 .. 100
  <2>1. Ramp(s.rec.air[2], s.plan.humid, s.plan.humidBand) \in 0 .. 100
    BY <1>2, <1>4, RampRange
  <2> QED BY <2>1
<1>8. B \in 0 .. 100
  BY <1>2
<1>9. AutoDemand(s) = Larger(C, Larger(H, B))
  BY DEF AutoDemand
<1> HIDE DEF C, H, B
<1>10. AutoDemand(s) \in 0 .. 100
  BY <1>5, <1>6, <1>7, <1>8, <1>9
<1>11. 0 \in 0 .. 100 /\ 100 \in 0 .. 100
  OBVIOUS
<1> QED BY <1>2, <1>3, <1>10, <1>11 DEF Demand, VentModes

\* The latches are booleans.
LEMMA MonitorRange ==
  ASSUME NEW s \in Copy, {dew, damp, wet} \subseteq BOOLEAN
  PROVE  {DewNext(s), DampNext(s), WetNext(s)} \subseteq BOOLEAN
<1>1. s.rec \in Record
  BY DEF Copy
<1>2. ProbeOk(s) \in BOOLEAN
  BY <1>1 DEF Record, ProbeOk
<1>3. DewNext(s) \in BOOLEAN
  BY DEF DewNext
<1>4. DampNext(s) \in BOOLEAN
  BY DEF DampNext
<1>5. WetNext(s) \in BOOLEAN
  BY DEF WetNext
<1> QED BY <1>3, <1>4, <1>5

LEMMA OutputRange ==
  ASSUME NEW s \in Copy, {dew, damp, wet} \subseteq BOOLEAN
  PROVE  Outputs(s) \in Output
<1>1. s.in \in Inputs /\ s.rec \in Record
  BY DEF Copy
<1>2. Window(s) \in BOOLEAN
  BY <1>1 DEF Window, Inputs
<1>3. Presence(s) \in {"in", "out", "unknown"}
  BY DEF Presence
<1>4. (s.in.central \/ DewNext(s)) \in BOOLEAN /\ (DampNext(s) \/ WetNext(s)) \in BOOLEAN
  OBVIOUS
<1>5. Demand(s) \in 0 .. 100
  BY DemandRange
<1>6. Level(Demand(s)) \in {"off", "low", "medium", "high", "boost"}
  BY DEF Level
<1>7. (s.rec.humOk /\ s.rec.air[2] > s.plan.humid) \in BOOLEAN /\ (~AirOk(s) \/ s.rec.fire) \in BOOLEAN
  OBVIOUS
<1>8. Status(s.rec.floorOk \/ s.rec.wetOk, ProbeOk(s)) \in {"ok", "fault", "out of service"}
  BY DEF Status
<1> QED BY <1>2, <1>3, <1>4, <1>5, <1>6, <1>7, <1>8 DEF Outputs, Output

-----------------------------------------------------------------------------
(* The inductive invariant.                                                *)

\* What the tasks share and what the control task keeps are of their types.
Shared ==
  /\ room \in Rooms /\ plan \in Plans /\ in \in Inputs /\ rec \in Record
  /\ dirty \in BOOLEAN /\ ack \in BOOLEAN
Private ==
  /\ snap \in Copy /\ out \in Output /\ {dew, damp, wet} \subseteq BOOLEAN
  /\ pc \in {"sleep", "push", "acknowledge", "store"}

\* Requests are copied in the order they are made, and served as copied.
Numbers ==
  /\ asked \in [Kinds -> Nat] /\ taken \in [Kinds -> Nat] /\ served \in [Kinds -> Nat]
  /\ \A k \in Kinds : served[k] <= taken[k] /\ taken[k] <= asked[k] /\ asked[k] <= MaxAsks[k]

\* Where a request that is not carried out yet is: a flag that is down has
\* nothing new behind it, and a copy of one that is up is carried out before
\* the control task goes on.
TuningHeld ==
  /\ ~dirty => taken["tuning"] = asked["tuning"]
  /\ (pc = "push" /\ snap.dirty) \/ served["tuning"] = taken["tuning"]
AckHeld ==
  /\ ~ack => taken["ack"] = asked["ack"]
  /\ (pc \in {"push", "acknowledge"} /\ snap.ack) \/ served["ack"] = taken["ack"]

\* The copies are what was last written, until something new is.
CopyFollows == taken["in"] = asked["in"] => snap.in = in

LEMMA InitShared == Init => Shared /\ Private
<1> SUFFICES ASSUME Init PROVE Shared /\ Private
  OBVIOUS
<1> USE DEF Init
<1>1. Nothing \in Record
  BY AirAssumption DEF Nothing, Record
<1>2. in \in Inputs
  BY FlowAssumption DEF Inputs, VentModes
<1>3. snap \in Copy
  BY <1>1, <1>2 DEF Copy
<1>4. 0 \in 0 .. 100
  OBVIOUS
<1>5. out \in Output
  BY <1>4 DEF Output
<1> QED BY <1>1, <1>2, <1>3, <1>5 DEF Shared, Private

LEMMA InitHeld == Init => Numbers /\ TuningHeld /\ AckHeld /\ CopyFollows /\ BusWins
<1> SUFFICES ASSUME Init PROVE Numbers /\ TuningHeld /\ AckHeld /\ CopyFollows /\ BusWins
  OBVIOUS
<1>1. asked = [k \in Kinds |-> 0] /\ taken = asked /\ served = asked
  BY DEF Init
<1>2. Numbers
  BY <1>1, AskAssumption DEF Numbers
<1>3. TuningHeld /\ AckHeld
  BY <1>1 DEF TuningHeld, AckHeld
<1>4. CopyFollows
  BY DEF CopyFollows, Init
<1>5. BusWins
  BY DEF BusWins, Init
<1> QED BY <1>2, <1>3, <1>4, <1>5

\* What the tasks share keeps its type.
LEMMA SharedKept == Shared /\ [Next]_vars => Shared'
<1> SUFFICES ASSUME Shared, [Next]_vars PROVE Shared'
  OBVIOUS
<1> USE DEF Shared
<1>1. CASE Write
  <2>1. UNCHANGED <<room, plan, rec, dirty, ack>>
    BY <1>1 DEF Write
  <2>2. in' \in Inputs
    BY <1>1 DEF Write, Contact, Detector, Flow, Inputs
  <2> QED BY <2>1, <2>2
<1>2. CASE Parametrise
  BY <1>2 DEF Parametrise
<1>3. CASE Tune
  BY <1>3 DEF Tune
<1>4. CASE RequestAck
  BY <1>4 DEF RequestAck
<1>5. CASE SensorData
  BY <1>5, RoomAssumption DEF SensorData
<1>6. CASE Snapshot
  BY <1>6 DEF Snapshot
<1>7. CASE Push
  BY <1>7 DEF Push, service
<1>8. CASE Acknowledge
  BY <1>8 DEF Acknowledge, service
<1>9. CASE Store
  BY <1>9 DEF Store, service
<1>10. CASE UNCHANGED vars
  BY <1>10 DEF vars, service
<1> QED BY <1>1, <1>2, <1>3, <1>4, <1>5, <1>6, <1>7, <1>8, <1>9, <1>10 DEF Next, Tick

\* So does what the control task keeps.
LEMMA PrivateKept == Shared /\ Private /\ [Next]_vars => Private'
<1> SUFFICES ASSUME Shared, Private, [Next]_vars PROVE Private'
  OBVIOUS
<1> USE DEF Private
<1>1. CASE Write \/ Parametrise \/ Tune \/ RequestAck \/ SensorData \/ UNCHANGED vars
  BY <1>1 DEF Write, Parametrise, Tune, RequestAck, SensorData, vars, monitors
<1>2. CASE Snapshot
  <2>1. snap' \in Copy
    BY <1>2 DEF Snapshot, Shared, Copy
  <2> QED BY <1>2, <2>1 DEF Snapshot, monitors
<1>3. CASE Push
  BY <1>3 DEF Push, monitors
<1>4. CASE Acknowledge
  BY <1>4 DEF Acknowledge, monitors
<1>5. CASE Store
  <2>1. out' \in Output
    BY <1>5, OutputRange DEF Store
  <2>2. {dew', damp', wet'} \subseteq BOOLEAN
    BY <1>5, MonitorRange DEF Store
  <2> QED BY <1>5, <2>1, <2>2 DEF Store
<1> QED BY <1>1, <1>2, <1>3, <1>4, <1>5 DEF Next, Tick

Inv == Shared /\ Private /\ Numbers /\ TuningHeld /\ AckHeld /\ CopyFollows /\ BusWins

\* The numbers stay in order: only asking and serving move them.
LEMMA NumbersKept == Inv /\ [Next]_vars => Numbers'
<1> SUFFICES ASSUME Inv, [Next]_vars PROVE Numbers'
  OBVIOUS
<1> USE DEF Numbers
<1>0. Numbers /\ {"in", "tuning", "ack"} = Kinds
  BY DEF Inv, Kinds
<1>1. ASSUME NEW k \in Kinds, Number(k), UNCHANGED <<taken, served>> PROVE Numbers'
  <2>1. asked[k] < MaxAsks[k] /\ asked' = [asked EXCEPT ![k] = asked[k] + 1]
    BY <1>1 DEF Number
  <2>2. asked' \in [Kinds -> Nat]
    <3>1. asked \in [Kinds -> Nat] /\ asked[k] + 1 \in Nat
      BY <1>0
    <3> QED BY <2>1, <3>1
  <2>3. ASSUME NEW j \in Kinds
        PROVE  asked[j] <= asked'[j] /\ asked'[j] <= MaxAsks[j]
    <3>1. asked \in [Kinds -> Nat] /\ asked[j] \in Nat /\ MaxAsks[j] \in Nat
          /\ asked[j] <= MaxAsks[j]
      BY <1>0, <2>3, AskAssumption
    <3>2. CASE j = k
      <4>1. asked'[j] = asked[j] + 1 /\ asked[j] < MaxAsks[j]
        BY <2>1, <3>1, <3>2
      <4> QED BY <3>1, <4>1
    <3>3. CASE j # k
      <4>1. asked'[j] = asked[j]
        BY <2>1, <3>1, <3>3
      <4> QED BY <3>1, <4>1
    <3> QED BY <3>2, <3>3
  <2> QED BY <1>0, <1>1, <2>2, <2>3, AskAssumption
<1>2. CASE Write \/ Parametrise \/ Tune \/ RequestAck
  BY <1>0, <1>1, <1>2 DEF Write, Parametrise, Tune, RequestAck
<1>3. CASE SensorData \/ UNCHANGED vars
  BY <1>0, <1>3 DEF SensorData, vars
<1>4. CASE Snapshot
  <2>1. asked' = asked /\ taken' = asked /\ served' = served
    BY <1>4 DEF Snapshot
  <2> QED BY <1>0, <2>1, AskAssumption
<1>5. CASE Push
  <2>1. asked' = asked /\ taken' = taken /\ served' \in {served, [served EXCEPT !["tuning"] = taken["tuning"]]}
    BY <1>0, <1>5 DEF Push
  <2> QED BY <1>0, <2>1, AskAssumption
<1>6. CASE Acknowledge
  <2>1. asked' = asked /\ taken' = taken /\ served' \in {served, [served EXCEPT !["ack"] = taken["ack"]]}
    BY <1>0, <1>6 DEF Acknowledge
  <2> QED BY <1>0, <2>1, AskAssumption
<1>7. CASE Store
  <2>1. asked' = asked /\ taken' = taken /\ served' = [served EXCEPT !["in"] = taken["in"]]
    BY <1>7 DEF Store
  <2> QED BY <1>0, <2>1, AskAssumption
<1> QED BY <1>2, <1>3, <1>4, <1>5, <1>6, <1>7 DEF Next, Tick

\* Asking for one thing does not touch the numbers of another.
LEMMA AskedApart ==
  ASSUME Numbers
  PROVE  /\ Number("in") => asked'["tuning"] = asked["tuning"] /\ asked'["ack"] = asked["ack"]
                              /\ asked'["in"] = asked["in"] + 1
         /\ Number("tuning") => asked'["in"] = asked["in"] /\ asked'["ack"] = asked["ack"]
         /\ Number("ack") => asked'["in"] = asked["in"] /\ asked'["tuning"] = asked["tuning"]
BY DEF Numbers, Number, Kinds

\* Nor does serving it.
LEMMA ServedApart ==
  ASSUME Numbers
  PROVE  /\ Push => /\ served'["in"] = served["in"] /\ served'["ack"] = served["ack"]
                    /\ served'["tuning"] = IF snap.dirty THEN taken["tuning"] ELSE served["tuning"]
         /\ Acknowledge => /\ served'["in"] = served["in"] /\ served'["tuning"] = served["tuning"]
                           /\ served'["ack"] = IF snap.ack THEN taken["ack"] ELSE served["ack"]
         /\ Store => /\ served'["tuning"] = served["tuning"] /\ served'["ack"] = served["ack"]
                     /\ served'["in"] = taken["in"]
BY DEF Numbers, Push, Acknowledge, Store, Kinds

LEMMA TuningKept == Inv /\ [Next]_vars => TuningHeld'
<1> SUFFICES ASSUME Inv, [Next]_vars PROVE TuningHeld'
  OBVIOUS
<1> USE DEF TuningHeld
<1>0. TuningHeld /\ Numbers /\ pc \in {"sleep", "push", "acknowledge", "store"}
  BY DEF Inv, Private
<1>1. CASE Write \/ Parametrise \/ RequestAck
  BY <1>0, <1>1, AskedApart DEF Write, Parametrise, RequestAck
<1>2. CASE Tune
  BY <1>0, <1>2 DEF Tune
<1>3. CASE SensorData \/ UNCHANGED vars
  BY <1>0, <1>3 DEF SensorData, vars, service
<1>4. CASE Snapshot
  <2>1. pc = "sleep" /\ pc' = "push" /\ asked' = asked /\ taken' = asked /\ served' = served
         /\ snap'.dirty = dirty
    BY <1>4 DEF Snapshot
  <2> QED BY <1>0, <2>1
<1>5. CASE Push
  BY <1>0, <1>5, ServedApart DEF Push, service
<1>6. CASE Acknowledge
  BY <1>0, <1>6, ServedApart DEF Acknowledge, service
<1>7. CASE Store
  BY <1>0, <1>7, ServedApart DEF Store, service
<1> QED BY <1>1, <1>2, <1>3, <1>4, <1>5, <1>6, <1>7 DEF Next, Tick

LEMMA AckKept == Inv /\ [Next]_vars => AckHeld'
<1> SUFFICES ASSUME Inv, [Next]_vars PROVE AckHeld'
  OBVIOUS
<1> USE DEF AckHeld
<1>0. AckHeld /\ Numbers /\ pc \in {"sleep", "push", "acknowledge", "store"}
  BY DEF Inv, Private
<1>1. CASE Write \/ Parametrise \/ Tune
  BY <1>0, <1>1, AskedApart DEF Write, Parametrise, Tune
<1>2. CASE RequestAck
  BY <1>0, <1>2 DEF RequestAck
<1>3. CASE SensorData \/ UNCHANGED vars
  BY <1>0, <1>3 DEF SensorData, vars, service
<1>4. CASE Snapshot
  <2>1. pc = "sleep" /\ pc' = "push" /\ asked' = asked /\ taken' = asked /\ served' = served
         /\ snap'.ack = ack
    BY <1>4 DEF Snapshot
  <2> QED BY <1>0, <2>1
<1>5. CASE Push
  BY <1>0, <1>5, ServedApart DEF Push, service
<1>6. CASE Acknowledge
  BY <1>0, <1>6, ServedApart DEF Acknowledge, service
<1>7. CASE Store
  BY <1>0, <1>7, ServedApart DEF Store, service
<1> QED BY <1>1, <1>2, <1>3, <1>4, <1>5, <1>6, <1>7 DEF Next, Tick

\* What a tick makes of a copy is what the bus said.
LEMMA OutputsFollow ==
  ASSUME NEW s \in Copy, s.in = in
  PROVE  /\ in.windowKnown => Outputs(s).window = in.window
         /\ in.presenceKnown => Outputs(s).presence = (IF in.presence THEN "in" ELSE "out")
         /\ in.vent = "off" => Outputs(s).demand = 0
         /\ in.vent = "boost" => Outputs(s).level = "boost"
<1>1. /\ Outputs(s).window = Window(s) /\ Outputs(s).presence = Presence(s)
      /\ Outputs(s).demand = Demand(s) /\ Outputs(s).level = Level(Demand(s))
  BY DEF Outputs
<1>2. in.vent = "boost" => Demand(s) = 100
  BY DEF Demand
<1>3. Level(100) = "boost"
  BY DEF Level
<1>4. in.vent = "off" => Demand(s) = 0
  BY DEF Demand
<1> QED BY <1>1, <1>2, <1>3, <1>4 DEF Window, Presence

LEMMA CopyKept == Inv /\ [Next]_vars => CopyFollows'
<1> SUFFICES ASSUME Inv, [Next]_vars PROVE CopyFollows'
  OBVIOUS
<1> USE DEF CopyFollows
<1>0. CopyFollows /\ Numbers
  BY DEF Inv
<1>1. CASE Write \/ Parametrise
  <2>1. taken' = taken /\ asked'["in"] = asked["in"] + 1
    BY <1>0, <1>1, AskedApart DEF Write, Parametrise
  <2>2. taken["in"] \in Nat /\ asked["in"] \in Nat /\ taken["in"] <= asked["in"]
    BY <1>0 DEF Numbers, Kinds
  <2> QED BY <2>1, <2>2
<1>2. CASE Tune \/ RequestAck
  BY <1>0, <1>2, AskedApart DEF Tune, RequestAck
<1>3. CASE SensorData \/ UNCHANGED vars
  BY <1>0, <1>3 DEF SensorData, vars, service
<1>4. CASE Snapshot
  BY <1>4 DEF Snapshot
<1>5. CASE Push \/ Acknowledge \/ Store
  BY <1>0, <1>5 DEF Push, Acknowledge, Store, service
<1> QED BY <1>1, <1>2, <1>3, <1>4, <1>5 DEF Next, Tick

LEMMA BusKept == Inv /\ [Next]_vars => BusWins'
<1> SUFFICES ASSUME Inv, [Next]_vars PROVE BusWins'
  OBVIOUS
<1> USE DEF BusWins
<1>0. BusWins /\ Numbers /\ CopyFollows /\ Shared /\ Private
  BY DEF Inv
<1>1. CASE Write \/ Parametrise
  <2>1. served' = served /\ asked'["in"] = asked["in"] + 1
    BY <1>0, <1>1, AskedApart DEF Write, Parametrise
  <2>2. served["in"] \in Nat /\ asked["in"] \in Nat /\ served["in"] <= asked["in"]
    BY <1>0 DEF Numbers, Kinds
  <2> QED BY <2>1, <2>2
<1>2. CASE Tune \/ RequestAck
  <2>1. asked'["in"] = asked["in"]
    BY <1>0, <1>2, AskedApart DEF Tune, RequestAck
  <2> QED BY <1>0, <1>2, <2>1 DEF Tune, RequestAck
<1>3. CASE SensorData \/ Snapshot \/ UNCHANGED vars
  BY <1>0, <1>3 DEF SensorData, Snapshot, vars, service
<1>4. CASE Push \/ Acknowledge
  <2>1. served'["in"] = served["in"] /\ UNCHANGED <<in, out, asked>>
    BY <1>0, <1>4, ServedApart DEF Push, Acknowledge, service
  <2> QED BY <1>0, <2>1
<1>5. CASE Store
  <2>1. served'["in"] = taken["in"] /\ in' = in /\ asked' = asked /\ out' = Outputs(snap)
    BY <1>0, <1>5, ServedApart DEF Store, service
  <2>2. taken["in"] = asked["in"] => snap.in = in
    BY <1>0 DEF CopyFollows
  <2>3. snap \in Copy
    BY <1>0 DEF Private
  <2> QED BY <2>1, <2>2, <2>3, OutputsFollow
<1> QED BY <1>1, <1>2, <1>3, <1>4, <1>5 DEF Next, Tick

LEMMA Invariance == Spec => []Inv
<1>1. Init => Inv
  BY InitShared, InitHeld DEF Inv
<1>2. Inv /\ [Next]_vars => Inv'
  BY SharedKept, PrivateKept, NumbersKept, TuningKept, AckKept, CopyKept, BusKept DEF Inv
<1> QED BY <1>1, <1>2, PTL DEF Spec

-----------------------------------------------------------------------------
(* Theorems.                                                               *)

\* Every variable keeps its range, and the demand for air is a percentage for
\* every plan and every measurement (hvac_control.hpp, ramp()).
THEOREM TypeCorrect == Spec => []TypeOK
<1>1. Inv => TypeOK
  <2> SUFFICES ASSUME Inv PROVE TypeOK
    OBVIOUS
  <2>1. Shared /\ Private /\ Numbers
    BY DEF Inv
  <2>2. \A k \in Kinds : {asked[k], taken[k], served[k]} \subseteq 0 .. MaxAsks[k]
    BY <2>1, AskAssumption DEF Numbers
  <2> QED BY <2>1, <2>2 DEF TypeOK, Shared, Private, Copy
<1> QED BY <1>1, Invariance, PTL

\* A flag that the control task lowers when it copies it (control_service.cpp,
\* runControlTick()) does not lose the request that raised it, nor one that is
\* made while the tick is under way.
THEOREM NothingIsForgotten == Spec => []NothingForgotten
<1>1. Inv => NothingForgotten
  BY DEF Inv, TuningHeld, AckHeld, NothingForgotten
<1> QED BY <1>1, Invariance, PTL

\* A contact, a detector and a fan mode that have been set decide over what is
\* inferred and measured, as soon as the last write is in the outputs.
THEOREM BusAlwaysWins == Spec => []BusWins
<1>1. Inv => BusWins
  BY DEF Inv
<1> QED BY <1>1, Invariance, PTL

\* The dew point alarm falls only on a sight of the room air and of a chosen surface, and
\* only when each chosen surface in sight is clear of the dew point.
THEOREM DewIsHeld == Spec => DewHeld
<1>1. Inv /\ [Next]_vars =>
        [out.dew /\ ~out'.dew =>
           /\ ~snap.in.central
           /\ dew => /\ AirOk(snap)
                     /\ \E w \in snap.plan.surface : Sighted(snap, w)
                     /\ \A w \in snap.plan.surface : Sighted(snap, w) => Clear(snap, w)]_vars
  <2> SUFFICES ASSUME Inv, Next, out.dew, ~out'.dew
               PROVE  /\ ~snap.in.central
                      /\ dew => /\ AirOk(snap)
                                /\ \E w \in snap.plan.surface : Sighted(snap, w)
                                /\ \A w \in snap.plan.surface : Sighted(snap, w) => Clear(snap, w)
    OBVIOUS
  <2>1. Store
    BY DEF Next, Tick, Write, Parametrise, Tune, RequestAck, SensorData, Snapshot, Push, Acknowledge
  <2>2. ~snap.in.central /\ ~DewNext(snap)
    BY <2>1 DEF Store, Outputs
  <2>3. snap \in Copy
    BY DEF Inv, Private
  <2>4. /\ snap.plan.margin \in Nat /\ snap.plan.gap \in Nat /\ snap.plan.surface \subseteq {"floor", "flow"}
        /\ snap.rec.air \in Air /\ snap.rec.floor[1] \in Int /\ snap.in.flow \in Int
    BY <2>3, PlanAssumption, AirAssumption, FlowAssumption DEF Copy, Plan, Record, Inputs
  <2>5. DewPoint(snap.rec.air) \in Int
    BY <2>4, AirAssumption DEF DewPoint
  <2>6. ASSUME dew
        PROVE  /\ Comparable(snap)
               /\ \A t \in Surfaces(snap) :
                    /\ Margin(snap, t) \in Int
                    /\ Margin(snap, t) >= snap.plan.margin + snap.plan.gap
    <3>1. Comparable(snap)
      BY <2>2, <2>6 DEF DewNext
    <3>2. \A t \in Surfaces(snap) : Margin(snap, t) \in Int
      BY <2>4, <2>5 DEF Surfaces, Margin
    <3> QED BY <2>2, <2>4, <2>6, <3>1, <3>2 DEF DewNext
  <2>7. ASSUME dew, NEW w \in snap.plan.surface, Sighted(snap, w)
        PROVE  Clear(snap, w)
    <3>1. CASE w = "floor"
      <4>1. snap.rec.floor[1] \in Surfaces(snap)
        BY <2>7, <3>1 DEF Sighted, Surfaces
      <4> QED BY <2>6, <2>7, <3>1, <4>1 DEF Clear, Margin
    <3>2. CASE w = "flow"
      <4>1. snap.in.flow \in Surfaces(snap)
        BY <2>7, <3>2 DEF Sighted, Surfaces
      <4> QED BY <2>6, <2>7, <3>2, <4>1 DEF Clear, Margin
    <3> QED BY <2>4, <2>7, <3>1, <3>2
  <2>8. ASSUME dew PROVE AirOk(snap) /\ \E w \in snap.plan.surface : Sighted(snap, w)
    BY <2>6, <2>8 DEF Comparable, Surfaces, Sighted
  <2> QED BY <2>2, <2>7, <2>8
<1> QED BY <1>1, Invariance, PTL DEF Spec, DewHeld

\* The service refines LatestWins in each of its three places: a request gives
\* way only to a later one and none is served out of order.  (That each is
\* served at last is the fairness half, and is checked.)
THEOREM PlacesRefine ==
  Spec => /\ Commands!Init /\ [][Commands!Next]_<<asked["in"], served["in"]>>
          /\ Tunings!Init /\ [][Tunings!Next]_<<asked["tuning"], served["tuning"]>>
          /\ Acks!Init /\ [][Acks!Next]_<<asked["ack"], served["ack"]>>
<1>1. Init => Commands!Init /\ Tunings!Init /\ Acks!Init
  BY DEF Init, Commands!Init, Tunings!Init, Acks!Init, Kinds
<1>2. Inv /\ [Next]_vars =>
        /\ [Commands!Next]_<<asked["in"], served["in"]>>
        /\ [Tunings!Next]_<<asked["tuning"], served["tuning"]>>
        /\ [Acks!Next]_<<asked["ack"], served["ack"]>>
  <2> SUFFICES ASSUME Inv, [Next]_vars
               PROVE  \A k \in Kinds :
                        \/ UNCHANGED <<asked[k], served[k]>>
                        \/ asked'[k] = asked[k] + 1 /\ served'[k] = served[k]
                        \/ served[k] < asked[k] /\ served'[k] \in (served[k] + 1) .. asked[k]
                             /\ asked'[k] = asked[k]
    BY DEF Kinds, Commands!Next, Commands!Ask, Commands!Serve, Tunings!Next, Tunings!Ask,
           Tunings!Serve, Acks!Next, Acks!Ask, Acks!Serve
  <2>0. Numbers
    BY DEF Inv
  <2>1. ASSUME NEW j \in Kinds, Number(j), UNCHANGED served, NEW k \in Kinds
        PROVE  \/ UNCHANGED <<asked[k], served[k]>>
               \/ asked'[k] = asked[k] + 1 /\ served'[k] = served[k]
    BY <2>0, <2>1 DEF Numbers, Number
  <2>2. CASE Write \/ Parametrise \/ Tune \/ RequestAck
    BY <2>1, <2>2 DEF Write, Parametrise, Tune, RequestAck, Kinds
  <2>3. CASE SensorData \/ Snapshot \/ UNCHANGED vars
    BY <2>3 DEF SensorData, Snapshot, vars
  <2>4. CASE Push \/ Acknowledge \/ Store
    <3> SUFFICES ASSUME NEW k \in Kinds
                 PROVE  served'[k] \in {served[k], taken[k]} /\ asked'[k] = asked[k]
      BY <2>0 DEF Numbers
    <3> QED BY <2>0, <2>4, ServedApart DEF Push, Acknowledge, Store, Kinds
  <2> QED BY <2>2, <2>3, <2>4 DEF Next, Tick
<1> QED BY <1>1, <1>2, Invariance, PTL DEF Spec
=============================================================================
