----------------------------- MODULE AdapterProofs -----------------------------
(***************************************************************************)
(* Theorems about the adapters.  KnxService: the ranges of what it keeps,  *)
(* that no tick of the control task is lost between the two tasks, that    *)
(* reads and sends agree, that alarms wait for the rate limit alone, and   *)
(* that a bus left alone knows the room.                                   *)
(* Network, where the MQTT adapter, KNX/IP routing and the Wi-Fi station   *)
(* meet: the ranges, that the station always has a way back, and that a    *)
(* device at rest has told the outside everything.                         *)
(***************************************************************************)
EXTENDS KnxService, Network, FiniteSetTheorems, SequenceTheorems, TLAPS

\* What is offered keeps the range of a group object.
LEMMA ValueRange ==
  ASSUME NEW s \in Snapshot, NEW p \in Ports
  PROVE  Value(s, p) \in Values
<1>1. Kind[p] \in {"measured", "state", "setting", "alarm"}
  BY ObjectAssumption DEF Ports, Kinds
<1>2. s.rec \in Record /\ s.hvac \in Parameter /\ s.on \in Bit /\ s.alarm \in Bit
  BY DEF Snapshot
<1>3. s.rec.raw \in Int
  <2>1. Readings \cup {0} \subseteq Int
    BY ReadingAssumption
  <2>2. s.rec.raw \in Readings \cup {0}
    BY <1>2 DEF Record
  <2> QED BY <2>1, <2>2
<1>4. s.rec.raw + s.hvac.offset \in Int
  BY <1>2, <1>3 DEF Parameter, Offset
<1>5. \A x \in Int : Clamp(x) \in 0 .. Top
  BY ReadingAssumption DEF Clamp
<1>6. s.hvac.setpoint \in Setpoint
  BY <1>2 DEF Parameter
<1>7. CASE Kind[p] = "measured"
  BY <1>4, <1>5, <1>7 DEF Value, Values
<1>8. CASE Kind[p] # "measured"
  BY <1>1, <1>2, <1>6, <1>8 DEF Value, Values
<1> QED BY <1>7, <1>8

\* Sending leaves the stack's records in their ranges.
LEMMA SendTypes ==
  ASSUME TypeOK, NEW candidates \in SUBSET Ports, NEW s \in Batches(candidates),
         NEW values \in [Ports -> Values \cup {Never}], Send(s, values)
  PROVE  /\ sent' \in [Ports -> Values \cup {Never}] /\ age' \in [Ports -> 0 .. MaxAge]
         /\ budget' \in 0 .. Budget
<1>1. s \subseteq Ports /\ Cardinality(s) <= budget
  BY DEF Batches
<1>2. IsFiniteSet(s)
  BY <1>1, ObjectAssumption, FS_Subset DEF Ports
<1>3. Cardinality(s) \in Nat
  BY <1>2, FS_CardinalityType
<1>4. budget' \in 0 .. Budget
  BY <1>1, <1>3, BoundAssumption DEF Send, TypeOK
<1>5. sent' \in [Ports -> Values \cup {Never}]
  BY DEF Send, TypeOK
<1>6. age' \in [Ports -> 0 .. MaxAge]
  BY BoundAssumption DEF Send, TypeOK
<1> QED BY <1>4, <1>5, <1>6

\* Every variable keeps its range, whatever the objects and the parameters.
THEOREM TypeCorrect == Spec => []TypeOK
<1>0. Parameters \subseteq Parameter /\ Defaults \in Parameters
  BY ParameterAssumption
<1>1. Init => TypeOK
  <2> SUFFICES ASSUME Init PROVE TypeOK
    OBVIOUS
  <2>0. 0 \in Bit /\ 1 \in Bit
    BY DEF Bit
  <2>1. hvac \in Parameter /\ on \in Bit /\ alarm \in Bit
    BY <1>0, <2>0 DEF Init
  <2>3. rec \in Record
    BY DEF Init, Record
  <2>2. snap \in Snapshot /\ policy \in Parameter
    BY <2>1, <2>3 DEF Init, Current, Snapshot
  <2>4. gate \in 0 .. MaxJitter /\ budget \in 0 .. Budget /\ changes \in 0 .. MaxChanges
    BY BoundAssumption DEF Init
  <2>5. age \in [Ports -> 0 .. MaxAge]
    BY BoundAssumption DEF Init
  <2>6. offered \in [Ports -> Values \cup {Never}] /\ sent \in [Ports -> Values \cup {Never}]
    BY DEF Init
  <2>7. /\ life \in {"operational", "commissioning"} /\ ets \in Parameters /\ told \subseteq Fields
        /\ overruled \subseteq {"setpoint"}
        /\ ctl \in {"idle", "notify"} /\ waiting \subseteq Ports
    BY DEF Init
  <2>8. pending \in BOOLEAN /\ due \in BOOLEAN /\ changed \in BOOLEAN
    BY Zenon DEF Init
  <2>9. pc \in {"start", "loop", "check", "policy", "look", "publish", "park"}
    BY DEF Init
  <2>10. {asked, taken, served} \subseteq Nat
    BY DEF Init
  <2> QED BY <2>1, <2>2, <2>3, <2>4, <2>5, <2>6, <2>7, <2>8, <2>9, <2>10 DEF TypeOK
<1>2. TypeOK /\ [Next]_vars => TypeOK'
  <2> SUFFICES ASSUME TypeOK, [Next]_vars PROVE TypeOK'
    OBVIOUS
  <2> USE <1>0, BoundAssumption DEF TypeOK
  <2>1. CASE Unload
    BY <2>1 DEF Unload, Change, service, loop, stack
  <2>2. CASE Load
    BY <2>2 DEF Load, service, loop, stack, history
  <2>3. ASSUME NEW f \in Fields, ParameterChanged(f) PROVE TypeOK'
    <3>1. hvac' \in Parameter
      <4>1. ets \in Parameter /\ hvac' = [hvac EXCEPT ![f] = ets[f]]
        BY <2>3 DEF ParameterChanged
      <4>2. CASE f = "offset"
        BY <4>1, <4>2 DEF Parameter
      <4>3. CASE f = "cov"
        BY <4>1, <4>3 DEF Parameter
      <4>4. CASE f = "minRep"
        BY <4>1, <4>4 DEF Parameter
      <4>5. CASE f = "heartbeat"
        BY <4>1, <4>5 DEF Parameter
      <4>6. CASE f = "enable"
        BY <4>1, <4>6 DEF Parameter
      <4>7. CASE f = "setpoint"
        BY <4>1, <4>7 DEF Parameter
      <4> QED BY <2>3, <4>2, <4>3, <4>4, <4>5, <4>6, <4>7 DEF Fields
    <3> QED BY <2>3, <3>1 DEF ParameterChanged, loop, stack
  <2>4. ASSUME NEW p \in Writable, Telegram(p) PROVE TypeOK'
    <3>1. hvac' \in Parameter /\ overruled' \subseteq {"setpoint"}
      <4>1. CASE Kind[p] = "setting"
        <5>1. PICK v \in Asked : hvac' = [hvac EXCEPT !.setpoint = v]
          BY <2>4, <4>1 DEF Telegram
        <5>2. v \in Setpoint
          BY AskedAssumption
        <5>3. hvac' \in Parameter
          BY <5>1, <5>2 DEF Parameter
        <5>4. overruled' = overruled \cup {"setpoint"}
          BY <2>4, <4>1 DEF Telegram
        <5> QED BY <5>3, <5>4
      <4>2. CASE Kind[p] # "setting"
        BY <2>4, <4>2 DEF Telegram
      <4> QED BY <4>1, <4>2
    <3>2. on' \in Bit /\ changes' \in 0 .. MaxChanges
      BY <2>4 DEF Telegram, Change, Bit
    <3> QED BY <2>4, <3>1, <3>2 DEF Telegram, loop, stack
  <2>5. CASE Sense
    <3>1. rec' \in Record
      BY <2>5 DEF Sense, Record
    <3> QED BY <2>5, <3>1 DEF Sense, Change, device, loop, stack
  <2>6. CASE StoreOutputs
    <3>1. alarm' \in Bit
      BY <2>6 DEF StoreOutputs, Bit
    <3>2. asked' \in Nat /\ changes' \in 0 .. MaxChanges
      BY <2>6 DEF StoreOutputs, Change
    <3> QED BY <2>6, <3>1, <3>2 DEF StoreOutputs, device, loop, stack
  <2>7. CASE OnControlTick
    BY <2>7 DEF OnControlTick, device, service, loop, stack, history
  <2>8. CASE Seed
    <3>1. hvac' = ets /\ ets \in Parameter
      BY <2>8 DEF Seed
    <3>2. hvac' \in Parameter /\ on' \in Bit
      BY <2>8, <3>1 DEF Seed, Parameter
    <3> QED BY <2>8, <3>2 DEF Seed, Jitter, device, stack
  <2>9. CASE Drain
    <3>1. PICK s \in Batches(Ready) : Send(s, offered) /\ waiting' = waiting \ s
      BY <2>9 DEF Drain
    <3>2. Ready \subseteq Ports
      BY DEF Ready
    <3>3. /\ sent' \in [Ports -> Values \cup {Never}] /\ age' \in [Ports -> 0 .. MaxAge]
          /\ budget' \in 0 .. Budget
      BY <3>1, <3>2, SendTypes
    <3> QED BY <2>9, <3>1, <3>3 DEF Drain, device, service
  <2>10. CASE Check
    BY <2>10 DEF Check, device, service, stack, history
  <2>11. CASE ApplyTransmitPolicies
    BY <2>11 DEF ApplyTransmitPolicies, device, service, history
  <2>12. CASE TakeSnapshot
    <3>1. snap' \in Snapshot
      BY <2>12 DEF TakeSnapshot, Current, Snapshot
    <3> QED BY <2>12, <3>1 DEF TakeSnapshot, device, service, stack
  <2>13. CASE PublishAllState
    <3>1. offered' \in [Ports -> Values \cup {Never}]
      BY <2>13, ValueRange DEF PublishAllState
    <3> DEFINE worth == {p \in Valid(snap) : Worth(p, Value(snap, p), policy.cov)}
    <3>2. worth \subseteq Ports
      BY DEF Valid
    <3> HIDE DEF worth
    <3>3. PICK s \in Batches({p \in worth : sent[p] = Never \/ age[p] >= MinInterval(p)}) :
            /\ Send(s, offered')
            /\ waiting' = (waiting \ Valid(snap)) \cup (worth \ s)
      BY <2>13 DEF PublishAllState, worth
    <3>4. /\ sent' \in [Ports -> Values \cup {Never}] /\ age' \in [Ports -> 0 .. MaxAge]
          /\ budget' \in 0 .. Budget
      <4> DEFINE candidates == {p \in worth : sent[p] = Never \/ age[p] >= MinInterval(p)}
      <4>1. candidates \in SUBSET Ports
        BY <3>2
      <4> QED BY <3>1, <3>3, <4>1, SendTypes
    <3>5. waiting' \subseteq Ports
      BY <3>2, <3>3
    <3> QED BY <2>13, <3>1, <3>4, <3>5 DEF PublishAllState, device, service
  <2>14. ASSUME NEW seconds \in {0, 1}, Wake(seconds) PROVE TypeOK'
    <3>1. \A a \in 0 .. MaxAge : Older(a) \in 0 .. MaxAge
      BY DEF Older
    <3>2. CASE seconds = 0
      BY <2>14, <3>2 DEF Wake, device, service
    <3>3. CASE seconds = 1
      <4>1. gate' \in 0 .. MaxJitter
        BY <2>14, <3>3 DEF Wake
      <4>2. age' \in [Ports -> 0 .. MaxAge] /\ budget' \in 0 .. Budget
        BY <2>14, <3>1, <3>3 DEF Wake
      <4> QED BY <2>14, <3>3, <4>1, <4>2 DEF Wake, device, service
    <3> QED BY <3>2, <3>3
  <2>15. CASE UNCHANGED vars
    BY <2>15 DEF vars, device, service, loop, stack, history
  <2> QED BY <2>1, <2>2, <2>3, <2>4, <2>5, <2>6, <2>7, <2>8, <2>9, <2>10, <2>11, <2>12,
             <2>13, <2>14, <2>15 DEF Next, World, Control, Task
<1> QED BY <1>1, <1>2, PTL DEF Spec

-----------------------------------------------------------------------------
(* Alarms and the rate limit.                                              *)

\* What does not make it into a batch has found the second used up.
LEMMA BatchUsesUp ==
  ASSUME TypeOK, NEW candidates \in SUBSET Ports, NEW s \in Batches(candidates),
         NEW values \in [Ports -> Values \cup {Never}], Send(s, values),
         NEW p \in candidates, p \notin s
  PROVE  budget' = 0
<1>1. Cardinality(s) = budget
  BY DEF Batches
<1>2. budget \in Int
  BY BoundAssumption DEF TypeOK
<1> QED BY <1>1, <1>2 DEF Send

\* An alarm may go out at any age.
LEMMA AlarmsMayGo ==
  ASSUME TypeOK, NEW p \in Alarms
  PROVE  p \in Ports /\ Kind[p] = "alarm" /\ MinInterval(p) = 0 /\ age[p] >= MinInterval(p)
<1>1. p \in Ports /\ Kind[p] = "alarm"
  BY DEF Alarms, Ports
<1>2. age[p] \in 0 .. MaxAge
  BY <1>1 DEF TypeOK
<1> QED BY <1>1, <1>2, BoundAssumption DEF MinInterval

LEMMA DrainedAlarms ==
  ASSUME TypeOK, AlarmPrompt, Drain
  PROVE  AlarmPrompt'
<1>1. PICK s \in Batches(Ready) : Send(s, offered) /\ waiting' = waiting \ s
  BY DEF Drain
<1>2. offered' = offered /\ Ready \subseteq Ports /\ offered \in [Ports -> Values \cup {Never}]
  BY DEF Drain, Ready, TypeOK
<1> SUFFICES ASSUME NEW p \in Alarms, sent'[p] # offered'[p]
             PROVE  p \in waiting' /\ budget' = 0
  BY DEF AlarmPrompt
<1>3. p \in Ports /\ age[p] >= MinInterval(p)
  BY AlarmsMayGo
<1>4. p \notin s /\ sent[p] # offered[p]
  BY <1>1, <1>2, <1>3 DEF Send
<1>5. p \in waiting
  BY <1>4 DEF AlarmPrompt
<1>6. p \in Ready
  BY <1>3, <1>5 DEF Ready
<1> QED BY <1>1, <1>2, <1>4, <1>5, <1>6, BatchUsesUp

LEMMA PublishedAlarms ==
  ASSUME TypeOK, AlarmPrompt, PublishAllState
  PROVE  AlarmPrompt'
<1> DEFINE worth      == {p \in Valid(snap) : Worth(p, Value(snap, p), policy.cov)}
           candidates == {p \in worth : sent[p] = Never \/ age[p] >= MinInterval(p)}
<1>1. PICK s \in Batches(candidates) :
        Send(s, offered') /\ waiting' = (waiting \ Valid(snap)) \cup (worth \ s)
  BY DEF PublishAllState
<1>2. offered' = [p \in Ports |-> IF p \in Valid(snap) THEN Value(snap, p) ELSE offered[p]]
  BY DEF PublishAllState
<1>3. offered' \in [Ports -> Values \cup {Never}] /\ candidates \in SUBSET Ports
  BY <1>2, ValueRange DEF TypeOK, Valid
<1> SUFFICES ASSUME NEW p \in Alarms, sent'[p] # offered'[p]
             PROVE  p \in waiting' /\ budget' = 0
  BY DEF AlarmPrompt
<1>4. p \in Ports /\ Kind[p] = "alarm" /\ age[p] >= MinInterval(p)
  BY AlarmsMayGo
<1>5. p \in Valid(snap) /\ offered'[p] = Value(snap, p)
  BY <1>2, <1>4 DEF Valid
<1>6. p \notin s /\ sent[p] # Value(snap, p)
  BY <1>1, <1>4, <1>5 DEF Send
<1>7. p \in worth
  BY <1>4, <1>5, <1>6 DEF Worth, Analogue
<1>8. p \in candidates
  BY <1>4, <1>7
<1>9. p \in waiting'
  BY <1>1, <1>6, <1>7
<1> HIDE DEF worth, candidates
<1> QED BY <1>1, <1>3, <1>6, <1>8, <1>9, BatchUsesUp

\* No alarm is held up by its repetition time or dropped, whatever else is sent, however
\* many objects there are and however few telegrams a second takes: AlarmPrompt is
\* inductive, because both places that send use the second up before they leave one.
THEOREM AlarmsGoFirst == Spec => []AlarmPrompt
<1>1. Init => AlarmPrompt
  BY DEF Init, AlarmPrompt
<1>2. TypeOK /\ AlarmPrompt /\ [Next]_vars => AlarmPrompt'
  <2> SUFFICES ASSUME TypeOK, AlarmPrompt, [Next]_vars PROVE AlarmPrompt'
    OBVIOUS
  <2>1. CASE World \/ Control
    BY <2>1 DEF AlarmPrompt, World, Control, Unload, Load, Sense, ParameterChanged, Telegram,
       StoreOutputs, OnControlTick, loop, stack
  <2>2. CASE Seed
    BY <2>2 DEF AlarmPrompt, Seed, stack
  <2>3. CASE Drain
    BY <2>3, DrainedAlarms
  <2>4. CASE Check \/ ApplyTransmitPolicies \/ TakeSnapshot
    BY <2>4 DEF AlarmPrompt, Check, ApplyTransmitPolicies, TakeSnapshot, stack
  <2>5. CASE PublishAllState
    BY <2>5, PublishedAlarms
  <2>6. CASE \E seconds \in {0, 1} : Wake(seconds)
    BY <2>6 DEF AlarmPrompt, Wake
  <2>7. CASE UNCHANGED vars
    BY <2>7 DEF vars, AlarmPrompt, loop, stack
  <2> QED BY <2>1, <2>2, <2>3, <2>4, <2>5, <2>6, <2>7 DEF Next, Task
<1> QED BY <1>1, <1>2, TypeCorrect, PTL DEF Spec

-----------------------------------------------------------------------------
(* Ticks: none is lost, and what is read agrees with what was sent.         *)

\* A snapshot that is about to be offered is of the last tick, or the next one is
\* still held.  Without it an offer from an older snapshot could undo a newer one.
SnapshotHeld == pc = "publish" => taken = asked \/ ctl = "notify" \/ pending

\* Whatever the interleaving of the control task and the KNX task, a tick that is
\* not on offer yet is still held by one of them.
THEOREM NoTickLost == Spec => []TickHeld
<1>1. Init => TickHeld /\ SnapshotHeld
  BY DEF Init, TickHeld, SnapshotHeld
<1>2. TickHeld /\ SnapshotHeld /\ [Next]_vars => (TickHeld /\ SnapshotHeld)'
  <2> SUFFICES ASSUME TickHeld, SnapshotHeld, [Next]_vars PROVE (TickHeld /\ SnapshotHeld)'
    OBVIOUS
  <2> USE DEF TickHeld, SnapshotHeld
  <2>1. CASE World
    BY <2>1 DEF World, Unload, Load, ParameterChanged, Telegram, Sense, loop, history, Change
  <2>2. CASE StoreOutputs
    BY <2>2 DEF StoreOutputs
  <2>3. CASE OnControlTick
    BY <2>3 DEF OnControlTick, loop, history
  <2>4. CASE Seed
    BY <2>4 DEF Seed
  <2>5. CASE Drain
    BY <2>5 DEF Drain
  <2>6. CASE Check
    BY <2>6 DEF Check, history
  <2>7. CASE ApplyTransmitPolicies
    BY <2>7 DEF ApplyTransmitPolicies, history
  <2>8. CASE TakeSnapshot
    BY <2>8 DEF TakeSnapshot
  <2>9. CASE PublishAllState
    <3>1. served' = taken /\ pc' = "park" /\ UNCHANGED <<asked, ctl, pending>>
      BY <2>9 DEF PublishAllState
    <3>2. pc = "publish"
      BY <2>9 DEF PublishAllState
    <3> QED BY <3>1, <3>2
  <2>10. CASE \E seconds \in {0, 1} : Wake(seconds)
    BY <2>10 DEF Wake
  <2>11. CASE UNCHANGED vars
    BY <2>11 DEF vars, loop, history
  <2> QED BY <2>1, <2>2, <2>3, <2>4, <2>5, <2>6, <2>7, <2>8, <2>9, <2>10, <2>11
          DEF Next, Control, Task
<1> QED BY <1>1, <1>2, PTL DEF Spec

\* Offers follow ticks in order, and a snapshot of the last tick is of the present
\* unless something has changed since.
SnapshotFresh ==
  /\ served <= taken /\ taken <= asked
  /\ taken = asked /\ ~changed => snap = Current

\* The answer to a read is what publishAllState() would offer now: the two paths
\* through the code, one from the snapshot and one from the state, correct alike.
LEMMA AnswerIsValue ==
  ASSUME NEW p \in Ports
  PROVE  Answer(p) = Value(Current, p)
<1>1. Kind[p] \in {"measured", "state", "setting", "alarm"}
  BY ObjectAssumption DEF Ports, Kinds
<1> QED BY <1>1 DEF Answer, Value, Current, Reading, Requested, Wanted, Computed

\* Steps that change neither the state nor its numbers leave the agreement alone.
LEMMA AgreementKept ==
  ASSUME SnapshotFresh, ReadsAgree,
         UNCHANGED <<hvac, on, rec, alarm, offered, snap, changed, asked, taken, served>>
  PROVE  SnapshotFresh' /\ ReadsAgree'
BY DEF SnapshotFresh, ReadsAgree, Current, Valid, Answer, Reading, Requested, Wanted, Computed

\* A step after which there is news leaves nothing to agree on.
LEMMA AgreementWaits ==
  ASSUME SnapshotFresh, changed', UNCHANGED <<asked, taken, served>>
  PROVE  SnapshotFresh' /\ ReadsAgree'
BY DEF SnapshotFresh, ReadsAgree

\* The two are inductive together.
LEMMA AgreementHolds == Spec => [](SnapshotFresh /\ ReadsAgree)
<1>1. Init => SnapshotFresh /\ ReadsAgree
  <2> SUFFICES ASSUME Init PROVE SnapshotFresh /\ ReadsAgree
    OBVIOUS
  <2>1. SnapshotFresh
    BY DEF Init, SnapshotFresh
  <2>2. \A p \in Valid(Current) : offered[p] = Never
    BY DEF Init, Valid
  <2> QED BY <2>1, <2>2 DEF ReadsAgree
<1>2. TypeOK /\ SnapshotFresh /\ ReadsAgree /\ [Next]_vars => (SnapshotFresh /\ ReadsAgree)'
  <2> SUFFICES ASSUME TypeOK, SnapshotFresh, ReadsAgree, [Next]_vars
               PROVE  SnapshotFresh' /\ ReadsAgree'
    OBVIOUS
  <2>0. asked \in Nat /\ taken \in Nat /\ served \in Nat
    BY DEF TypeOK
  <2>1. CASE Unload \/ Load
    BY <2>1, AgreementKept DEF Unload, Load, service, loop, stack, history
  <2>2. CASE Sense \/ (\E f \in Fields : ParameterChanged(f)) \/ (\E p \in Writable : Telegram(p))
    <3>1. changed' /\ UNCHANGED <<asked, taken, served>>
      BY <2>2 DEF Sense, ParameterChanged, Telegram
    <3> QED BY <3>1, AgreementWaits
  <2>3. CASE StoreOutputs
    <3>1. CASE asked' = asked + 1
      BY <2>0, <2>3, <3>1 DEF StoreOutputs, SnapshotFresh, ReadsAgree
    <3>2. CASE asked' # asked + 1
      <4>1. ~changed /\ changed' = changed /\ asked' = asked /\ alarm' = alarm
        BY <2>3, <3>2, Zenon DEF StoreOutputs, TypeOK
      <4> QED BY <2>3, <4>1, AgreementKept DEF StoreOutputs, loop, stack
    <3> QED BY <3>1, <3>2
  <2>4. CASE OnControlTick
    BY <2>4, AgreementKept DEF OnControlTick, service, loop, stack, history
  <2>5. CASE Seed
    BY <2>5, AgreementWaits DEF Seed
  <2>6. CASE Drain
    BY <2>6, AgreementKept DEF Drain, service
  <2>7. CASE Check
    BY <2>7, AgreementKept DEF Check, service, stack, history
  <2>8. CASE ApplyTransmitPolicies
    BY <2>8, AgreementKept DEF ApplyTransmitPolicies, service, history
  <2>9. CASE TakeSnapshot
    <3>1. CASE snap' = Current /\ taken' = asked
      <4>1. Current' = Current /\ UNCHANGED <<offered, changed, asked, served>>
        BY <2>9 DEF TakeSnapshot, service, stack, Current
      <4>2. SnapshotFresh'
        BY <2>0, <3>1, <4>1 DEF SnapshotFresh
      <4>3. Valid(Current)' = Valid(Current) /\ \A p : Answer(p)' = Answer(p)
        BY <2>9 DEF TakeSnapshot, service, Current, Valid, Answer, Reading, Requested, Wanted, Computed
      <4>4. ReadsAgree'
        BY <4>1, <4>3 DEF ReadsAgree
      <4> QED BY <4>2, <4>4
    <3>2. CASE UNCHANGED <<snap, taken>>
      BY <2>9, <3>2, AgreementKept DEF TakeSnapshot, service, stack
    <3> QED BY <2>9, <3>1, <3>2 DEF TakeSnapshot
  <2>10. CASE PublishAllState
    <3>1. /\ served' = taken
          /\ offered' = [p \in Ports |-> IF p \in Valid(snap) THEN Value(snap, p) ELSE offered[p]]
          /\ UNCHANGED <<hvac, on, rec, alarm, snap, changed, asked, taken>>
      BY <2>10 DEF PublishAllState, service
    <3>2. Current' = Current
      BY <3>1 DEF Current
    <3>3. SnapshotFresh'
      BY <2>0, <3>1, <3>2 DEF SnapshotFresh
    <3>4. ASSUME served' = asked', ~changed', NEW p \in Valid(Current)
          PROVE  offered'[p] = Answer(p)
      <4>1. snap = Current
        BY <3>1, <3>4 DEF SnapshotFresh
      <4>2. p \in Ports
        BY DEF Valid
      <4> QED BY <3>1, <3>4, <4>1, <4>2, AnswerIsValue
    <3>5. Valid(Current)' = Valid(Current) /\ \A p : Answer(p)' = Answer(p)
      BY <3>1, <3>2 DEF Valid, Answer, Reading, Requested, Wanted, Computed
    <3> QED BY <3>3, <3>4, <3>5 DEF ReadsAgree
  <2>11. CASE \E seconds \in {0, 1} : Wake(seconds)
    BY <2>11, AgreementKept DEF Wake, service
  <2>12. CASE UNCHANGED vars
    BY <2>12, AgreementKept DEF vars, service, loop, stack, history
  <2> QED BY <2>1, <2>2, <2>3, <2>4, <2>5, <2>6, <2>7, <2>8, <2>9, <2>10, <2>11, <2>12
          DEF Next, World, Control, Task
<1> QED BY <1>1, <1>2, TypeCorrect, PTL DEF Spec

\* A read is answered what was offered last, unless something changed since: no
\* interleaving of writers, control task and KNX task makes the two paths differ.
THEOREM NoDisagreement == Spec => []ReadsAgree
BY AgreementHolds, PTL

-----------------------------------------------------------------------------
(* What BusCatchesUp says will happen, as what an adapter at rest has done. *)

\* Once the application has heard every setting, and no tick, flag, offer or deferred
\* telegram is left, the parameters of ETS are in force, but for a setpoint a telegram has
\* replaced since, and the bus knows what the room has come to as closely as they ask for.
NothingUntold ==
  /\ pc \notin {"start", "policy"} /\ told = Fields
  /\ ~changed /\ ctl = "idle" /\ ~pending /\ ~due /\ waiting = {}
  => InForce /\ \A p \in Valid(Current) : ~Worth(p, Answer(p), ets.cov)

\* What the application was told is in force until a telegram replaces it, and there has
\* been news since it was seeded.
SettingsHeard ==
  pc # "start" => (\A f \in told \ overruled : hvac[f] = ets[f]) /\ (changed \/ asked > 0)

\* A transmit policy of earlier settings is about to be replaced.
PolicyDue == policy # hvac => changed \/ ctl = "notify" \/ pending \/ pc \in {"start", "policy"}

\* The last offer, once it is of the present, has been sent as far as the policy asks.
OfferStands ==
  served > 0 /\ served = asked /\ ~changed /\ ~due =>
    \A p \in Valid(Current) : offered[p] = Answer(p) /\ (Worth(p, offered[p], policy.cov) => p \in waiting)

\* The settings reach hvac one by one, and the policy follows hvac.
LEMMA SettingsStep ==
  ASSUME TypeOK, SettingsHeard, PolicyDue, [Next]_vars
  PROVE  SettingsHeard' /\ PolicyDue'
<1>0. asked \in Nat /\ hvac \in Parameter /\ ets \in Parameter /\ told \subseteq Fields /\ changed \in BOOLEAN
  BY ParameterAssumption DEF TypeOK
<1> USE DEF SettingsHeard, PolicyDue
<1>1. CASE Unload \/ Sense
  BY <1>1 DEF Unload, Sense, device, service, loop, stack
<1>10. CASE \E p \in Writable : Telegram(p)
  <2>1. PICK p \in Writable : Telegram(p)
    BY <1>10
  <2>2. changed' = TRUE /\ UNCHANGED <<ets, told, pc>>
    BY <2>1 DEF Telegram, loop
  <2>3. \A f \in told \ overruled' : f \notin overruled /\ hvac'[f] = hvac[f]
    <3>1. CASE Kind[p] = "setting"
      <4>1. overruled' = overruled \cup {"setpoint"} /\ \E v \in Asked : hvac' = [hvac EXCEPT !.setpoint = v]
        BY <2>1, <3>1 DEF Telegram
      <4>2. \A f \in Fields \ {"setpoint"} : hvac'[f] = hvac[f]
        BY <1>0, <4>1 DEF Parameter, Fields
      <4> QED BY <1>0, <4>1, <4>2
    <3>2. CASE Kind[p] # "setting"
      BY <2>1, <3>2 DEF Telegram
    <3> QED BY <3>1, <3>2
  <2> QED BY <2>2, <2>3
<1>2. CASE Load
  BY <1>2 DEF Load, service, loop, stack, history
<1>3. CASE \E f \in Fields : ParameterChanged(f)
  <2>1. PICK f \in Fields : ParameterChanged(f)
    BY <1>3
  <2>2. hvac'[f] = ets[f] /\ \A g \in Fields \ {f} : hvac'[g] = hvac[g]
    BY <1>0, <2>1 DEF ParameterChanged, Parameter, Fields
  <2>3. /\ told' = told \cup {f} /\ overruled' = overruled \ {f}
        /\ pc = "loop" /\ pc' = "loop" /\ ets' = ets /\ changed' = TRUE
    BY <2>1 DEF ParameterChanged, loop
  <2> QED BY <1>0, <2>2, <2>3
<1>4. CASE StoreOutputs
  BY <1>0, <1>4 DEF StoreOutputs, device, loop, stack
<1>5. CASE OnControlTick
  BY <1>5 DEF OnControlTick, device, service, loop, stack, history
<1>6. CASE Seed
  <2>1. changed' = TRUE /\ pc' = "loop" /\ hvac' = ets /\ ets' = ets
    BY <1>6 DEF Seed
  <2> QED BY <2>1
<1>7. CASE Drain \/ Check \/ ApplyTransmitPolicies \/ TakeSnapshot
  BY <1>7 DEF Drain, Check, ApplyTransmitPolicies, TakeSnapshot, device, service, stack, history
<1>8. CASE PublishAllState \/ \E seconds \in {0, 1} : Wake(seconds)
  BY <1>8 DEF PublishAllState, Wake, device, service
<1>9. CASE UNCHANGED vars
  BY <1>9 DEF vars, device, service, loop, stack, history
<1> QED BY <1>1, <1>2, <1>3, <1>4, <1>5, <1>6, <1>7, <1>8, <1>9, <1>10
       DEF Next, World, Control, Task

\* Steps that change neither the state, its numbers nor what is sent leave the offer.
LEMMA OfferKept ==
  ASSUME OfferStands, due => due',
         UNCHANGED <<hvac, on, rec, alarm, offered, sent, waiting, policy, changed, asked, served>>
  PROVE  OfferStands'
BY DEF OfferStands, Current, Valid, Answer, Reading, Requested, Wanted, Computed, Worth

\* What is sent is no longer worth sending.
LEMMA SentIsTold ==
  ASSUME NEW p \in Ports, NEW v \in Values, sent[p] = v, policy \in Parameter
  PROVE  ~Worth(p, v, policy.cov)
BY DEF Worth, Values, Setpoint, Bit, Never


\* What a read is answered now is a value of the present state, in its range.
LEMMA CurrentAnswers ==
  ASSUME TypeOK, NEW p \in Valid(Current)
  PROVE  p \in Ports /\ Answer(p) \in Values
<1>1. p \in Ports
  BY DEF Valid
<1>2. Current \in Snapshot
  BY ParameterAssumption DEF TypeOK, Current, Snapshot
<1> QED BY <1>1, <1>2, ValueRange, AnswerIsValue

\* The offer is made from a snapshot of the present, and every way a telegram leaves the
\* deferred ones is on to the bus.
LEMMA OfferStep ==
  ASSUME TypeOK, SnapshotFresh, OfferStands, [Next]_vars
  PROVE  OfferStands'
<1>0. asked \in Nat /\ taken \in Nat /\ served \in Nat /\ policy \in Parameter
  BY DEF TypeOK
<1>1. CASE Unload \/ Load
  BY <1>1, OfferKept DEF Unload, Load, service, loop, stack, history
<1>2. CASE Sense \/ (\E f \in Fields : ParameterChanged(f)) \/ (\E p \in Writable : Telegram(p)) \/ Seed
  <2>1. changed' = TRUE
    BY <1>2 DEF Sense, ParameterChanged, Telegram, Seed
  <2> QED BY <2>1 DEF OfferStands
<1>3. CASE StoreOutputs
  <2>1. CASE asked' = asked + 1
    <3>1. served' # asked'
      BY <1>0, <1>3, <2>1 DEF StoreOutputs, SnapshotFresh
    <3> QED BY <3>1 DEF OfferStands
  <2>2. CASE asked' # asked + 1
    <3>1. ~changed /\ changed' = changed /\ asked' = asked /\ alarm' = alarm
      BY <1>3, <2>2, Zenon DEF StoreOutputs, TypeOK
    <3> QED BY <1>3, <3>1, OfferKept DEF StoreOutputs, loop, stack
  <2> QED BY <2>1, <2>2
<1>4. CASE OnControlTick
  BY <1>4, OfferKept DEF OnControlTick, service, loop, stack, history
<1>5. CASE Drain
  <2>1. PICK s \in Batches(Ready) : Send(s, offered) /\ waiting' = waiting \ s
    BY <1>5 DEF Drain
  <2>2. UNCHANGED <<hvac, on, rec, alarm, offered, policy, changed, asked, served, due>>
    BY <1>5 DEF Drain, service
  <2>3. Valid(Current)' = Valid(Current) /\ \A p : Answer(p)' = Answer(p)
    BY <2>2 DEF Current, Valid, Answer, Reading, Requested, Wanted, Computed
  <2>4. ASSUME NEW p \in Ports, NEW v \in Values, offered[p] = v, Worth(p, v, policy.cov) => p \in waiting,
               Worth(p, v, policy.cov)'
        PROVE  p \in waiting'
    <3>1. sent'[p] = IF p \in s THEN v ELSE sent[p]
      BY <2>1, <2>4 DEF Send
    <3>2. p \notin s
      BY <1>0, <2>2, <2>4, <3>1 DEF Worth, Values, Setpoint, Bit, Never
    <3>3. Worth(p, v, policy.cov)
      BY <2>2, <2>4, <3>1, <3>2 DEF Worth
    <3> QED BY <2>1, <2>4, <3>2, <3>3
  <2>5. \A p \in Valid(Current) : p \in Ports /\ Answer(p) \in Values
    BY CurrentAnswers
  <2> QED BY <2>2, <2>3, <2>4, <2>5 DEF OfferStands
<1>6. CASE Check \/ TakeSnapshot
  BY <1>6, OfferKept DEF Check, TakeSnapshot, service, stack, history
<1>7. CASE ApplyTransmitPolicies
  BY <1>7 DEF ApplyTransmitPolicies, OfferStands
<1>8. CASE PublishAllState
  <2> DEFINE worth == {p \in Valid(snap) : Worth(p, Value(snap, p), policy.cov)}
  <2>1. PICK s \in Batches({p \in worth : sent[p] = Never \/ age[p] >= MinInterval(p)}) :
          Send(s, offered') /\ waiting' = (waiting \ Valid(snap)) \cup (worth \ s)
    BY <1>8 DEF PublishAllState
  <2>2. /\ served' = taken
        /\ offered' = [p \in Ports |-> IF p \in Valid(snap) THEN Value(snap, p) ELSE offered[p]]
        /\ UNCHANGED <<hvac, on, rec, alarm, snap, policy, changed, asked, taken>>
    BY <1>8 DEF PublishAllState, service
  <2>3. Valid(Current)' = Valid(Current) /\ \A p : Answer(p)' = Answer(p)
    BY <2>2 DEF Current, Valid, Answer, Reading, Requested, Wanted, Computed
  <2>4. ASSUME snap = Current, NEW p \in Valid(Current)
        PROVE  offered'[p] = Answer(p) /\ (Worth(p, offered[p], policy.cov)' => p \in waiting')
    <3>1. p \in Ports /\ Answer(p) \in Values /\ Answer(p) = Value(snap, p)
      BY <2>4, CurrentAnswers, AnswerIsValue
    <3>2. offered'[p] = Answer(p)
      BY <2>2, <2>4, <3>1
    <3>3. sent'[p] = IF p \in s THEN Answer(p) ELSE sent[p]
      BY <2>1, <3>1, <3>2 DEF Send
    <3> SUFFICES ASSUME Worth(p, Answer(p), policy.cov)' PROVE p \in waiting'
      BY <2>3, <3>2 DEF Worth
    <3>4. p \notin s
      BY <1>0, <2>2, <2>3, <3>1, <3>3 DEF Worth, Values, Setpoint, Bit, Never
    <3>5. Worth(p, Answer(p), policy.cov)
      BY <2>2, <2>3, <3>3, <3>4 DEF Worth
    <3> QED BY <2>1, <2>4, <3>1, <3>4, <3>5
  <2>5. served' = asked' /\ ~changed' => snap = Current
    BY <2>2 DEF SnapshotFresh
  <2> HIDE DEF worth
  <2> QED BY <2>3, <2>4, <2>5 DEF OfferStands
<1>9. CASE \E seconds \in {0, 1} : Wake(seconds)
  BY <1>9, OfferKept DEF Wake, service
<1>10. CASE UNCHANGED vars
  BY <1>10, OfferKept DEF vars, service, loop, stack, history
<1> QED BY <1>1, <1>2, <1>3, <1>4, <1>5, <1>6, <1>7, <1>8, <1>9, <1>10 DEF Next, World, Control, Task

\* An adapter with nothing left to do has told the bus everything.
THEOREM QuietMeansTold == Spec => []NothingUntold
<1> DEFINE IInv == TypeOK /\ TickHeld /\ SettingsHeard /\ PolicyDue /\ OfferStands
<1>1. Init => SettingsHeard /\ PolicyDue /\ OfferStands
  BY DEF Init, SettingsHeard, PolicyDue, OfferStands
<1>2. IInv => NothingUntold
  <2> SUFFICES ASSUME IInv, pc \notin {"start", "policy"}, told = Fields,
                      ~changed, ctl = "idle", ~pending, ~due, waiting = {}
               PROVE  InForce /\ \A p \in Valid(Current) : ~Worth(p, Answer(p), ets.cov)
    BY DEF NothingUntold
  <2>1. InForce
    BY DEF InForce, SettingsHeard
  <2>2. policy.cov = ets.cov
    <3>1. "cov" \in Fields \ overruled
      BY DEF TypeOK, Fields
    <3>2. policy = hvac
      BY DEF PolicyDue
    <3> QED BY <2>1, <3>1, <3>2 DEF InForce
  <2>3. served = asked /\ served > 0
    BY DEF TickHeld, SettingsHeard
  <2> QED BY <2>1, <2>2, <2>3 DEF OfferStands
<1>3. TypeOK /\ SnapshotFresh /\ SettingsHeard /\ PolicyDue /\ OfferStands /\ [Next]_vars
        => (SettingsHeard /\ PolicyDue /\ OfferStands)'
  BY SettingsStep, OfferStep
<1> QED BY <1>1, <1>2, <1>3, TypeCorrect, NoTickLost, AgreementHolds, PTL DEF Spec

-----------------------------------------------------------------------------
(* The Wi-Fi station under either adapter.                                 *)

\* The queue of an idle station ends in the event that makes it try again; nothing
\* before it but what was posted while the station was associated.
Coming ==
  /\ events # <<>> /\ Len(events) <= flaps + 2
  /\ \A i \in 1 .. Len(events) - 1 : events[i] = "got_ip"
  /\ events[Len(events)] \in {"start", "disconnected"}
  /\ events[Len(events)] = "start" => Len(events) = 1 /\ bit = FALSE

\* Where the next attempt comes from, for each state of the driver: the timer or the
\* queue, and never both.  In the queue it is bounded by what the network has caused.
StationForm ==
  /\ link = "off" <=> started = FALSE
  /\ link \in {"off", "trying"} => events = <<>> /\ timer = FALSE /\ bit = FALSE
  /\ link = "idle" => \/ timer = TRUE /\ events = <<>> /\ bit = FALSE
                      \/ timer = FALSE /\ Coming
  /\ link = "up" => /\ timer = FALSE /\ Len(events) <= flaps + 1
                    /\ \A i \in 1 .. Len(events) : events[i] = "got_ip"
                    /\ events = <<>> => bit = TRUE

Events == {"start", "disconnected", "got_ip"}

\* The types of the station, one fact each.
LEMMA StationTypes ==
  WifiTypeOK <=>
    /\ ap \in BOOLEAN /\ link \in {"off", "idle", "trying", "up"} /\ addr \in Addresses \cup {0}
    /\ events \in Seq(Events) /\ Len(events) <= MaxFlaps + 2
    /\ stack_ready \in BOOLEAN /\ started \in BOOLEAN /\ provisioned \in BOOLEAN
    /\ bit \in BOOLEAN /\ timer \in BOOLEAN /\ flaps \in 0 .. MaxFlaps
BY DEF WifiTypeOK, Events

\* What a post does to the queue.
LEMMA PostQueue ==
  ASSUME NEW e \in Events, events \in Seq(Events), Post(e)
  PROVE  /\ events' \in Seq(Events) /\ Len(events') = Len(events) + 1 /\ events' # <<>>
         /\ \A i \in 1 .. Len(events) : events'[i] = events[i]
         /\ events'[Len(events')] = e
BY AppendProperties, EmptySeq DEF Post

\* What handling an event does to the queue.
LEMMA HandledQueue ==
  ASSUME NEW e \in Events, events \in Seq(Events), Handled(e)
  PROVE  /\ events' \in Seq(Events) /\ Len(events) >= 1 /\ Len(events') = Len(events) - 1
         /\ events[1] = e
         /\ \A i \in 1 .. Len(events') : events'[i] = events[i + 1]
         /\ Len(events) = 1 => events' = <<>>
<1>1. events # <<>> /\ events[1] = e /\ events' = Tail(events)
  BY DEF Handled
<1>2. Len(events) \in Nat /\ Len(events) # 0
  BY <1>1, EmptySeq, LenProperties
<1>3. /\ events' \in Seq(Events) /\ Len(events') = Len(events) - 1
      /\ \A i \in 1 .. Len(events') : events'[i] = events[i + 1]
  BY <1>1, HeadTailProperties
<1>4. Len(events) = 1 => events' = <<>>
  BY <1>3, EmptySeq
<1> QED BY <1>1, <1>2, <1>3, <1>4

\* Every step the station can take, or that leaves it alone.
StationNext ==
  \/ AccessPoint \/ Associate \/ Lose \/ Renew
  \/ \E ok \in BOOLEAN : WifiStart(ok)
  \/ StaStart \/ Disconnected \/ GotIp \/ ReconnectTimer
  \/ UNCHANGED wifi

\* No step of the device does anything else to the station, whichever adapter is on it.
LEMMA NetworkStepsStation == [NetworkNext]_network => StationNext
<1> SUFFICES ASSUME [NetworkNext]_network PROVE StationNext
  OBVIOUS
<1>1. CASE Start
  BY <1>1 DEF Start, KnxAdapterStart, AdapterStart, StationNext
<1>2. CASE Quietly(AccessPoint) \/ Quietly(Associate) \/ NewLease \/ LoseNetwork \/ EventLoop \/ Timer
  BY <1>2 DEF Quietly, NewLease, LoseNetwork, EventLoop, Timer, StationNext
<1>3. CASE Knx
  BY <1>3 DEF Knx, RoutingTask, Wait, CheckNetwork, OpenSocket, PublishFirst, SetEventCallback,
              GapCheck, TakeDirty, RefreshMembership, PublishAgain, StationNext
<1>4. CASE Mqtt(OpenSession) \/ Mqtt(LoseSession) \/ Mqtt(Command)
  BY <1>4 DEF Mqtt, OpenSession, LoseSession, Command, StationNext
<1>5. CASE Mqtt(Handler)
  BY <1>5 DEF Mqtt, Handler, OnConnected, Announce, OnDisconnected, RejectCommand, HandleCommand, StationNext
<1>6. CASE Mqtt(MqttOnControlTick) \/ Mqtt(PublishTask)
  BY <1>6 DEF Mqtt, MqttOnControlTick, PublishTask, TaskWake, TestConnected, PublishDiscovery, ReadForced,
              ClearForced, GetState, PublishState, Remember, Quiet, StationNext
<1>7. CASE UNCHANGED network
  BY <1>7 DEF network, StationNext
<1> QED BY <1>1, <1>2, <1>3, <1>4, <1>5, <1>6, <1>7 DEF NetworkNext

\* The form of the station is inductive: every handler leaves the next attempt with
\* the timer or in the queue.
LEMMA StationStep ==
  ASSUME WifiTypeOK, StationForm, StationNext
  PROVE  WifiTypeOK' /\ StationForm'
<1> USE WifiAssumption
<1>0. /\ ap \in BOOLEAN /\ link \in {"off", "idle", "trying", "up"} /\ addr \in Addresses \cup {0}
      /\ events \in Seq(Events) /\ Len(events) \in Nat /\ Len(events) <= MaxFlaps + 2
      /\ stack_ready \in BOOLEAN /\ started \in BOOLEAN /\ provisioned \in BOOLEAN
      /\ bit \in BOOLEAN /\ timer \in BOOLEAN /\ flaps \in 0 .. MaxFlaps
  BY StationTypes, LenProperties
<1>1. CASE AccessPoint
  <2>1. WifiTypeOK'
    BY <1>0, <1>1 DEF AccessPoint, Flap, WifiTypeOK
  <2>2. StationForm'
    BY <1>0, <1>1 DEF AccessPoint, Flap, StationForm, Coming
  <2> QED BY <2>1, <2>2
<1>2. CASE Associate
  <2>1. events = <<>> /\ Len(events) = 0 /\ timer = FALSE
    BY <1>2, EmptySeq DEF Associate, StationForm
  <2>p. events' \in Seq(Events) /\ Len(events') = Len(events) + 1 /\ events' # <<>> /\ events'[Len(events')] = "got_ip"
    BY <1>0, <1>2, PostQueue DEF Associate, Events
  <2>2. events' \in Seq(Events) /\ Len(events') = 1 /\ events' # <<>> /\ events'[1] = "got_ip"
    BY <2>1, <2>p
  <2>3. WifiTypeOK'
    BY <1>0, <1>2, <2>2 DEF Associate, WifiTypeOK, Events
  <2>4. StationForm'
    BY <1>0, <1>2, <2>1, <2>2 DEF Associate, StationForm
  <2> QED BY <2>3, <2>4
<1>3. CASE Lose
  <2>1. /\ events' \in Seq(Events) /\ Len(events') = Len(events) + 1 /\ events' # <<>>
        /\ \A i \in 1 .. Len(events) : events'[i] = events[i]
        /\ events'[Len(events')] = "disconnected"
    BY <1>0, <1>3, PostQueue DEF Lose, Events
  <2>2. Len(events) <= flaps + 1 /\ timer = FALSE /\ \A i \in 1 .. Len(events) : events[i] = "got_ip"
    BY <1>0, <1>3, EmptySeq DEF Lose, StationForm
  <2>3. WifiTypeOK'
    BY <1>0, <1>3, <2>1, <2>2 DEF Lose, WifiTypeOK, Events
  <2>4. Coming'
    BY <1>0, <1>3, <2>1, <2>2 DEF Lose, Coming
  <2>5. StationForm'
    BY <1>0, <1>3, <2>2, <2>4 DEF Lose, StationForm
  <2> QED BY <2>3, <2>5
<1>4. CASE Renew
  <2>1. /\ events' \in Seq(Events) /\ Len(events') = Len(events) + 1 /\ events' # <<>>
        /\ \A i \in 1 .. Len(events) : events'[i] = events[i]
        /\ events'[Len(events')] = "got_ip"
    BY <1>0, <1>4, PostQueue DEF Renew, Events
  <2>2. Len(events) <= flaps + 1 /\ timer = FALSE /\ \A i \in 1 .. Len(events) : events[i] = "got_ip"
    BY <1>4 DEF Renew, StationForm
  <2>3. flaps' = flaps + 1 /\ flaps' \in 0 .. MaxFlaps
    BY <1>0, <1>4 DEF Renew, Flap
  <2>4. WifiTypeOK'
    BY <1>0, <1>4, <2>1, <2>2, <2>3 DEF Renew, WifiTypeOK, Events
  <2>5. StationForm'
    BY <1>0, <1>4, <2>1, <2>2, <2>3 DEF Renew, StationForm
  <2> QED BY <2>4, <2>5
<1>5. CASE \E ok \in BOOLEAN : WifiStart(ok)
  <2>1. UNCHANGED <<ap, addr, flaps, provisioned, bit, timer>> /\ stack_ready' \in BOOLEAN
    BY <1>0, <1>5 DEF WifiStart, EnsureNetworkStack
  <2>2. CASE UNCHANGED <<started, link, events>>
    <3>1. WifiTypeOK'
      BY <1>0, <2>1, <2>2 DEF WifiTypeOK
    <3>2. StationForm'
      BY <2>1, <2>2 DEF StationForm, Coming
    <3> QED BY <3>1, <3>2
  <2>3. CASE ~UNCHANGED <<started, link, events>>
    <3>1. started = FALSE /\ started' = TRUE /\ link' = "idle" /\ Post("start")
      BY <1>0, <1>5, <2>3 DEF WifiStart
    <3>2. events = <<>> /\ Len(events) = 0 /\ timer = FALSE /\ bit = FALSE
      BY <3>1, EmptySeq DEF StationForm
    <3>p. events' \in Seq(Events) /\ Len(events') = Len(events) + 1 /\ events' # <<>> /\ events'[Len(events')] = "start"
      BY <1>0, <3>1, PostQueue DEF Events
    <3>3. events' \in Seq(Events) /\ Len(events') = 1 /\ events' # <<>> /\ events'[1] = "start"
      BY <3>2, <3>p
    <3>4. WifiTypeOK'
      BY <1>0, <2>1, <3>1, <3>3 DEF WifiTypeOK, Events
    <3>5. StationForm'
      BY <1>0, <2>1, <3>1, <3>2, <3>3 DEF StationForm, Coming
    <3> QED BY <3>4, <3>5
  <2> QED BY <2>2, <2>3
<1>6. CASE StaStart \/ Disconnected
  <2>1. PICK e \in {"start", "disconnected"} : Handled(e)
    BY <1>6 DEF StaStart, Disconnected
  <2>2. /\ events' \in Seq(Events) /\ Len(events) >= 1 /\ Len(events') = Len(events) - 1
        /\ events[1] = e /\ (Len(events) = 1 => events' = <<>>)
    BY <1>0, <2>1, HandledQueue DEF Events
  <2>3. events # <<>>
    BY <2>1 DEF Handled
  <2>4. link = "idle" /\ timer = FALSE /\ Coming
    BY <1>0, <2>2, <2>3 DEF StationForm
  <2>5. Len(events) = 1 /\ events' = <<>> /\ (e = "start" => bit = FALSE)
    BY <1>0, <2>2, <2>4 DEF Coming
  <2>6. CASE StaStart
    <3>0. e = "start"
      BY <2>1, <2>6 DEF StaStart, Handled
    <3>1. WifiTypeOK'
      BY <1>0, <2>2, <2>6 DEF StaStart, Connect, WifiTypeOK, Events
    <3>2. StationForm'
      BY <2>4, <2>5, <2>6, <3>0 DEF StaStart, Connect, StationForm
    <3> QED BY <3>1, <3>2
  <2>7. CASE Disconnected
    <3>3. bit' \in BOOLEAN /\ timer' \in BOOLEAN /\ UNCHANGED <<radio, stack_ready, started, provisioned>>
      BY <2>7 DEF Disconnected
    <3>4. Len(events') <= MaxFlaps + 2
      BY <1>0, <2>2
    <3>1. WifiTypeOK'
      BY <1>0, <2>2, <3>3, <3>4 DEF radio, WifiTypeOK, Events
    <3>2. StationForm'
      BY <2>4, <2>5, <2>7 DEF Disconnected, radio, StationForm
    <3> QED BY <3>1, <3>2
  <2> QED BY <1>6, <2>6, <2>7
<1>7. CASE GotIp
  <2>1. /\ events' \in Seq(Events) /\ Len(events) >= 1 /\ Len(events') = Len(events) - 1
        /\ events[1] = "got_ip"
        /\ \A i \in 1 .. Len(events') : events'[i] = events[i + 1]
    BY <1>0, <1>7, HandledQueue DEF GotIp, Events
  <2>2. events # <<>> /\ UNCHANGED <<link, started, timer, flaps>> /\ bit' = TRUE
    BY <1>7 DEF GotIp, Handled, radio
  <2>3. WifiTypeOK'
    BY <1>0, <1>7, <2>1 DEF GotIp, radio, WifiTypeOK, Events
  <2>4. CASE link = "up"
    <3>1. /\ timer = FALSE /\ started # FALSE /\ Len(events) <= flaps + 1
          /\ \A i \in 1 .. Len(events) : events[i] = "got_ip"
      BY <2>4 DEF StationForm
    <3>2. Len(events') <= flaps + 1 /\ \A i \in 1 .. Len(events') : events'[i] = "got_ip"
      BY <1>0, <2>1, <3>1
    <3> QED BY <2>2, <2>3, <2>4, <3>1, <3>2 DEF StationForm
  <2>5. CASE link = "idle"
    <3>1. timer = FALSE /\ Coming
      BY <2>2, <2>5 DEF StationForm
    <3>2. Len(events) >= 2
      BY <1>0, <2>1, <3>1 DEF Coming
    <3>3. events' # <<>> /\ Len(events') >= 1
      BY <1>0, <2>1, <3>2, EmptySeq
    <3>4. events'[Len(events')] = events[Len(events)]
      BY <1>0, <2>1, <3>3
    <3>5. \A i \in 1 .. Len(events') - 1 : events'[i] = "got_ip"
      BY <1>0, <2>1, <3>1 DEF Coming
    <3>6. Coming'
      BY <1>0, <2>1, <2>2, <3>1, <3>2, <3>3, <3>4, <3>5 DEF Coming
    <3>7. started # FALSE
      BY <2>5 DEF StationForm
    <3> QED BY <2>2, <2>3, <2>5, <3>1, <3>6, <3>7 DEF StationForm
  <2>6. link \in {"up", "idle"}
    BY <1>0, <2>2 DEF StationForm
  <2> QED BY <2>4, <2>5, <2>6
<1>8. CASE ReconnectTimer
  <2>1. link = "idle" /\ events = <<>> /\ bit = FALSE
    BY <1>0, <1>8 DEF ReconnectTimer, StationForm
  <2>2. WifiTypeOK'
    BY <1>0, <1>8 DEF ReconnectTimer, Connect, WifiTypeOK, Events
  <2>3. StationForm'
    BY <1>0, <1>8, <2>1 DEF ReconnectTimer, Connect, StationForm
  <2> QED BY <2>2, <2>3
<1>9. CASE UNCHANGED wifi
  BY <1>9 DEF wifi, radio, WifiTypeOK, StationForm, Coming
<1> QED BY <1>1, <1>2, <1>3, <1>4, <1>5, <1>6, <1>7, <1>8, <1>9 DEF StationNext

\* What is still to come is in the queue, and an empty one has told the truth.
LEMMA FormRecovers ==
  ASSUME WifiTypeOK, StationForm
  PROVE  StationRecovers
<1>1. events \in Seq(Events) /\ Len(events) \in Nat /\ link \in {"off", "idle", "trying", "up"}
  BY StationTypes, LenProperties
<1>2. NeverStranded
  BY <1>1, EmptySeq DEF NeverStranded, StationForm, Coming, Contains
<1>3. ToldTruth
  BY <1>1 DEF ToldTruth, StationForm, Coming
<1> QED BY <1>2, <1>3 DEF StationRecovers

\* Before it is started the station has nothing to say.
LEMMA StationInit == NetworkInit => WifiTypeOK /\ StationForm
<1> SUFFICES ASSUME NetworkInit PROVE WifiTypeOK /\ StationForm
  OBVIOUS
<1>1. WifiTypeOK
  <2>1. events \in Seq(Events) /\ Len(events) = 0
    BY EmptySeq DEF NetworkInit, WifiInit
  <2>2. /\ stack_ready \in BOOLEAN /\ started \in BOOLEAN /\ provisioned \in BOOLEAN
        /\ bit \in BOOLEAN /\ timer \in BOOLEAN /\ ap \in BOOLEAN
    BY Zenon DEF NetworkInit, WifiInit
  <2>3. link \in {"off", "idle", "trying", "up"} /\ addr \in Addresses \cup {0} /\ flaps = 0
    BY DEF NetworkInit, WifiInit
  <2> QED BY <2>1, <2>2, <2>3, WifiAssumption, StationTypes
<1>2. StationForm
  BY DEF NetworkInit, WifiInit, StationForm
<1> QED BY <1>1, <1>2

\* "Reconnect forever": however the network comes and goes, and whichever adapter is
\* on it, the station always tries again and tells its adapters the truth.
THEOREM AlwaysRecovers == NetworkSpec => []StationRecovers
<1>1. WifiTypeOK /\ StationForm /\ [NetworkNext]_network => (WifiTypeOK /\ StationForm)'
  BY NetworkStepsStation, StationStep
<1>2. WifiTypeOK /\ StationForm => StationRecovers
  BY FormRecovers
<1> QED BY <1>1, <1>2, StationInit, PTL DEF NetworkSpec

\* The types of the KNXnet/IP adapter, one fact each.
LEMMA RoutingTypes ==
  RoutingTypeOK <=>
    /\ kpc \in {"wait", "check", "open", "publish", "callback", "gap", "loop", "rejoin", "identity"}
    /\ without \in BOOLEAN /\ callback \in BOOLEAN /\ dirty \in BOOLEAN /\ member \in BOOLEAN
    /\ unlucky \in BOOLEAN /\ shown \in Addresses \cup {0}
BY DEF RoutingTypeOK

\* Whatever the event loop or the KNX task does, the routing adapter keeps its ranges.
LEMMA RoutingStep ==
  ASSUME WifiTypeOK, RoutingTypeOK, [NetworkNext]_network
  PROVE  RoutingTypeOK'
<1>0. /\ kpc \in {"wait", "check", "open", "publish", "callback", "gap", "loop", "rejoin", "identity"}
      /\ without \in BOOLEAN /\ callback \in BOOLEAN /\ dirty \in BOOLEAN /\ member \in BOOLEAN
      /\ unlucky \in BOOLEAN /\ shown \in Addresses \cup {0} /\ addr \in Addresses \cup {0} /\ bit \in BOOLEAN
  BY RoutingTypes, StationTypes
<1>1. CASE UNCHANGED routing
  BY <1>1 DEF routing, RoutingTypeOK
<1>2. CASE NewLease \/ LoseNetwork
  <2>1. UNCHANGED <<kpc, without, callback, dirty, shown>> /\ member' \in BOOLEAN
    BY <1>0, <1>2 DEF NewLease, LoseNetwork, Leave, Release
  <2>2. unlucky' \in BOOLEAN
    BY <1>0, <1>2, Zenon DEF NewLease, LoseNetwork, Leave, Release
  <2> QED BY <1>0, <2>1, <2>2 DEF RoutingTypeOK
<1>3. CASE GotIp /\ Notify /\ UNCHANGED <<image, kpc, without, callback, member, shown, unlucky, mqtt>>
  <2>1. dirty' \in BOOLEAN
    BY <1>0, <1>3, Zenon DEF Notify
  <2> QED BY <1>0, <1>3, <2>1 DEF RoutingTypeOK
<1>4. CASE RoutingTask
  <2>1. kpc' \in {"wait", "check", "open", "publish", "callback", "gap", "loop", "rejoin", "identity"}
    BY <1>0, <1>4 DEF RoutingTask, Wait, CheckNetwork, OpenSocket, PublishFirst, SetEventCallback,
                      GapCheck, TakeDirty, RefreshMembership, PublishAgain
  <2>2. without' \in BOOLEAN /\ callback' \in BOOLEAN
    BY <1>0, <1>4, Zenon DEF RoutingTask, Wait, CheckNetwork, OpenSocket, PublishFirst, SetEventCallback,
                      GapCheck, TakeDirty, RefreshMembership, PublishAgain, IsConnected
  <2>3. dirty' \in BOOLEAN /\ member' \in BOOLEAN
    BY <1>0, <1>4, Zenon DEF RoutingTask, Wait, CheckNetwork, OpenSocket, PublishFirst, SetEventCallback,
                      GapCheck, TakeDirty, RefreshMembership, PublishAgain, IsConnected
  <2>4. unlucky' \in BOOLEAN
    BY <1>0, <1>4, Zenon DEF RoutingTask, Wait, CheckNetwork, OpenSocket, PublishFirst, SetEventCallback,
                      GapCheck, TakeDirty, RefreshMembership, PublishAgain, IsConnected
  <2>5. shown' \in Addresses \cup {0}
    BY <1>0, <1>4 DEF RoutingTask, Wait, CheckNetwork, OpenSocket, PublishFirst, SetEventCallback,
                      GapCheck, TakeDirty, RefreshMembership, PublishAgain, PublishIpIdentity
  <2> QED BY <2>1, <2>2, <2>3, <2>4, <2>5 DEF RoutingTypeOK
<1> QED BY <1>1, <1>2, <1>3, <1>4
        DEF NetworkNext, network, Start, Quietly, EventLoop, Timer, Knx, Mqtt

Tasks   == {"wait", "test", "discovery", "read", "clear", "get", "publish", "remember"}
Inbox   == {"connected", "disconnected", "command"}
States  == 1 .. MaxState + 1
Held    == 0 .. MaxState + 1

\* The types of the MQTT adapter, one fact each.
LEMMA MqttTypes ==
  MqttTypeOK <=>
    /\ inbox \in Seq(Inbox) /\ hpc \in {"idle", "connected"} /\ adapter \in {"boot", "running", "failed"}
    /\ session \in BOOLEAN /\ connected \in BOOLEAN /\ discovery_pending \in BOOLEAN
    /\ publish_forced \in BOOLEAN /\ note \in BOOLEAN /\ force \in BOOLEAN
    /\ entities \in BOOLEAN /\ follows \in BOOLEAN
    /\ tpc \in Tasks /\ last \in Held /\ doc \in Held /\ retained \in Held
    /\ state \in States /\ commands \in 0 .. MaxCommands
BY DEF MqttTypeOK, Tasks, Inbox, States, Held

\* The client and the event handler keep the ranges of what they share with the task.
LEMMA HandlerTypes ==
  ASSUME MqttTypeOK, OpenSession \/ LoseSession \/ Command \/ Handler
  PROVE  MqttTypeOK'
<1>0. /\ inbox \in Seq(Inbox) /\ hpc \in {"idle", "connected"} /\ adapter \in {"boot", "running", "failed"}
      /\ session \in BOOLEAN /\ connected \in BOOLEAN /\ discovery_pending \in BOOLEAN
      /\ publish_forced \in BOOLEAN /\ note \in BOOLEAN /\ force \in BOOLEAN
      /\ entities \in BOOLEAN /\ follows \in BOOLEAN
      /\ tpc \in Tasks /\ last \in Held /\ doc \in Held /\ retained \in Held
      /\ state \in States /\ commands \in 0 .. MaxCommands
  BY MqttTypes
<1>1. inbox' \in Seq(Inbox)
  <2>1. \A e \in Inbox : Append(inbox, e) \in Seq(Inbox)
    BY <1>0, AppendProperties
  <2>2. inbox # <<>> => Tail(inbox) \in Seq(Inbox)
    BY <1>0, HeadTailProperties
  <2>3. \/ \E e \in Inbox : inbox' = Append(inbox, e)
        \/ inbox # <<>> /\ inbox' = Tail(inbox)
        \/ inbox' = inbox
    BY DEF OpenSession, LoseSession, Command, Handler, OnConnected, Announce, OnDisconnected,
           RejectCommand, HandleCommand, Event, Inbox
  <2> QED BY <1>0, <2>1, <2>2, <2>3
<1>2. hpc' \in {"idle", "connected"} /\ adapter' \in {"boot", "running", "failed"}
  BY <1>0 DEF OpenSession, LoseSession, Command, Handler, OnConnected, Announce, OnDisconnected,
              RejectCommand, HandleCommand, Event
<1>3. session' \in BOOLEAN /\ connected' \in BOOLEAN /\ discovery_pending' \in BOOLEAN
  BY <1>0 DEF OpenSession, LoseSession, Command, Handler, OnConnected, Announce, OnDisconnected,
              RejectCommand, HandleCommand, Event, shared
<1>4. publish_forced' \in BOOLEAN /\ note' \in BOOLEAN /\ force' \in BOOLEAN
  BY <1>0 DEF OpenSession, LoseSession, Command, Handler, OnConnected, Announce, OnDisconnected,
              RejectCommand, HandleCommand, Event, shared, task
<1>5. entities' \in BOOLEAN /\ follows' \in BOOLEAN /\ retained' \in Held
  <2>1. 0 \in Held
    BY MqttAssumption DEF Held
  <2>2. \/ UNCHANGED broker
        \/ retained' = 0 /\ entities' = FALSE /\ follows' = FALSE
    BY DEF OpenSession, LoseSession, Command, Handler, OnConnected, Announce, OnDisconnected,
           RejectCommand, HandleCommand
  <2> QED BY <1>0, <2>1, <2>2 DEF broker
<1>9. commands' \in 0 .. MaxCommands
  BY <1>0, MqttAssumption DEF OpenSession, LoseSession, Command, Handler, OnConnected, Announce, OnDisconnected,
              RejectCommand, HandleCommand
<1>6. tpc' \in Tasks /\ doc' \in Held
  BY <1>0 DEF OpenSession, LoseSession, Command, Handler, OnConnected, Announce, OnDisconnected,
              RejectCommand, HandleCommand, task
<1>7. last' \in Held
  BY <1>0, MqttAssumption DEF OpenSession, LoseSession, Command, Handler, OnConnected, Announce, OnDisconnected,
              RejectCommand, HandleCommand, shared, Held
<1>8. state' \in States
  BY <1>0, MqttAssumption DEF OpenSession, LoseSession, Command, Handler, OnConnected, Announce, OnDisconnected,
              RejectCommand, HandleCommand, States
<1> QED BY <1>1, <1>2, <1>3, <1>4, <1>5, <1>6, <1>7, <1>8, <1>9 DEF MqttTypeOK, Tasks, Inbox, States, Held

\* The control task and the publishing task keep theirs.
LEMMA TaskTypes ==
  ASSUME MqttTypeOK, MqttOnControlTick \/ PublishTask
  PROVE  MqttTypeOK'
<1>0. /\ inbox \in Seq(Inbox) /\ hpc \in {"idle", "connected"} /\ adapter \in {"boot", "running", "failed"}
      /\ session \in BOOLEAN /\ connected \in BOOLEAN /\ discovery_pending \in BOOLEAN
      /\ publish_forced \in BOOLEAN /\ note \in BOOLEAN /\ force \in BOOLEAN
      /\ entities \in BOOLEAN /\ follows \in BOOLEAN
      /\ tpc \in Tasks /\ last \in Held /\ doc \in Held /\ retained \in Held
      /\ state \in States /\ commands \in 0 .. MaxCommands
  BY MqttTypes
<1>1. UNCHANGED <<inbox, hpc, session, adapter, connected, commands>>
  BY DEF MqttOnControlTick, PublishTask, TaskWake, TestConnected, PublishDiscovery, ReadForced,
         ClearForced, GetState, PublishState, Remember, Quiet, client
<1>2. discovery_pending' \in BOOLEAN
  BY <1>0, Zenon DEF MqttOnControlTick, PublishTask, TaskWake, TestConnected, PublishDiscovery, ReadForced,
         ClearForced, GetState, PublishState, Remember
<1>3. note' \in BOOLEAN
  BY <1>0, Zenon DEF MqttOnControlTick, PublishTask, TaskWake, TestConnected, PublishDiscovery, ReadForced,
         ClearForced, GetState, PublishState, Remember
<1>4. publish_forced' \in BOOLEAN /\ force' \in BOOLEAN
  BY <1>0, Zenon DEF MqttOnControlTick, PublishTask, TaskWake, TestConnected, PublishDiscovery, ReadForced,
         ClearForced, GetState, PublishState, Remember, task
<1>5. entities' \in BOOLEAN /\ follows' \in BOOLEAN /\ retained' \in Held
  BY <1>0 DEF MqttOnControlTick, PublishTask, TaskWake, TestConnected, PublishDiscovery, ReadForced,
         ClearForced, GetState, PublishState, Remember, broker
<1>6. tpc' \in Tasks
  BY <1>0 DEF MqttOnControlTick, PublishTask, TaskWake, TestConnected, PublishDiscovery, ReadForced,
         ClearForced, GetState, PublishState, Remember, task, Tasks
<1>7. last' \in Held /\ doc' \in Held /\ state' \in States
  BY <1>0, MqttAssumption DEF MqttOnControlTick, PublishTask, TaskWake, TestConnected, PublishDiscovery,
         ReadForced, ClearForced, GetState, PublishState, Remember, Quiet, task, Held, States
<1> QED BY <1>0, <1>1, <1>2, <1>3, <1>4, <1>5, <1>6, <1>7 DEF MqttTypeOK, Tasks, Inbox, States, Held

\* Starting the adapter, or the network under it, keeps them too.
LEMMA MqttStep ==
  ASSUME MqttTypeOK, [NetworkNext]_network
  PROVE  MqttTypeOK'
<1>1. CASE UNCHANGED mqtt
  BY <1>1 DEF mqtt, client, shared, task, broker, MqttTypeOK
<1>2. CASE adapter' \in {"running", "failed"} /\ UNCHANGED <<client, shared, task, state, broker, commands>>
  BY <1>2 DEF client, shared, task, broker, MqttTypeOK
<1>3. CASE OpenSession \/ LoseSession \/ Command \/ Handler
  BY <1>3, HandlerTypes
<1>4. CASE MqttOnControlTick \/ PublishTask
  BY <1>4, TaskTypes
<1>5. \/ UNCHANGED mqtt
      \/ adapter' \in {"running", "failed"} /\ UNCHANGED <<client, shared, task, state, broker, commands>>
      \/ OpenSession \/ LoseSession \/ Command \/ Handler \/ MqttOnControlTick \/ PublishTask
  BY DEF NetworkNext, network, Start, KnxAdapterStart, AdapterStart, Quietly, NewLease, LoseNetwork,
         EventLoop, Timer, Knx, Mqtt
<1> QED BY <1>1, <1>2, <1>3, <1>4, <1>5

\* A device that has not started is in range.
LEMMA NetworkInitial == NetworkInit => NetworkTypeOK /\ StationForm
<1> SUFFICES ASSUME NetworkInit PROVE NetworkTypeOK
  BY StationInit
<1>1. image \in {"knxip", "mqtt"} /\ WifiTypeOK
  BY StationInit DEF NetworkInit
<1>2. RoutingTypeOK
  BY DEF NetworkInit, RoutingInit, RoutingTypeOK
<1>3. inbox \in Seq(Inbox) /\ state \in States /\ commands \in 0 .. MaxCommands /\ {last, doc, retained} \subseteq Held
  BY EmptySeq, MqttAssumption DEF NetworkInit, MqttInit, States, Held
<1>4. MqttTypeOK
  BY <1>3 DEF NetworkInit, MqttInit, MqttTypeOK, Inbox, States, Held
<1> QED BY <1>1, <1>2, <1>4 DEF NetworkTypeOK

\* The ranges, and the form of the station that bounds its queue, are inductive.
LEMMA NetworkStep ==
  ASSUME NetworkTypeOK, StationForm, [NetworkNext]_network
  PROVE  NetworkTypeOK' /\ StationForm'
<1>1. image' = image
  BY DEF NetworkNext, network, Start, KnxAdapterStart, AdapterStart, Quietly, NewLease, LoseNetwork,
         EventLoop, Timer, Knx, Mqtt
<1>2. WifiTypeOK' /\ StationForm'
  BY NetworkStepsStation, StationStep DEF NetworkTypeOK
<1>3. RoutingTypeOK' /\ MqttTypeOK'
  BY RoutingStep, MqttStep DEF NetworkTypeOK
<1> QED BY <1>1, <1>2, <1>3 DEF NetworkTypeOK

\* Everything the station and the adapters keep stays in range; the event queue never
\* holds more than the network has caused.
THEOREM NetworkTypes == NetworkSpec => []NetworkTypeOK
<1>1. NetworkTypeOK /\ StationForm /\ [NetworkNext]_network => (NetworkTypeOK /\ StationForm)'
  BY NetworkStep
<1> QED BY <1>1, NetworkInitial, PTL DEF NetworkSpec

-----------------------------------------------------------------------------
(* What AdapterCatchesUp says will happen, as what a device at rest has    *)
(* done: the invariants say who still owes each step.                      *)

\* A device with nothing left to do has told the outside everything.  On KNXnet/IP it is
\* in the routing group and shows its address, unless the network changed between the
\* check and the callback; over MQTT the broker has the entities, a document that
\* follows them, and the present state.
NothingMissed ==
  /\ ~unlucky /\ link = "up" /\ events = <<>> /\ kpc = "loop" /\ ~dirty =>
       member /\ shown = addr
  /\ session /\ inbox = <<>> /\ hpc = "idle" /\ tpc = "wait" /\ ~note =>
       connected /\ entities /\ follows /\ retained = state

\* The group: a task that found a network and is not watching it still has it; after
\* that a device that is not in the group, or shows another address, has an event, the
\* flag or the second look before it.
GroupOwed ==
  /\ callback <=> kpc \in {"gap", "loop", "rejoin", "identity"}
  /\ link = "up" => addr # 0
  /\ ~unlucky /\ Unwatched =>
       /\ link = "up"
       /\ kpc # "open" => member
       /\ kpc = "callback" => shown = addr
  /\ ~unlucky /\ link = "up" /\ ~dirty /\ events = <<>> =>
       /\ kpc = "gap" /\ ~without => member /\ shown = addr
       /\ kpc = "loop" => member /\ shown = addr
       /\ kpc = "identity" => member

LEMMA GroupByTask ==
  ASSUME WifiTypeOK, RoutingTypeOK, StationForm, GroupOwed, RoutingTask
  PROVE  GroupOwed'
<1>1. UNCHANGED <<link, addr, events, bit>>
  BY DEF RoutingTask, Wait, CheckNetwork, OpenSocket, PublishFirst, SetEventCallback,
         GapCheck, TakeDirty, RefreshMembership, PublishAgain, wifi, radio
<1>2. link = "up" /\ events = <<>> => bit = TRUE /\ addr = addr'
  BY <1>1 DEF StationForm
<1>0. bit \in BOOLEAN /\ callback \in BOOLEAN /\ addr \in Addresses \cup {0} /\ 0 \notin Addresses
  BY StationTypes, RoutingTypes, WifiAssumption
<1>3. CASE Wait \/ CheckNetwork
  <2>1. CASE Wait
    BY <1>1, <2>1 DEF Wait, GroupOwed, Unwatched, Starting
  <2>2. CASE CheckNetwork
    <3>1. ~unlucky' /\ ~without' => link = "up"
      BY <2>2, Zenon DEF CheckNetwork, IsConnected
    <3>2. kpc' = "open" /\ kpc = "check" /\ UNCHANGED <<callback, member, shown, dirty, link, addr>>
      BY <1>1, <2>2 DEF CheckNetwork
    <3> QED BY <3>1, <3>2 DEF GroupOwed, Unwatched, Starting
  <2> QED BY <1>3, <2>1, <2>2
<1>4. CASE OpenSocket
  BY <1>1, <1>4 DEF OpenSocket, GroupOwed, Unwatched, Starting
<1>5. CASE SetEventCallback
  BY <1>1, <1>5 DEF SetEventCallback, GroupOwed, Unwatched, Starting
<1>6. CASE GapCheck
  BY <1>1, <1>2, <1>6 DEF GapCheck, GroupOwed, Unwatched, Starting, IsConnected
<1>7. CASE TakeDirty \/ RefreshMembership
  BY <1>1, <1>7 DEF TakeDirty, RefreshMembership, GroupOwed, Unwatched, Starting
<1>8. CASE PublishFirst \/ PublishAgain
  <2>1. link = "up" => shown' = addr
    BY <1>8 DEF PublishFirst, PublishAgain, PublishIpIdentity, GroupOwed
  <2> QED BY <1>1, <1>8, <2>1 DEF PublishFirst, PublishAgain, GroupOwed, Unwatched, Starting
<1> QED BY <1>3, <1>4, <1>5, <1>6, <1>7, <1>8 DEF RoutingTask

LEMMA GroupStep ==
  ASSUME WifiTypeOK, RoutingTypeOK, StationForm, GroupOwed, [NetworkNext]_network
  PROVE  GroupOwed'
<1>0. events \in Seq(Events) /\ started \in BOOLEAN /\ 0 \notin Addresses
  BY WifiAssumption, StationTypes
<1>1. CASE Start
  <2>1. UNCHANGED routing /\ UNCHANGED addr
    BY <1>1 DEF Start, KnxAdapterStart, AdapterStart, WifiStart
  <2>2. (link' = link /\ events' = events) \/ (link' = "idle" /\ link = "off")
    <3>1. PICK ok \in BOOLEAN : WifiStart(ok)
      BY <1>1 DEF Start, KnxAdapterStart, AdapterStart
    <3>2. started \/ link = "off"
      BY <1>0 DEF StationForm
    <3>3. CASE started
      BY <3>1, <3>3 DEF WifiStart
    <3>4. CASE link = "off"
      BY <3>1, <3>4 DEF WifiStart
    <3> QED BY <3>2, <3>3, <3>4
  <2> QED BY <2>1, <2>2 DEF GroupOwed, routing, Unwatched, Starting
<1>2. CASE Quietly(AccessPoint) \/ Quietly(Disconnected) \/ Quietly(StaStart) \/ Timer
  <2>1. UNCHANGED routing /\ UNCHANGED addr
    BY <1>2 DEF Quietly, Timer, AccessPoint, Disconnected, StaStart, ReconnectTimer, radio
  <2>2. \/ link' = link /\ events' = events
        \/ link # "up" /\ link' # "up"
    <3>1. CASE Quietly(AccessPoint)
      BY <3>1 DEF Quietly, AccessPoint
    <3>2. CASE Timer
      BY <3>2 DEF Timer, Quietly, ReconnectTimer, Connect
    <3>3. CASE Quietly(Disconnected) \/ Quietly(StaStart)
      <4>1. Handled("disconnected") \/ Handled("start")
        BY <3>3 DEF Quietly, Disconnected, StaStart
      <4>2. Len(events) >= 1 /\ events[1] # "got_ip"
        BY <1>0, <4>1, HandledQueue DEF Events
      <4>3. link # "up"
        BY <1>0, <4>2, LenProperties DEF StationForm
      <4> QED BY <3>3, <4>3 DEF Quietly, Disconnected, StaStart, Connect, radio
    <3> QED BY <1>2, <3>1, <3>2, <3>3
  <2> QED BY <2>1, <2>2 DEF GroupOwed, routing, Unwatched, Starting
<1>3. CASE Quietly(Associate)
  <2>1. UNCHANGED routing /\ link = "trying" /\ events' # <<>> /\ addr' # 0
    BY <1>0, <1>3, PostQueue DEF Quietly, Associate, Events
  <2> QED BY <2>1 DEF GroupOwed, routing, Unwatched, Starting
<1>4. CASE NewLease
  <2>1. /\ UNCHANGED <<kpc, without, callback, dirty, shown, member>> /\ events' # <<>>
        /\ unlucky' = (unlucky \/ Unwatched)
    BY <1>0, <1>4, PostQueue DEF NewLease, Renew, Release, Events
  <2>2. addr' # 0
    BY <1>0, <1>4 DEF NewLease, Renew
  <2> QED BY <2>2, <2>1 DEF GroupOwed, Unwatched, Starting
<1>5. CASE LoseNetwork
  <2>1. /\ UNCHANGED <<kpc, without, callback, dirty, shown>> /\ link' = "idle"
        /\ unlucky' = (unlucky \/ Unwatched)
    BY <1>5 DEF LoseNetwork, Lose, Leave
  <2> QED BY <2>1 DEF GroupOwed, Unwatched, Starting
<1>6. CASE GotIp /\ Notify /\ UNCHANGED <<kpc, without, callback, member, shown, unlucky>>
  <2>1. UNCHANGED <<link, addr>> /\ dirty' = (dirty \/ callback)
    BY <1>6 DEF GotIp, Notify, radio
  <2> QED BY <1>6, <2>1 DEF GroupOwed, Unwatched, Starting
<1>7. CASE Knx
  BY <1>7, GroupByTask DEF Knx
<1>8. CASE UNCHANGED routing /\ UNCHANGED <<link, addr, events>>
  BY <1>8 DEF GroupOwed, routing, Unwatched, Starting
<1>9. \/ Start \/ Quietly(AccessPoint) \/ Quietly(Disconnected) \/ Quietly(StaStart) \/ Timer
      \/ Quietly(Associate) \/ NewLease \/ LoseNetwork \/ Knx
      \/ GotIp /\ Notify /\ UNCHANGED <<kpc, without, callback, member, shown, unlucky>>
      \/ UNCHANGED routing /\ UNCHANGED <<link, addr, events>>
  <2>1. CASE NetworkNext
    <3>1. CASE \/ Mqtt(OpenSession) \/ Mqtt(LoseSession) \/ Mqtt(Command)
               \/ Mqtt(Handler) \/ Mqtt(MqttOnControlTick) \/ Mqtt(PublishTask)
      <4>1. UNCHANGED routing /\ UNCHANGED wifi
        BY <3>1 DEF Mqtt, OpenSession, LoseSession, Command, Handler, OnConnected, Announce,
           OnDisconnected, RejectCommand, HandleCommand, MqttOnControlTick, PublishTask, TaskWake,
           TestConnected, PublishDiscovery, ReadForced, ClearForced, GetState, PublishState, Remember, Quiet
      <4> QED BY <4>1 DEF wifi, radio
    <3> QED BY <2>1, <3>1 DEF NetworkNext, EventLoop
  <2>2. CASE UNCHANGED network
    BY <2>2 DEF network, wifi, radio
  <2> QED BY <2>1, <2>2
<1> QED BY <1>1, <1>2, <1>3, <1>4, <1>5, <1>6, <1>7, <1>8, <1>9

\* An announcement is on its way: the handler has the connection before it, or the task
\* the flag the handler leaves.
Heard      == \E i \in 1 .. Len(inbox) : inbox[i] = "connected"
Connecting == hpc = "connected" \/ Heard
Announcing == Connecting \/ discovery_pending \/ tpc = "discovery"

\* The task is about to publish whatever it remembers.
Forcing ==
  \/ tpc = "read" /\ publish_forced
  \/ tpc \in {"clear", "get", "publish"} /\ force

\* A handler that takes the client for disconnected will hear better, and one that hears
\* of a loss in this session will hear of the connection after it.
HandlerHears ==
  /\ connected \/ Heard
  /\ \A i \in 1 .. Len(inbox) : inbox[i] = "disconnected" =>
       \E j \in i + 1 .. Len(inbox) : inbox[j] = "connected"

TaskOwes ==
  /\ discovery_pending => Connecting \/ note \/ tpc = "test"
  /\ ~entities => Announcing
  /\ ~follows => Announcing \/ Forcing

\* With no announcement ahead the task remembers what the broker holds, and is notified
\* of the state it does not.
DocumentFollows ==
  ~Announcing =>
    /\ ~Forcing => retained = IF tpc = "remember" THEN doc ELSE last
    /\ tpc = "publish" /\ doc # state => note
    /\ ~Forcing /\ tpc \in {"wait", "remember"} /\ retained # state => note

BrokerOwed == session => HandlerHears /\ TaskOwes /\ DocumentFollows

\* An event that is posted is the last one; the ones before it keep their places.
LEMMA InboxPost ==
  ASSUME NEW e \in Inbox, inbox \in Seq(Inbox), inbox' = Append(inbox, e)
  PROVE  /\ Len(inbox) \in Nat /\ Len(inbox') = Len(inbox) + 1
         /\ \A i \in 1 .. Len(inbox) : inbox'[i] = inbox[i]
         /\ inbox'[Len(inbox')] = e
BY AppendProperties, LenProperties

\* The events after the one that is handled each move up by one.
LEMMA InboxTake ==
  ASSUME NEW e \in Inbox, inbox \in Seq(Inbox), Event(e)
  PROVE  /\ Len(inbox) \in Nat /\ Len(inbox) >= 1 /\ Len(inbox') = Len(inbox) - 1
         /\ inbox[1] = e
         /\ \A i \in 1 .. Len(inbox') : inbox'[i] = inbox[i + 1]
<1>1. inbox # <<>> /\ inbox[1] = e /\ inbox' = Tail(inbox)
  BY DEF Event
<1>2. Len(inbox) \in Nat /\ Len(inbox) # 0
  BY <1>1, EmptySeq, LenProperties
<1> QED BY <1>1, <1>2, HeadTailProperties

\* What the client and the handler do with the queue of events leaves the handler hearing
\* of the connection there is.
LEMMA HandlerStillHears ==
  ASSUME MqttTypeOK, session' = TRUE, session = TRUE => HandlerHears,
         OpenSession \/ LoseSession \/ Command \/ Handler
  PROVE  HandlerHears'
<1>0. inbox \in Seq(Inbox) /\ session \in BOOLEAN
  BY MqttTypes
<1>1. CASE OpenSession
  <2>1. /\ Len(inbox) \in Nat /\ Len(inbox') = Len(inbox) + 1 /\ inbox'[Len(inbox')] = "connected"
        /\ \A i \in 1 .. Len(inbox) : inbox'[i] = inbox[i]
    BY <1>0, <1>1, InboxPost DEF OpenSession, Inbox
  <2>2. Heard'
    BY <2>1 DEF Heard
  <2>3. \A i \in 1 .. Len(inbox') : inbox'[i] = "disconnected" =>
          \E j \in i + 1 .. Len(inbox') : inbox'[j] = "connected"
    BY <2>1
  <2> QED BY <2>2, <2>3 DEF HandlerHears
<1>2. CASE LoseSession
  BY <1>2 DEF LoseSession
<1>3. CASE Command
  <2>0. HandlerHears /\ connected' = connected
    BY <1>3 DEF Command, shared
  <2>1. /\ Len(inbox) \in Nat /\ Len(inbox') = Len(inbox) + 1 /\ inbox'[Len(inbox')] = "command"
        /\ \A i \in 1 .. Len(inbox) : inbox'[i] = inbox[i]
    BY <1>0, <1>3, InboxPost DEF Command, Inbox
  <2>2. Heard => Heard'
    BY <2>1 DEF Heard
  <2>3. \A i \in 1 .. Len(inbox') : inbox'[i] = "disconnected" =>
          \E j \in i + 1 .. Len(inbox') : inbox'[j] = "connected"
    <3>1. SUFFICES ASSUME NEW i \in 1 .. Len(inbox'), inbox'[i] = "disconnected"
                   PROVE  \E j \in i + 1 .. Len(inbox') : inbox'[j] = "connected"
      OBVIOUS
    <3>2. i \in 1 .. Len(inbox) /\ inbox[i] = "disconnected"
      BY <2>1, <3>1
    <3>3. PICK j \in i + 1 .. Len(inbox) : inbox[j] = "connected"
      BY <2>0, <3>2 DEF HandlerHears
    <3> QED BY <2>1, <3>2, <3>3
  <2> QED BY <2>0, <2>2, <2>3 DEF HandlerHears
<1>4. CASE Announce
  BY <1>4 DEF Announce, HandlerHears, Heard
<1>5. CASE OnConnected \/ OnDisconnected \/ RejectCommand \/ HandleCommand
  <2>0. HandlerHears
    BY <1>5 DEF OnConnected, OnDisconnected, RejectCommand, HandleCommand
  <2>1. PICK e \in Inbox : Event(e)
    BY <1>5 DEF OnConnected, OnDisconnected, RejectCommand, HandleCommand, Inbox
  <2>2. /\ Len(inbox) \in Nat /\ Len(inbox) >= 1 /\ Len(inbox') = Len(inbox) - 1
        /\ inbox[1] = e /\ \A i \in 1 .. Len(inbox') : inbox'[i] = inbox[i + 1]
    BY <1>0, <2>1, InboxTake
  <2>3. \A i \in 1 .. Len(inbox') : inbox'[i] = "disconnected" =>
          \E j \in i + 1 .. Len(inbox') : inbox'[j] = "connected"
    <3>1. SUFFICES ASSUME NEW i \in 1 .. Len(inbox'), inbox'[i] = "disconnected"
                   PROVE  \E j \in i + 1 .. Len(inbox') : inbox'[j] = "connected"
      OBVIOUS
    <3>2. i + 1 \in 1 .. Len(inbox) /\ inbox[i + 1] = "disconnected"
      BY <2>2, <3>1
    <3>3. PICK j \in i + 2 .. Len(inbox) : inbox[j] = "connected"
      BY <2>0, <3>2 DEF HandlerHears
    <3>4. j - 1 \in i + 1 .. Len(inbox') /\ inbox'[j - 1] = "connected"
      BY <2>2, <3>1, <3>3
    <3> QED BY <3>4
  <2>4. \A j \in 2 .. Len(inbox) : inbox[j] = "connected" => Heard'
    <3>1. SUFFICES ASSUME NEW j \in 2 .. Len(inbox), inbox[j] = "connected" PROVE Heard'
      OBVIOUS
    <3>2. j - 1 \in 1 .. Len(inbox') /\ inbox'[j - 1] = "connected"
      BY <2>2, <3>1
    <3> QED BY <3>2 DEF Heard
  <2>5. CASE OnConnected
    BY <2>3, <2>5 DEF OnConnected, HandlerHears
  <2>6. CASE OnDisconnected
    <3>1. inbox[1] = "disconnected"
      BY <2>6 DEF OnDisconnected, Event
    <3>2. PICK j \in 2 .. Len(inbox) : inbox[j] = "connected"
      BY <2>0, <2>2, <3>1 DEF HandlerHears
    <3> QED BY <2>3, <2>4, <3>2 DEF HandlerHears
  <2>7. CASE RejectCommand \/ HandleCommand
    <3>1. inbox[1] = "command" /\ connected' = connected
      <4>1. inbox[1] = "command"
        <5>1. Event("command")
          BY <2>7 DEF RejectCommand, HandleCommand
        <5> QED BY <5>1 DEF Event
      <4>2. connected' = connected
        BY <2>7 DEF RejectCommand, HandleCommand, shared
      <4> QED BY <4>1, <4>2
    <3>2. Heard => Heard'
      <4>1. SUFFICES ASSUME NEW j \in 1 .. Len(inbox), inbox[j] = "connected" PROVE Heard'
        BY DEF Heard
      <4>2. j \in 2 .. Len(inbox)
        BY <2>2, <3>1, <4>1
      <4> QED BY <2>4, <4>1, <4>2
    <3> QED BY <2>0, <2>3, <3>1, <3>2 DEF HandlerHears
  <2> QED BY <1>5, <2>5, <2>6, <2>7
<1> QED BY <1>1, <1>2, <1>3, <1>4, <1>5 DEF Handler

\* The handler's announcement, and the notification of a state that changes, are what
\* the task is owed.
LEMMA BrokerByHandler ==
  ASSUME MqttTypeOK, BrokerOwed, OpenSession \/ LoseSession \/ Command \/ Handler
  PROVE  BrokerOwed'
<1>1. SUFFICES ASSUME session' = TRUE
               PROVE  HandlerHears' /\ TaskOwes' /\ DocumentFollows'
  <2>1. MqttTypeOK'
    BY HandlerTypes
  <2>2. session' \in BOOLEAN
    BY <2>1 DEF MqttTypeOK
  <2> QED BY <2>2 DEF BrokerOwed
<1>2. HandlerHears'
  BY <1>1, HandlerStillHears DEF BrokerOwed
<1>0. inbox \in Seq(Inbox) /\ session \in BOOLEAN
  BY MqttTypes
<1>3. CASE OpenSession
  <2>1. Heard'
    BY <1>0, <1>3, InboxPost DEF OpenSession, Inbox, Heard
  <2> QED BY <1>2, <2>1 DEF TaskOwes, DocumentFollows, Announcing, Connecting
<1>4. CASE LoseSession
  BY <1>1, <1>4 DEF LoseSession
<1>5. CASE OnConnected
  BY <1>2, <1>5 DEF OnConnected, TaskOwes, DocumentFollows, Announcing, Connecting
<1>6. CASE Announce
  <2>1. discovery_pending' = TRUE /\ note' = TRUE
    BY <1>6 DEF Announce
  <2> QED BY <1>2, <2>1 DEF TaskOwes, DocumentFollows, Announcing
<1>7. CASE OnDisconnected
  <2>1. Heard'
    <3>1. connected' = FALSE
      BY <1>7 DEF OnDisconnected
    <3> QED BY <1>2, <3>1 DEF HandlerHears
  <2> QED BY <1>2, <2>1 DEF TaskOwes, DocumentFollows, Announcing, Connecting
<1>8. CASE Command \/ RejectCommand \/ HandleCommand
  <2>0. session = TRUE /\ TaskOwes /\ DocumentFollows
    BY <1>0, <1>1, <1>8 DEF Command, RejectCommand, HandleCommand, BrokerOwed
  <2>1. /\ UNCHANGED <<hpc, discovery_pending, tpc, force, doc, last, retained, entities, follows>>
    BY <1>8 DEF Command, RejectCommand, HandleCommand, shared, task, broker
  <2>2. Heard' <=> Heard
    <3>1. CASE Command
      <4>1. /\ Len(inbox) \in Nat /\ Len(inbox') = Len(inbox) + 1 /\ inbox'[Len(inbox')] = "command"
            /\ \A i \in 1 .. Len(inbox) : inbox'[i] = inbox[i]
        BY <1>0, <3>1, InboxPost DEF Command, Inbox
      <4>2. \A i \in 1 .. Len(inbox') : i \in 1 .. Len(inbox) \/ i = Len(inbox')
        BY <4>1
      <4> QED BY <4>1, <4>2 DEF Heard
    <3>2. CASE RejectCommand \/ HandleCommand
      <4>1. Event("command")
        BY <3>2 DEF RejectCommand, HandleCommand
      <4>2. /\ Len(inbox) \in Nat /\ Len(inbox) >= 1 /\ Len(inbox') = Len(inbox) - 1
            /\ inbox[1] = "command" /\ \A i \in 1 .. Len(inbox') : inbox'[i] = inbox[i + 1]
        BY <1>0, <4>1, InboxTake DEF Inbox
      <4>3. \A i \in 1 .. Len(inbox) : 
              i = 1 \/ (i - 1 \in 1 .. Len(inbox') /\ inbox[i] = inbox'[i - 1])
        BY <4>2
      <4>4. \A i \in 1 .. Len(inbox') : i + 1 \in 1 .. Len(inbox)
        BY <4>2
      <4> QED BY <4>2, <4>3, <4>4 DEF Heard
    <3> QED BY <1>8, <3>1, <3>2
  <2>3. /\ note' = TRUE \/ (note' = note /\ state' = state)
        /\ publish_forced' = TRUE \/ publish_forced' = publish_forced
    BY <1>8 DEF Command, RejectCommand, HandleCommand, shared
  <2>4. (Announcing' <=> Announcing) /\ (Connecting' <=> Connecting) /\ (Forcing => Forcing')
    BY <2>1, <2>2, <2>3 DEF Announcing, Connecting, Forcing
  <2>5. TaskOwes'
    BY <2>0, <2>1, <2>3, <2>4 DEF TaskOwes
  <2>6. DocumentFollows'
    BY <2>0, <2>1, <2>3, <2>4 DEF DocumentFollows
  <2> QED BY <1>2, <2>5, <2>6
<1> QED BY <1>3, <1>4, <1>5, <1>6, <1>7, <1>8 DEF Handler

\* What is left to the task it does: the discovery config first, a document after it,
\* and a new round for a state that changed meanwhile.
LEMMA BrokerByTask ==
  ASSUME MqttTypeOK, BrokerOwed, MqttOnControlTick \/ PublishTask
  PROVE  BrokerOwed'
<1>0. /\ connected \in BOOLEAN /\ discovery_pending \in BOOLEAN /\ publish_forced \in BOOLEAN
      /\ note \in BOOLEAN /\ force \in BOOLEAN /\ tpc \in Tasks
  BY MqttTypes
<1>1. UNCHANGED <<inbox, hpc, session, connected>>
  BY DEF MqttOnControlTick, PublishTask, TaskWake, TestConnected, PublishDiscovery, ReadForced,
         ClearForced, GetState, PublishState, Remember, Quiet, client
<1>2. SUFFICES ASSUME session PROVE HandlerHears' /\ TaskOwes' /\ DocumentFollows'
  BY <1>1 DEF BrokerOwed
<1>3. HandlerHears /\ TaskOwes /\ DocumentFollows
  BY <1>2 DEF BrokerOwed
<1>4. (Connecting' <=> Connecting) /\ (HandlerHears' <=> HandlerHears)
  BY <1>1 DEF Connecting, Heard, HandlerHears
<1>5. ~connected => Connecting
  BY <1>3 DEF HandlerHears, Connecting
<1>6. CASE MqttOnControlTick
  <2>1. UNCHANGED <<discovery_pending, publish_forced, tpc, force, doc, last, retained, entities, follows>>
    BY <1>6 DEF MqttOnControlTick, task, broker
  <2>2. (note => note') /\ (connected => note')
    BY <1>6 DEF MqttOnControlTick
  <2>3. (Announcing' <=> Announcing) /\ (Forcing' <=> Forcing)
    BY <1>4, <2>1 DEF Announcing, Forcing
  <2>4. TaskOwes'
    BY <1>3, <1>4, <2>1, <2>2, <2>3 DEF TaskOwes
  <2>5. DocumentFollows'
    BY <1>3, <1>5, <2>1, <2>2, <2>3 DEF DocumentFollows, Announcing
  <2> QED BY <1>3, <1>4, <2>4, <2>5
<1>7. CASE TaskWake
  <2>1. /\ tpc = "wait" /\ tpc' = "test"
        /\ UNCHANGED <<discovery_pending, publish_forced, force, doc, last, state, retained, entities, follows>>
    BY <1>7 DEF TaskWake, Quiet, broker
  <2>2. (Announcing' <=> Announcing) /\ ~Forcing /\ ~Forcing'
    BY <1>4, <2>1 DEF Announcing, Forcing
  <2> QED BY <1>3, <1>4, <2>1, <2>2 DEF TaskOwes, DocumentFollows
<1>8. CASE TestConnected
  <2>1. /\ tpc = "test" /\ UNCHANGED <<publish_forced, note, force, doc, last, state, retained, entities, follows>>
    BY <1>8 DEF TestConnected, Quiet, broker
  <2>2. CASE ~connected
    <3> QED BY <1>3, <1>4, <1>5, <2>2 DEF TaskOwes, DocumentFollows, Announcing
  <2>3. CASE connected /\ discovery_pending
    <3>1. tpc' = "discovery" /\ ~discovery_pending'
      BY <1>8, <2>3 DEF TestConnected
    <3> QED BY <1>3, <1>4, <3>1 DEF TaskOwes, DocumentFollows, Announcing
  <2>4. CASE connected /\ ~discovery_pending
    <3>1. tpc' = "read" /\ ~discovery_pending'
      BY <1>8, <2>4 DEF TestConnected
    <3>2. (Announcing' <=> Announcing) /\ ~Forcing
      BY <1>4, <2>1, <2>4, <3>1 DEF Announcing, Forcing
    <3> QED BY <1>3, <1>4, <2>1, <3>1, <3>2 DEF TaskOwes, DocumentFollows
  <2> QED BY <2>2, <2>3, <2>4
<1>9. CASE PublishDiscovery
  <2>1. /\ tpc = "discovery" /\ tpc' = "read" /\ publish_forced' = TRUE /\ entities' = TRUE
        /\ UNCHANGED <<discovery_pending, note>>
    BY <1>2, <1>9 DEF PublishDiscovery
  <2>2. Forcing'
    BY <2>1 DEF Forcing
  <2> QED BY <1>3, <1>4, <2>1, <2>2 DEF TaskOwes, DocumentFollows
<1>10. CASE ReadForced \/ ClearForced
  <2>1. /\ \/ tpc = "read" /\ tpc' = "clear"
           \/ tpc = "clear" /\ tpc' = "get"
        /\ UNCHANGED <<discovery_pending, note, doc, last, state, retained, entities, follows>>
    BY <1>10 DEF ReadForced, ClearForced, Quiet, broker
  <2>2. Forcing' <=> Forcing
    BY <1>0, <1>10 DEF ReadForced, ClearForced, Forcing
  <2>3. Announcing' <=> Announcing
    BY <1>4, <2>1 DEF Announcing
  <2> QED BY <1>3, <1>4, <2>1, <2>2, <2>3 DEF TaskOwes, DocumentFollows
<1>11. CASE GetState
  <2>1. /\ tpc = "get" /\ tpc' = "publish" /\ doc' = state
        /\ UNCHANGED <<discovery_pending, note, force, last, state, retained, entities, follows>>
    BY <1>11 DEF GetState, Quiet, broker
  <2>2. (Announcing' <=> Announcing) /\ (Forcing' <=> Forcing)
    BY <1>4, <2>1 DEF Announcing, Forcing
  <2> QED BY <1>3, <1>4, <2>1, <2>2 DEF TaskOwes, DocumentFollows
<1>12. CASE \E heartbeat \in BOOLEAN : PublishState(heartbeat)
  <2>1. /\ tpc = "publish" /\ UNCHANGED <<discovery_pending, note, force, doc, last, state, entities>>
        /\ \/ tpc' = "remember" /\ retained' = doc /\ follows' = TRUE
           \/ ~force /\ doc = last /\ tpc' = "wait" /\ UNCHANGED <<retained, follows>>
    BY <1>2, <1>12 DEF PublishState, Quiet
  <2>2. (Announcing' <=> Announcing) /\ ~Forcing' /\ (Forcing <=> force)
    BY <1>4, <2>1 DEF Announcing, Forcing
  <2>3. TaskOwes'
    BY <1>3, <1>4, <2>1, <2>2 DEF TaskOwes
  <2>4. DocumentFollows'
    BY <1>3, <2>1, <2>2 DEF DocumentFollows
  <2> QED BY <1>3, <1>4, <2>3, <2>4
<1>13. CASE Remember
  <2>1. /\ tpc = "remember" /\ tpc' = "wait" /\ last' = doc
        /\ UNCHANGED <<discovery_pending, note, force, doc, state, retained, entities, follows>>
    BY <1>13 DEF Remember, Quiet, broker
  <2>2. (Announcing' <=> Announcing) /\ ~Forcing' /\ ~Forcing
    BY <1>4, <2>1 DEF Announcing, Forcing
  <2> QED BY <1>3, <1>4, <2>1, <2>2 DEF TaskOwes, DocumentFollows
<1> QED BY <1>6, <1>7, <1>8, <1>9, <1>10, <1>11, <1>12, <1>13 DEF PublishTask

\* Every step of the device keeps what is owed to the broker.
LEMMA BrokerStep ==
  ASSUME MqttTypeOK, BrokerOwed, [NetworkNext]_network
  PROVE  BrokerOwed'
<1>1. CASE UNCHANGED <<session, inbox, hpc, shared, task, state, broker>>
  BY <1>1 DEF shared, task, broker, BrokerOwed, HandlerHears, TaskOwes, DocumentFollows,
              Announcing, Connecting, Heard, Forcing
<1>2. CASE OpenSession \/ LoseSession \/ Command \/ Handler
  BY <1>2, BrokerByHandler
<1>3. CASE MqttOnControlTick \/ PublishTask
  BY <1>3, BrokerByTask
<1>4. \/ UNCHANGED <<session, inbox, hpc, shared, task, state, broker>>
      \/ OpenSession \/ LoseSession \/ Command \/ Handler \/ MqttOnControlTick \/ PublishTask
  BY DEF NetworkNext, network, mqtt, client, Start, KnxAdapterStart, AdapterStart, Quietly, NewLease,
         LoseNetwork, EventLoop, Timer, Knx, Mqtt
<1> QED BY <1>1, <1>2, <1>3, <1>4

\* At rest nobody owes anything, so everything has been told.
LEMMA AtRest ==
  ASSUME NetworkTypeOK, GroupOwed, BrokerOwed
  PROVE  NothingMissed
<1>1. ASSUME ~unlucky, link = "up", events = <<>>, kpc = "loop", ~dirty
      PROVE  member /\ shown = addr
  BY <1>1 DEF GroupOwed
<1>2. ASSUME session, inbox = <<>>, hpc = "idle", tpc = "wait", ~note
      PROVE  connected /\ entities /\ follows /\ retained = state
  <2>1. ~Heard /\ ~Connecting /\ ~Forcing
    BY <1>2, EmptySeq DEF Heard, Connecting, Forcing
  <2>2. HandlerHears /\ TaskOwes /\ DocumentFollows
    BY <1>2 DEF BrokerOwed
  <2>3. ~Announcing
    BY <1>2, <2>1, <2>2 DEF Announcing, TaskOwes
  <2> QED BY <1>2, <2>1, <2>2, <2>3 DEF HandlerHears, TaskOwes, DocumentFollows
<1> QED BY <1>1, <1>2 DEF NothingMissed

\* A device with nothing left to do has told the outside everything.
THEOREM RestIsTold == NetworkSpec => []NothingMissed
<1> DEFINE IInv == NetworkTypeOK /\ StationForm /\ GroupOwed /\ BrokerOwed
<1>1. NetworkInit => IInv
  BY NetworkInitial DEF NetworkInit, WifiInit, RoutingInit, MqttInit, GroupOwed, BrokerOwed, Unwatched, Starting
<1>2. IInv /\ [NetworkNext]_network => IInv'
  BY NetworkStep, GroupStep, BrokerStep DEF NetworkTypeOK
<1>3. IInv => NothingMissed
  BY AtRest
<1> QED BY <1>1, <1>2, <1>3, PTL DEF NetworkSpec
=============================================================================
