------------------------------ MODULE KnxService ------------------------------
(***************************************************************************)
(* The KNX adapter: the parameters it takes from ETS, the tick it is told  *)
(* of by the control task, and the loop that turns every tick into one     *)
(* offer of every group object to the stack.  What becomes of an offer     *)
(* (sent, deferred, suppressed) is the stack's decision under the transmit *)
(* policy the adapter sets; the stack is a submodule, modelled from its use.*)
(*                                                                         *)
(* Time is counted in seconds, the period of the control task, the longest *)
(* sleep of the loop and the window of the rate limit.                     *)
(***************************************************************************)
EXTENDS Integers, FiniteSets

CONSTANTS
  Objects,     \* the group objects of the product
  Kind,        \* "measured" | "state" | "setting" | "alarm" | "command", for each of them
  Parameters,  \* what ETS may download
  Defaults,    \* the settings before any is seeded
  Asked,       \* setpoints a telegram may ask for, within the limits set by ETS
  Readings,    \* raw values of the one measurement
  Top,         \* the end of its range
  Budget,      \* telegrams the stack lets out in a second
  MaxJitter,   \* the longest silence after power-up
  MaxAge,      \* ages beyond this are not told apart
  MaxChanges   \* bound: changes of what is published

Bit == 0 .. 1

\* A correction, when and how often to send, and what is on after a download.
Offset    == -20 .. 20
Cov       == 0 .. 50
MinRep    == 0 .. 3600
Heartbeat == 0 .. 65535
Setpoint  == 5 .. 40
Parameter == [offset : Offset, cov : Cov, minRep : MinRep, heartbeat : Heartbeat, enable : Bit,
              setpoint : Setpoint]

Fields == {"offset", "cov", "minRep", "heartbeat", "enable", "setpoint"}

\* Commands are only received, states and settings are both sent and received, the
\* rest is sent.
Ports    == {p \in Objects : Kind[p] # "command"}

Writable == {p \in Objects : Kind[p] \in {"state", "setting", "command"}}

Alarms   == {p \in Objects : Kind[p] = "alarm"}

\* The values for which the stack is given a step of change, the others are discrete.
Analogue == {p \in Objects : Kind[p] \in {"measured", "setting"}}

Kinds == {"measured", "state", "setting", "alarm", "command"}

ASSUME ObjectAssumption    == IsFiniteSet(Objects) /\ Kind \in [Objects -> Kinds]
ASSUME ParameterAssumption == Parameters \subseteq Parameter /\ Defaults \in Parameters
ASSUME AskedAssumption     == Asked \subseteq Setpoint
ASSUME ReadingAssumption   == Readings \subseteq Int /\ Readings # {} /\ Top \in Nat
ASSUME BoundAssumption     == {Budget, MaxJitter, MaxAge, MaxChanges} \subseteq Nat

VARIABLES
  life, ets, told,             \* the device: its lifecycle, the parameters ETS wrote,
                               \* and those the application has heard of
  overruled,                   \* history: those a telegram has replaced since
  hvac, on, rec, alarm,        \* ServiceState: hvac, in.controllerOnOff,
                               \* latestSensorData, out
  ctl, pending,                \* the control task, and controlTickPending
  pc, due, gate, snap,         \* the KNX task: its loop, and the rest of the jitter
  policy,                      \* transmit policies, as of the settings applied last
  offered, sent, age, waiting, \* per object: last offer, last telegram and its age,
  budget,                      \*   the deferred ones, and what this second has left
  changed, asked, taken, served,  \* ticks with news, numbered: the last one, that of
                                  \* the snapshot, and that of the last full offer
  changes                      \* bound

device  == <<life, ets, told, overruled>>
service == <<hvac, on, rec, alarm>>
loop    == <<pc, due, gate, snap>>
stack   == <<policy, offered, sent, age, waiting, budget>>
history == <<changed, asked, taken, served, changes>>
vars    == <<device, service, ctl, pending, loop, stack, history>>

Never == -1     \* no telegram yet, or nothing offered

\* Mutant: a measurement is sent beyond its range.
Unclamped(x) == x

Clamp(x) == IF x < 0 THEN 0 ELSE IF x > Top THEN Top ELSE x

-----------------------------------------------------------------------------
(* What is published, and what a read request is answered.                 *)

Current == [hvac |-> hvac, on |-> on, rec |-> rec, alarm |-> alarm]

\* publishAllState(): a measurement only while it is valid, the rest always.
Valid(s) == {p \in Ports : Kind[p] = "measured" => s.rec.valid}

\* correctReadings() for a measurement; modes and outputs as they are.
Value(s, p) == CASE Kind[p] = "measured" -> Clamp(s.rec.raw + s.hvac.offset)
                 [] Kind[p] = "state"    -> s.on
                 [] Kind[p] = "setting"  -> s.hvac.setpoint
                 [] Kind[p] = "alarm"    -> s.alarm

\* provideState(): the four sources a read request is answered from.
\* Mutant: the answer is the sensor's, not the corrected one.
ReadingRaw == Clamp(rec.raw)

Reading   == Clamp(rec.raw + hvac.offset)

Requested == on
Wanted    == hvac.setpoint
Computed  == alarm
Answer(p) == CASE Kind[p] = "measured" -> Reading
               [] Kind[p] = "state"    -> Requested
               [] Kind[p] = "setting"  -> Wanted
               [] Kind[p] = "alarm"    -> Computed

-----------------------------------------------------------------------------
(* The stack (external): Send, Defer or Suppress.                          *)

\* Mutant: alarms are treated like every other discrete object.
MinIntervalForAll(p) == policy.minRep

\* Alarms are exempt from the minimum repetition time.
MinInterval(p) == IF Kind[p] = "alarm" THEN 0 ELSE policy.minRep

\* Worth a telegram: moved by the change-of-value step, or changed at all.
Worth(p, v, step) ==
  \/ sent[p] = Never
  \/ p \notin Analogue /\ sent[p] # v
  \/ p \in Analogue /\ sent[p] # v /\ (v - sent[p] >= step \/ sent[p] - v >= step)

Ready == {p \in waiting : age[p] >= MinInterval(p)}
           \cup {p \in Ports : /\ sent[p] # Never /\ policy.heartbeat > 0
                               /\ age[p] >= policy.heartbeat}

\* As many of the candidates as the second still has room for.
Batches(candidates) ==
  {s \in SUBSET candidates :
     /\ Cardinality(s) <= budget
     /\ s = candidates \/ Cardinality(s) = budget}

Send(s, values) ==
  /\ sent' = [p \in Ports |-> IF p \in s THEN values[p] ELSE sent[p]]
  /\ age'  = [p \in Ports |-> IF p \in s THEN 0 ELSE age[p]]
  /\ budget' = budget - Cardinality(s)

-----------------------------------------------------------------------------
(* The world: ETS, the installation, the sensors.  What the bus brings is   *)
(* handled inside app.loop(), on the KNX task.                             *)

Change == changes < MaxChanges /\ changes' = changes + 1

\* ETS unloads the application, and loads it again with other parameters.
Unload ==
  /\ pc = "loop" /\ life = "operational" /\ life' = "commissioning" /\ Change
  /\ UNCHANGED <<ets, told, overruled, service, ctl, pending, loop, stack, changed, asked, taken, served>>
Load ==
  /\ pc = "loop" /\ life = "commissioning" /\ life' = "operational"
  /\ ets' \in Parameters
  /\ told' = {f \in told : ets'[f] = ets[f]}
  /\ UNCHANGED <<overruled, service, ctl, pending, loop, stack, history>>

\* Mutant: only the load at start-up counts.
ParameterChangedLate(f) ==
  /\ pc = "loop" /\ f \notin told /\ told' = told \cup {f}
  /\ UNCHANGED <<life, ets, overruled, service, ctl, pending, loop, stack, history>>

\* onParameterChanged(): one setting each, in a critical section of its own, so a
\* tick in between works on settings of both downloads.
ParameterChanged(f) ==
  /\ pc = "loop" /\ f \notin told /\ told' = told \cup {f}
  /\ hvac' = [hvac EXCEPT ![f] = ets[f]] /\ overruled' = overruled \ {f} /\ changed' = TRUE
  /\ UNCHANGED <<life, ets, on, rec, alarm, ctl, pending, loop, stack, asked, taken, served, changes>>

\* onStateWrite(): a telegram sets an input, under the lock.  A command is not sent
\* back, but it may change what the control task computes.  A setpoint goes where the
\* download put its own, and is ignored when it is the one in force.
Telegram(p) ==
  /\ pc = "loop" /\ Change /\ changed' = TRUE
  /\ on' = IF Kind[p] = "state" THEN 1 - on ELSE on
  /\ IF Kind[p] = "setting"
     THEN /\ \E v \in Asked \ {hvac.setpoint} : hvac' = [hvac EXCEPT !.setpoint = v]
          /\ overruled' = overruled \cup {"setpoint"}
     ELSE UNCHANGED <<hvac, overruled>>
  /\ UNCHANGED <<life, ets, told, rec, alarm, ctl, pending, loop, stack, asked, taken, served>>

Sense ==
  /\ Change /\ changed' = TRUE
  /\ \/ rec' \in [valid : {TRUE}, raw : Readings]
     \/ rec' = [rec EXCEPT !.valid = FALSE]
  /\ rec' # rec
  /\ UNCHANGED <<device, hvac, on, alarm, ctl, pending, loop, stack, asked, taken, served>>

-----------------------------------------------------------------------------
(* The control task: the outputs first, then the adapters are told.        *)

\* A tick with news gets a number: what changed since the tick before, or the outputs.
StoreOutputs ==
  /\ ctl = "idle" /\ ctl' = "notify"
  /\ \/ /\ alarm' = 1 - alarm /\ Change /\ asked' = asked + 1
     \/ /\ UNCHANGED <<alarm, changes>>
        /\ asked' = IF changed THEN asked + 1 ELSE asked
  /\ changed' = FALSE
  /\ UNCHANGED <<device, hvac, on, rec, pending, loop, stack, taken, served>>

OnControlTick ==
  /\ ctl = "notify" /\ ctl' = "idle" /\ pending' = TRUE
  /\ UNCHANGED <<device, service, loop, stack, history>>

-----------------------------------------------------------------------------
(* The KNX task.                                                           *)

\* How long the device is silent after power-up.
Jitter == 0 .. MaxJitter

\* Parameters and modes are loaded once, and the silence after power-up drawn.
Seed ==
  /\ pc = "start" /\ pc' = "loop"
  /\ hvac' = ets /\ overruled' = {} /\ on' = ets.enable /\ changed' = TRUE
  /\ gate' \in Jitter
  /\ UNCHANGED <<life, ets, told, rec, alarm, ctl, pending, due, snap, stack, asked, taken, served, changes>>

\* app.loop() ends: the stack has told the application of its parameters and works
\* off what it has deferred.
Drain ==
  /\ pc = "loop" /\ told = Fields /\ pc' = "check"
  /\ \E s \in Batches(Ready) : Send(s, offered) /\ waiting' = waiting \ s
  /\ UNCHANGED <<device, service, ctl, pending, due, gate, snap, policy, offered,
                 changed, asked, taken, served, changes>>

\* The flag is lowered before anything it stands for is read.
Check ==
  /\ pc = "check"
  /\ pc' = IF pending THEN "policy" ELSE "look"
  /\ pending' = FALSE
  /\ UNCHANGED <<device, service, ctl, due, gate, snap, stack, history>>

ApplyTransmitPolicies ==
  /\ pc = "policy" /\ pc' = "look"
  /\ policy' = hvac /\ due' = TRUE
  /\ UNCHANGED <<device, service, ctl, pending, gate, snap, offered, sent, age, waiting, budget, history>>

\* Mutant: a tick while the device is not ready is over.
TakeSnapshotOnce ==
  /\ pc = "look"
  /\ IF life = "operational" /\ gate = 0
     THEN /\ snap' = Current /\ taken' = asked
          /\ pc' = IF due THEN "publish" ELSE "park"
     ELSE pc' = "park" /\ UNCHANGED <<snap, taken>>
  /\ due' = (due /\ pc' = "publish")
  /\ UNCHANGED <<device, service, ctl, pending, gate, stack, changed, asked, served, changes>>

\* Nothing is offered in the silence, nor before the device is commissioned, but
\* the offer stays due.
TakeSnapshot ==
  /\ pc = "look"
  /\ IF life = "operational" /\ gate = 0
     THEN /\ snap' = Current /\ taken' = asked
          /\ pc' = IF due THEN "publish" ELSE "park"
     ELSE pc' = "park" /\ UNCHANGED <<snap, taken>>
  /\ UNCHANGED <<device, service, ctl, pending, due, gate, stack, changed, asked, served, changes>>

\* publishAllState() from the snapshot: the stack sends, defers or suppresses.
PublishAllState ==
  /\ pc = "publish" /\ pc' = "park" /\ due' = FALSE
  /\ served' = taken
  /\ offered' = [p \in Ports |-> IF p \in Valid(snap) THEN Value(snap, p) ELSE offered[p]]
  /\ LET worth == {p \in Valid(snap) : Worth(p, Value(snap, p), policy.cov)} IN
       \E s \in Batches({p \in worth : sent[p] = Never \/ age[p] >= MinInterval(p)}) :
          /\ Send(s, offered')
          /\ waiting' = (waiting \ Valid(snap)) \cup (worth \ s)
  /\ UNCHANGED <<device, service, ctl, pending, gate, snap, policy, changed, asked, taken, changes>>

Older(a) == IF a < MaxAge THEN a + 1 ELSE MaxAge

\* Parked until a notification, and a second at most.
Wake(seconds) ==
  /\ pc = "park" /\ pc' = "loop"
  /\ IF seconds = 0 THEN UNCHANGED <<gate, age, budget>>
     ELSE /\ gate' = IF gate = 0 THEN 0 ELSE gate - 1
          /\ age' = [p \in Ports |-> Older(age[p])]
          /\ budget' = Budget
  /\ UNCHANGED <<device, service, ctl, pending, due, snap, policy, offered, sent, waiting,
                 changed, asked, taken, served, changes>>

-----------------------------------------------------------------------------

Init ==
  /\ life \in {"operational", "commissioning"} /\ ets \in Parameters /\ told = Fields /\ overruled = {}
  /\ hvac = Defaults /\ on = 1 /\ rec \in [valid : {FALSE}, raw : {0}] /\ alarm = 0
  /\ ctl = "idle" /\ pending = TRUE
  /\ pc = "start" /\ due = TRUE /\ gate = 0 /\ snap = Current
  /\ policy = hvac
  /\ offered = [p \in Ports |-> Never] /\ sent = offered
  /\ age = [p \in Ports |-> MaxAge] /\ waiting = {} /\ budget = Budget
  /\ changed = FALSE /\ asked = 0 /\ taken = 0 /\ served = 0 /\ changes = 0

World   == \/ Unload \/ Load \/ Sense
           \/ \E f \in Fields : ParameterChanged(f)
           \/ \E p \in Writable : Telegram(p)
Control == StoreOutputs \/ OnControlTick
Task    == \/ Seed \/ Drain \/ Check \/ ApplyTransmitPolicies
           \/ TakeSnapshot \/ PublishAllState \/ \E seconds \in {0, 1} : Wake(seconds)

Next == World \/ Control \/ Task

\* Both tasks run, callbacks are delivered, and time passes however often the
\* loop is woken early.  ETS, the bus and the sensors owe nothing.
Spec ==
  /\ Init /\ [][Next]_vars
  /\ WF_vars(Task) /\ WF_vars(StoreOutputs) /\ WF_vars(OnControlTick)
  /\ WF_vars(\E f \in Fields : ParameterChanged(f)) /\ SF_vars(Wake(1))

-----------------------------------------------------------------------------
(* Properties.                                                             *)

Values   == (0 .. Top) \cup Bit \cup Setpoint
Record   == [valid : BOOLEAN, raw : Readings \cup {0}]
Snapshot == [hvac : Parameter, on : Bit, rec : Record, alarm : Bit]

\* Every variable keeps its range.
TypeOK ==
  /\ life \in {"operational", "commissioning"} /\ ets \in Parameters
  /\ told \subseteq Fields /\ overruled \subseteq {"setpoint"}
  /\ hvac \in Parameter /\ on \in Bit /\ alarm \in Bit
  /\ rec \in Record
  /\ ctl \in {"idle", "notify"} /\ pending \in BOOLEAN
  /\ pc \in {"start", "loop", "check", "policy", "look", "publish", "park"}
  /\ due \in BOOLEAN /\ gate \in 0 .. MaxJitter
  /\ snap \in Snapshot
  /\ policy \in Parameter
  /\ offered \in [Ports -> Values \cup {Never}] /\ sent \in [Ports -> Values \cup {Never}]
  /\ age \in [Ports -> 0 .. MaxAge] /\ waiting \subseteq Ports /\ budget \in 0 .. Budget
  /\ changed \in BOOLEAN /\ {asked, taken, served} \subseteq Nat
  /\ changes \in 0 .. MaxChanges

\* A tick with news that is not on offer yet is still held: by the control task, by
\* the flag, or by the offer that is due with a snapshot no older than the tick.
TickHeld ==
  served # asked =>
    \/ ctl = "notify" \/ pending \/ pc = "policy"
    \/ due /\ (pc = "publish" => taken = asked)

\* "A read and a spontaneous send can never disagree": when nothing has changed
\* since the last offer, a read is answered the value that was offered.
ReadsAgree ==
  served = asked /\ ~changed =>
    \A p \in Valid(Current) : offered[p] \in {Never, Answer(p)}

\* An alarm never waits for its repetition time, and none is dropped: one whose
\* latest offer is not on the bus is deferred, and unless a new round of the loop has
\* begun, there is no telegram left in this second that could have taken it.
AlarmPrompt ==
  \A p \in Alarms : sent[p] # offered[p] => p \in waiting /\ (pc = "loop" \/ budget = 0)

\* What ETS has set is in force, but for what a telegram has replaced since.
InForce == \A f \in Fields \ overruled : hvac[f] = ets[f]

\* The rate limit leaves room for every heartbeat, and for what changes besides.
Roomy == ets.heartbeat > 0 => Cardinality(Ports) < Budget * ets.heartbeat

\* On a commissioned device the parameters of ETS come into force, but for a setpoint a
\* telegram has replaced since, and the bus ends up knowing what the room has come to as
\* closely as they ask for: unless the heartbeats they ask for use up the rate limit.
BusCatchesUp ==
  <>[](life = "operational" /\ Roomy) =>
    <>[](InForce /\ \A p \in Valid(Current) : ~Worth(p, Answer(p), ets.cov))
=============================================================================
