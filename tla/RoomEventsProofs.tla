--------------------------- MODULE RoomEventsProofs ---------------------------
(***************************************************************************)
(* Theorems about RoomEvents: the ranges of its timers, and that an alarm, *)
(* a window and an empty room are believed only after the whole waiting    *)
(* time, for every tuning, every course of readings and every moment at    *)
(* which the control task steps in.                                        *)
(***************************************************************************)
EXTENDS RoomEvents, TLAPS

Span == 0 .. TimeCap

\* Counting on keeps the range, and keeps the order of two timers.
LEMMA CountingOn ==
  ASSUME dt \in Dts
  PROVE  /\ 0 \in Span /\ Span \subseteq Nat
         /\ \A t \in Span : Later(t) \in Span
         /\ \A t, u \in Span : t <= u => Later(t) <= Later(u) /\ t <= Later(u)
BY TimeAssumption DEF Later, Span

LEMMA CountingOnNext ==
  ASSUME dt' \in Dts
  PROVE  \A t \in Span : 0 \in Span
BY TimeAssumption DEF Span

LEMMA Runs ==
  \A n \in 0 .. 3, ok \in BOOLEAN : RunNext(n, ok) \in 0 .. 3
BY DEF RunNext, Least

-----------------------------------------------------------------------------
(* Types.                                                                  *)

Timers == /\ confirm \in Span /\ clear \in Span /\ onTimer \in Span /\ offTimer \in Span
          /\ openTimer \in Span /\ shutTimer \in Span /\ sustained \in Span /\ calm \in Span
          /\ empty \in Span /\ flip \in Span

Flags == /\ latched \in BOOLEAN /\ occupied \in BOOLEAN /\ open \in BOOLEAN /\ known \in BOOLEAN
         /\ mixed \in BOOLEAN /\ copy \in [presence : BOOLEAN, window : BOOLEAN]

Places == /\ scene \in Scenes /\ tune \in Tunings /\ pc \in {"sample", "timer", "latch"}
          /\ dt \in Dts /\ in \in Reading
          /\ run \in [temp : 0 .. 3, co2 : 0 .. 3, voc : 0 .. 3]

Follows == /\ base \in Int
           /\ pc = "sample" /\ known /\ copy.presence /\ in.co2ok => base <= in.co2

TypeInv == Timers /\ Flags /\ Places /\ Follows

LEMMA TypeInvIsTypeOK == TypeInv => TypeOK
BY DEF TypeInv, Timers, Flags, Places, Follows, TypeOK, Span

\* What the detectors are shown is a reading.
LEMMA SeenIsReading ==
  ASSUME TypeInv, NEW r \in Reading
  PROVE  Seen(r) \in Reading
<1>1. 0 \in Int
  OBVIOUS
<1> DEFINE Rate(n, ok, x) == IF ok /\ RunNext(n, ok) = 3 THEN x ELSE 0
<1>2. /\ Rate(run.temp, r.ok, r.rate) \in Int
      /\ Rate(run.co2, r.co2ok, r.co2rate) \in Int
      /\ Rate(run.voc, r.vocok, r.vocrate) \in Int
  BY <1>1 DEF Reading
<1>3. Seen(r) = [[[r EXCEPT !.rate = Rate(run.temp, r.ok, r.rate)]
                    EXCEPT !.co2rate = Rate(run.co2, r.co2ok, r.co2rate)]
                    EXCEPT !.vocrate = Rate(run.voc, r.vocok, r.vocrate)]
  BY DEF Seen
<1> HIDE DEF Rate
<1> QED BY <1>2, <1>3 DEF Reading

LEMMA TypesAtStart == Init => TypeInv
<1> SUFFICES ASSUME Init PROVE TypeInv
  OBVIOUS
<1>1. 0 \in Span
  BY TimeAssumption DEF Span
<1>2. Nothing \in Reading
  BY DEF Nothing, Reading
<1>3. Timers
  BY <1>1 DEF Init, Timers
<1>4. Flags /\ Follows
  <2>1. copy \in [presence : BOOLEAN, window : BOOLEAN]
    BY DEF Init
  <2>2. Flags
    BY <2>1 DEF Init, Flags
  <2>3. base = 0 /\ known = FALSE
    BY DEF Init
  <2>4. Follows
    BY <2>3 DEF Follows
  <2> QED BY <2>2, <2>4
<1>5. Places
  BY <1>2 DEF Init, Places
<1> QED BY <1>3, <1>4, <1>5 DEF TypeInv

LEMMA TypesKept == TypeInv /\ [Next]_vars => TypeInv'
<1> SUFFICES ASSUME TypeInv, [Next]_vars PROVE TypeInv'
  OBVIOUS
<1>0. /\ Timers /\ Flags /\ Places /\ Follows /\ dt \in Dts
      /\ 0 \in Span /\ Span \subseteq Nat /\ \A t \in Span : Later(t) \in Span
  BY CountingOn DEF TypeInv, Places
<1>1. CASE Sample
  <2>1. PICK r \in scene :
          /\ in' = Seen(r)
          /\ run' = [temp |-> RunNext(run.temp, r.ok), co2 |-> RunNext(run.co2, r.co2ok),
                     voc |-> RunNext(run.voc, r.vocok)]
    BY <1>1 DEF Sample
  <2>2. r \in Reading
    BY <1>0, <2>1, SceneAssumption DEF Places
  <2>3. in' \in Reading
    BY <2>1, <2>2, SeenIsReading
  <2>4. run' \in [temp : 0 .. 3, co2 : 0 .. 3, voc : 0 .. 3]
    BY <1>0, <2>1, <2>2, Runs DEF Places, Reading
  <2>5. Timers'
    BY <1>0, <1>1 DEF Sample, Timers, fire, people, window, history
  <2>6. Flags'
    <3>1. copy' \in [presence : BOOLEAN, window : BOOLEAN]
      BY <1>0, <1>1, TuningAssumption DEF Sample, Places, Tuning
    <3> QED BY <1>0, <1>1, <3>1 DEF Sample, Flags, fire, people, window
  <2>7. Follows'
    BY <1>0, <1>1 DEF Sample, Follows, people
  <2>8. Places'
    BY <1>0, <1>1, <2>3, <2>4 DEF Sample, Places
  <2> QED BY <2>5, <2>6, <2>7, <2>8 DEF TypeInv
<1>2. CASE FireTimer
  <2>1. confirm' \in Span /\ clear' \in Span /\ sustained' \in Span /\ calm' \in Span
    BY <1>0, <1>2 DEF FireTimer, ConfirmNext, ClearNext, Timers
  <2>2. Timers'
    BY <1>0, <1>2, <2>1 DEF FireTimer, Timers, people, window
  <2>3. Flags' /\ Follows'
    BY <1>0, <1>2 DEF FireTimer, Flags, Follows, people, window
  <2>4. Places'
    BY <1>0, <1>2 DEF FireTimer, Places
  <2> QED BY <2>2, <2>3, <2>4 DEF TypeInv
<1>3. CASE Finish
  <2>1. UNCHANGED <<scene, tune, dt, in, copy, run, confirm, clear, mixed, sustained, calm>>
        /\ pc' = "sample"
    BY <1>3 DEF Finish
  <2>2. latched' \in BOOLEAN
    BY <1>0, <1>3 DEF Finish, Flags
  <2>3. /\ onTimer' \in Span /\ offTimer' \in Span /\ empty' \in Span
        /\ occupied' \in BOOLEAN /\ known' \in BOOLEAN
    <3>1. CASE copy.presence /\ in.co2ok
      <4>1. Estimate
        BY <1>3 DEF Finish
      <4>2. OnNext \in Span /\ OffNext \in Span
        BY <1>0 DEF OnNext, OffNext, Timers
      <4>3. onTimer' = OnNext /\ offTimer' = OffNext /\ known' = TRUE
        BY <3>1, <4>1 DEF Estimate
      <4>4. empty' \in Span
        BY <1>0, <3>1, <4>1 DEF Estimate, Timers
      <4>5. occupied' \in BOOLEAN
        BY <3>1, <4>1, Zenon DEF Estimate
      <4> QED BY <4>2, <4>3, <4>4, <4>5
    <3>2. CASE ~(copy.presence /\ in.co2ok)
      BY <1>0, <1>3, <3>2 DEF Finish, Estimate, people, Timers, Flags
    <3> QED BY <3>1, <3>2
  <2>4. Follows'
    <3>1. CASE copy.presence /\ in.co2ok
      <4>1. base' = BaseNext
        BY <1>3, <3>1 DEF Finish, Estimate
      <4>2. in.co2 \in Int /\ base \in Int /\ Creep \in Int /\ dt \in Int
        BY <1>0, LevelAssumption, TimeAssumption DEF Follows, Places, Reading
      <4>3. BaseNext \in Int /\ BaseNext <= in.co2
        BY <4>2 DEF BaseNext, Least
      <4> QED BY <2>1, <4>1, <4>3 DEF Follows
    <3>2. CASE ~(copy.presence /\ in.co2ok)
      BY <1>0, <1>3, <2>1, <3>2 DEF Finish, Estimate, people, Follows
    <3> QED BY <3>1, <3>2
  <2>5. openTimer' \in Span /\ shutTimer' \in Span /\ open' \in BOOLEAN
    <3>1. CASE Trusted /\ tune.window /\ Fall > 0
      <4>1. shutTimer' = ShutNext /\ openTimer' \in {Later(openTimer), 0, openTimer}
        BY <1>3, <3>1 DEF Finish, Watch
      <4>2. ShutNext \in Span
        BY <1>0 DEF ShutNext, Timers
      <4>3. open' = IF open THEN ~Closing ELSE Draught /\ Later(shutTimer) >= OpenAfter
        BY <1>3, <3>1 DEF Finish, Watch
      <4>4. open' \in BOOLEAN
        BY <1>0, <4>3, Zenon DEF Flags
      <4> QED BY <1>0, <4>1, <4>2, <4>4 DEF Timers
    <3>2. CASE ~(Trusted /\ tune.window /\ Fall > 0)
      BY <1>0, <1>3, <3>2 DEF Finish, Watch, window, Timers, Flags
    <3> QED BY <3>1, <3>2
  <2>6. flip' \in Span
    BY <1>0, <1>3 DEF Finish, Timers
  <2>7. Timers'
    BY <1>0, <2>1, <2>3, <2>5, <2>6 DEF Timers
  <2>8. Flags'
    BY <1>0, <2>1, <2>2, <2>3, <2>5 DEF Flags
  <2>9. Places'
    BY <1>0, <2>1 DEF Places
  <2> QED BY <2>4, <2>7, <2>8, <2>9 DEF TypeInv
<1>4. CASE Acknowledge
  <2>1. Timers'
    BY <1>0, <1>4 DEF Acknowledge, Timers, people, window, history
  <2>2. Flags' /\ Places' /\ Follows'
    BY <1>0, <1>4 DEF Acknowledge, Flags, Places, Follows, people, window
  <2> QED BY <2>1, <2>2 DEF TypeInv
<1>5. CASE Configure
  BY <1>0, <1>5 DEF Configure, TypeInv, Timers, Flags, Places, Follows, fire, people, window,
     history
<1>6. CASE UNCHANGED vars
  BY <1>0, <1>6 DEF TypeInv, Timers, Flags, Places, Follows, vars, fire, people, window, history
<1> QED BY <1>1, <1>2, <1>3, <1>4, <1>5, <1>6 DEF Next

\* Every timer keeps its range and the baseline follows from below, for every
\* tuning and every course of readings.
THEOREM TypeCorrect == Spec => []TypeOK
BY TypesAtStart, TypesKept, TypeInvIsTypeOK, PTL DEF Spec

-----------------------------------------------------------------------------
(* Waiting times.  Each timer of the code runs no faster than the history  *)
(* it stands for, and each decision was taken with the timer at its end.   *)

ConfirmInv ==
  /\ confirm <= sustained
  /\ pc = "latch" /\ verdict.latch = "set" /\ ~mixed => sustained >= tune.confirm

ClearInv ==
  /\ clear <= calm
  /\ pc = "latch" /\ verdict.latch = "drop" /\ ~mixed => calm >= tune.clear

WindowInv == /\ open => openTimer <= flip
             /\ ~open => shutTimer <= flip

EmptyInv == offTimer <= empty

WaitInv == ConfirmInv /\ ClearInv /\ WindowInv /\ EmptyInv

LEMMA WaitKept == TypeInv /\ WaitInv /\ [Next]_vars => WaitInv'
<1> SUFFICES ASSUME TypeInv, WaitInv, [Next]_vars PROVE WaitInv'
  OBVIOUS
<1>0. /\ Timers /\ Flags /\ Places /\ dt \in Dts
      /\ 0 \in Span /\ Span \subseteq Nat /\ \A t \in Span : Later(t) \in Span
      /\ \A t, u \in Span : t <= u => Later(t) <= Later(u) /\ t <= Later(u)
      /\ \A t \in Span : 0 <= t
  <2>1. \A t \in Span : 0 <= t
    BY DEF Span
  <2> QED BY <2>1, CountingOn DEF TypeInv, Places
<1>w. ConfirmInv /\ ClearInv /\ WindowInv /\ EmptyInv
  BY DEF WaitInv
<1>1. CASE Sample
  <2>1. pc' = "timer" /\ UNCHANGED <<tune, fire, people, window, history>>
    BY <1>1 DEF Sample
  <2>2. ConfirmInv' /\ ClearInv'
    BY <1>w, <2>1 DEF ConfirmInv, ClearInv, fire, history
  <2>3. WindowInv' /\ EmptyInv'
    BY <1>w, <2>1 DEF WindowInv, EmptyInv, people, window, history
  <2> QED BY <2>2, <2>3 DEF WaitInv
<1>2. CASE FireTimer
  <2>0. /\ confirm' = ConfirmNext /\ clear' = ClearNext /\ UNCHANGED <<tune, mixed>>
        /\ sustained' = IF ~in.ok THEN sustained ELSE IF Hit THEN Later(sustained) ELSE 0
        /\ calm'      = IF ~in.ok THEN calm ELSE IF Hit THEN 0 ELSE Later(calm)
    BY <1>2 DEF FireTimer
  <2>1. confirm' <= sustained'
    BY <1>0, <1>w, <2>0 DEF ConfirmNext, ConfirmInv, Timers
  <2>2. clear' <= calm'
    BY <1>0, <1>w, <2>0 DEF ClearNext, ClearInv, Timers
  <2>3. verdict'.latch = IF in.ok /\ Hit /\ confirm' >= tune.confirm THEN "set"
                         ELSE IF in.ok /\ ~Hit /\ latched /\ Later(clear) >= tune.clear
                         THEN "drop" ELSE "keep"
    BY <1>2 DEF FireTimer
  <2>4. tune.confirm \in Int /\ tune.clear \in Int
    BY <1>0, TuningAssumption DEF Places, Tuning
  <2>5. verdict'.latch = "set" => sustained' >= tune.confirm
    <3>1. confirm' \in Span /\ sustained' \in Span
      BY <1>0, <2>0 DEF ConfirmNext, Timers
    <3> QED BY <1>0, <2>1, <2>3, <2>4, <3>1
  <2>6. verdict'.latch = "drop" => calm' >= tune.clear
    <3>1. calm \in Span /\ clear \in Span /\ clear <= calm
      BY <1>0, <1>w DEF Timers, ClearInv
    <3>2. Later(clear) <= Later(calm) /\ Later(clear) \in Int /\ Later(calm) \in Int
      <4>1. Later(clear) <= Later(calm)
        BY <1>0, <3>1, Zenon
      <4>2. Later(clear) \in Span /\ Later(calm) \in Span
        BY <1>0, <3>1, Zenon
      <4>3. \A t \in Span : t \in Int
        BY DEF Span
      <4> QED BY <4>1, <4>2, <4>3, Zenon
    <3>3. verdict'.latch = "drop" => in.ok /\ ~Hit /\ Later(clear) >= tune.clear
      BY <2>3
    <3> QED BY <2>0, <2>4, <3>2, <3>3
  <2>7. ConfirmInv' /\ ClearInv'
    BY <2>0, <2>1, <2>2, <2>5, <2>6 DEF ConfirmInv, ClearInv
  <2>8. WindowInv' /\ EmptyInv'
    BY <1>2, <1>w DEF FireTimer, WindowInv, EmptyInv, people, window
  <2> QED BY <2>7, <2>8 DEF WaitInv
<1>3. CASE Finish
  <2>1. ConfirmInv' /\ ClearInv'
    BY <1>3, <1>w DEF Finish, ConfirmInv, ClearInv
  <2>2. EmptyInv'
    <3>1. CASE copy.presence /\ in.co2ok
      <4>1. offTimer' = OffNext /\ empty' = IF Vacant THEN Later(empty) ELSE 0
        BY <1>3, <3>1 DEF Finish, Estimate
      <4>2. OffNext = 0 \/ (Vacant /\ OffNext = Later(offTimer))
        BY DEF OffNext, Leaving
      <4>3. offTimer \in Span /\ empty \in Span /\ offTimer <= empty
        BY <1>0, <1>w DEF Timers, EmptyInv
      <4> QED BY <1>0, <4>1, <4>2, <4>3 DEF EmptyInv
    <3>2. CASE ~(copy.presence /\ in.co2ok)
      BY <1>3, <1>w, <3>2 DEF Finish, Estimate, people, EmptyInv
    <3> QED BY <3>1, <3>2
  <2>3. WindowInv'
    <3>0. /\ flip' = IF open' = open THEN Later(flip) ELSE 0
          /\ flip \in Span /\ openTimer \in Span /\ shutTimer \in Span
          /\ Later(flip) \in Span /\ flip <= Later(flip)
      BY <1>0, <1>3 DEF Finish, Timers
    <3>1. CASE Trusted /\ tune.window /\ Fall > 0
      <4>1. /\ shutTimer' = ShutNext
            /\ open' = IF open THEN ~Closing ELSE Draught /\ Later(shutTimer) >= OpenAfter
            /\ openTimer' = IF open THEN Later(openTimer) ELSE IF open' THEN 0 ELSE openTimer
        BY <1>3, <3>1 DEF Finish, Watch
      <4>2. CASE open /\ Closing
        <5>1. ~open' /\ shutTimer' = 0
          BY <4>1, <4>2 DEF ShutNext
        <5>2. flip' = 0 \/ flip' = Later(flip)
          BY <3>0
        <5> QED BY <1>0, <3>0, <5>1, <5>2 DEF WindowInv
      <4>3. CASE open /\ ~Closing
        <5>1. open' = TRUE /\ openTimer' = Later(openTimer)
          BY <4>1, <4>3
        <5>2. flip' = Later(flip)
          BY <1>0, <3>0, <4>3, <5>1 DEF Flags
        <5> QED BY <1>0, <1>w, <3>0, <4>3, <5>1, <5>2 DEF WindowInv
      <4>4. CASE ~open /\ open'
        <5>1. openTimer' = 0
          BY <4>1, <4>4
        <5>2. flip' = 0 \/ flip' = Later(flip)
          BY <3>0
        <5> QED BY <1>0, <3>0, <4>4, <5>1, <5>2 DEF WindowInv
      <4>5. CASE ~open /\ ~open'
        <5>1. shutTimer' = 0 \/ shutTimer' = Later(shutTimer)
          BY <4>1, <4>5 DEF ShutNext, Closing
        <5>2. open \in BOOLEAN /\ open' \in BOOLEAN
          <6>1. open' \in BOOLEAN
            BY <1>0, <4>1, Zenon DEF Flags
          <6> QED BY <1>0, <6>1 DEF Flags
        <5>3. flip' = Later(flip)
          BY <3>0, <4>5, <5>2
        <5> QED BY <1>0, <1>w, <3>0, <4>5, <5>1, <5>3 DEF WindowInv
      <4> QED BY <4>2, <4>3, <4>4, <4>5
    <3>2. CASE ~(Trusted /\ tune.window /\ Fall > 0)
      <4>1. UNCHANGED window
        BY <1>3, <3>2 DEF Finish, Watch
      <4>2. flip' = Later(flip)
        BY <3>0, <4>1 DEF window
      <4> QED BY <1>0, <1>w, <3>0, <4>1, <4>2 DEF WindowInv, window
    <3> QED BY <3>1, <3>2
  <2> QED BY <2>1, <2>2, <2>3 DEF WaitInv
<1>4. CASE Acknowledge
  <2>1. confirm' = 0 /\ clear' = 0 /\ UNCHANGED <<tune, pc, verdict, mixed, people, window, history>>
    BY <1>4 DEF Acknowledge
  <2>2. ConfirmInv' /\ ClearInv'
    BY <1>0, <1>w, <2>1 DEF ConfirmInv, ClearInv, history, Timers
  <2>3. WindowInv' /\ EmptyInv'
    BY <1>w, <2>1 DEF WindowInv, EmptyInv, people, window, history
  <2> QED BY <2>2, <2>3 DEF WaitInv
<1>5. CASE Configure
  <2>1. UNCHANGED <<pc, fire, people, window, history>> /\ mixed' = (pc # "sample")
    BY <1>5 DEF Configure
  <2>2. pc' = "latch" => mixed'
    BY <2>1
  <2>3. ConfirmInv' /\ ClearInv'
    BY <1>w, <2>1, <2>2 DEF ConfirmInv, ClearInv, fire, history
  <2>4. WindowInv' /\ EmptyInv'
    BY <1>w, <2>1 DEF WindowInv, EmptyInv, people, window, history
  <2> QED BY <2>3, <2>4 DEF WaitInv
<1>6. CASE UNCHANGED vars
  BY <1>w, <1>6 DEF WaitInv, ConfirmInv, ClearInv, WindowInv, EmptyInv, vars, fire, people,
     window, history
<1> QED BY <1>1, <1>2, <1>3, <1>4, <1>5, <1>6 DEF Next

LEMMA WaitAtStart == Init => WaitInv
BY DEF Init, WaitInv, ConfirmInv, ClearInv, WindowInv, EmptyInv, NoVerdict

\* The alarm is raised only after the confirmation time of sights that all
\* showed the condition.
THEOREM AlarmIsConfirmed == Spec => AlarmConfirmed
<1>1. TypeInv /\ WaitInv /\ [Next]_vars
        => (~latched /\ latched' /\ ~mixed => sustained >= tune.confirm)
  <2> SUFFICES ASSUME WaitInv, [Next]_vars, ~latched, latched', ~mixed
               PROVE  sustained >= tune.confirm
    OBVIOUS
  <2>1. pc = "latch" /\ verdict.latch = "set"
    <3>1. Finish
      BY DEF Next, Sample, FireTimer, Acknowledge, Configure, vars, fire
    <3> QED BY <3>1 DEF Finish
  <2> QED BY <2>1 DEF WaitInv, ConfirmInv
<1> QED BY <1>1, TypesAtStart, TypesKept, WaitAtStart, WaitKept, PTL DEF Spec, AlarmConfirmed

\* An alarm is ended by an acknowledgement or by the clear time, never by a
\* sensor that fails or returns.
THEOREM AlarmIsKept == Spec => AlarmKept
<1>1. TypeInv /\ WaitInv /\ [Next]_vars
        => (latched /\ ~latched' /\ ~mixed => Acknowledge \/ calm >= tune.clear)
  <2> SUFFICES ASSUME WaitInv, [Next]_vars, latched, ~latched', ~mixed, ~Acknowledge
               PROVE  calm >= tune.clear
    OBVIOUS
  <2>1. pc = "latch" /\ verdict.latch = "drop"
    <3>1. Finish
      BY DEF Next, Sample, FireTimer, Configure, vars, fire
    <3> QED BY <3>1 DEF Finish
  <2> QED BY <2>1 DEF WaitInv, ClearInv
<1> QED BY <1>1, TypesAtStart, TypesKept, WaitAtStart, WaitKept, PTL DEF Spec, AlarmKept

\* Both together: an alarm is raised and ended only after its waiting time.
THEOREM AlarmIsSound == Spec => AlarmSound
  BY AlarmIsConfirmed, AlarmIsKept DEF AlarmSound


\* The window stays open for the minimum time and shut for the confirmation
\* time, whatever the air does.
THEOREM WindowIsSteady == Spec => NoChatter
<1>1. TypeInv /\ WaitInv /\ [Next]_vars
        => (open' # open => Later(flip) >= (IF open THEN MinOpen ELSE OpenAfter))
  <2> SUFFICES ASSUME TypeInv, WaitInv, [Next]_vars, open' # open
               PROVE  Later(flip) >= (IF open THEN MinOpen ELSE OpenAfter)
    OBVIOUS
  <2>0. /\ Timers /\ Flags /\ Span \subseteq Nat /\ \A t \in Span : Later(t) \in Span
        /\ \A t, u \in Span : t <= u => Later(t) <= Later(u)
        /\ MinOpen \in Nat /\ OpenAfter \in Nat
    BY CountingOn, TimeAssumption DEF TypeInv, Places
  <2>1. Watch /\ ~UNCHANGED window
    <3>1. Finish
      BY DEF Next, Sample, FireTimer, Acknowledge, Configure, vars, window
    <3> QED BY <3>1 DEF Finish, window
  <2>2. open' = IF open THEN ~Closing ELSE Draught /\ Later(shutTimer) >= OpenAfter
    BY <2>1 DEF Watch
  <2>3. CASE open
    <3>1. Closing
      BY <2>0, <2>2, <2>3 DEF Flags
    <3>2. Later(openTimer) >= MinOpen /\ openTimer <= flip
      BY <2>3, <3>1 DEF Closing, WaitInv, WindowInv
    <3>3. Later(openTimer) <= Later(flip)
      BY <2>0, <3>2, Zenon DEF Timers
    <3>4. Later(openTimer) \in Nat /\ Later(flip) \in Nat
      BY <2>0 DEF Timers
    <3> QED BY <2>0, <2>3, <3>2, <3>3, <3>4
  <2>4. CASE ~open
    <3>1. open'
      <4>1. open' \in BOOLEAN
        BY <2>0, <2>2, Zenon DEF Flags
      <4> QED BY <2>0, <2>4, <4>1 DEF Flags
    <3>2. Later(shutTimer) >= OpenAfter /\ shutTimer <= flip
      BY <2>2, <2>4, <3>1 DEF WaitInv, WindowInv
    <3>3. Later(shutTimer) <= Later(flip)
      BY <2>0, <3>2, Zenon DEF Timers
    <3>4. Later(shutTimer) \in Nat /\ Later(flip) \in Nat
      BY <2>0 DEF Timers
    <3> QED BY <2>0, <2>4, <3>2, <3>3, <3>4
  <2> QED BY <2>3, <2>4
<1> QED BY <1>1, TypesAtStart, TypesKept, WaitAtStart, WaitKept, PTL DEF Spec, NoChatter

\* The room is released only after the waiting time in which every reading
\* spoke against people.
THEOREM RoomIsReleasedLate == Spec => ReleasedLate
<1>1. TypeInv /\ WaitInv /\ [Next]_vars => (occupied /\ ~occupied' => empty' >= OffAfter)
  <2> SUFFICES ASSUME TypeInv, WaitInv, [Next]_vars, occupied, ~occupied'
               PROVE  empty' >= OffAfter
    OBVIOUS
  <2>0. /\ Timers /\ Span \subseteq Nat /\ \A t \in Span : Later(t) \in Span
        /\ \A t, u \in Span : t <= u => Later(t) <= Later(u)
        /\ OffAfter \in Nat
    BY CountingOn, TimeAssumption DEF TypeInv, Places
  <2>1. Estimate /\ ~UNCHANGED people
    <3>1. Finish
      BY DEF Next, Sample, FireTimer, Acknowledge, Configure, vars, people
    <3> QED BY <3>1 DEF Finish, people
  <2>2. Leaving /\ Later(offTimer) >= OffAfter /\ empty' = IF Vacant THEN Later(empty) ELSE 0
    BY <2>1 DEF Estimate
  <2>3. empty' = Later(empty) /\ offTimer <= empty
    BY <2>2 DEF Leaving, WaitInv, EmptyInv
  <2>4. Later(offTimer) <= Later(empty)
    BY <2>0, <2>3, Zenon DEF Timers
  <2>5. Later(offTimer) \in Nat /\ Later(empty) \in Nat
    BY <2>0 DEF Timers
  <2> QED BY <2>0, <2>2, <2>3, <2>4, <2>5
<1> QED BY <1>1, TypesAtStart, TypesKept, WaitAtStart, WaitKept, PTL DEF Spec, ReleasedLate
=============================================================================
