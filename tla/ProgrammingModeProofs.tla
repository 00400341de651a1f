------------------------ MODULE ProgrammingModeProofs ------------------------
(***************************************************************************)
(* What holds of programming mode in every image, for every timeout,       *)
(* counter width, cadence and assignment of priorities.                    *)
(***************************************************************************)
EXTENDS ProgrammingMode, TLAPS

\* Every deadline is a tick value, and never the sentinel.
LEMMA DeadlineArmed ==
  ASSUME NEW now \in Nat
  PROVE  DeadlineFrom(now) \in 1 .. TickMod - 1
<1> DEFINE at == (now + Timeout) % TickMod
<1>1. at \in 0 .. TickMod - 1
  BY TimeoutAssumption
<1> HIDE DEF at
<1>2. DeadlineFrom(now) = IF at = 0 THEN 1 ELSE at
  BY DEF DeadlineFrom, at
<1> QED
  BY <1>1, <1>2, TimeoutAssumption

\* Every variable keeps its range.
THEOREM TypeCorrect == Spec => []TypeOK
<1> USE TimeoutAssumption, CadenceAssumption, ImageAssumption
<1>1. Init => TypeOK
  <2> SUFFICES ASSUME Init PROVE TypeOK
    OBVIOUS
  <2>1. image \in Images /\ clock \in 0 .. TickMod - 1 /\ phase \in 0 .. CtlPeriod - 1 /\ due \in 0 .. MaxDue
    BY DEF Init
  <2>2. deadline \in 0 .. TickMod - 1 /\ age \in 0 .. TickMod
    BY DEF Init
  <2>3. {mode, toggle, led, armed, oobMode, radio, stack} \subseteq BOOLEAN
    BY DEF Init
  <2>4. /\ leave \in {"idle", "armed", "due"}
        /\ pc \in [Tasks -> {"idle", "take", "read", "set", "led", "oob"}]
        /\ arg \in [Tasks -> BOOLEAN]
    BY DEF Init
  <2> QED
    BY <2>1, <2>2, <2>3, <2>4 DEF TypeOK
<1>2. TypeOK /\ [Next]_vars => TypeOK'
  <2> SUFFICES ASSUME TypeOK, [Next]_vars PROVE TypeOK'
    OBVIOUS
  <2>1. ASSUME NEW t \in Tasks, Set(t) PROVE TypeOK'
    <3>1. DeadlineFrom(clock) \in 0 .. TickMod - 1
      BY DeadlineArmed DEF TypeOK
    <3>2. deadline' \in 0 .. TickMod - 1
      BY <2>1, <3>1 DEF Set
    <3>3. arg[t] \in BOOLEAN
      BY DEF TypeOK
    <3>4. {mode', toggle', led', armed', oobMode', radio', stack'} \subseteq BOOLEAN
      BY <2>1, <3>3 DEF Set, TypeOK, mirrors
    <3>5. pc' \in [Tasks -> {"idle", "take", "read", "set", "led", "oob"}]
      BY <2>1 DEF Set, TypeOK
    <3> QED
      BY <2>1, <3>2, <3>4, <3>5 DEF Set, TypeOK, timing
  <2>2. ASSUME NEW t \in Tasks, FanOutLed(t) PROVE TypeOK'
    BY <2>2 DEF FanOutLed, TypeOK, timing, service
  <2>3. ASSUME NEW t \in Tasks, FanOutOob(t) PROVE TypeOK'
    BY <2>3 DEF FanOutOob, TypeOK, timing, service
  <2>4. CASE Expire
    BY <2>4 DEF Expire, Expired, TypeOK, mirrors, Tasks
  <2>5. CASE CtlTake
    BY <2>5 DEF CtlTake, TypeOK, timing, mirrors, Tasks
  <2>6. CASE CtlRead
    BY <2>6 DEF CtlRead, Calls, TypeOK, timing, service, mirrors, Tasks
  <2>7. CASE KnxTake
    BY <2>7 DEF KnxTake, Calls, TypeOK, timing, mirrors, Tasks
  <2>8. CASE EtsWrite
    BY <2>8 DEF EtsWrite, Calls, TypeOK, timing, service, mirrors, Tasks
  <2>9. CASE OobStart
    BY <2>9 DEF OobStart, Calls, TypeOK, timing, service, Tasks
  <2>10. CASE LongPress
    BY <2>10 DEF LongPress, TypeOK, timing, mirrors
  <2>11. CASE OobLoop
    BY <2>11 DEF OobLoop, TypeOK, timing, service
  <2>12. CASE LeaveRequest
    BY <2>12 DEF LeaveRequest, TypeOK, timing, service, mirrors
  <2>13. CASE LeaveFires
    BY <2>13 DEF LeaveFires, Calls, TypeOK, timing, service, mirrors, Tasks
  <2>14. CASE Tick
    BY <2>14 DEF Tick, TypeOK, service, mirrors
  <2>15. CASE UNCHANGED vars
    BY <2>15 DEF vars, timing, service, mirrors, TypeOK
  <2> QED
    BY <2>1, <2>2, <2>3, <2>4, <2>5, <2>6, <2>7, <2>8, <2>9, <2>10, <2>11,
       <2>12, <2>13, <2>14, <2>15 DEF Next
<1> QED
  BY <1>1, <1>2, PTL DEF Spec

\* There is no route into programming mode that leaves the window open
\* without a deadline or a request to close it.
THEOREM AlwaysBounded == Spec => []WindowBounded
<1>1. Init => WindowBounded
  BY DEF Init, WindowBounded
<1>2. TypeOK /\ WindowBounded /\ [Next]_vars => WindowBounded'
  <2> SUFFICES ASSUME TypeOK, WindowBounded, [Next]_vars PROVE WindowBounded'
    OBVIOUS
  <2>1. ASSUME NEW t \in Tasks, Set(t) PROVE WindowBounded'
    <3>1. DeadlineFrom(clock) # 0
      BY DeadlineArmed, TimeoutAssumption DEF TypeOK
    <3> QED
      BY <2>1, <3>1 DEF Set, WindowBounded
  <2>2. ASSUME NEW t \in Tasks, FanOutLed(t) \/ FanOutOob(t) PROVE WindowBounded'
    BY <2>2 DEF FanOutLed, FanOutOob, WindowBounded, service, TypeOK, Tasks
  <2>3. CASE Expire
    BY <2>3 DEF Expire, Expired, WindowBounded, TypeOK, Tasks
  <2>4. CASE CtlTake
    BY <2>4 DEF CtlTake, WindowBounded, TypeOK, Tasks
  <2>5. CASE CtlRead
    BY <2>5 DEF CtlRead, Calls, WindowBounded, service, TypeOK, Tasks
  <2>6. CASE KnxTake
    BY <2>6 DEF KnxTake, Calls, WindowBounded, TypeOK, Tasks
  <2>7. CASE EtsWrite
    BY <2>7 DEF EtsWrite, Calls, WindowBounded, TypeOK, Tasks
  <2>8. CASE OobStart
    BY <2>8 DEF OobStart, Calls, WindowBounded, service, TypeOK, Tasks
  <2>9. CASE LeaveFires
    BY <2>9 DEF LeaveFires, Calls, WindowBounded, service, TypeOK, Tasks
  <2>10. CASE LongPress \/ OobLoop \/ LeaveRequest \/ Tick \/ UNCHANGED vars
    BY <2>10 DEF LongPress, OobLoop, LeaveRequest, Tick, vars, service, WindowBounded
  <2> QED
    BY <2>1, <2>2, <2>3, <2>4, <2>5, <2>6, <2>7, <2>8, <2>9, <2>10 DEF Next
<1> QED
  BY <1>1, <1>2, TypeCorrect, PTL DEF Spec

-----------------------------------------------------------------------------
(* The deadline and the clock, over the wrap of the counter.               *)

LEMMA ModInside ==
  ASSUME NEW m \in Nat \ {0}, NEW x \in 0 .. m - 1
  PROVE  x % m = x
BY SMTT(20)

LEMMA ModBelow ==
  ASSUME NEW m \in Nat \ {0}, NEW x \in -m .. -1
  PROVE  x % m = x + m
BY SMTT(20)

LEMMA ModAbove ==
  ASSUME NEW m \in Nat \ {0}, NEW x \in m .. 2 * m - 1
  PROVE  x % m = x - m
BY SMTT(20)

\* How far the control task is behind the clock: the cycles released and not yet run,
\* and the ticks since the last release.
Late == due * CtlPeriod + phase

LEMMA LateBounded ==
  ASSUME TypeOK
  PROVE  Late \in Nat /\ Late < CtlPeriod * (MaxDue + 1)
<1>1. /\ CtlPeriod \in Nat \ {0} /\ MaxDue \in Nat
      /\ due \in Nat /\ due <= MaxDue /\ phase \in Nat /\ phase < CtlPeriod
  BY CadenceAssumption DEF TypeOK
<1>2. due * CtlPeriod \in Nat /\ due * CtlPeriod <= MaxDue * CtlPeriod
  BY <1>1
<1>3. CtlPeriod * (MaxDue + 1) = MaxDue * CtlPeriod + CtlPeriod
  BY <1>1
<1>4. MaxDue * CtlPeriod \in Nat
  BY <1>1
<1> DEFINE waiting == due * CtlPeriod
           all     == MaxDue * CtlPeriod
<1> HIDE DEF waiting, all
<1>5. waiting \in Nat /\ all \in Nat /\ waiting <= all
  BY <1>2, <1>4 DEF waiting, all
<1>6. Late = waiting + phase /\ CtlPeriod * (MaxDue + 1) = all + CtlPeriod
  BY <1>3 DEF Late, waiting, all
<1> QED
  BY <1>1, <1>5, <1>6

\* Lateness grows with the clock, also where a cycle is released.
LEMMA TickIsLate ==
  ASSUME TypeOK, Tick
  PROVE  Late' = Late + 1
<1>1. CtlPeriod \in Nat \ {0} /\ due \in Nat /\ phase \in 0 .. CtlPeriod - 1
  BY CadenceAssumption DEF TypeOK
<1>2. phase' = (phase + 1) % CtlPeriod /\ due' = IF phase + 1 = CtlPeriod THEN due + 1 ELSE due
  BY DEF Tick
<1>3. CASE phase + 1 = CtlPeriod
  <2>1. phase' = 0
    BY <1>1, <1>2, <1>3, ModAbove
  <2>2. (due + 1) * CtlPeriod = due * CtlPeriod + CtlPeriod /\ due * CtlPeriod \in Nat
    BY <1>1
  <2> QED
    BY <1>1, <1>2, <1>3, <2>1, <2>2 DEF Late
<1>4. CASE phase + 1 # CtlPeriod
  <2>1. phase' = phase + 1
    BY <1>1, <1>2, <1>4, ModInside
  <2>2. due * CtlPeriod \in Nat
    BY <1>1
  <2> QED
    BY <1>1, <1>2, <1>4, <2>1, <2>2 DEF Late
<1> QED
  BY <1>3, <1>4

\* The inductive invariant: a deadline is as far from the clock as the age of the window
\* leaves of its span, counted round the counter, and what it is overdue by is no more
\* than the control task is late.
Scheduled(span, turns) ==
  /\ deadline = clock + (span - age) + turns * TickMod
  /\ age - span <= Late

OnSchedule ==
  deadline # 0 =>
    /\ mode /\ Timeout > 0
    /\ \E span \in {Timeout, Timeout + 1}, turns \in {-1, 0, 1} : Scheduled(span, turns)

LEMMA Sizes ==
  ASSUME TypeOK
  PROVE  /\ TickMod \in Nat /\ TickMod > 2 /\ Timeout \in Nat /\ 2 * (Timeout + 1) <= TickMod
         /\ clock \in 0 .. TickMod - 1 /\ deadline \in 0 .. TickMod - 1
         /\ age \in 0 .. TickMod /\ Late \in Nat /\ 2 * (Late + 1) <= TickMod
<1> DEFINE lateness == CtlPeriod * (MaxDue + 1)
<1>1. lateness \in Nat
  BY CadenceAssumption
<1>2. 2 * lateness <= TickMod
  BY CadenceAssumption
<1>3. Late \in Nat /\ Late < lateness
  BY LateBounded
<1> HIDE DEF lateness
<1>4. 2 * (Late + 1) <= TickMod
  BY <1>1, <1>2, <1>3, TimeoutAssumption
<1> QED
  BY <1>3, <1>4, TimeoutAssumption DEF TypeOK

\* The signed difference of ticks tells a deadline that has passed from one that has not.
LEMMA ReachedMeansDue ==
  ASSUME TypeOK, deadline # 0, NEW span \in {Timeout, Timeout + 1}, NEW turns \in {-1, 0, 1},
         Scheduled(span, turns)
  PROVE  TickReached(clock, deadline) <=> age >= span
<1>1. /\ TickMod \in Nat \ {0} /\ Timeout \in Nat /\ 2 * (Timeout + 1) <= TickMod
      /\ clock \in 0 .. TickMod - 1 /\ deadline \in 0 .. TickMod - 1
      /\ age \in 0 .. TickMod /\ Late \in Nat /\ 2 * (Late + 1) <= TickMod
  BY Sizes
<1>2. deadline = clock + (span - age) + turns * TickMod /\ age - span <= Late
  BY DEF Scheduled
<1>3. span \in Nat /\ 2 * span <= TickMod
  BY <1>1
<1> DEFINE gap == clock - deadline
           over == age - span
<1>4. gap \in -(TickMod - 1) .. TickMod - 1 /\ over \in Int
  BY <1>1, <1>3
<1>5. gap = over \/ gap = over - TickMod \/ gap = over + TickMod
  BY <1>1, <1>2, <1>3
<1>6. 2 * over >= -TickMod /\ 2 * over < TickMod
  BY <1>1, <1>2, <1>3
<1>7. TickReached(clock, deadline) <=> 2 * (gap % TickMod) < TickMod
  BY DEF TickReached
<1>8. over >= 0 <=> age >= span
  BY <1>1, <1>3
<1> HIDE DEF gap, over
<1>9. CASE over >= 0
  <2>1. gap = over \/ gap = over - TickMod
    BY <1>1, <1>4, <1>5, <1>9
  <2>2. gap % TickMod = over
    BY <1>1, <1>4, <1>6, <1>9, <2>1, ModInside, ModBelow
  <2> QED
    BY <1>1, <1>4, <1>6, <1>7, <1>8, <1>9, <2>2
<1>10. CASE over < 0
  <2>1. gap = over \/ gap = over + TickMod
    BY <1>1, <1>4, <1>5, <1>10
  <2>2. CASE gap = over
    <3>1. gap \in -TickMod .. -1
      BY <1>1, <1>4, <1>10, <2>2
    <3>2. gap % TickMod = gap + TickMod
      BY <1>1, <3>1, ModBelow
    <3> QED
      BY <1>1, <1>4, <1>6, <1>7, <1>8, <1>10, <2>2, <3>2
  <2>3. CASE gap = over + TickMod
    <3>1. gap \in 0 .. TickMod - 1
      BY <1>1, <1>4, <1>6, <1>10, <2>3
    <3>2. gap % TickMod = gap
      BY <1>1, <3>1, ModInside
    <3> QED
      BY <1>1, <1>4, <1>6, <1>7, <1>8, <1>10, <2>3, <3>2
  <2> QED
    BY <2>1, <2>2, <2>3
<1> QED
  BY <1>4, <1>9, <1>10

\* A deadline is set a timeout ahead of the clock, or one tick more.
LEMMA DeadlineAhead ==
  ASSUME TypeOK, Timeout > 0
  PROVE  \E span \in {Timeout, Timeout + 1}, turns \in {-1, 0, 1} :
           DeadlineFrom(clock) = clock + span + turns * TickMod
<1>1. TickMod \in Nat \ {0} /\ Timeout \in Nat /\ Timeout < TickMod /\ clock \in 0 .. TickMod - 1
  BY Sizes
<1> DEFINE at == (clock + Timeout) % TickMod
<1>2. DeadlineFrom(clock) = IF at = 0 THEN 1 ELSE at
  BY DEF DeadlineFrom
<1>3. CASE clock + Timeout < TickMod
  <2>1. at = clock + Timeout
    BY <1>1, <1>3, ModInside
  <2>2. DeadlineFrom(clock) = clock + Timeout + 0 * TickMod
    BY <1>1, <1>2, <2>1
  <2> QED
    BY <2>2
<1>4. CASE clock + Timeout >= TickMod
  <2>1. at = clock + Timeout - TickMod
    BY <1>1, <1>4, ModAbove
  <2>2. CASE at = 0
    <3>1. DeadlineFrom(clock) = clock + (Timeout + 1) + (-1) * TickMod
      BY <1>1, <1>2, <2>1, <2>2
    <3> QED
      BY <3>1
  <2>3. CASE at # 0
    <3>1. DeadlineFrom(clock) = clock + Timeout + (-1) * TickMod
      BY <1>1, <1>2, <2>1, <2>3
    <3> QED
      BY <3>1
  <2> QED
    BY <2>2, <2>3
<1> QED
  BY <1>1, <1>3, <1>4

LEMMA ScheduledBySet ==
  ASSUME TypeOK, NEW t \in Tasks, Set(t)
  PROVE  OnSchedule'
<1> SUFFICES ASSUME deadline' # 0 PROVE OnSchedule'
  BY DEF OnSchedule
<1>1. /\ mode' = TRUE /\ Timeout > 0 /\ deadline' = DeadlineFrom(clock)
      /\ age' = 0 /\ clock' = clock /\ Late' = Late
  <2>1. arg[t] = TRUE /\ Timeout > 0
    BY DEF Set, TypeOK
  <2> QED
    BY <2>1 DEF Set, timing, Late
<1>2. PICK span \in {Timeout, Timeout + 1}, turns \in {-1, 0, 1} :
        DeadlineFrom(clock) = clock + span + turns * TickMod
  BY <1>1, DeadlineAhead
<1>3. Timeout \in Nat /\ Late \in Nat
  BY Sizes
<1>4. Scheduled(span, turns)'
  BY <1>1, <1>2, <1>3 DEF Scheduled
<1> QED
  BY <1>1, <1>4 DEF OnSchedule

LEMMA ScheduledByTick ==
  ASSUME TypeOK, OnSchedule, Tick
  PROVE  OnSchedule'
<1> SUFFICES ASSUME deadline' # 0 PROVE OnSchedule'
  BY DEF OnSchedule
<1>1. /\ deadline' = deadline /\ mode' = mode
      /\ clock' = (clock + 1) % TickMod /\ age' = IF age < TickMod THEN age + 1 ELSE age
  BY DEF Tick, service
<1>2. PICK span \in {Timeout, Timeout + 1}, turns \in {-1, 0, 1} : Scheduled(span, turns)
  BY <1>1 DEF OnSchedule
<1>3. /\ TickMod \in Nat \ {0} /\ Timeout \in Nat /\ 2 * (Timeout + 1) <= TickMod
      /\ clock \in 0 .. TickMod - 1 /\ deadline \in 0 .. TickMod - 1
      /\ age \in 0 .. TickMod /\ Late \in Nat /\ 2 * (Late + 1) <= TickMod
  BY Sizes
<1>4. span \in Nat /\ 2 * span <= TickMod /\ age - span <= Late
  BY <1>2, <1>3 DEF Scheduled
<1>5. age' = age + 1 /\ Late' = Late + 1
  BY <1>1, <1>3, <1>4, TickIsLate
<1>6. CASE clock + 1 < TickMod
  <2>1. clock' = clock + 1
    BY <1>1, <1>3, <1>6, ModInside
  <2>2. Scheduled(span, turns)'
    BY <1>1, <1>2, <1>3, <1>4, <1>5, <2>1 DEF Scheduled
  <2> QED
    BY <1>1, <2>2 DEF OnSchedule
<1>7. CASE clock + 1 = TickMod
  <2>1. clock' = 0
    BY <1>1, <1>3, <1>7, ModAbove
  <2>2. turns # 1
    BY <1>2, <1>3, <1>4, <1>7 DEF Scheduled
  <2>3. turns + 1 \in {-1, 0, 1}
    BY <2>2
  <2>4. Scheduled(span, turns + 1)'
    BY <1>1, <1>2, <1>3, <1>4, <1>5, <1>7, <2>1 DEF Scheduled
  <2> QED
    BY <1>1, <2>3, <2>4 DEF OnSchedule
<1> QED
  BY <1>3, <1>6, <1>7

\* A cycle that leaves the deadline has found it ahead; a late one takes it.
LEMMA ScheduledByExpire ==
  ASSUME TypeOK, OnSchedule, Expire
  PROVE  OnSchedule'
<1> SUFFICES ASSUME deadline' # 0 PROVE OnSchedule'
  BY DEF OnSchedule
<1>1. /\ deadline' = deadline /\ mode' = mode /\ mode /\ ~Expired
      /\ clock' = clock /\ age' = age
  BY DEF Expire
<1>2. PICK span \in {Timeout, Timeout + 1}, turns \in {-1, 0, 1} : Scheduled(span, turns)
  BY <1>1 DEF OnSchedule
<1>3. ~(age >= span)
  BY <1>1, <1>2, ReachedMeansDue DEF Expired
<1>4. Late' \in Nat
  <2>1. due' \in Nat /\ phase' \in Nat /\ CtlPeriod \in Nat
    BY CadenceAssumption DEF Expire, TypeOK
  <2>2. \A d, p, q \in Nat : d * p + q \in Nat
    OBVIOUS
  <2>3. Late' = due' * CtlPeriod + phase'
    BY DEF Late
  <2> QED
    BY <2>1, <2>2, <2>3, Zenon
<1>5. Scheduled(span, turns)'
  BY <1>1, <1>2, <1>3, <1>4, Sizes DEF Scheduled
<1> QED
  BY <1>1, <1>5 DEF OnSchedule

LEMMA ScheduleHolds == Spec => []OnSchedule
<1>1. Init => OnSchedule
  BY DEF Init, OnSchedule
<1>2. TypeOK /\ OnSchedule /\ [Next]_vars => OnSchedule'
  <2> SUFFICES ASSUME TypeOK, OnSchedule, [Next]_vars PROVE OnSchedule'
    OBVIOUS
  <2>1. ASSUME NEW t \in Tasks, Set(t) PROVE OnSchedule'
    BY <2>1, ScheduledBySet
  <2>2. CASE Expire
    BY <2>2, ScheduledByExpire
  <2>3. CASE Tick
    BY <2>3, ScheduledByTick
  <2>4. CASE \/ \E t \in Tasks : FanOutLed(t) \/ FanOutOob(t)
             \/ CtlTake \/ CtlRead \/ KnxTake \/ EtsWrite \/ OobStart \/ LongPress
             \/ OobLoop \/ LeaveRequest \/ LeaveFires \/ UNCHANGED vars
    <3>1. UNCHANGED <<clock, phase, due, mode, deadline, age>>
      BY <2>4 DEF FanOutLed, FanOutOob, CtlTake, CtlRead, KnxTake, EtsWrite, OobStart,
         LongPress, OobLoop, LeaveRequest, LeaveFires, vars, timing, service
    <3> QED
      BY <3>1 DEF OnSchedule, Scheduled, Late
  <2> QED
    BY <2>1, <2>2, <2>3, <2>4 DEF Next
<1> QED
  BY <1>1, <1>2, TypeCorrect, PTL DEF Spec

\* Whatever the phase of the window against the wrap of the counter and against the
\* control cycle, the synthetic press comes neither before the timeout nor later than
\* the control task is late.
THEOREM ClosesOnTime == Spec => OnTime
<1>1. TypeOK /\ OnSchedule => (Expired => age >= Timeout)
  <2> SUFFICES ASSUME TypeOK, OnSchedule, Expired PROVE age >= Timeout
    OBVIOUS
  <2>1. PICK span \in {Timeout, Timeout + 1}, turns \in {-1, 0, 1} : Scheduled(span, turns)
    BY DEF OnSchedule, Expired
  <2>2. age >= span
    BY <2>1, ReachedMeansDue DEF Expired
  <2> QED
    BY <2>2, Sizes
<1>2. TypeOK /\ OnSchedule =>
        (deadline # 0 /\ mode => age < Timeout + 1 + CtlPeriod * (MaxDue + 1))
  <2> SUFFICES ASSUME TypeOK, OnSchedule, deadline # 0
               PROVE  age < Timeout + 1 + CtlPeriod * (MaxDue + 1)
    OBVIOUS
  <2>1. PICK span \in {Timeout, Timeout + 1}, turns \in {-1, 0, 1} : Scheduled(span, turns)
    BY DEF OnSchedule
  <2>2. age - span <= Late /\ Late < CtlPeriod * (MaxDue + 1)
    BY <2>1, LateBounded DEF Scheduled
  <2> DEFINE lateness == CtlPeriod * (MaxDue + 1)
  <2>3. lateness \in Nat
    BY CadenceAssumption
  <2> HIDE DEF lateness
  <2>4. Late < lateness
    BY <2>2 DEF lateness
  <2>5. age < Timeout + 1 + lateness
    BY <2>2, <2>3, <2>4, Sizes
  <2> QED
    BY <2>5 DEF lateness
<1>3. TypeOK /\ OnSchedule =>
        [Expired /\ pc["control"] = "idle" /\ toggle' /\ deadline' = 0 => age >= Timeout]_vars
  BY <1>1
<1> QED
  BY <1>2, <1>3, ScheduleHolds, TypeCorrect, PTL DEF OnTime

-----------------------------------------------------------------------------
(* Images without the service channel.  All changes then come from one     *)
(* task, so its call is never overtaken and the copies of the state agree. *)

\* The one task that calls control_service_set_programming_mode.
Caller == IF HasKnx THEN "knx" ELSE "control"

\* The inductive invariant: nobody but the caller is ever in the call, and
\* each copy of the state is either up to date or about to be written.
SoleCaller ==
  /\ armed = FALSE /\ radio = FALSE /\ leave = "idle"
  /\ \A t \in Tasks \ {Caller} : pc[t] = "idle"
  /\ pc[Caller] # "led" => led = mode
  /\ pc[Caller] = "led" => arg[Caller] = mode
  /\ HasKnx /\ pc[Caller] # "set" => stack = mode
  /\ HasKnx /\ pc[Caller] = "set" => stack = arg[Caller]

\* On an image without the BLE channel the LED and the KNX stack's own flag
\* show the service's state whenever no call is in flight.
THEOREM CopiesAgree == Spec => []OneIndication
<1>1. Init => (~HasOob => SoleCaller)
  BY DEF Init, SoleCaller, Caller, Tasks, HasKnx
<1>2. TypeOK /\ (~HasOob => SoleCaller) /\ [Next]_vars => (~HasOob => SoleCaller)'
  <2> SUFFICES ASSUME TypeOK, ~HasOob => SoleCaller, [Next]_vars, ~HasOob' PROVE SoleCaller'
    OBVIOUS
  <2>i. image' = image
    BY DEF Next, Set, FanOutLed, FanOutOob, Expire, CtlTake, CtlRead, KnxTake, EtsWrite, OobStart,
       LongPress, OobLoop, LeaveRequest, LeaveFires, Tick, vars
  <2>n. ~HasOob /\ SoleCaller
    BY <2>i DEF HasOob
  <2>c. Caller \in Tasks /\ Caller \in {"knx", "control"} /\ (HasKnx <=> Caller = "knx")
    BY DEF Caller, Tasks
  <2>p. HasKnx' = HasKnx /\ Caller' = Caller
    BY <2>i DEF HasKnx, Caller
  <2>1. ASSUME NEW t \in Tasks, Set(t) PROVE SoleCaller'
    <3>1. t = Caller
      BY <2>1, <2>n DEF Set, SoleCaller
    <3> QED
      BY <2>1, <3>1, <2>c, <2>n, <2>p DEF Set, Changed, SoleCaller, TypeOK, mirrors
  <2>2. ASSUME NEW t \in Tasks, FanOutLed(t) \/ FanOutOob(t) PROVE SoleCaller'
    <3>1. t = Caller
      BY <2>2, <2>n DEF FanOutLed, FanOutOob, SoleCaller
    <3> QED
      BY <2>2, <3>1, <2>c, <2>n, <2>p DEF FanOutLed, FanOutOob, SoleCaller, TypeOK, service
  <2>3. CASE Expire
    BY <2>3, <2>c, <2>n, <2>p DEF Expire, Owned, SoleCaller, TypeOK, mirrors, Tasks
  <2>4. CASE CtlTake
    BY <2>4, <2>c, <2>n, <2>p DEF CtlTake, SoleCaller, TypeOK, mirrors, Tasks
  <2>5. CASE CtlRead
    BY <2>5, <2>c, <2>n, <2>p DEF CtlRead, Calls, SoleCaller, TypeOK, service, mirrors, Tasks
  <2>6. CASE KnxTake \/ EtsWrite
    BY <2>6, <2>c, <2>n, <2>p DEF KnxTake, EtsWrite, Calls, SoleCaller, TypeOK, service,
       mirrors, Tasks
  <2>7. CASE OobStart \/ OobLoop \/ LeaveRequest \/ LeaveFires
    BY <2>7, <2>n, <2>p DEF OobStart, OobLoop, LeaveRequest, LeaveFires, SoleCaller
  <2>8. CASE LongPress \/ Tick \/ UNCHANGED vars
    BY <2>8, <2>n, <2>p DEF LongPress, Tick, vars, service, mirrors, SoleCaller
  <2> QED
    BY <2>1, <2>2, <2>3, <2>4, <2>5, <2>6, <2>7, <2>8 DEF Next
<1>3. TypeOK /\ (~HasOob => SoleCaller) => OneIndication
  BY DEF SoleCaller, OneIndication, Quiet, Caller, Tasks
<1> QED
  BY <1>1, <1>2, <1>3, TypeCorrect, PTL DEF Spec

=============================================================================
