--------------------------- MODULE ProgrammingMode ---------------------------
(***************************************************************************)
(* The board's one "this device is selected" state and every task that     *)
(* reads or writes it: the control service that owns the flag, the         *)
(* programming button, the KNX stack that holds a flag of its own, the     *)
(* BLE service channel's leave timer, and the two mirrors (LED, radio      *)
(* intent) that follow it through a callback made outside the lock.        *)
(*                                                                         *)
(* Each section of code run under ServiceState::mutex is one action; the   *)
(* code between two sections, and after the last one, is not protected, so *)
(* another task may run there.  FreeRTOS is preemptive on a single core: a *)
(* task runs only while no task of a higher priority is in mid-routine.    *)
(***************************************************************************)
EXTENDS Integers

CONSTANTS
  Images,       \* the images: knx, with the KNX adapter, which owns programming mode,
                \* oob, with the BLE service channel, and whether the board was provisioned
  Timeout,      \* CONFIG_HABINARI_PROGRAMMING_MODE_TIMEOUT_S, in ticks; 0 = never
  TickMod,      \* the tick counter counts modulo this (2^32 in the build)
  CtlPeriod,    \* ticks from one control cycle to the next
  MaxDue,       \* how many control cycles may be waiting to run (lateness)
  Prio          \* the FreeRTOS priority of each task

Tasks == {"main", "control", "knx", "timer"}

ASSUME ImageAssumption  == Images \subseteq [knx : BOOLEAN, oob : BOOLEAN, provisioned : BOOLEAN]
\* Half the counter (24 days of the build's 49) is more than the timeout with the tick
\* by which a deadline steps over the sentinel, and more than the control task is late.
ASSUME TimeoutAssumption ==
  /\ TickMod \in Nat /\ TickMod > 2
  /\ Timeout \in Nat /\ 2 * (Timeout + 1) <= TickMod
ASSUME CadenceAssumption ==
  /\ CtlPeriod \in Nat \ {0} /\ MaxDue \in Nat \ {0}
  /\ 2 * (CtlPeriod * (MaxDue + 1)) <= TickMod
ASSUME PrioAssumption    == Prio \in [Tasks -> Nat]

VARIABLES
  image,     \* what is flashed, and on which board
  clock,     \* xTaskGetTickCount()
  phase,     \* ticks since the control cycle was last released
  due,       \* control cycles released and not yet run
  mode,      \* ServiceState::programmingModeActive
  toggle,    \* ServiceState::programmingModeToggleRequested
  deadline,  \* ServiceState::programmingModeDeadline, 0 = none
  led,       \* main.c: s_programming_mode_active
  armed,     \* oob_ble.c: s_ctx.armed
  oobMode,   \* oob_ble.c: s_ctx.programming_mode
  radio,     \* oob_ble.c: s_ctx.radio_up, as far as this component needs it
  leave,     \* the "oob-leave" one-shot timer
  stack,     \* programming mode as the KNX stack's device object holds it
  pc,        \* where each task stands
  arg,       \* the value each task passes to control_service_set_programming_mode
  age        \* history: ticks since programming mode was last armed

service == <<mode, toggle, deadline>>
mirrors == <<led, armed, oobMode, radio>>
timing  == <<clock, phase, due>>
vars    == <<image, timing, service, mirrors, leave, stack, pc, arg, age>>

HasKnx      == image.knx
HasOob      == image.oob
Provisioned == image.provisioned   \* committed once: it does not select itself

-----------------------------------------------------------------------------
(* Preemption, and the wrap-safe deadline.                                 *)

MayRun(t) == \A u \in Tasks : Prio[u] > Prio[t] => pc[u] = "idle"

\* Mutant: the two tick values compared as they are, wrap and all.
TickReachedUnsigned(now, when) == now >= when

\* tickReached(): the signed difference survives the counter wrapping.
TickReached(now, when) == 2 * ((now - when) % TickMod) < TickMod

\* Mutants: a deadline that may land on the sentinel; one wider than the counter.
DeadlineFromRaw(now)  == (now + Timeout) % TickMod
DeadlineFromWide(now) == now + Timeout

\* 0 is the "no deadline" sentinel, so a deadline landing on it moves to 1.
DeadlineFrom(now) ==
  LET at == (now + Timeout) % TickMod IN IF at = 0 THEN 1 ELSE at

-----------------------------------------------------------------------------
(* control_service_set_programming_mode: one section under the lock, then   *)
(* the callback - LED first, then the service channel - outside it.         *)

\* Mutant: the callback runs on the way in only.
ChangedOnEntry(t) == ~mode /\ arg[t]

Changed(t) == mode # arg[t]

Set(t) ==
  /\ pc[t] = "set" /\ MayRun(t)
  /\ mode' = arg[t]
  /\ deadline' = IF arg[t] /\ Timeout > 0 THEN DeadlineFrom(clock) ELSE 0
  /\ age' = 0
  /\ pc' = [pc EXCEPT ![t] = IF Changed(t) THEN "led" ELSE "idle"]
  /\ UNCHANGED <<image, toggle, timing, mirrors, leave, stack, arg>>

FanOutLed(t) ==
  /\ pc[t] = "led" /\ MayRun(t)
  /\ led' = arg[t]
  /\ pc' = [pc EXCEPT ![t] = "oob"]
  /\ UNCHANGED <<image, timing, service, armed, oobMode, radio, leave, stack, arg, age>>

FanOutOob(t) ==
  /\ pc[t] = "oob" /\ MayRun(t)
  /\ oobMode' = IF armed THEN arg[t] ELSE oobMode
  /\ pc' = [pc EXCEPT ![t] = "idle"]
  /\ UNCHANGED <<image, timing, service, led, armed, radio, leave, stack, arg, age>>

\* A task enters control_service_set_programming_mode(v).
Calls(t, v) == /\ pc'  = [pc  EXCEPT ![t] = "set"]
               /\ arg' = [arg EXCEPT ![t] = v]

-----------------------------------------------------------------------------
(* The control task: serviceProgrammingMode(), once per cycle.             *)

\* protocol_adapters_own_programming_mode(): only the KNX adapter claims it.
Owned == HasKnx

Expired == mode /\ deadline # 0 /\ TickReached(clock, deadline)

Expire ==
  /\ pc["control"] = "idle" /\ MayRun("control") /\ due > 0
  /\ due' = due - 1
  /\ deadline' = IF ~mode \/ Expired THEN 0 ELSE deadline
  /\ toggle' = (toggle \/ Expired)
  /\ pc' = [pc EXCEPT !["control"] = IF Owned THEN "idle" ELSE "take"]
  /\ UNCHANGED <<image, clock, phase, mode, mirrors, leave, stack, arg, age>>

CtlTake ==
  /\ pc["control"] = "take" /\ MayRun("control")
  /\ toggle' = FALSE
  /\ pc' = [pc EXCEPT !["control"] = IF toggle THEN "read" ELSE "idle"]
  /\ UNCHANGED <<image, timing, mode, deadline, mirrors, leave, stack, arg, age>>

CtlRead ==
  /\ pc["control"] = "read" /\ MayRun("control")
  /\ Calls("control", ~mode)
  /\ UNCHANGED <<image, timing, service, mirrors, leave, stack, age>>

-----------------------------------------------------------------------------
(* The KNX task: it consumes the toggle, and ETS reaches the flag over the  *)
(* bus.  Either way the stack reports the change back to the service.       *)

Running == HasOob => armed   \* app_main() is past oob_service_start()

KnxTake ==
  /\ HasKnx /\ toggle /\ pc["knx"] = "idle" /\ MayRun("knx")
  /\ toggle' = FALSE
  /\ stack' = ~stack
  /\ Calls("knx", ~stack)
  /\ UNCHANGED <<image, timing, mode, deadline, mirrors, leave, age>>

EtsWrite ==
  /\ HasKnx /\ Running /\ pc["knx"] = "idle" /\ MayRun("knx")
  /\ stack' = ~stack
  /\ Calls("knx", ~stack)
  /\ UNCHANGED <<image, timing, service, mirrors, leave, age>>

-----------------------------------------------------------------------------
(* The main task: start-up of the service channel, the button, the radio.  *)

OobStart ==
  /\ HasOob /\ ~armed /\ pc["main"] = "idle" /\ MayRun("main")
  /\ armed' = TRUE
  /\ IF Provisioned THEN UNCHANGED <<pc, arg>> ELSE Calls("main", TRUE)
  /\ UNCHANGED <<image, timing, service, led, oobMode, radio, leave, stack, age>>

LongPress ==
  /\ Running /\ pc["main"] = "idle" /\ MayRun("main")
  /\ toggle' = TRUE
  /\ UNCHANGED <<image, timing, mode, deadline, mirrors, leave, stack, pc, arg, age>>

\* oob_service_loop(): the radio follows the recorded intent.
OobLoop ==
  /\ armed /\ pc["main"] = "idle" /\ MayRun("main") /\ radio # oobMode
  /\ radio' = oobMode
  /\ UNCHANGED <<image, timing, service, led, armed, oobMode, leave, stack, pc, arg, age>>

-----------------------------------------------------------------------------
(* OOB_CMD_END_COMMISSIONING: a client asks to leave, a timer carries it   *)
(* out OOB_DEFER_MS later.                                                 *)

LeaveRequest ==
  /\ radio
  /\ leave' = "armed"
  /\ UNCHANGED <<image, timing, service, mirrors, stack, pc, arg, age>>

LeaveFires ==
  /\ leave = "due" /\ pc["timer"] = "idle" /\ MayRun("timer")
  /\ leave' = "idle"
  /\ Calls("timer", FALSE)
  /\ UNCHANGED <<image, timing, service, mirrors, stack, age>>

-----------------------------------------------------------------------------
(* Time.  A tick is long against the code of any task, so no task is in     *)
(* mid-routine when it passes; the main loop polls many times per tick.  A  *)
(* tick is as long as the leave timer's delay (500 ms, half the period of   *)
(* the control task), so the timer fires after the next tick and before the *)
(* one that follows.                                                        *)

Tick ==
  /\ \A t \in Tasks : pc[t] = "idle"
  /\ Running /\ (armed => radio = oobMode)
  /\ leave # "due"
  /\ phase + 1 = CtlPeriod => due < MaxDue
  /\ clock' = (clock + 1) % TickMod
  /\ phase' = (phase + 1) % CtlPeriod
  /\ due' = IF phase + 1 = CtlPeriod THEN due + 1 ELSE due
  /\ leave' = IF leave = "armed" THEN "due" ELSE leave
  /\ age' = IF age < TickMod THEN age + 1 ELSE age
  /\ UNCHANGED <<image, service, mirrors, stack, pc, arg>>

Init ==
  /\ image \in Images
  /\ clock \in 0 .. TickMod - 1 /\ phase = 0 /\ due = 0
  /\ mode = FALSE /\ toggle = FALSE /\ deadline = 0
  /\ led = FALSE /\ armed = FALSE /\ oobMode = FALSE /\ radio = FALSE
  /\ leave = "idle" /\ stack = FALSE
  /\ pc = [t \in Tasks |-> "idle"] /\ arg = [t \in Tasks |-> FALSE]
  /\ age = 0

Next ==
  \/ \E t \in Tasks : Set(t) \/ FanOutLed(t) \/ FanOutOob(t)
  \/ Expire \/ CtlTake \/ CtlRead
  \/ KnxTake \/ EtsWrite
  \/ OobStart \/ LongPress \/ OobLoop
  \/ LeaveRequest \/ LeaveFires
  \/ Tick

\* The scheduler runs every ready task and time passes; nobody has to press
\* the button, and neither ETS nor a BLE client has to do anything.
Fairness ==
  /\ \A t \in Tasks : WF_vars(Set(t)) /\ WF_vars(FanOutLed(t)) /\ WF_vars(FanOutOob(t))
  /\ WF_vars(Expire) /\ WF_vars(CtlTake) /\ WF_vars(CtlRead)
  /\ WF_vars(KnxTake)
  /\ WF_vars(OobStart) /\ WF_vars(OobLoop)
  /\ WF_vars(LeaveFires)
  /\ WF_vars(Tick)

Spec     == Init /\ [][Next]_vars
FairSpec == Spec /\ Fairness

-----------------------------------------------------------------------------
(* Properties.                                                             *)

\* Every variable stays in its range; in particular the deadline is a tick
\* value and the task positions are the ones the code has.
TypeOK ==
  /\ image \in Images
  /\ clock \in 0 .. TickMod - 1 /\ phase \in 0 .. CtlPeriod - 1 /\ due \in 0 .. MaxDue
  /\ {mode, toggle, led, armed, oobMode, radio, stack} \subseteq BOOLEAN
  /\ deadline \in 0 .. TickMod - 1
  /\ leave \in {"idle", "armed", "due"}
  /\ pc \in [Tasks -> {"idle", "take", "read", "set", "led", "oob"}]
  /\ arg \in [Tasks -> BOOLEAN]
  /\ age \in 0 .. TickMod

Quiet == \A t \in Tasks : pc[t] = "idle"

\* "There is no route into programming mode that leaves it open
\* indefinitely": while the board is selected and a timeout is configured,
\* either the deadline is armed or somebody already holds the request that
\* the expired deadline raised.
WindowBounded ==
  mode /\ Timeout > 0 =>
    \/ deadline # 0
    \/ toggle
    \/ pc["control"] \in {"read", "set"}
    \/ pc["knx"] = "set"

\* Neither early nor late, over the counter's wrap: the synthetic button press is
\* raised when the timeout has run and no sooner, and a pending deadline is never
\* older than the timeout plus the cycles the control task may be late (and one
\* tick for a deadline that fell on the sentinel).
OnTime ==
  /\ [][Expired /\ pc["control"] = "idle" /\ toggle' /\ deadline' = 0 => age >= Timeout]_vars
  /\ [](deadline # 0 /\ mode => age < Timeout + 1 + CtlPeriod * (MaxDue + 1))

\* "One state, one indication": with no call in flight the LED, and the KNX stack's
\* own programming mode, show the service's state.  With the BLE channel two tasks
\* make changes, and the callback of the earlier may come last.
OneIndication == Quiet /\ ~HasOob => led = mode /\ (HasKnx => stack = mode)

\* A selected board always lapses, whatever was pressed or sent meanwhile, and so
\* does the KNX stack's copy.
Lapses == Timeout > 0 => (mode ~> ~mode) /\ (stack ~> ~stack)
=============================================================================
