----------------------------- MODULE ModbusSlave -----------------------------
(***************************************************************************)
(* The Modbus RTU adapter: a register image that a bus master and the      *)
(* slave's own task both write, told apart by a shadow copy of what the    *)
(* task last left there, and the commissioning rule that decides which     *)
(* address the board answers to.                                           *)
(*                                                                         *)
(* The task has the lowest priority of the system.  It holds the           *)
(* controller's lock for the snapshot and for the refresh only, so a frame *)
(* of the master may land between any two of its steps.                    *)
(***************************************************************************)
EXTENDS Integers

CONSTANTS
  Frames,       \* the write frames the master sends: functions field -> value
  MaxFrames,    \* how many of them it sends (a bound)
  BusSetpoints, \* comfort setpoints that another adapter may write
  SpMin, SpMax, \* the installation's setpoint limits
  OobBauds,     \* baud codes the service channel may store
  SelectTicks,  \* MB_SERIAL_SELECT_TIMEOUT_S, in ticks
  Presses,      \* how often programming mode may change (a bound)
  Reboots,      \* how often the board may restart (a bound)
  MayFail       \* what may go wrong: "store" (the NVS write), "start" (the stack)

\* MB_SLAVE_ADDR_UNASSIGNED, _MIN, _MAX and _COMMISSIONING; MB_BAUD_CODE_COUNT.
Unassigned    == 0
Commissioning == 247
BaudCount     == 5
Counters      == {"frames", "presses", "reboots", "honoured", "acks", "ackWrites"}
Fields        == {"addr", "baud", "commit", "sp", "serial", "ack"}

ASSUME FrameAssumption ==
  \A f \in Frames : /\ DOMAIN f \subseteq Fields /\ DOMAIN f # {}
                    /\ "sp" \in DOMAIN f => f.sp \in Int
                    /\ "ack" \in DOMAIN f => f.ack \in BOOLEAN
                    /\ "serial" \in DOMAIN f => f.serial \in {"none", "mine", "other"}
ASSUME BoundAssumption ==
  /\ MaxFrames \in Nat /\ Presses \in Nat /\ Reboots \in Nat
  /\ SelectTicks \in Nat \ {0}
ASSUME LimitAssumption == SpMin \in Int /\ SpMax \in Int /\ SpMin <= SpMax
ASSUME OobAssumption == OobBauds \subseteq 0 .. 4
ASSUME BusAssumption == BusSetpoints \subseteq Int

VARIABLES
  hold,     \* holding_regs and the acknowledge coil, as a master reads them
  applied,  \* applied_holding and applied_coils
  cur,      \* mb_apply_writes(): the snapshot it works from
  line,     \* slave_address and baud_code, as the task holds them
  nvs,      \* the stored line settings
  sel,      \* ticks the serial selection is still armed for
  listen,   \* listen_address
  handle,   \* mbc_slave_handle: "up", "deleted" or "null"
  pc,       \* where the service task stands
  view,     \* the control_state_t of this cycle: programming mode and setpoint
  reconf,   \* mb_apply_writes() asked for a restart of the stack
  pm,       \* programming mode, owned by the control service
  sp,       \* the comfort setpoint, owned by the control service
  master,   \* history: what the master last wrote to each field
  seen,     \* history: master, as of the task's last snapshot
  tally,    \* history: how often each of Counters has happened
  uses      \* history: commits honoured on the serial selection last armed

task  == <<cur, line, nvs, sel, listen, handle, pc, view, reconf>>
world == <<pm, sp>>
vars  == <<hold, applied, task, world, master, seen, tally, uses>>

-----------------------------------------------------------------------------
(* modbus_registers.h: the pure decisions.                                 *)

Assignable(a) == a \in 1 .. 246

ListenAddress(assigned, programming) ==
  IF Assignable(assigned) THEN assigned
  ELSE IF programming THEN Commissioning ELSE Unassigned

\* Mutant: only the baud code is validated.
ValidLineBaud(l) == l.baud \in 0 .. BaudCount - 1

ValidLine(l) == (Assignable(l.addr) \/ l.addr = Unassigned) /\ l.baud \in 0 .. BaudCount - 1

\* mb_load_line_settings(): what a boot makes of the stored pair.
LoadLine(stored) ==
  [addr |-> IF Assignable(stored.addr) THEN stored.addr ELSE Unassigned,
   baud |-> IF stored.baud \in 0 .. BaudCount - 1 THEN stored.baud ELSE 1]

\* control_state_write(CONTROL_CMD_SETPOINT_BASE): clamped to the limits.
ClampSetpoint(v) == IF v < SpMin THEN SpMin ELSE IF v > SpMax THEN SpMax ELSE v

-----------------------------------------------------------------------------
(* The rest of the world: the bus, the button, another adapter, BLE, power. *)

\* A frame overwrites the fields it names.
Overlay(f, image) == [k \in Fields |-> IF k \in DOMAIN f THEN f[k] ELSE image[k]]

Count(events) ==
  tally' = [k \in Counters |-> IF k \in events THEN tally[k] + 1 ELSE tally[k]]

WriteFrame ==
  /\ handle = "up" /\ tally.frames < MaxFrames
  /\ \E f \in Frames :
       /\ hold'   = Overlay(f, hold)
       /\ master' = Overlay(f, master)
       /\ Count({"frames"}
            \cup (IF "ack" \in DOMAIN f /\ f.ack THEN {"ackWrites"} ELSE {}))
  /\ UNCHANGED <<applied, task, world, seen, uses>>

PressButton ==
  /\ tally.presses < Presses /\ Count({"presses"})
  /\ pm' = ~pm
  /\ UNCHANGED <<hold, applied, task, sp, master, seen, uses>>

BusSetpoint ==
  /\ sp' \in {ClampSetpoint(v) : v \in BusSetpoints}
  /\ UNCHANGED <<hold, applied, task, pm, master, seen, tally, uses>>

\* mb_cfg_set_baud(): stored now, effective at the next boot.  The service
\* channel is reachable in programming mode only.
OobBaud ==
  /\ pm
  /\ \E b \in OobBauds : nvs' = [nvs EXCEPT !.baud = b]
  /\ UNCHANGED <<hold, applied, cur, line, sel, listen, handle, pc, view, reconf,
                 world, master, seen, tally, uses>>

Tick ==
  /\ sel > 0 /\ sel' = sel - 1
  /\ UNCHANGED <<hold, applied, cur, line, nvs, listen, handle, pc, view, reconf,
                 world, master, seen, tally, uses>>

\* mb_rtu_slave_start() on a zeroed instance, from what is stored.
Blank == [addr |-> 0, baud |-> 0, commit |-> 0, sp |-> 0, serial |-> "none", ack |-> FALSE]

Reboot ==
  /\ tally.reboots < Reboots /\ Count({"reboots"})
  /\ hold' = Blank /\ applied' = Blank /\ cur' = Blank /\ master' = Blank /\ seen' = Blank
  /\ line' = LoadLine(nvs) /\ sel' = 0 /\ reconf' = FALSE
  /\ listen' = ListenAddress(LoadLine(nvs).addr, FALSE) /\ handle' = "up" /\ pc' = "get"
  /\ pm' = FALSE /\ view' = [pm |-> FALSE, sp |-> sp]
  /\ UNCHANGED <<nvs, sp, uses>>

-----------------------------------------------------------------------------
(* mb_service_task(): one cycle.                                           *)

Get ==
  /\ pc = "get" /\ pc' = "snap"
  /\ view' = [pm |-> pm, sp |-> sp]
  /\ UNCHANGED <<hold, applied, cur, line, nvs, sel, listen, handle, reconf, world,
                 master, seen, tally, uses>>

Snap ==
  /\ pc = "snap" /\ pc' = "apply"
  /\ cur' = hold /\ seen' = master
  /\ UNCHANGED <<hold, applied, line, nvs, sel, listen, handle, view, reconf, world,
                 master, tally, uses>>

\* The serial-select registers: acted on as a change, before the commit.
SelectionNow ==
  IF cur.serial = applied.serial THEN sel
  ELSE IF cur.serial = "mine" THEN SelectTicks ELSE 0

CommitAccepted ==
  cur.commit # 0 /\ (view.pm \/ SelectionNow > 0) /\ ValidLine(cur)

\* mb_store_line_settings(): address, then baud code, then the commit.
StoredLine(new) ==
  IF "store" \in MayFail THEN {nvs, [nvs EXCEPT !.addr = new.addr], new} ELSE {new}

\* Mutant: the selection outlives the commit it was made for.
SelectionKept == SelectionNow

SelectionLeft == IF CommitAccepted THEN 0 ELSE SelectionNow

AckNow == cur.ack /\ ~applied.ack

Apply ==
  LET new == [addr |-> cur.addr, baud |-> cur.baud] IN
  /\ pc = "apply" /\ pc' = "refresh"
  /\ sp' = IF cur.sp # applied.sp THEN ClampSetpoint(cur.sp) ELSE sp
  /\ sel' = SelectionLeft
  /\ reconf' = CommitAccepted
  /\ line' = IF CommitAccepted THEN new ELSE line
  /\ nvs' \in IF CommitAccepted THEN StoredLine(new) ELSE {nvs}
  /\ Count((IF AckNow THEN {"acks"} ELSE {})
           \cup (IF CommitAccepted THEN {"honoured"} ELSE {}))
  /\ uses' = (IF SelectionNow > sel THEN 0 ELSE uses)
             + (IF CommitAccepted /\ ~view.pm THEN 1 ELSE 0)
  /\ UNCHANGED <<hold, applied, cur, listen, handle, view, pm, master, seen>>

\* mb_refresh_writables(): a field that still holds what the task left there
\* is replaced by the adopted value, and the shadow copy follows the image.
Adopted(f) == CASE f = "addr"   -> line.addr
                [] f = "baud"   -> line.baud
                [] f = "commit" -> 0
                [] f = "sp"     -> view.sp
                [] f = "ack"    -> FALSE
                [] OTHER        -> hold[f]

Refreshed == [f \in Fields |-> IF hold[f] = applied[f] THEN Adopted(f) ELSE hold[f]]

\* Mutant: the shadow keeps what it held, so a read-back looks like a write.
ShadowStale == applied

Shadow == Refreshed

Refresh ==
  /\ pc = "refresh" /\ pc' = "decide"
  /\ hold' = Refreshed /\ applied' = Shadow
  /\ UNCHANGED <<cur, line, nvs, sel, listen, handle, view, reconf, world, master,
                 seen, tally, uses>>

Wanted == ListenAddress(line.addr, view.pm)

\* Mutant: the stack is restarted for a commit only.
RestartOnCommit == reconf

MustRestart == reconf \/ Wanted # listen

Decide ==
  /\ pc = "decide"
  /\ pc' = IF MustRestart THEN "stop" ELSE "get"
  /\ UNCHANGED <<hold, applied, cur, line, nvs, sel, listen, handle, view, reconf,
                 world, master, seen, tally, uses>>

\* mb_stack_stop(): the controller is deleted, then the handle is cleared.
StopStack ==
  /\ pc = "stop"
  /\ handle' = IF handle = "up" THEN "deleted" ELSE "null"
  /\ pc' = IF handle = "up" THEN "stop" ELSE "start"
  /\ UNCHANGED <<hold, applied, cur, line, nvs, sel, listen, view, reconf, world,
                 master, seen, tally, uses>>

\* mb_stack_start() may fail, and then the task ends: the board is off the bus.
StartStack ==
  /\ pc = "start" /\ listen' = Wanted
  /\ \/ handle' = "up" /\ pc' = "get"
     \/ "start" \in MayFail /\ handle' = handle /\ pc' = "gone"
  /\ UNCHANGED <<hold, applied, cur, line, nvs, sel, view, reconf, world, master,
                 seen, tally, uses>>

Init ==
  /\ nvs \in [addr : {Unassigned, 9}, baud : {1}]
  /\ line = LoadLine(nvs) /\ sel = 0 /\ reconf = FALSE
  /\ hold = Blank /\ applied = Blank /\ cur = Blank /\ master = Blank /\ seen = Blank
  /\ listen = ListenAddress(line.addr, FALSE) /\ handle = "up" /\ pc = "get"
  /\ pm = FALSE /\ sp = ClampSetpoint(SpMin) /\ view = [pm |-> FALSE, sp |-> sp]
  /\ tally = [k \in Counters |-> 0] /\ uses = 0

TaskStep == Get \/ Snap \/ Apply \/ Refresh \/ Decide \/ StopStack \/ StartStack

Next == TaskStep \/ WriteFrame \/ PressButton \/ BusSetpoint \/ OobBaud \/ Tick \/ Reboot

\* The task always gets the processor again, and time passes.
Fairness == WF_vars(TaskStep) /\ WF_vars(Tick)

Spec     == Init /\ [][Next]_vars
FairSpec == Spec /\ Fairness

-----------------------------------------------------------------------------
(* Properties.                                                             *)

\* The line settings in use are always a legal pair, whatever was written.
TypeOK ==
  /\ line \in [addr : 0 .. 246, baud : 0 .. 4] /\ sel \in 0 .. SelectTicks
  /\ {DOMAIN hold, DOMAIN applied, DOMAIN cur} = {Fields}
  /\ listen \in 0 .. Commissioning
  /\ handle \in {"up", "deleted", "null"} /\ (pc = "get" => handle = "up")
  /\ pc \in {"get", "snap", "apply", "refresh", "decide", "stop", "start", "gone"}
  /\ sp \in SpMin .. SpMax

\* A command the task issues is a value the master wrote: the device's own
\* read-back, clamped or changed from another bus, never comes back as one.
NoEcho == pc = "apply" /\ cur.sp # applied.sp => cur.sp = seen.sp

\* What is momentary acts once: a serial selection authorises one commit, and a
\* written acknowledge coil one acknowledgement.
AtMostOnce == uses <= 1 /\ tally.acks <= tally.ackWrites

\* An unassigned board goes mute when nobody stands at it any more, and comes up on
\* the commissioning address while somebody does.
FollowsProgrammingMode ==
  /\ (line.addr = Unassigned /\ ~pm) ~>
       (listen = Unassigned \/ line.addr # Unassigned \/ pm \/ pc = "gone")
  /\ (line.addr = Unassigned /\ pm) ~>
       (listen = Commissioning \/ line.addr # Unassigned \/ ~pm \/ pc = "gone")

\* "Leaving it alone lets the next cycle apply it": a write that landed
\* after the snapshot is still told apart from the task's own after the refresh.
WriteRecognised ==
  [][pc = "refresh" /\ pc' = "decide" /\ hold.sp # cur.sp => hold'.sp # applied'.sp]_vars
=============================================================================
