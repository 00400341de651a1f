-------------------------- MODULE ModbusSlaveProofs --------------------------
(***************************************************************************)
(* What the register image and the commissioning rule guarantee for every  *)
(* set of frames, every timing of the bus and every bound.                 *)
(***************************************************************************)
EXTENDS ModbusSlave, TLAPS

\* A register image: a function on the fields whose setpoint is a number.
IsImage(i) == i = [k \in Fields |-> i[k]] /\ i.sp \in Int

\* The inductive strengthening of TypeOK: the images are images, the states
\* of a restart are the only ones without a running controller.
Typed ==
  /\ IsImage(hold) /\ IsImage(applied) /\ IsImage(cur)
  /\ view.sp \in SpMin .. SpMax
  /\ pc \in {"get", "snap", "apply", "refresh", "decide"} => handle = "up"

LEMMA Overlaid ==
  ASSUME NEW f \in Frames, NEW i, IsImage(i)
  PROVE  IsImage(Overlay(f, i))
BY FrameAssumption DEF IsImage, Overlay, Fields

LEMMA Clamped ==
  ASSUME NEW v \in Int
  PROVE  ClampSetpoint(v) \in SpMin .. SpMax
BY LimitAssumption DEF ClampSetpoint

LEMMA Loaded ==
  ASSUME NEW stored
  PROVE  LoadLine(stored) \in [addr : 0 .. 246, baud : 0 .. 4]
BY DEF LoadLine, Assignable, Unassigned, BaudCount

LEMMA ListenRange ==
  ASSUME NEW a \in 0 .. 246, NEW p
  PROVE  ListenAddress(a, p) \in 0 .. Commissioning
BY DEF ListenAddress, Commissioning, Unassigned, Assignable

LEMMA Blanked == IsImage(Blank)
BY DEF IsImage, Blank, Fields

\* Whatever is written, the line settings in use are a legal pair, and the
\* task finds the controller running at the top of every cycle.
THEOREM TypeCorrect == Spec => []TypeOK
<1> USE BoundAssumption, LimitAssumption
<1>1. Init => TypeOK /\ Typed
  <2> SUFFICES ASSUME Init PROVE TypeOK /\ Typed
    OBVIOUS
  <2>1. line \in [addr : 0 .. 246, baud : 0 .. 4]
    BY Loaded DEF Init
  <2>2. listen \in 0 .. Commissioning
    BY <2>1, ListenRange DEF Init
  <2>3. sp \in SpMin .. SpMax
    BY Clamped DEF Init
  <2>4. DOMAIN Blank = Fields
    BY DEF Blank, Fields
  <2>5. {DOMAIN hold, DOMAIN applied, DOMAIN cur} = {Fields}
    BY <2>4 DEF Init
  <2>6. IsImage(hold) /\ IsImage(applied) /\ IsImage(cur)
    BY Blanked DEF Init
  <2>7. view.sp \in SpMin .. SpMax
    BY <2>3 DEF Init
  <2>8. sel \in 0 .. SelectTicks /\ handle = "up" /\ pc = "get"
    BY DEF Init
  <2> QED
    BY <2>1, <2>2, <2>3, <2>5, <2>6, <2>7, <2>8 DEF TypeOK, Typed
<1>2. TypeOK /\ Typed /\ [Next]_vars => TypeOK' /\ Typed'
  <2> SUFFICES ASSUME TypeOK, Typed, [Next]_vars PROVE TypeOK' /\ Typed'
    OBVIOUS
  <2> USE DEF TypeOK, Typed
  <2>1. CASE Get
    BY <2>1 DEF Get, world
  <2>2. CASE Snap
    BY <2>2 DEF Snap, world
  <2>3. CASE Apply
    <3>1. sel' \in 0 .. SelectTicks
      BY <2>3 DEF Apply, SelectionLeft, SelectionNow
    <3>2. line' \in [addr : 0 .. 246, baud : 0 .. 4]
      <4>1. CASE CommitAccepted
        <5>1. cur.addr \in 0 .. 246 /\ cur.baud \in 0 .. 4
          BY ONLY <4>1 DEF CommitAccepted, ValidLine, Assignable, Unassigned, BaudCount
        <5>2. line' = [addr |-> cur.addr, baud |-> cur.baud]
          BY <2>3, <4>1 DEF Apply
        <5> QED
          BY ONLY <5>1, <5>2
      <4>2. CASE ~CommitAccepted
        BY <2>3, <4>2 DEF Apply
      <4> QED
        BY <4>1, <4>2
    <3>3. sp' \in SpMin .. SpMax
      BY <2>3, Clamped DEF Apply, IsImage
    <3> QED
      BY <2>3, <3>1, <3>2, <3>3 DEF Apply
  <2>4. CASE Refresh
    <3>1. IsImage(Refreshed) /\ DOMAIN Refreshed = Fields
      <4>1. Refreshed.sp \in Int
        BY DEF Refreshed, Adopted, IsImage, Fields
      <4> QED
        BY <4>1 DEF Refreshed, IsImage
    <3> QED
      BY <2>4, <3>1 DEF Refresh, Shadow, world
  <2>5. CASE Decide
    BY <2>5 DEF Decide, world
  <2>6. CASE StopStack
    BY <2>6 DEF StopStack, world
  <2>7. CASE StartStack
    <3>1. Wanted \in 0 .. Commissioning
      BY ListenRange DEF Wanted
    <3> QED
      BY <2>7, <3>1 DEF StartStack, world
  <2>8. CASE WriteFrame
    <3>1. PICK f \in Frames : hold' = Overlay(f, hold)
      BY <2>8 DEF WriteFrame
    <3>2. IsImage(hold') /\ DOMAIN hold' = Fields
      BY <3>1, Overlaid DEF Overlay
    <3> QED
      BY <2>8, <3>2 DEF WriteFrame, task, world
  <2>9. CASE PressButton
    BY <2>9 DEF PressButton, task
  <2>10. CASE BusSetpoint
    <3>1. BusSetpoints \subseteq Int
      BY BusAssumption
    <3>2. sp' \in SpMin .. SpMax
      BY <2>10, <3>1, Clamped DEF BusSetpoint
    <3> QED
      BY <2>10, <3>2 DEF BusSetpoint, task
  <2>11. CASE OobBaud
    BY <2>11 DEF OobBaud, world
  <2>12. CASE Tick
    BY <2>12 DEF Tick, world
  <2>13. CASE Reboot
    <3>1. line' \in [addr : 0 .. 246, baud : 0 .. 4]
      BY <2>13, Loaded DEF Reboot
    <3>2. listen' \in 0 .. Commissioning
      BY <2>13, <3>1, ListenRange DEF Reboot
    <3>3. DOMAIN Blank = Fields
      BY DEF Blank, Fields
    <3>4. {DOMAIN hold', DOMAIN applied', DOMAIN cur'} = {Fields}
      BY <2>13, <3>3 DEF Reboot
    <3>5. IsImage(hold)' /\ IsImage(applied)' /\ IsImage(cur)'
      BY <2>13, Blanked DEF Reboot, IsImage
    <3>6. view'.sp \in SpMin .. SpMax /\ sp' \in SpMin .. SpMax
      BY <2>13 DEF Reboot
    <3>7. sel' \in 0 .. SelectTicks /\ handle' = "up" /\ pc' = "get"
      BY <2>13 DEF Reboot
    <3> QED
      BY <3>1, <3>2, <3>4, <3>5, <3>6, <3>7
  <2>14. CASE UNCHANGED vars
    BY <2>14 DEF vars, task, world
  <2> QED
    BY <2>1, <2>2, <2>3, <2>4, <2>5, <2>6, <2>7, <2>8, <2>9, <2>10, <2>11, <2>12,
       <2>13, <2>14 DEF Next, TaskStep
<1> QED
  BY <1>1, <1>2, PTL DEF Spec

-----------------------------------------------------------------------------
(* The shadow copy.                                                        *)

\* The inductive invariant: a register differs from the shadow only where
\* the master wrote what it now holds, and the snapshot is of that kind.
ShadowInv ==
  /\ \A k \in Fields : hold[k] # applied[k] => hold[k] = master[k]
  /\ pc = "apply" => \A k \in Fields : cur[k] # applied[k] => cur[k] = seen[k]
  /\ hold = [k \in Fields |-> hold[k]] /\ master = [k \in Fields |-> master[k]]

\* Every command the task issues is the value the master last wrote when the
\* snapshot was taken: a read-back never comes back as a command.
THEOREM ReadbackIsNoCommand == Spec => []NoEcho
<1>1. Init => ShadowInv
  BY DEF Init, ShadowInv, Blank, Fields
<1>2. ShadowInv /\ [Next]_vars => ShadowInv'
  <2> SUFFICES ASSUME ShadowInv, [Next]_vars PROVE ShadowInv'
    OBVIOUS
  <2> USE DEF ShadowInv
  <2>1. CASE Snap
    BY <2>1 DEF Snap
  <2>2. CASE Apply
    BY <2>2 DEF Apply
  <2>3. CASE Refresh
    BY <2>3 DEF Refresh, Shadow, Refreshed
  <2>4. CASE WriteFrame
    <3>1. PICK f \in Frames : hold' = Overlay(f, hold) /\ master' = Overlay(f, master)
      BY <2>4 DEF WriteFrame
    <3> QED
      BY <2>4, <3>1 DEF WriteFrame, Overlay, task
  <2>5. CASE Reboot
    BY <2>5 DEF Reboot, Blank, Fields
  <2>6. CASE Get \/ Decide \/ StopStack \/ StartStack
    BY <2>6 DEF Get, Decide, StopStack, StartStack
  <2>7. CASE PressButton \/ BusSetpoint \/ OobBaud \/ Tick \/ UNCHANGED vars
    BY <2>7 DEF PressButton, BusSetpoint, OobBaud, Tick, vars, task
  <2> QED
    BY <2>1, <2>2, <2>3, <2>4, <2>5, <2>6, <2>7 DEF Next, TaskStep
<1>3. ShadowInv => NoEcho
  BY DEF ShadowInv, NoEcho, Fields
<1> QED
  BY <1>1, <1>2, <1>3, PTL DEF Spec

-----------------------------------------------------------------------------
(* Counting: what one write of the master can cause.                       *)

\* The inductive invariant: a selection is spent before it can be used again,
\* and an acknowledge that is still to be acted on has been counted.
CountInv ==
  /\ tally \in [Counters -> Int]
  /\ uses \in {0, 1} /\ (uses = 1 => sel = 0)
  /\ tally.acks <= tally.ackWrites
  /\ pc \notin {"apply", "refresh"} /\ hold.ack /\ ~applied.ack
       => tally.acks < tally.ackWrites
  /\ pc = "apply" /\ cur.ack /\ ~applied.ack => tally.acks < tally.ackWrites

\* A serial selection authorises one commit and a written acknowledge one
\* acknowledgement, and no more.
THEOREM OneCommitPerSelection == Spec => []AtMostOnce
<1> USE BoundAssumption, LimitAssumption
<1>1. Init => CountInv
  BY DEF Init, CountInv, Counters, Blank
<1>2. TypeOK /\ CountInv /\ [Next]_vars => CountInv'
  <2> SUFFICES ASSUME TypeOK, CountInv, [Next]_vars PROVE CountInv'
    OBVIOUS
  <2> USE DEF CountInv, TypeOK
  <2>1. CASE Get \/ Decide \/ StopStack \/ StartStack
    BY <2>1 DEF Get, Decide, StopStack, StartStack
  <2>2. CASE Snap
    BY <2>2 DEF Snap
  <2>3. CASE Apply
    <3>1. tally' \in [Counters -> Int]
      BY <2>3 DEF Apply, Count
    <3>2. uses' \in {0, 1} /\ (uses' = 1 => sel' = 0)
      BY <2>3 DEF Apply, SelectionLeft, SelectionNow, CommitAccepted
    <3>3. tally'.acks <= tally'.ackWrites
      BY <2>3 DEF Apply, Count, Counters, AckNow
    <3>4. pc' = "refresh"
      BY <2>3 DEF Apply
    <3> QED
      BY <3>1, <3>2, <3>3, <3>4
  <2>4. CASE Refresh
    BY <2>4 DEF Refresh, Shadow
  <2>5. CASE WriteFrame
    <3>1. PICK f \in Frames :
            /\ hold' = Overlay(f, hold)
            /\ Count({"frames"}
                 \cup (IF "ack" \in DOMAIN f /\ f.ack THEN {"ackWrites"} ELSE {}))
      BY <2>5 DEF WriteFrame
    <3>a. tally' \in [Counters -> Int] /\ tally'.acks = tally.acks
      BY <3>1 DEF Count, Counters
    <3>b. tally'.ackWrites = IF "ack" \in DOMAIN f /\ f.ack
                             THEN tally.ackWrites + 1 ELSE tally.ackWrites
      BY <3>1 DEF Count, Counters
    <3>2. hold'.ack = IF "ack" \in DOMAIN f THEN f.ack ELSE hold.ack
      BY <3>1 DEF Overlay, Fields
    <3>3. UNCHANGED <<applied, cur, pc, sel, uses>>
      BY <2>5 DEF WriteFrame, task
    <3>4. tally.acks \in Int /\ tally.ackWrites \in Int
      BY DEF Counters
    <3>5. CASE "ack" \in DOMAIN f /\ f.ack
      <4>1. tally'.acks < tally'.ackWrites
        BY <3>a, <3>b, <3>4, <3>5
      <4>2. tally'.acks <= tally'.ackWrites
        BY <3>a, <3>b, <3>4, <3>5
      <4> QED
        BY <3>a, <3>3, <4>1, <4>2
    <3>6. CASE ~("ack" \in DOMAIN f /\ f.ack)
      <4>1. hold'.ack => hold.ack
        BY <3>2, <3>6
      <4>2. tally'.ackWrites = tally.ackWrites
        BY <3>b, <3>6
      <4>3. hold'.ack /\ ~applied'.ack => hold.ack /\ ~applied.ack
        BY <3>3, <4>1
      <4>4. tally'.acks <= tally'.ackWrites
        BY <3>a, <4>2
      <4>5. pc' \notin {"apply", "refresh"} /\ hold'.ack /\ ~applied'.ack
              => tally'.acks < tally'.ackWrites
        BY <3>a, <3>3, <4>2, <4>3
      <4>6. pc' = "apply" /\ cur'.ack /\ ~applied'.ack => tally'.acks < tally'.ackWrites
        BY <3>a, <3>3, <4>2
      <4> QED
        BY <3>a, <3>3, <4>4, <4>5, <4>6
    <3> QED
      BY <3>5, <3>6
  <2>6. CASE PressButton
    BY <2>6 DEF PressButton, Count, Counters, task
  <2>7. CASE BusSetpoint
    BY <2>7 DEF BusSetpoint, task
  <2>8. CASE OobBaud
    BY <2>8 DEF OobBaud
  <2>9. CASE Tick
    BY <2>9 DEF Tick
  <2>10. CASE Reboot
    BY <2>10 DEF Reboot, Count, Counters, Blank
  <2>11. CASE UNCHANGED vars
    BY <2>11 DEF vars, task
  <2> QED
    BY <2>1, <2>2, <2>3, <2>4, <2>5, <2>6, <2>7, <2>8, <2>9, <2>10, <2>11
    DEF Next, TaskStep
<1>3. CountInv => AtMostOnce
  BY DEF CountInv, AtMostOnce
<1> QED
  BY <1>1, <1>2, <1>3, TypeCorrect, PTL DEF Spec

=============================================================================
