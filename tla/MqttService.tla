----------------------------- MODULE MqttService -----------------------------
(***************************************************************************)
(* The MQTT adapter: the event handler, which runs on the client's task,   *)
(* and the publishing task, which it may interrupt.  The three flags and   *)
(* the last document are shared between them without a lock.  The client   *)
(* and the broker are external: the client holds the session and delivers  *)
(* events in their order, the broker keeps the last retained document.     *)
(***************************************************************************)
EXTENDS WifiStation

CONSTANTS MaxState,      \* bound: changes of the control state
          MaxCommands    \* bound: commands in one run

ASSUME MqttAssumption == MaxState \in Nat /\ MaxCommands \in Nat

VARIABLES
  session,      \* the client has a connection to the broker
  inbox,        \* its events: "connected" | "disconnected" | "command"
  hpc,          \* the handler: "idle" | "connected"
  adapter,      \* "boot" | "running" | "failed"
  connected, discovery_pending, publish_forced,   \* s_ctx
  last,         \* last_payload; 0 when it is cleared
  note,         \* the task is notified
  tpc,          \* the task: "wait" | "test" | "discovery" | "read" | "clear" | "get" | "publish" | "remember"
  force, doc,   \* its locals: force, and payload
  state,        \* what control_state_get() would return, numbered from 1
  retained,     \* the document the broker holds, 0 if none
  entities,     \* the broker holds the discovery config
  follows,      \* and a document that was published after it
  commands      \* bound

client == <<session, inbox, hpc>>
shared == <<connected, discovery_pending, publish_forced, last, note>>
task   == <<tpc, force, doc>>
broker == <<retained, entities, follows>>
mqtt   == <<client, adapter, shared, task, state, broker, commands>>

-----------------------------------------------------------------------------
(* The adapter, the client and the broker.                                 *)

\* No broker in NVS, no station, no memory: the adapter stays off for good.
AdapterStart ==
  /\ adapter = "boot"
  /\ \/ WifiStart(TRUE) /\ adapter' \in {"running", "failed"}
     \/ WifiStart(FALSE) /\ adapter' = "failed"
  /\ UNCHANGED <<client, shared, task, state, broker, commands>>

OpenSession ==
  /\ adapter = "running" /\ ~session /\ addr # 0
  /\ session' = TRUE /\ inbox' = Append(inbox, "connected")
  /\ \/ UNCHANGED broker
     \/ retained' = 0 /\ entities' = FALSE /\ follows' = FALSE     \* it was restarted
  /\ UNCHANGED <<wifi, hpc, adapter, shared, task, state, commands>>

LoseSession ==
  /\ session /\ addr = 0
  /\ session' = FALSE /\ inbox' = Append(inbox, "disconnected")
  /\ UNCHANGED <<wifi, hpc, adapter, shared, task, state, broker, commands>>

Command ==
  /\ session /\ connected /\ commands < MaxCommands
  /\ commands' = commands + 1 /\ inbox' = Append(inbox, "command")
  /\ UNCHANGED <<wifi, session, hpc, adapter, shared, task, state, broker>>

-----------------------------------------------------------------------------
(* The event handler.                                                      *)

Event(e) == hpc = "idle" /\ inbox # <<>> /\ Head(inbox) = e /\ inbox' = Tail(inbox)

\* Subscribing and the birth message are sent before the rest is written.
OnConnected ==
  /\ Event("connected") /\ hpc' = "connected" /\ connected' = TRUE
  /\ UNCHANGED <<wifi, session, adapter, discovery_pending, publish_forced, last, note, task, state, broker, commands>>

\* Mutant: a reconnect does not announce the device again.
AnnounceState ==
  /\ hpc = "connected" /\ hpc' = "idle"
  /\ last' = 0 /\ note' = TRUE
  /\ UNCHANGED <<wifi, session, inbox, adapter, connected, discovery_pending, publish_forced, task, state, broker, commands>>

Announce ==
  /\ hpc = "connected" /\ hpc' = "idle"
  /\ discovery_pending' = TRUE /\ last' = 0 /\ note' = TRUE
  /\ UNCHANGED <<wifi, session, inbox, adapter, connected, publish_forced, task, state, broker, commands>>

OnDisconnected ==
  /\ Event("disconnected") /\ connected' = FALSE
  /\ UNCHANGED <<wifi, session, hpc, adapter, discovery_pending, publish_forced, last, note, task, state, broker, commands>>

\* An unknown or rejected command ends here.
RejectCommand ==
  /\ Event("command")
  /\ UNCHANGED <<wifi, session, hpc, adapter, shared, task, state, broker, commands>>

\* An accepted one may leave the state as it was: it is answered all the same.
HandleCommand ==
  /\ Event("command")
  /\ state' \in {s \in {state, state + 1} : s <= MaxState + 1}
  /\ publish_forced' = TRUE /\ note' = TRUE
  /\ UNCHANGED <<wifi, session, hpc, adapter, connected, discovery_pending, last, task, broker, commands>>

Handler == OnConnected \/ Announce \/ OnDisconnected \/ RejectCommand \/ HandleCommand

-----------------------------------------------------------------------------
(* The control task, and the publishing task.                              *)

MqttOnControlTick ==
  /\ adapter = "running"
  /\ state' \in {s \in {state, state + 1} : s <= MaxState + 1}
  /\ note' = (note \/ connected)
  /\ <<state, note>>' # <<state, note>>
  /\ UNCHANGED <<wifi, client, adapter, connected, discovery_pending, publish_forced, last, task, broker, commands>>

Quiet == <<wifi, client, adapter, connected, state>>

TaskWake ==
  /\ adapter = "running" /\ tpc = "wait" /\ note /\ note' = FALSE /\ tpc' = "test"
  /\ UNCHANGED <<Quiet, discovery_pending, publish_forced, last, force, doc, broker, commands>>

TestConnected ==
  /\ tpc = "test"
  /\ tpc' = CASE ~connected                      -> "wait"
              [] connected /\ discovery_pending  -> "discovery"
              [] connected /\ ~discovery_pending -> "read"
  /\ discovery_pending' = (discovery_pending /\ ~connected)
  /\ UNCHANGED <<Quiet, publish_forced, last, note, force, doc, broker, commands>>

\* The document has to follow the discovery config, so it is published anyhow.
PublishDiscovery ==
  /\ tpc = "discovery" /\ tpc' = "read" /\ publish_forced' = TRUE
  /\ IF session THEN entities' = TRUE /\ follows' = FALSE ELSE UNCHANGED <<entities, follows>>
  /\ UNCHANGED <<Quiet, discovery_pending, last, note, force, doc, retained, commands>>

ReadForced ==
  /\ tpc = "read" /\ tpc' = "clear" /\ force' = publish_forced
  /\ UNCHANGED <<Quiet, discovery_pending, publish_forced, last, note, doc, broker, commands>>

ClearForced ==
  /\ tpc = "clear" /\ tpc' = "get" /\ publish_forced' = FALSE
  /\ UNCHANGED <<Quiet, discovery_pending, last, note, force, doc, broker, commands>>

GetState ==
  /\ tpc = "get" /\ tpc' = "publish" /\ doc' = state
  /\ UNCHANGED <<Quiet, discovery_pending, publish_forced, last, note, force, broker, commands>>

\* Forced, changed, or the heartbeat is due; QoS 0, and the result is ignored.
PublishState(heartbeat_due) ==
  /\ tpc = "publish"
  /\ IF force \/ doc # last \/ heartbeat_due
     THEN /\ tpc' = "remember"
          /\ IF session THEN retained' = doc /\ follows' = TRUE
             ELSE UNCHANGED <<retained, follows>>
     ELSE tpc' = "wait" /\ UNCHANGED <<retained, follows>>
  /\ UNCHANGED <<Quiet, discovery_pending, publish_forced, last, note, force, doc, entities, commands>>

Remember ==
  /\ tpc = "remember" /\ tpc' = "wait" /\ last' = doc
  /\ UNCHANGED <<Quiet, discovery_pending, publish_forced, note, force, doc, broker, commands>>

PublishTask == \/ TaskWake \/ TestConnected \/ PublishDiscovery \/ ReadForced \/ ClearForced
               \/ GetState \/ Remember \/ \E due \in BOOLEAN : PublishState(due)

MqttInit ==
  /\ session = FALSE /\ inbox = <<>> /\ hpc = "idle" /\ adapter = "boot"
  /\ connected = FALSE /\ discovery_pending = FALSE /\ publish_forced = FALSE
  /\ last = 0 /\ note = FALSE /\ tpc = "wait" /\ force = FALSE /\ doc = 0 /\ state = 1
  /\ retained = 0 /\ entities = FALSE /\ follows = FALSE
  /\ commands = 0

MqttTypeOK ==
  /\ inbox \in Seq({"connected", "disconnected", "command"}) /\ hpc \in {"idle", "connected"}
  /\ adapter \in {"boot", "running", "failed"}
  /\ {session, connected, discovery_pending, publish_forced, note, force, entities, follows} \subseteq BOOLEAN
  /\ tpc \in {"wait", "test", "discovery", "read", "clear", "get", "publish", "remember"}
  /\ {last, doc, retained} \subseteq 0 .. MaxState + 1 /\ state \in 1 .. MaxState + 1
  /\ commands \in 0 .. MaxCommands
=============================================================================
