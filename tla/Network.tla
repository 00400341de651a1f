------------------------------- MODULE Network -------------------------------
(***************************************************************************)
(* A device on Wi-Fi: the station, and on top of it the one adapter its    *)
(* image has, KNXnet/IP or MQTT.                                           *)
(***************************************************************************)
EXTENDS KnxIpRouting, MqttService

VARIABLE image     \* "knxip" | "mqtt": what the device was built as

network == <<image, wifi, routing, mqtt>>

\* knxAdapterStart() goes on without a network.
KnxAdapterStart ==
  /\ adapter = "boot" /\ adapter' = "running"
  /\ \E ok \in BOOLEAN : WifiStart(ok)
  /\ UNCHANGED <<client, shared, task, state, broker, commands>>

Start == IF image = "knxip" THEN KnxAdapterStart /\ UNCHANGED <<image, routing>>
                            ELSE AdapterStart /\ UNCHANGED <<image, routing>>

Quietly(A) == A /\ UNCHANGED <<image, routing, mqtt>>

LoseNetwork ==
  Lose /\ Leave /\ UNCHANGED <<image, kpc, without, callback, dirty, shown, mqtt>>

NewLease ==
  Renew /\ Release /\ UNCHANGED <<image, kpc, without, callback, dirty, shown, mqtt>>

EventLoop ==
  \/ Quietly(StaStart)
  \/ Quietly(Disconnected)
  \/ GotIp /\ Notify /\ UNCHANGED <<image, kpc, without, callback, member, shown, unlucky, mqtt>>

Timer == Quietly(ReconnectTimer)

Knx  == image = "knxip" /\ adapter = "running" /\ RoutingTask /\ UNCHANGED <<image, mqtt>>

Mqtt(A) == image = "mqtt" /\ A /\ UNCHANGED <<image, routing>>

NetworkNext ==
  \/ Start
  \/ Quietly(AccessPoint) \/ Quietly(Associate) \/ NewLease \/ LoseNetwork
  \/ EventLoop \/ Timer \/ Knx
  \/ Mqtt(OpenSession) \/ Mqtt(LoseSession) \/ Mqtt(Command)
  \/ Mqtt(Handler) \/ Mqtt(MqttOnControlTick) \/ Mqtt(PublishTask)

NetworkInit == image \in {"knxip", "mqtt"} /\ WifiInit /\ RoutingInit /\ MqttInit

\* The event loop, the timer and the tasks run, and the driver reports what becomes
\* of an attempt; the access point and the people who send commands owe nothing.
NetworkSpec ==
  /\ NetworkInit /\ [][NetworkNext]_network
  /\ WF_network(Start) /\ WF_network(Quietly(Associate)) /\ WF_network(LoseNetwork)
  /\ WF_network(EventLoop) /\ WF_network(Timer) /\ WF_network(Knx)
  /\ WF_network(Mqtt(OpenSession)) /\ WF_network(Mqtt(LoseSession))
  /\ WF_network(Mqtt(Handler)) /\ WF_network(Mqtt(MqttOnControlTick)) /\ WF_network(Mqtt(PublishTask))

-----------------------------------------------------------------------------
(* Properties.                                                             *)

\* Every variable keeps its range.
NetworkTypeOK == image \in {"knxip", "mqtt"} /\ WifiTypeOK /\ RoutingTypeOK /\ MqttTypeOK

\* The station always tries again, and tells its adapters the truth.
StationRecovers == NeverStranded /\ ToldTruth

\* On a network that stays the adapter makes up for whatever it missed.  KNXnet/IP ends
\* up in the routing group and publishes the address it has, unless the network came
\* and went in the moment between the check and the callback; the broker ends up
\* with the entities, and after them with the state of the room.
AdapterCatchesUp ==
  /\ <>[](image = "knxip" /\ started /\ ap) /\ []~unlucky =>
       <>[](member /\ shown = addr)
  /\ <>[](image = "mqtt" /\ adapter = "running" /\ ap) =>
       <>[](entities /\ follows /\ retained = state)
=============================================================================
