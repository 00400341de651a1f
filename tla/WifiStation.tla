----------------------------- MODULE WifiStation -----------------------------
(***************************************************************************)
(* The Wi-Fi station: how it comes up, how it associates, and how it comes *)
(* back.  Its state is what the adapters on top of it ask for, and its     *)
(* handlers run on the event loop, after the events they are about.        *)
(***************************************************************************)
EXTENDS Naturals, Sequences, SequencesExt

CONSTANTS
  Addresses,   \* what the DHCP server may lease
  MaxFlaps     \* bound: changes of the access point and of the lease

ASSUME WifiAssumption == 0 \notin Addresses /\ MaxFlaps \in Nat

VARIABLES
  ap,           \* the access point answers, to the credentials the device has
  link,         \* the driver: "off" | "idle" | "trying" | "up"
  addr,         \* the lease of the interface, or 0
  events,       \* the event loop's queue
  stack_ready, started, provisioned,   \* s_ctx, and whether NVS has credentials
  bit,          \* WIFI_CONNECTED_BIT
  timer,        \* reconnect_timer is armed
  flaps         \* bound

radio == <<ap, link, addr, flaps>>
wifi  == <<radio, events, stack_ready, started, provisioned, bit, timer>>

Post(e)    == events' = Append(events, e)
Handled(e) == events # <<>> /\ Head(events) = e /\ events' = Tail(events)

-----------------------------------------------------------------------------
(* The radio and the network (external).                                   *)

Flap == flaps < MaxFlaps /\ flaps' = flaps + 1

AccessPoint ==
  /\ Flap /\ ap' = ~ap
  /\ UNCHANGED <<link, addr, events, stack_ready, started, provisioned, bit, timer>>

Associate ==
  /\ link = "trying" /\ ap /\ link' = "up"
  /\ addr' \in Addresses /\ Post("got_ip")
  /\ UNCHANGED <<ap, flaps, stack_ready, started, provisioned, bit, timer>>

\* An attempt fails, or an association is lost.
Lose ==
  /\ link \in {"trying", "up"} /\ ~ap /\ link' = "idle"
  /\ addr' = 0 /\ Post("disconnected")
  /\ UNCHANGED <<ap, flaps, stack_ready, started, provisioned, bit, timer>>

Renew ==
  /\ link = "up" /\ Flap /\ addr' \in Addresses \ {addr} /\ Post("got_ip")
  /\ UNCHANGED <<ap, link, stack_ready, started, provisioned, bit, timer>>

\* esp_wifi_connect()
Connect == link' = IF link = "idle" THEN "trying" ELSE link

-----------------------------------------------------------------------------
(* The service.                                                            *)

\* Up to esp_wifi_start(), whatever the credentials; each step may fail.
EnsureNetworkStack(ok) ==
  /\ stack_ready => ok
  /\ stack_ready' = ok

\* wifi_service_start() returns whether the station is on its way.
WifiStart(ok) ==
  /\ \/ started /\ ok /\ UNCHANGED <<stack_ready, started, link, events>>
     \/ /\ ~started /\ ~ok /\ EnsureNetworkStack(FALSE)
        /\ UNCHANGED <<started, link, events>>
     \/ /\ ~started /\ ~ok /\ EnsureNetworkStack(TRUE)   \* no credentials, or no driver
        /\ UNCHANGED <<started, link, events>>
     \/ /\ ~started /\ ok /\ provisioned /\ EnsureNetworkStack(TRUE)
        /\ started' = TRUE /\ link' = "idle" /\ Post("start")
  /\ UNCHANGED <<ap, addr, flaps, provisioned, bit, timer>>

StaStart ==
  /\ Handled("start") /\ Connect
  /\ UNCHANGED <<ap, addr, flaps, stack_ready, started, provisioned, bit, timer>>

\* Mutant: only an association that was lost is tried again.
DisconnectedOnce ==
  /\ Handled("disconnected")
  /\ bit' = FALSE /\ timer' = (timer \/ bit)
  /\ UNCHANGED <<radio, stack_ready, started, provisioned>>

\* The next attempt is left to a one-shot timer, however often one has failed.
Disconnected ==
  /\ Handled("disconnected")
  /\ bit' = FALSE /\ timer' = TRUE
  /\ UNCHANGED <<radio, stack_ready, started, provisioned>>

GotIp ==
  /\ Handled("got_ip") /\ bit' = TRUE
  /\ UNCHANGED <<radio, stack_ready, started, provisioned, timer>>

\* Mutant: the timer is periodic.
ReconnectPeriodic ==
  /\ timer /\ timer' = TRUE /\ Connect
  /\ UNCHANGED <<ap, addr, flaps, events, stack_ready, started, provisioned, bit>>

ReconnectTimer ==
  /\ timer /\ timer' = FALSE /\ Connect
  /\ UNCHANGED <<ap, addr, flaps, events, stack_ready, started, provisioned, bit>>

\* wifi_service_is_connected(): what the event loop has got to, not what is.
IsConnected == bit

WifiInit ==
  /\ ap \in BOOLEAN /\ provisioned \in BOOLEAN
  /\ link = "off" /\ addr = 0 /\ events = <<>> /\ flaps = 0
  /\ stack_ready = FALSE /\ started = FALSE /\ bit = FALSE /\ timer = FALSE

\* The queue holds no more than the network can have caused: an attempt that
\* fails waits for its event before there is another.
WifiTypeOK ==
  /\ ap \in BOOLEAN /\ link \in {"off", "idle", "trying", "up"} /\ addr \in Addresses \cup {0}
  /\ events \in Seq({"start", "disconnected", "got_ip"}) /\ Len(events) <= MaxFlaps + 2
  /\ {stack_ready, started, provisioned, bit, timer} \subseteq BOOLEAN /\ flaps \in 0 .. MaxFlaps

\* "Reconnect forever": whenever the station is not associated and not trying,
\* something that will make it try again is still to come.
NeverStranded ==
  link = "idle" => timer \/ Contains(events, "start") \/ Contains(events, "disconnected")

\* What the adapters are told is what became of the radio, once every event is
\* handled.
ToldTruth == events = <<>> => (bit <=> link = "up")
=============================================================================
