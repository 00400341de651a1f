----------------------------- MODULE KnxIpRouting -----------------------------
(***************************************************************************)
(* The KNX adapter on KNXnet/IP: when it joins the routing group, and what *)
(* address it publishes.  The socket joins the group on the interface it   *)
(* finds when it opens; after that only an event of the Wi-Fi station asks *)
(* for it again.                                                           *)
(***************************************************************************)
EXTENDS WifiStation

VARIABLES
  kpc,        \* the KNX task: "wait" | "check" | "open" | "publish" | "callback" | "gap"
              \*   | "loop" | "rejoin" | "identity"
  without,    \* startedWithoutNetwork
  callback,   \* the event callback is registered
  dirty,      \* ipIdentityDirty
  member,     \* the interface is in the group
  shown,      \* the address in the KNXnet/IP Parameter Object, or 0
  unlucky     \* history: the network changed between the check and the callback

routing == <<kpc, without, callback, dirty, member, shown, unlucky>>

Starting == kpc \in {"open", "publish", "callback"}

\* The adapter believes in the network it found, and nobody would tell it better.
Unwatched == Starting /\ ~without

\* An association lost takes the membership with it.
Leave == member' = FALSE /\ unlucky' = (unlucky \/ Unwatched)

Release == UNCHANGED member /\ unlucky' = (unlucky \/ Unwatched)

\* The callback of wifi_service: only a connection counts.
Notify == dirty' = (dirty \/ callback)

PublishIpIdentity == shown' = IF addr = 0 THEN shown ELSE addr

-----------------------------------------------------------------------------

\* startProduct() waits for the station, and not for ever.
Wait ==
  /\ kpc = "wait" /\ kpc' = "check"
  /\ UNCHANGED <<wifi, without, callback, dirty, member, shown, unlucky>>

CheckNetwork ==
  /\ kpc = "check" /\ kpc' = "open" /\ without' = ~IsConnected
  /\ unlucky' = (IsConnected /\ link # "up")
  /\ UNCHANGED <<wifi, callback, dirty, member, shown>>

OpenSocket ==
  /\ kpc = "open" /\ kpc' = "publish" /\ member' = (link = "up")
  /\ UNCHANGED <<wifi, without, callback, dirty, shown, unlucky>>

PublishFirst ==
  /\ kpc = "publish" /\ kpc' = "callback" /\ PublishIpIdentity
  /\ UNCHANGED <<wifi, without, callback, dirty, member, unlucky>>

SetEventCallback ==
  /\ kpc = "callback" /\ kpc' = "gap" /\ callback' = TRUE
  /\ UNCHANGED <<wifi, without, dirty, member, shown, unlucky>>

\* An association between the check and the callback raised no event here.
GapCheck ==
  /\ kpc = "gap" /\ kpc' = "loop"
  /\ dirty' = (dirty \/ (without /\ IsConnected))
  /\ UNCHANGED <<wifi, without, callback, member, shown, unlucky>>

TakeDirty ==
  /\ kpc = "loop" /\ dirty /\ dirty' = FALSE /\ kpc' = "rejoin"
  /\ UNCHANGED <<wifi, without, callback, member, shown, unlucky>>

\* A rejoin that fails is logged, and the identity published all the same.
RefreshMembership ==
  /\ kpc = "rejoin" /\ kpc' = "identity" /\ member' = (member \/ link = "up")
  /\ UNCHANGED <<wifi, without, callback, dirty, shown, unlucky>>

PublishAgain ==
  /\ kpc = "identity" /\ kpc' = "loop" /\ PublishIpIdentity
  /\ UNCHANGED <<wifi, without, callback, dirty, member, unlucky>>

RoutingTask == \/ Wait \/ CheckNetwork \/ OpenSocket \/ PublishFirst \/ SetEventCallback
               \/ GapCheck \/ TakeDirty \/ RefreshMembership \/ PublishAgain

RoutingInit ==
  /\ kpc = "wait" /\ without = FALSE /\ callback = FALSE /\ dirty = FALSE
  /\ member = FALSE /\ shown = 0 /\ unlucky = FALSE

RoutingTypeOK ==
  /\ kpc \in {"wait", "check", "open", "publish", "callback", "gap", "loop", "rejoin", "identity"}
  /\ {without, callback, dirty, member, unlucky} \subseteq BOOLEAN
  /\ shown \in Addresses \cup {0}
=============================================================================
