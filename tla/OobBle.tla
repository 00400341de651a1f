------------------------------- MODULE OobBle -------------------------------
(***************************************************************************)
(* The BLE service channel: a radio that follows programming mode, and the *)
(* one client it lets in.  The main loop brings the radio up and takes it  *)
(* down, NimBLE's host task calls gap_event() and on_sync(), and the timer *)
(* task runs what the host task must not do itself.  The host is external: *)
(* it may refuse to start or to stop, it reports what happens on the air   *)
(* after it has happened, and it frees a connection that failed only after *)
(* the callback that tells of it.  The chip has one core, and the timer   *)
(* task outranks the others, so each of its callbacks is one step.         *)
(***************************************************************************)
EXTENDS Naturals

CONSTANTS
  MaxSelections,  \* bound: how often programming mode is entered
  MaxLinks,       \* bound: connections, and attempts that fail
  MaxFaults       \* bound: what the host refuses or has no address for, and resets of it

ASSUME OobAssumption == {MaxSelections, MaxLinks, MaxFaults} \subseteq Nat

VARIABLES
  programming_mode, armed, radio_up, radio_failed, stop_pending,
  synced, advertising, conn, authenticated, status_subscribed, identify_blink,   \* s_ctx
  lpc,         \* the main loop: "idle", or inside radio_stop(): "drop" | "stop" | "deinit"
  old,         \* its local conn
  host,        \* "off" | "starting" | "up" | "stopping"
  air,         \* "silent" | "adv" | "link"
  news,        \* what gap_event() has not heard of: "none" | "connect" | "refused" | "disconnect"
  secure,      \* the link is encrypted with the passkey
  freeing,     \* gap_event() runs, and the host still holds the connection it is about
  adv_timer,
  status_timer,   \* "off" | "on", and "due" once its callback can no longer be stopped
  astray,      \* history: a callback used a host that was not there
  unlucky,     \* history: advertising was lost in a way the code does not make up for
  selections, links, faults   \* bounds

session == <<conn, authenticated, status_subscribed, identify_blink>>
radio   == <<radio_up, radio_failed, stop_pending, synced, advertising>>
loop    == <<lpc, old>>
nimble  == <<host, air, news, secure, freeing>>
timers  == <<adv_timer, status_timer>>
history == <<astray, unlucky>>
bounds  == <<selections, links, faults>>
oob     == <<programming_mode, armed, radio, session, loop, nimble, timers, history, bounds>>

-----------------------------------------------------------------------------
(* Advertising.                                                            *)

Fault == faults < MaxFaults /\ faults' = faults + 1

MayAdvertise == ~advertising /\ synced /\ programming_mode /\ ~conn

\* The host takes the fields and starts, or an error is logged and nobody tries again.
Advertise ==
  \/ advertising' = TRUE /\ air' = "adv" /\ UNCHANGED <<unlucky, faults>>
  \/ Fault /\ unlucky' = TRUE /\ UNCHANGED <<advertising, air>>

\* advertise_start(), and what the host makes of it: it has room for one connection.
AdvertiseStart ==
  IF MayAdvertise /\ host = "up" /\ air # "link" /\ ~freeing
  THEN Advertise
  ELSE /\ UNCHANGED <<advertising, air, faults>>
       /\ unlucky' = (unlucky \/ (MayAdvertise /\ host = "up" /\ freeing))

-----------------------------------------------------------------------------
(* The host task.                                                          *)

\* on_sync(); a host without an address says so and is left at that.
OnSync ==
  /\ host = "starting" /\ host' = "up"
  /\ \/ /\ synced' = TRUE
        /\ IF ~advertising /\ programming_mode /\ ~conn
           THEN Advertise ELSE UNCHANGED <<advertising, air, unlucky, faults>>
     \/ Fault /\ unlucky' = TRUE /\ UNCHANGED <<synced, advertising, air>>
  /\ UNCHANGED <<programming_mode, armed, radio_up, radio_failed, stop_pending, session,
                 loop, news, secure, freeing, timers, astray, selections, links>>

Central ==
  /\ air = "adv" /\ news = "none" /\ links < MaxLinks /\ links' = links + 1
  /\ secure' = FALSE
  /\ \/ air' = "link" /\ news' = "connect"
     \/ air' = "silent" /\ news' = "refused"
  /\ UNCHANGED <<programming_mode, armed, radio, session, loop, host, freeing, timers, history,
                 selections, faults>>

DropLink ==
  /\ air = "link" /\ news = "none" /\ air' = "silent" /\ news' = "disconnect"
  /\ UNCHANGED <<programming_mode, armed, radio, session, loop, host, secure, freeing, timers, history, bounds>>

Told(n) == news = n /\ ~freeing /\ news' = "none"

OnConnect ==
  /\ Told("connect")
  /\ conn' = TRUE /\ authenticated' = FALSE /\ advertising' = FALSE
  /\ UNCHANGED <<programming_mode, armed, radio_up, radio_failed, stop_pending, synced,
                 status_subscribed, identify_blink, loop, host, air, secure, freeing, timers, history, bounds>>

OnRefused ==
  /\ Told("refused") /\ freeing' = TRUE
  /\ advertising' = FALSE /\ adv_timer' = TRUE
  /\ UNCHANGED <<programming_mode, armed, radio_up, radio_failed, stop_pending, synced, session, loop,
                 host, air, secure, status_timer, history, bounds>>

\* Mutant: a dropped link waits for the button.
OnDisconnectSilent ==
  /\ Told("disconnect")
  /\ conn' = FALSE /\ authenticated' = FALSE /\ status_subscribed' = FALSE /\ identify_blink' = FALSE
  /\ status_timer' = IF status_timer = "on" THEN "off" ELSE status_timer
  /\ UNCHANGED <<programming_mode, armed, radio, loop, host, air, secure, freeing, adv_timer, history, bounds>>

\* Mutant: the next client inherits the subscription and the blinking LED.
OnDisconnectKeepsSession ==
  /\ Told("disconnect")
  /\ conn' = FALSE /\ authenticated' = FALSE /\ adv_timer' = TRUE
  /\ UNCHANGED <<programming_mode, armed, radio, status_subscribed, identify_blink, loop, host, air,
                 secure, freeing, status_timer, history, bounds>>

OnDisconnect ==
  /\ Told("disconnect")
  /\ conn' = FALSE /\ authenticated' = FALSE /\ status_subscribed' = FALSE /\ identify_blink' = FALSE
  /\ status_timer' = IF status_timer = "on" THEN "off" ELSE status_timer
  /\ adv_timer' = TRUE
  /\ UNCHANGED <<programming_mode, armed, radio, loop, host, air, secure, freeing, history, bounds>>

\* The callback returns, and the host frees the connection.
Unwind ==
  /\ freeing /\ freeing' = FALSE
  /\ UNCHANGED <<programming_mode, armed, radio, session, loop, host, air, news, secure, timers, history, bounds>>

\* The host ends its links, tells of it, and only then of the reset.
OnReset ==
  /\ host = "up" /\ news = "none" /\ ~freeing /\ air # "link" /\ Fault
  /\ host' = "starting" /\ air' = "silent"
  /\ synced' = FALSE /\ advertising' = FALSE /\ conn' = FALSE
  /\ UNCHANGED <<programming_mode, armed, radio_up, radio_failed, stop_pending, authenticated,
                 status_subscribed, identify_blink, loop, news, secure, freeing, timers, history, selections, links>>

\* What a client may do on a link: pair, subscribe to the status, and blink the LED.  The
\* host knows the link, whatever s_ctx thinks of it by now.
OnLink == air = "link" /\ news = "none"

Pair ==
  /\ OnLink /\ ~secure /\ secure' = TRUE /\ authenticated' = TRUE
  /\ UNCHANGED <<programming_mode, armed, radio, conn, status_subscribed, identify_blink, loop,
                 host, air, news, freeing, timers, history, bounds>>

Subscribe(on) ==
  /\ OnLink /\ secure /\ status_subscribed' = on /\ status_subscribed' # status_subscribed
  /\ status_timer' = CASE on -> IF status_timer = "off" THEN "on" ELSE status_timer
                       [] ~on -> IF status_timer = "on" THEN "off" ELSE status_timer
  /\ UNCHANGED <<programming_mode, armed, radio, conn, authenticated, identify_blink, loop, nimble,
                 adv_timer, history, bounds>>

Identify(on) ==
  /\ OnLink /\ secure /\ identify_blink' = on /\ identify_blink' # identify_blink
  /\ UNCHANGED <<programming_mode, armed, radio, conn, authenticated, status_subscribed, loop, nimble,
                 timers, history, bounds>>

\* What the host makes of what it was told.
HostTask == OnConnect \/ OnRefused \/ OnDisconnect \/ Unwind
-----------------------------------------------------------------------------
(* The timer task.                                                         *)

AdvTimer ==
  /\ adv_timer /\ adv_timer' = FALSE /\ AdvertiseStart
  /\ UNCHANGED <<programming_mode, armed, radio_up, radio_failed, stop_pending, synced, session, loop,
                 host, news, secure, freeing, status_timer, astray, selections, links>>

StatusExpires ==
  /\ status_timer = "on" /\ status_timer' = "due"
  /\ UNCHANGED <<programming_mode, armed, radio, session, loop, nimble, adv_timer,
                 history, bounds>>

\* status_timer_cb(): nothing without a subscriber; the link may be gone, the host must not be.
StatusNotifies ==
  /\ status_timer = "due" /\ status_timer' = IF status_subscribed THEN "on" ELSE "off"
  /\ astray' = (astray \/ (status_subscribed /\ conn /\ host = "off"))
  /\ UNCHANGED <<programming_mode, armed, radio, session, loop, nimble, adv_timer,
                 unlucky, bounds>>

\* oob_service_set_programming_mode(): intent only.
SetProgrammingMode(active) ==
  /\ armed /\ programming_mode' = active
  /\ radio_failed' = (radio_failed /\ active)

\* A radio that nobody is taking down, and nobody is going to tell to advertise.
Overlooked ==
  lpc = "idle" /\ host = "up" /\ ~stop_pending /\ ~advertising /\ ~conn /\ ~adv_timer /\ news = "none"

\* The button, the bus, the time-out or the client's own request, from whichever task.
Select ==
  /\ ~programming_mode /\ selections < MaxSelections /\ selections' = selections + 1
  /\ SetProgrammingMode(TRUE)
  /\ unlucky' = (unlucky \/ Overlooked)
  /\ UNCHANGED <<armed, radio_up, stop_pending, synced, advertising, session, loop, nimble, timers,
                 astray, links, faults>>

Deselect ==
  /\ programming_mode /\ SetProgrammingMode(FALSE)
  /\ UNCHANGED <<armed, radio_up, stop_pending, synced, advertising, session, loop, nimble, timers,
                 history, bounds>>

-----------------------------------------------------------------------------
(* The main loop: oob_service_loop().                                      *)

RadioStart ==
  /\ lpc = "idle" /\ armed /\ programming_mode /\ ~radio_up /\ ~radio_failed
  /\ \/ radio_up' = TRUE /\ host' = "starting" /\ UNCHANGED <<radio_failed, faults>>
     \/ Fault /\ radio_failed' = TRUE /\ UNCHANGED <<radio_up, host>>
  /\ UNCHANGED <<programming_mode, armed, stop_pending, synced, advertising, session, loop,
                 air, news, secure, freeing, timers, history, selections, links>>

\* Wanted again after a stop that failed.
Recover ==
  /\ lpc = "idle" /\ armed /\ programming_mode /\ radio_up /\ stop_pending
  /\ stop_pending' = FALSE /\ AdvertiseStart
  /\ UNCHANGED <<programming_mode, armed, radio_up, radio_failed, synced, session, loop,
                 host, news, secure, freeing, timers, astray, selections, links>>

\* The session goes first, so that a callback that has started finds nothing to do.
RadioStop ==
  /\ lpc = "idle" /\ armed /\ ~programming_mode /\ radio_up /\ lpc' = "drop"
  /\ old' = conn
  /\ conn' = FALSE /\ authenticated' = FALSE /\ status_subscribed' = FALSE /\ identify_blink' = FALSE
  /\ status_timer' = IF status_timer = "on" THEN "off" ELSE status_timer
  /\ adv_timer' = FALSE
  /\ UNCHANGED <<programming_mode, armed, radio, nimble, history, bounds>>

\* ble_gap_terminate() and ble_gap_adv_stop(); the flag stays.
DropClient ==
  /\ lpc = "drop" /\ lpc' = "stop"
  /\ air' = IF (old /\ air = "link") \/ (advertising /\ air = "adv") THEN "silent" ELSE air
  /\ news' = IF old /\ air = "link" THEN "disconnect" ELSE news
  /\ UNCHANGED <<programming_mode, armed, radio, session, old, host, secure, freeing, timers, history, bounds>>

\* nimble_port_stop() tells of every link it ends, and returns when the host has gone.
HostEndsLink ==
  /\ lpc = "stop" /\ air = "link" /\ news = "none" /\ ~freeing
  /\ air' = "silent" /\ news' = "disconnect"
  /\ UNCHANGED <<programming_mode, armed, radio, session, loop, host, secure, freeing, timers, history, bounds>>

HostStops ==
  /\ lpc = "stop" /\ air # "link" /\ news = "none" /\ ~freeing
  /\ lpc' = "deinit" /\ host' = "off" /\ air' = "silent"
  /\ UNCHANGED <<programming_mode, armed, radio, session, old, news, secure, freeing, timers, history, bounds>>

HostWillNotStop ==
  /\ lpc = "stop" /\ Fault /\ lpc' = "idle" /\ stop_pending' = TRUE
  /\ unlucky' = (unlucky \/ (advertising /\ air # "adv"))
  /\ UNCHANGED <<programming_mode, armed, radio_up, radio_failed, synced, advertising, session, old,
                 nimble, timers, astray, selections, links>>

Deinit ==
  /\ lpc = "deinit" /\ lpc' = "idle"
  /\ radio_up' = FALSE /\ synced' = FALSE /\ advertising' = FALSE /\ stop_pending' = FALSE
  /\ UNCHANGED <<programming_mode, armed, radio_failed, session, old, nimble, timers, history, bounds>>

Loop == RadioStart \/ Recover \/ RadioStop \/ DropClient \/ HostStops \/ Deinit

\* What is left of the channel after a restart, and oob_service_start().
BootOob ==
  /\ armed' = FALSE /\ programming_mode' = FALSE
  /\ radio_up' = FALSE /\ radio_failed' = FALSE /\ stop_pending' = FALSE
  /\ synced' = FALSE /\ advertising' = FALSE
  /\ conn' = FALSE /\ authenticated' = FALSE /\ status_subscribed' = FALSE /\ identify_blink' = FALSE
  /\ lpc' = "idle" /\ old' = FALSE
  /\ host' = "off" /\ air' = "silent" /\ news' = "none" /\ freeing' = FALSE /\ secure' = FALSE
  /\ adv_timer' = FALSE /\ status_timer' = "off"
  /\ UNCHANGED <<history, bounds>>

\* A device that was never commissioned selects itself.
OobStart(provisioned) ==
  /\ ~armed /\ armed' = TRUE /\ programming_mode' = ~provisioned
  /\ UNCHANGED <<radio, session, loop, nimble, timers, history, bounds>>

OobInit ==
  /\ armed = FALSE /\ programming_mode = FALSE
  /\ radio_up = FALSE /\ radio_failed = FALSE /\ stop_pending = FALSE
  /\ synced = FALSE /\ advertising = FALSE
  /\ conn = FALSE /\ authenticated = FALSE /\ status_subscribed = FALSE /\ identify_blink = FALSE
  /\ lpc = "idle" /\ old = FALSE
  /\ host = "off" /\ air = "silent" /\ news = "none" /\ freeing = FALSE /\ secure = FALSE
  /\ adv_timer = FALSE /\ status_timer = "off"
  /\ astray = FALSE /\ unlucky = FALSE /\ selections = 0 /\ links = 0 /\ faults = 0
=============================================================================
