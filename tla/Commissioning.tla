---------------------------- MODULE Commissioning ----------------------------
(***************************************************************************)
(* Commissioning a device over BLE: the channel, the registry of settings  *)
(* it renders, and the boots in between.                                   *)
(***************************************************************************)
EXTENDS OobBle, DeviceConfig

CONSTANTS MaxWrites,    \* bound: values and commands written
          MaxBoots,     \* bound: restarts
          Texts         \* what a client writes

ASSUME CommissioningAssumption == {MaxWrites, MaxBoots} \subseteq Nat
ASSUME TextAssumption == Texts \subseteq [lex : {"whole", "word"}, n : Int]

VARIABLES
  provisioned,                \* the marker in NVS, and s_ctx's copy of it
  selected,                   \* the item the client has chosen
  restart_timer, factory_reset_requested,
  writes, boots               \* bounds

request == <<selected, restart_timer, factory_reset_requested>>
vars    == <<oob, config, provisioned, request, writes, boots>>

Started == armed /\ owner = Len(Owners)

-----------------------------------------------------------------------------
(* Start-up: the adapters contribute their settings, then the channel.     *)

StartNext ==
  /\ ~armed
  /\ \/ owner < Len(Owners) /\ StartOwner /\ UNCHANGED oob
     \/ owner = Len(Owners) /\ OobStart(provisioned) /\ UNCHANGED config
  /\ UNCHANGED <<provisioned, request, writes, boots>>

\* RAM is lost; NVS is lost only where a factory reset erases it.
Boot(erased) ==
  /\ boots < MaxBoots /\ boots' = boots + 1
  /\ BootOob /\ BootConfig(erased)
  /\ provisioned' = (provisioned /\ ~erased)
  /\ selected' = 0 /\ restart_timer' = FALSE /\ factory_reset_requested' = FALSE
  /\ UNCHANGED writes

RestartTimer == restart_timer /\ Boot(factory_reset_requested)

PowerCut == Boot(FALSE)

-----------------------------------------------------------------------------
(* The requests of a client.                                               *)

Request == OnLink /\ secure

\* Mutant: one past the last item is an item.
SelectItemPastEnd(i) ==
  /\ Request /\ i <= Len(registry) /\ selected' = i /\ i # selected
  /\ UNCHANGED <<oob, config, provisioned, restart_timer, factory_reset_requested, writes, boots>>

SelectItem(i) ==
  /\ Request /\ i < Len(registry) /\ selected' = i /\ i # selected
  /\ UNCHANGED <<oob, config, provisioned, restart_timer, factory_reset_requested, writes, boots>>

Write == Request /\ writes < MaxWrites /\ writes' = writes + 1

WriteValue(t, nvs_ok) ==
  /\ selected < Len(registry)
  /\ Write /\ SetText(Of(registry[selected + 1]), t, nvs_ok)
  /\ UNCHANGED <<oob, provisioned, request, boots>>

\* Stored at once, because the restart may beat it; a restart that is armed stays armed.
Commit(nvs_ok) ==
  /\ Write /\ provisioned' = (provisioned \/ nvs_ok) /\ restart_timer' = TRUE
  /\ UNCHANGED <<oob, config, selected, factory_reset_requested, boots>>

Reboot ==
  /\ Write /\ restart_timer' = TRUE
  /\ UNCHANGED <<oob, config, provisioned, selected, factory_reset_requested, boots>>

FactoryReset ==
  /\ Write /\ restart_timer' = TRUE /\ factory_reset_requested' = TRUE
  /\ UNCHANGED <<oob, config, provisioned, selected, boots>>

Client ==
  \/ \E i \in 0 .. Len(registry) : SelectItem(i)
  \/ \E t \in Texts, nvs_ok \in BOOLEAN : WriteValue(t, nvs_ok)
  \/ \E nvs_ok \in BOOLEAN : Commit(nvs_ok)
  \/ Reboot \/ FactoryReset

-----------------------------------------------------------------------------

Rest == UNCHANGED <<config, provisioned, request, writes, boots>>

Connected == OnConnect /\ selected' = 0
             /\ UNCHANGED <<config, provisioned, restart_timer, factory_reset_requested, writes, boots>>

HostEvents == Connected \/ ((OnRefused \/ OnDisconnect \/ Unwind) /\ Rest)

Channel ==
  \/ Central \/ DropLink \/ OnReset \/ Pair
  \/ \E on \in BOOLEAN : Subscribe(on) \/ Identify(on)
  \/ Select \/ Deselect \/ HostWillNotStop

Timers == (AdvTimer \/ StatusExpires \/ StatusNotifies) /\ Rest

MainLoop == Loop /\ Rest

Next ==
  \/ StartNext \/ RestartTimer \/ PowerCut \/ Client
  \/ HostEvents \/ (OnSync /\ Rest) \/ (HostEndsLink /\ Rest) \/ Timers \/ MainLoop
  \/ (Channel /\ Rest)

Init == /\ OobInit /\ ConfigInit /\ provisioned = FALSE
        /\ selected = 0 /\ restart_timer = FALSE /\ factory_reset_requested = FALSE
        /\ writes = 0 /\ boots = 0

\* The tasks of the firmware and of the host run; nobody has to connect.
Spec ==
  /\ Init /\ [][Next]_vars
  /\ WF_vars(StartNext) /\ WF_vars(RestartTimer) /\ WF_vars(HostEvents) /\ WF_vars(OnSync /\ Rest)
  /\ WF_vars(HostEndsLink /\ Rest) /\ WF_vars(Timers) /\ WF_vars(MainLoop)

-----------------------------------------------------------------------------
(* Properties.                                                             *)

\* Every variable keeps its range, and the client's choice names an item.
TypeOK ==
  /\ {armed, programming_mode, radio_up, radio_failed, stop_pending, synced, advertising, conn,
      authenticated, status_subscribed, identify_blink, old, freeing, secure, adv_timer,
      provisioned, restart_timer, factory_reset_requested, reboot_pending} \subseteq BOOLEAN
  /\ lpc \in {"idle", "drop", "stop", "deinit"} /\ host \in {"off", "starting", "up"}
  /\ air \in {"silent", "adv", "link"} /\ news \in {"none", "connect", "refused", "disconnect"}
  /\ selected = 0 \/ selected \in 0 .. Len(registry) - 1

\* No timer calls into a host that has gone, and when the last link has ended nothing
\* of its session is left for the next client to inherit.
SessionEnds ==
  /\ ~astray
  /\ air # "link" /\ news = "none" /\ lpc = "idle" =>
       ~conn /\ ~authenticated /\ ~status_subscribed /\ ~identify_blink

\* The registry never lies to its client: a setting the device does not run on yet is
\* announced as waiting for a restart, and what is shown of one, written back, is
\* the same setting.
SettingsTold == PendingTold /\ ShownReadsBack

\* The radio follows the selection: left alone it goes down, and a device that stays
\* selected stays reachable, unless advertising was lost where the code does not
\* make up for it.
RadioFollows ==
  /\ <>[](~programming_mode) => <>[](~radio_up)
  /\ []~unlucky /\ <>[](programming_mode /\ ~radio_failed) => <>[](air # "silent" \/ news # "none")
=============================================================================
