------------------------- MODULE CommissioningProofs -------------------------
(***************************************************************************)
(* Commissioning over BLE, for every image and every client: what the      *)
(* channel leaves behind, and what the registry tells of the settings.     *)
(***************************************************************************)
EXTENDS Commissioning, SequenceTheorems, TLAPS

-----------------------------------------------------------------------------
(* A step, seen by the channel and by the registry.                        *)

\* What may happen to the channel.
OobNext ==
  \/ OnSync \/ Central \/ DropLink \/ OnConnect \/ OnRefused \/ OnDisconnect \/ Unwind
  \/ OnReset \/ Pair \/ (\E on \in BOOLEAN : Subscribe(on)) \/ (\E on \in BOOLEAN : Identify(on))
  \/ AdvTimer \/ StatusExpires \/ StatusNotifies \/ Select \/ Deselect
  \/ RadioStart \/ Recover \/ RadioStop \/ DropClient \/ HostEndsLink \/ HostStops
  \/ HostWillNotStop \/ Deinit \/ OobStart(provisioned) \/ BootOob

\* What may happen to the registry.
ConfigNext ==
  \/ StartOwner
  \/ \E t \in Texts, nvs_ok \in BOOLEAN :
       selected < Len(registry) /\ SetText(Of(registry[selected + 1]), t, nvs_ok)
  \/ \E erased \in BOOLEAN : BootConfig(erased)

\* The channel's part of TypeOK: what is wanted of the radio and what it does.
RadioTypes ==
  /\ armed \in BOOLEAN /\ programming_mode \in BOOLEAN /\ radio_up \in BOOLEAN
  /\ radio_failed \in BOOLEAN /\ stop_pending \in BOOLEAN /\ synced \in BOOLEAN
  /\ advertising \in BOOLEAN

\* The session, its link and its timer.
SessionTypes ==
  /\ conn \in BOOLEAN /\ authenticated \in BOOLEAN /\ status_subscribed \in BOOLEAN
  /\ identify_blink \in BOOLEAN /\ old \in BOOLEAN /\ freeing \in BOOLEAN
  /\ secure \in BOOLEAN /\ adv_timer \in BOOLEAN

\* The main loop, the host and the air.
HostTypes ==
  /\ lpc \in {"idle", "drop", "stop", "deinit"} /\ host \in {"off", "starting", "up"}
  /\ air \in {"silent", "adv", "link"} /\ news \in {"none", "connect", "refused", "disconnect"}

OobTypes == RadioTypes /\ SessionTypes /\ HostTypes

\* What the restart and the provisioning keep.
RequestTypes ==
  /\ provisioned \in BOOLEAN /\ restart_timer \in BOOLEAN
  /\ factory_reset_requested \in BOOLEAN /\ selected \in Nat

\* Every step of the device is a step of the channel or leaves it alone.
LEMMA OobSteps == ASSUME [Next]_vars PROVE OobNext \/ UNCHANGED oob
<1>1. CASE StartNext  BY <1>1 DEF StartNext, OobNext
<1>2. CASE RestartTimer \/ PowerCut  BY <1>2 DEF RestartTimer, PowerCut, Boot, OobNext
<1>3. CASE Client
  BY <1>3 DEF Client, SelectItem, WriteValue, Commit, Reboot, FactoryReset
<1>4. CASE HostEvents  BY <1>4 DEF HostEvents, Connected, OobNext
<1>5. CASE (OnSync /\ Rest) \/ (HostEndsLink /\ Rest)  BY <1>5 DEF OobNext
<1>6. CASE Timers  BY <1>6 DEF Timers, OobNext
<1>7. CASE MainLoop  BY <1>7 DEF MainLoop, Loop, OobNext
<1>8. CASE Channel /\ Rest  BY <1>8 DEF Channel, OobNext
<1>9. CASE UNCHANGED vars  BY <1>9 DEF vars
<1>10. QED  BY <1>1, <1>2, <1>3, <1>4, <1>5, <1>6, <1>7, <1>8, <1>9 DEF Next

\* Every step of the device is a step of the registry or leaves it alone.
LEMMA ConfigSteps == ASSUME [Next]_vars PROVE ConfigNext \/ UNCHANGED config
<1>1. CASE StartNext  BY <1>1 DEF StartNext, ConfigNext
<1>2. CASE RestartTimer
  <2>1. PICK e \in {factory_reset_requested} : BootConfig(e)  BY <1>2 DEF RestartTimer, Boot
  <2>2. QED  BY <2>1 DEF ConfigNext, BootConfig
<1>3. CASE PowerCut  BY <1>3 DEF PowerCut, Boot, ConfigNext
<1>4. CASE Client
  BY <1>4 DEF Client, SelectItem, WriteValue, Commit, Reboot, FactoryReset, ConfigNext
<1>5. CASE HostEvents  BY <1>5 DEF HostEvents, Connected, Rest
<1>6. CASE (OnSync /\ Rest) \/ (HostEndsLink /\ Rest) \/ (Channel /\ Rest)  BY <1>6 DEF Rest
<1>7. CASE Timers \/ MainLoop  BY <1>7 DEF Timers, MainLoop, Rest
<1>8. CASE UNCHANGED vars  BY <1>8 DEF vars
<1>9. QED  BY <1>1, <1>2, <1>3, <1>4, <1>5, <1>6, <1>7, <1>8 DEF Next

-----------------------------------------------------------------------------
(* The channel.                                                            *)

Clean == ~conn /\ ~authenticated /\ ~status_subscribed /\ ~identify_blink

\* A host that is not up has nothing on the air and nothing to tell of; one that
\* the main loop has stopped is off, and the radio is up for as long as it is not.
HostOnAir ==
  /\ host # "up" => air = "silent" /\ news = "none"
  /\ ~radio_up \/ lpc = "deinit" => host = "off"

\* What a client leaves is cleared when its disconnection is told, and not before
\* a link it can be told of has ended.
OobInv ==
  /\ HostOnAir
  /\ news = "connect" => air = "link"
  /\ ~Clean => air = "link" \/ news = "disconnect"
  /\ ~astray

\* No step leaves a trace of a session without a link, or the news of its end.
LEMMA OobStep == ASSUME OobInv, [Next]_vars PROVE OobInv'
<1> USE DEF OobInv, HostOnAir, Clean, radio, session, loop, nimble, timers, history
<1>1. CASE OnSync  BY <1>1 DEF OnSync, Advertise, Fault
<1>2. CASE Central  BY <1>2 DEF Central
<1>3. CASE DropLink  BY <1>3 DEF DropLink
<1>4. CASE OnConnect  BY <1>4 DEF OnConnect, Told
<1>5. CASE OnRefused  BY <1>5 DEF OnRefused, Told
<1>6. CASE OnDisconnect  BY <1>6 DEF OnDisconnect, Told
<1>7. CASE Unwind  BY <1>7 DEF Unwind
<1>8. CASE OnReset  BY <1>8 DEF OnReset, Fault
<1>9. CASE Pair  BY <1>9 DEF Pair, OnLink
<1>10. CASE \E on \in BOOLEAN : Subscribe(on)  BY <1>10 DEF Subscribe, OnLink
<1>11. CASE \E on \in BOOLEAN : Identify(on)  BY <1>11 DEF Identify, OnLink
<1>12. CASE AdvTimer  BY <1>12 DEF AdvTimer, AdvertiseStart, Advertise, MayAdvertise, Fault
<1>13. CASE StatusExpires  BY <1>13 DEF StatusExpires
<1>14. CASE StatusNotifies  BY <1>14 DEF StatusNotifies
<1>15. CASE Select  BY <1>15 DEF Select, SetProgrammingMode
<1>16. CASE Deselect  BY <1>16 DEF Deselect, SetProgrammingMode
<1>17. CASE RadioStart  BY <1>17 DEF RadioStart, Fault
<1>18. CASE Recover  BY <1>18 DEF Recover, AdvertiseStart, Advertise, MayAdvertise, Fault
<1>19. CASE RadioStop  BY <1>19 DEF RadioStop
<1>20. CASE DropClient  BY <1>20 DEF DropClient
<1>21. CASE HostEndsLink  BY <1>21 DEF HostEndsLink
<1>22. CASE HostStops  BY <1>22 DEF HostStops
<1>23. CASE HostWillNotStop  BY <1>23 DEF HostWillNotStop, Fault
<1>24. CASE Deinit  BY <1>24 DEF Deinit
<1>25. CASE OobStart(provisioned)  BY <1>25 DEF OobStart
<1>26. CASE BootOob  BY <1>26 DEF BootOob
<1>27. CASE UNCHANGED oob  BY <1>27 DEF oob
<1>28. QED
  BY OobSteps, <1>1, <1>2, <1>3, <1>4, <1>5, <1>6, <1>7, <1>8, <1>9, <1>10, <1>11, <1>12, <1>13,
     <1>14, <1>15, <1>16, <1>17, <1>18, <1>19, <1>20, <1>21, <1>22, <1>23, <1>24, <1>25, <1>26,
     <1>27 DEF OobNext

\* No timer calls into a host that has gone, and the last link that ends leaves
\* nothing of its session behind: oob_ble.c's gap_event(), status_timer_cb() and
\* radio_stop(), for every number of links, selections and faults.
THEOREM SessionIsOver == Spec => []SessionEnds
<1>1. Init => OobInv
  BY DEF Init, OobInit, OobInv, HostOnAir, Clean
<1>2. OobInv /\ [Next]_vars => OobInv'  BY OobStep
<1>3. OobInv => SessionEnds  BY DEF OobInv, HostOnAir, Clean, SessionEnds
<1>4. QED  BY <1>1, <1>2, <1>3, PTL DEF Spec
-----------------------------------------------------------------------------
(* The registry.                                                           *)

\* What the hooks may find in NVS under an item's key: what its parser let through.
Legal(item, v) ==
  /\ v # Refused /\ Accepted(item, v)
  /\ item.type # "string" => v.n \in Nat /\ v = Whole(v.n)
  /\ item.type = "uint" => v.n <= UintMax

StoredLegal ==
  /\ stored = [k \in Keys |-> stored[k]]
  /\ \A k \in Keys : stored[k] = Absent \/ Legal(Of(k), stored[k])

\* The keys that can be chosen, what they hold, and what the firmware runs on.
ConfigInv ==
  /\ registry \in Seq(Keys) /\ owner \in 0 .. Len(Owners) /\ reboot_pending \in BOOLEAN
  /\ StoredLegal
  /\ running = [k \in Keys |-> running[k]]
  /\ PendingTold

\* An item that is found by its key has that key.
LEMMA ItemOfKey == ASSUME NEW k \in Keys PROVE Of(k) \in Items /\ Of(k).key = k
BY DEF Keys, Of

\* A label is found where it stands, for no two of them are the same.
LEMMA LabelStands ==
  ASSUME NEW item \in Items, item.type = "enum", NEW i \in 1 .. Len(item.labels)
  PROVE  LabelOf(item, item.labels[i]) = i
<1> DEFINE I == {j \in 1 .. Len(item.labels) : item.labels[j] = item.labels[i]}
<1>1. \A a, b \in 1 .. Len(item.labels) : item.labels[a] = item.labels[b] => a = b
  BY ItemAssumption
<1>2. I = {i}  BY <1>1
<1>3. i \in Nat  BY ItemAssumption
<1>4. Min({i}) = i  BY <1>3 DEF Min
<1>5. LabelOf(item, item.labels[i]) = IF I # {} THEN Min(I) ELSE 0
  BY DEF LabelOf, SelectInSeq
<1>6. QED  BY <1>2, <1>4, <1>5

\* A label stands for its position, counted from 0.
LEMMA LabelParses ==
  ASSUME NEW item \in Items, item.type = "enum", NEW i \in 1 .. Len(item.labels)
  PROVE  Parse(item, item.labels[i]) = Whole(i - 1) /\ Legal(item, Whole(i - 1))
<1>1. Contains(item.labels, item.labels[i])  BY DEF Contains
<1>2. ParseEnum(item, item.labels[i]) = Whole(i - 1)  BY <1>1, LabelStands DEF ParseEnum
<1>3. Len(item.labels) \in Nat  BY ItemAssumption
<1>4. Whole(i - 1) # Refused  BY DEF Whole, Refused
<1>5. Accepted(item, Whole(i - 1))  BY <1>3 DEF Accepted, Whole
<1>6. Legal(item, Whole(i - 1))  BY <1>3, <1>4, <1>5 DEF Legal, Whole
<1>7. QED  BY <1>2, <1>4, <1>5, <1>6 DEF Parse

\* Only a legal value passes device_config_set_text()'s parser and validator.
LEMMA ParseIsLegal ==
  ASSUME NEW item \in Items, NEW t \in Texts, Parse(item, t) # Refused
  PROVE  Legal(item, Parse(item, t))
<1>1. t.n \in Int /\ t = [lex |-> t.lex, n |-> t.n]  BY TextAssumption
<1>2. item.type \in {"string", "uint", "enum"}  BY ItemAssumption
<1>3. ParseUnsigned(t) # Refused => ParseUnsigned(t) = t /\ t = Whole(t.n) /\ t.n \in 0 .. UintMax
  BY <1>1 DEF ParseUnsigned, Whole
<1>4. CASE item.type = "string"  BY <1>4 DEF Parse, Legal
<1>5. CASE item.type = "uint"
  <2>1. Parse(item, t) = t /\ t # Refused /\ Accepted(item, t) /\ ParseUnsigned(t) # Refused
    BY <1>3, <1>5 DEF Parse
  <2>2. t.n \in Nat /\ t.n <= UintMax  BY <2>1, <1>3, OwnerAssumption
  <2>3. QED  BY <2>1, <2>2, <1>3, <1>5 DEF Legal
<1>6. CASE item.type = "enum"
  <2>1. CASE Contains(item.labels, t)
    <3>1. PICK i \in 1 .. Len(item.labels) : t = item.labels[i]  BY <2>1 DEF Contains
    <3>2. QED  BY <3>1, <1>6, LabelParses
  <2>2. CASE ~Contains(item.labels, t)
    <3>1. Parse(item, t) = t /\ t # Refused /\ Accepted(item, t) /\ ParseUnsigned(t) # Refused
      BY <1>3, <1>6, <2>2 DEF Parse, ParseEnum
    <3>2. t.n \in Nat  BY <3>1, <1>3, OwnerAssumption
    <3>3. QED  BY <3>1, <3>2, <1>3, <1>6 DEF Legal
  <2>3. QED  BY <2>1, <2>2
<1>7. QED  BY <1>2, <1>4, <1>5, <1>6

\* A batch adds an owner's keys to those that are there, or adds nothing.
LEMMA RegistryGrows ==
  ASSUME ConfigInv, owner < Len(Owners), Register(Owners[owner + 1])
  PROVE  /\ registry' \in Seq(Keys) /\ Len(registry) <= Len(registry')
         /\ \A k \in ToSet(registry') :
              k \in ToSet(registry) \/ k \in {i.key : i \in ToSet(Owners[owner + 1])}
<1> DEFINE batch == Owners[owner + 1]
           keys == [i \in DOMAIN batch |-> batch[i].key]
<1>1. owner + 1 \in DOMAIN Owners /\ batch \in Seq(Items)
  BY OwnerAssumption DEF ConfigInv
<1>2. registry \in Seq(Keys) /\ Len(registry) \in Nat  BY DEF ConfigInv
<1>3. Len(batch) \in Nat /\ DOMAIN batch = 1 .. Len(batch) /\ \A i \in DOMAIN batch : batch[i] \in Items
  BY <1>1
<1>4. keys \in Seq(Keys)
  <2>1. \A i \in 1 .. Len(batch) : batch[i].key \in Keys  BY <1>3 DEF Keys
  <2>2. keys \in [1 .. Len(batch) -> Keys]  BY <2>1, <1>3
  <2>3. QED  BY <2>2, <1>3, SeqDef
<1>5. CASE registry' = registry \o keys
  <2>1. /\ registry' \in Seq(Keys) /\ Len(registry') = Len(registry) + Len(keys)
        /\ \A i \in 1 .. Len(registry) + Len(keys) :
             registry'[i] = IF i <= Len(registry) THEN registry[i] ELSE keys[i - Len(registry)]
    BY <1>2, <1>4, <1>5, ConcatProperties
  <2>2. Len(keys) \in Nat /\ DOMAIN keys = 1 .. Len(keys)  BY <1>4, LenProperties
  <2>3. ASSUME NEW k \in ToSet(registry')
        PROVE  k \in ToSet(registry) \/ k \in {i.key : i \in ToSet(batch)}
    <3>1. PICK i \in 1 .. Len(registry) + Len(keys) : registry'[i] = k
      BY <2>1, LenProperties DEF ToSet
    <3>2. CASE i <= Len(registry)
      <4>1. i \in DOMAIN registry /\ registry[i] = k  BY <1>2, <2>1, <2>2, <3>1, <3>2, LenProperties
      <4>2. QED  BY <4>1 DEF ToSet
    <3>3. CASE ~(i <= Len(registry))
      <4>1. i - Len(registry) \in DOMAIN keys /\ keys[i - Len(registry)] = k
        BY <1>2, <2>1, <2>2, <3>1, <3>3
      <4>2. PICK j \in DOMAIN batch : batch[j].key = k  BY <4>1
      <4>3. QED  BY <4>2 DEF ToSet
    <3>4. QED  BY <3>2, <3>3
  <2>4. QED  BY <1>2, <2>1, <2>2, <2>3
<1>6. CASE registry' = registry  BY <1>2, <1>6
<1>7. QED  BY <1>5, <1>6 DEF Register

\* No owner, no write and no boot makes the registry lie about a restart, or lets
\* NVS hold what the parsers refuse.
LEMMA ConfigStep == ASSUME ConfigInv, selected \in Nat, [Next]_vars PROVE ConfigInv'
<1>1. CASE StartOwner
  <2>1. owner < Len(Owners) /\ Register(Owners[owner + 1])  BY <1>1 DEF StartOwner
  <2>2. owner' \in 0 .. Len(Owners)  BY <1>1, OwnerAssumption DEF StartOwner, ConfigInv
  <2>3. running' = [k \in Keys |-> running'[k]]  BY <1>1 DEF StartOwner
  <2>4. PendingTold'
    <3>1. SUFFICES ASSUME NEW k \in ToSet(registry'), Of(k).reboot, stored'[k] # running'[k]
                   PROVE  reboot_pending'
      BY DEF PendingTold
    <3>2. k \in Keys  BY <2>1, RegistryGrows, ElementOfSeq DEF ToSet
    <3>3. stored' = stored /\ reboot_pending' = reboot_pending  BY <1>1 DEF StartOwner
    <3>4. running'[k] = running[k] /\ k \notin {i.key : i \in ToSet(Owners[owner + 1])}
      BY <1>1, <3>1, <3>2, <3>3 DEF StartOwner
    <3>5. k \in ToSet(registry)  BY <2>1, <3>4, RegistryGrows
    <3>6. QED  BY <3>1, <3>3, <3>4, <3>5 DEF ConfigInv, PendingTold
  <2>5. stored' = stored /\ reboot_pending' = reboot_pending  BY <1>1 DEF StartOwner
  <2>6. StoredLegal'  BY <2>5 DEF StoredLegal, ConfigInv
  <2>7. QED  BY <2>1, <2>2, <2>3, <2>4, <2>5, <2>6, RegistryGrows DEF ConfigInv
<1>2. ASSUME NEW t \in Texts, NEW nvs_ok \in BOOLEAN, selected < Len(registry),
             SetText(Of(registry[selected + 1]), t, nvs_ok)
      PROVE  ConfigInv'
  <2> DEFINE key == registry[selected + 1]
             item == Of(key)
             v == Parse(item, t)
  <2>1. key \in Keys  BY <1>2, ElementOfSeq DEF ConfigInv
  <2>2. item \in Items /\ item.key = key  BY <2>1, ItemOfKey
  <2>3. CASE UNCHANGED config
    BY <2>3 DEF config, ConfigInv, StoredLegal, PendingTold
  <2>4. CASE v # Refused /\ Store(item, v)
    <3>1. Legal(item, v)  BY <2>2, <2>4, ParseIsLegal
    <3>2. /\ stored' = [stored EXCEPT ![key] = v]
          /\ reboot_pending' = (reboot_pending \/ item.reboot)
          /\ registry' = registry /\ owner' = owner /\ running' = running
      BY <2>2, <2>4 DEF Store
    <3>3. \A k \in Keys : stored'[k] = IF k = key THEN v ELSE stored[k]
      BY <3>2 DEF ConfigInv, StoredLegal
    <3>4. StoredLegal'
      <4>1. stored' = [k \in Keys |-> stored'[k]]  BY <3>2 DEF ConfigInv, StoredLegal
      <4>2. QED  BY <3>1, <3>3, <4>1 DEF ConfigInv, StoredLegal
    <3>5. item.reboot \in BOOLEAN  BY <2>2, ItemAssumption
    <3>6. reboot_pending' \in BOOLEAN  BY <3>2, <3>5 DEF ConfigInv
    <3>7. PendingTold'
      <4>1. SUFFICES ASSUME NEW k \in ToSet(registry), Of(k).reboot, stored'[k] # running[k]
                     PROVE  reboot_pending'
        BY <3>2 DEF PendingTold
      <4>2. k \in Keys  BY ElementOfSeq DEF ConfigInv, ToSet
      <4>3. CASE k = key  BY <3>2, <4>1, <4>3
      <4>4. CASE k # key  BY <3>2, <3>3, <4>1, <4>2, <4>4 DEF ConfigInv, PendingTold
      <4>5. QED  BY <4>3, <4>4
    <3>8. QED  BY <3>2, <3>4, <3>6, <3>7 DEF ConfigInv
  <2>5. QED  BY <1>2, <2>3, <2>4 DEF SetText
<1>3. ASSUME NEW erased \in BOOLEAN, BootConfig(erased) PROVE ConfigInv'
  <2>1. registry' = <<>> /\ owner' = 0 /\ reboot_pending' = FALSE /\ running' = running
    BY <1>3 DEF BootConfig
  <2>2. registry' \in Seq(Keys) /\ owner' \in 0 .. Len(Owners)  BY <2>1, OwnerAssumption
  <2>3. stored' = stored \/ stored' = [k \in Keys |-> Absent]  BY <1>3 DEF BootConfig
  <2>4. StoredLegal'  BY <2>3 DEF ConfigInv, StoredLegal
  <2>5. PendingTold'  BY <2>1 DEF PendingTold, ToSet
  <2>6. QED  BY <2>1, <2>2, <2>4, <2>5 DEF ConfigInv
<1>4. CASE UNCHANGED config  BY <1>4 DEF config, ConfigInv, StoredLegal, PendingTold
<1>5. QED  BY ConfigSteps, <1>1, <1>2, <1>3, <1>4 DEF ConfigNext

\* What the requests of a client, and the boots, leave of the commissioning's own state.
LEMMA RequestStep ==
  ASSUME ConfigInv, RequestTypes, selected = 0 \/ selected < Len(registry), [Next]_vars
  PROVE  RequestTypes' /\ (selected = 0 \/ selected < Len(registry))'
<1> USE DEF RequestTypes, request
<1>1. CASE StartNext
  <2>1. UNCHANGED <<provisioned, request>>  BY <1>1 DEF StartNext
  <2>2. CASE StartOwner
    <3>1. Len(registry) <= Len(registry') /\ registry' \in Seq(Keys)
      BY <2>2, RegistryGrows DEF StartOwner
    <3>2. Len(registry) \in Nat /\ Len(registry') \in Nat  BY <3>1 DEF ConfigInv
    <3>3. QED  BY <2>1, <3>1, <3>2
  <2>3. CASE UNCHANGED config  BY <2>1, <2>3 DEF config
  <2>4. QED  BY <1>1, <2>2, <2>3 DEF StartNext
<1>2. ASSUME NEW erased \in BOOLEAN, Boot(erased)
      PROVE  RequestTypes' /\ (selected = 0 \/ selected < Len(registry))'
  <2>1. provisioned' \in BOOLEAN  BY <1>2 DEF Boot
  <2>2. selected' = 0 /\ restart_timer' = FALSE /\ factory_reset_requested' = FALSE
    BY <1>2 DEF Boot
  <2>3. QED  BY <2>1, <2>2
<1>3. CASE RestartTimer \/ PowerCut  BY <1>2, <1>3 DEF RestartTimer, PowerCut
<1>4. ASSUME NEW i \in 0 .. Len(registry), SelectItem(i)
      PROVE  RequestTypes' /\ (selected = 0 \/ selected < Len(registry))'
  BY <1>4 DEF SelectItem, config, ConfigInv
<1>5. ASSUME NEW t \in Texts, NEW nvs_ok \in BOOLEAN, WriteValue(t, nvs_ok)
      PROVE  RequestTypes' /\ (selected = 0 \/ selected < Len(registry))'
  BY <1>5 DEF WriteValue, SetText, Store, config
<1>6. ASSUME NEW nvs_ok \in BOOLEAN, Commit(nvs_ok)
      PROVE  RequestTypes' /\ (selected = 0 \/ selected < Len(registry))'
  BY <1>6 DEF Commit, config
<1>7. CASE Reboot \/ FactoryReset  BY <1>7 DEF Reboot, FactoryReset, config
<1>8. CASE Client  BY <1>4, <1>5, <1>6, <1>7, <1>8 DEF Client
<1>9. CASE Connected  BY <1>9 DEF Connected, config
<1>10. CASE Rest  BY <1>10 DEF Rest, config
<1>11. CASE UNCHANGED vars  BY <1>11 DEF vars, config
<1>12. CASE Next
  BY <1>1, <1>3, <1>8, <1>9, <1>10, <1>12 DEF Next, HostEvents, Timers, MainLoop
<1>13. QED  BY <1>11, <1>12

\* No step takes a flag of the radio, or of what is wanted of it, out of its range.
LEMMA RadioTypesStep ==
  ASSUME RadioTypes, provisioned \in BOOLEAN, [Next]_vars PROVE RadioTypes'
<1> USE DEF RadioTypes, radio, session, loop, nimble, timers
<1>1. CASE OnSync \/ OnConnect \/ OnRefused \/ OnDisconnect \/ Unwind \/ OnReset
  BY <1>1 DEF OnSync, Advertise, OnConnect, OnRefused, OnDisconnect, Unwind, OnReset, Told, Fault
<1>2. CASE Central \/ DropLink \/ Pair \/ (\E on \in BOOLEAN : Subscribe(on))
         \/ (\E on \in BOOLEAN : Identify(on))
  BY <1>2 DEF Central, DropLink, Pair, Subscribe, Identify, OnLink
<1>3. CASE AdvTimer \/ StatusExpires \/ StatusNotifies \/ Select \/ Deselect
    BY <1>3 DEF AdvTimer, StatusExpires, StatusNotifies, Select, Deselect, AdvertiseStart,
     Advertise, Fault, MayAdvertise, SetProgrammingMode
<1>4. CASE RadioStart \/ Recover \/ RadioStop \/ DropClient \/ HostEndsLink
    BY <1>4 DEF RadioStart, Recover, RadioStop, DropClient, HostEndsLink, Fault, AdvertiseStart,
     Advertise, MayAdvertise
<1>5. CASE HostStops \/ HostWillNotStop \/ Deinit
  BY <1>5 DEF HostStops, HostWillNotStop, Deinit, Fault
<1>6. CASE OobStart(provisioned) \/ BootOob
  BY <1>6 DEF OobStart, BootOob
<1>7. CASE UNCHANGED oob  BY <1>7 DEF oob
<1>8. QED  BY OobSteps, <1>1, <1>2, <1>3, <1>4, <1>5, <1>6, <1>7 DEF OobNext

\* Nor a flag of the session and of the link it runs over.
LEMMA SessionTypesStep ==
  ASSUME SessionTypes, [Next]_vars PROVE SessionTypes'
<1> USE DEF SessionTypes, radio, session, loop, nimble, timers
<1>1. CASE OnSync \/ OnConnect \/ OnRefused \/ OnDisconnect \/ Unwind \/ OnReset
  BY <1>1 DEF OnSync, Advertise, OnConnect, OnRefused, OnDisconnect, Unwind, OnReset, Told, Fault
<1>2. CASE Central \/ DropLink \/ Pair \/ (\E on \in BOOLEAN : Subscribe(on))
         \/ (\E on \in BOOLEAN : Identify(on))
  BY <1>2 DEF Central, DropLink, Pair, Subscribe, Identify, OnLink
<1>3. CASE AdvTimer \/ StatusExpires \/ StatusNotifies \/ Select \/ Deselect
    BY <1>3 DEF AdvTimer, StatusExpires, StatusNotifies, Select, Deselect, AdvertiseStart,
     Advertise, Fault, MayAdvertise, SetProgrammingMode
<1>4. CASE RadioStart \/ Recover \/ RadioStop \/ DropClient \/ HostEndsLink
    BY <1>4 DEF RadioStart, Recover, RadioStop, DropClient, HostEndsLink, Fault, AdvertiseStart,
     Advertise, MayAdvertise
<1>5. CASE HostStops \/ HostWillNotStop \/ Deinit
  BY <1>5 DEF HostStops, HostWillNotStop, Deinit, Fault
<1>6. CASE OobStart(provisioned) \/ BootOob
  BY <1>6 DEF OobStart, BootOob
<1>7. CASE UNCHANGED oob  BY <1>7 DEF oob
<1>8. QED  BY OobSteps, <1>1, <1>2, <1>3, <1>4, <1>5, <1>6, <1>7 DEF OobNext

\* Nor the state of the main loop and of the host.
LEMMA HostTypesStep ==
  ASSUME HostTypes, [Next]_vars PROVE HostTypes'
<1> USE DEF HostTypes, radio, session, loop, nimble, timers
<1>1. CASE OnSync \/ OnConnect \/ OnRefused \/ OnDisconnect \/ Unwind \/ OnReset
  BY <1>1 DEF OnSync, Advertise, OnConnect, OnRefused, OnDisconnect, Unwind, OnReset, Told, Fault
<1>2. CASE Central \/ DropLink \/ Pair \/ (\E on \in BOOLEAN : Subscribe(on))
         \/ (\E on \in BOOLEAN : Identify(on))
  BY <1>2 DEF Central, DropLink, Pair, Subscribe, Identify, OnLink
<1>3. CASE AdvTimer \/ StatusExpires \/ StatusNotifies \/ Select \/ Deselect
    BY <1>3 DEF AdvTimer, StatusExpires, StatusNotifies, Select, Deselect, AdvertiseStart,
     Advertise, Fault, MayAdvertise, SetProgrammingMode
<1>4. CASE RadioStart \/ Recover \/ RadioStop \/ DropClient \/ HostEndsLink
    BY <1>4 DEF RadioStart, Recover, RadioStop, DropClient, HostEndsLink, Fault, AdvertiseStart,
     Advertise, MayAdvertise
<1>5. CASE HostStops \/ HostWillNotStop \/ Deinit
  BY <1>5 DEF HostStops, HostWillNotStop, Deinit, Fault
<1>6. CASE OobStart(provisioned) \/ BootOob
  BY <1>6 DEF OobStart, BootOob
<1>7. CASE UNCHANGED oob  BY <1>7 DEF oob
<1>8. QED  BY OobSteps, <1>1, <1>2, <1>3, <1>4, <1>5, <1>6, <1>7 DEF OobNext

\* All that the device keeps of a commissioning.
Inv ==
  /\ OobTypes /\ ConfigInv /\ RequestTypes
  /\ selected = 0 \/ selected < Len(registry)

\* It holds from the first boot on, over every boot.
LEMMA Invariant == Spec => []Inv
<1>1. Init => Inv
  <2> SUFFICES ASSUME Init PROVE Inv  OBVIOUS
  <2>1. OobTypes  BY DEF Init, OobInit, OobTypes, RadioTypes, SessionTypes, HostTypes
  <2>2. ConfigInv
    <3>1. registry \in Seq(Keys) /\ owner \in 0 .. Len(Owners) /\ reboot_pending \in BOOLEAN
      <4>1. registry = <<>> /\ owner = 0 /\ reboot_pending = FALSE  BY DEF Init, ConfigInit
      <4>2. Len(Owners) \in Nat  BY OwnerAssumption
      <4>3. registry \in Seq(Keys)  BY <4>1, EmptySeq
      <4>4. owner \in 0 .. Len(Owners)  BY <4>1, <4>2
      <4>5. QED  BY <4>1, <4>3, <4>4
    <3>2. stored = [k \in Keys |-> Absent] /\ running = stored  BY DEF Init, ConfigInit
    <3>3. StoredLegal /\ running = [k \in Keys |-> running[k]]  BY <3>2 DEF StoredLegal
    <3>4. PendingTold  BY DEF PendingTold, ToSet, Init, ConfigInit
    <3>5. QED  BY <3>1, <3>3, <3>4 DEF ConfigInv
  <2>3. RequestTypes /\ selected = 0  BY DEF Init, RequestTypes
  <2>4. QED  BY <2>1, <2>2, <2>3 DEF Inv
<1>2. Inv /\ [Next]_vars => Inv'
  <2> SUFFICES ASSUME Inv, [Next]_vars PROVE Inv'  OBVIOUS
  <2>1. provisioned \in BOOLEAN /\ selected \in Nat  BY DEF Inv, RequestTypes
  <2>2. QED  BY <2>1, RadioTypesStep, SessionTypesStep, HostTypesStep, ConfigStep,
             RequestStep DEF Inv, OobTypes
<1>3. QED  BY <1>1, <1>2, PTL DEF Spec

\* Every variable of the channel and of the commissioning keeps its range, and the item
\* that a client has chosen is one of the registry's: the index chr_access() takes from
\* s_ctx never runs past the table, whatever is registered and whenever it restarts.
THEOREM TypeCorrect == Spec => []TypeOK
<1>1. Inv => TypeOK
  <2> SUFFICES ASSUME Inv PROVE TypeOK  OBVIOUS
  <2>1. selected = 0 \/ selected \in 0 .. Len(registry) - 1
    BY DEF Inv, ConfigInv, RequestTypes
  <2>2. reboot_pending \in BOOLEAN  BY DEF Inv, ConfigInv
  <2>3. QED  BY <2>1, <2>2
    DEF Inv, OobTypes, RadioTypes, SessionTypes, HostTypes, RequestTypes, TypeOK
<1>2. QED  BY <1>1, Invariant, PTL

\* What the registry shows of a legal setting is parsed into that setting.
LEMMA ReadBack ==
  ASSUME StoredLegal, NEW k \in Keys, ~Of(k).secret
  PROVE  Parse(Of(k), GetText(Of(k))) = Get(Of(k), stored[k])
<1> DEFINE item == Of(k)
           v == stored[k]
<1>1. item \in Items /\ item.key = k  BY ItemOfKey
<1>2. v = Absent \/ Legal(item, v)  BY DEF StoredLegal
<1>3. GetText(item) = Format(item, Get(item, v))  BY <1>1 DEF GetText
<1>4. item.type \in {"string", "uint", "enum"}  BY <1>1, ItemAssumption
<1>5. CASE item.type = "string"
  <2>1. GetText(item) = StoredText(v) /\ Get(item, v) = StoredText(v)
    BY <1>3, <1>5 DEF Format, Get, NetcfgGet
  <2>2. CASE v = Absent
    <3>1. Accepted(item, NoText) /\ NoText # Refused
      BY <1>1, <1>5, ItemAssumption, LengthAssumption DEF Accepted, NoText, Word, Refused
    <3>2. QED  BY <1>5, <2>1, <2>2, <3>1 DEF StoredText, Parse
  <2>3. CASE v # Absent
    BY <1>2, <1>5, <2>1, <2>3 DEF Legal, StoredText, Parse
  <2>4. QED  BY <2>2, <2>3
<1>6. CASE item.type = "uint"
  <2>1. PICK n \in 0 .. UintMax : Get(item, v) = Whole(n) /\ Accepted(item, Whole(n))
    <3>1. item.min = 0 /\ item.max \in 0 .. UintMax  BY <1>1, <1>6, ItemAssumption
    <3>2. Get(item, v) = StoredNumber(item, v)  BY <1>6 DEF Get
    <3>3. CASE v = Absent
      <4>1. Get(item, v) = Whole(0)  BY <1>6, <3>2, <3>3 DEF StoredNumber
      <4>2. 0 \in item.min .. item.max /\ 0 \in 0 .. UintMax  BY <3>1, OwnerAssumption
      <4>3. Accepted(item, Whole(0))  BY <1>6, <4>2 DEF Accepted, WithinBounds, Whole
      <4>4. QED  BY <4>1, <4>2, <4>3
    <3>4. CASE v # Absent
      <4>1. Get(item, v) = v  BY <1>6, <3>2, <3>4 DEF StoredNumber
      <4>2. Legal(item, v)  BY <1>2, <3>4
      <4>3. v.n \in 0 .. UintMax  BY <1>6, <4>2, OwnerAssumption DEF Legal
      <4>4. v = Whole(v.n) /\ Accepted(item, v)  BY <1>6, <4>2 DEF Legal
      <4>5. QED  BY <4>1, <4>3, <4>4
    <3>5. QED  BY <3>3, <3>4
  <2>2. GetText(item) = Whole(n)  BY <1>3, <1>6, <2>1 DEF Format
  <2>3. ParseUnsigned(Whole(n)) = Whole(n) /\ Whole(n) # Refused
    BY DEF ParseUnsigned, Whole, Refused
  <2>4. QED  BY <1>6, <2>1, <2>2, <2>3 DEF Parse
<1>7. CASE item.type = "enum"
  <2>1. PICK n \in Nat : Get(item, v) = Whole(n) /\ n < Len(item.labels)
    <3>1. Len(item.labels) \in Nat /\ Len(item.labels) > 1  BY <1>1, <1>7, ItemAssumption
    <3>2. Get(item, v) = StoredNumber(item, v)  BY <1>7 DEF Get
    <3>3. CASE v = Absent \/ v.n >= Len(item.labels)
      <4>1. Get(item, v) = Whole(1)  BY <1>7, <3>2, <3>3 DEF StoredNumber
      <4>2. QED  BY <3>1, <4>1
    <3>4. CASE ~(v = Absent \/ v.n >= Len(item.labels))
      <4>1. Get(item, v) = v  BY <1>7, <3>2, <3>4 DEF StoredNumber
      <4>2. v.n \in Nat /\ v = Whole(v.n)  BY <1>2, <1>7, <3>4 DEF Legal
      <4>3. QED  BY <3>1, <3>4, <4>1, <4>2
    <3>5. QED  BY <3>3, <3>4
  <2>2. n + 1 \in 1 .. Len(item.labels)  BY <1>1, <1>7, <2>1, ItemAssumption
  <2>3. GetText(item) = item.labels[n + 1]
    BY <1>3, <1>7, <2>1 DEF Format, Whole
  <2>4. Parse(item, item.labels[n + 1]) = Whole(n + 1 - 1)  BY <1>1, <1>7, <2>2, LabelParses
  <2>5. n + 1 - 1 = n  OBVIOUS
  <2>6. QED  BY <2>1, <2>3, <2>4, <2>5
<1>8. QED  BY <1>4, <1>5, <1>6, <1>7

\* The registry tells of every setting that waits for a restart, and what it shows of
\* one that is no secret can be written back and changes nothing: device_config.c with
\* the hooks of its owners, for every table whose labels differ and every client.
THEOREM SettingsAreTold == Spec => []SettingsTold
<1>1. Inv => SettingsTold
  <2> SUFFICES ASSUME Inv PROVE SettingsTold  OBVIOUS
  <2>1. PendingTold /\ StoredLegal  BY DEF Inv, ConfigInv
  <2>2. ASSUME NEW k \in ToSet(registry) PROVE k \in Keys
    BY ElementOfSeq DEF Inv, ConfigInv, ToSet
  <2>3. ShownReadsBack  BY <2>1, <2>2, ReadBack DEF ShownReadsBack
  <2>4. QED  BY <2>1, <2>3 DEF SettingsTold
<1>2. QED  BY <1>1, Invariant, PTL

-----------------------------------------------------------------------------
(* The safety half of RadioFollows: who still owes a selected device its    *)
(* advertising.                                                            *)

\* The radio of a selected device is up, and nothing that would make it advertise is
\* still to come: no host that starts, no event, no timer, no stop to recover from.
Settled ==
  /\ programming_mode /\ radio_up /\ lpc = "idle" /\ ~stop_pending
  /\ host # "starting" /\ news = "none" /\ ~adv_timer

\* Such a device is on the air, unless its advertising was lost in one of the ways the code
\* does not make up for.
NotForgotten == ~unlucky /\ Settled => air # "silent"

\* Outside radio_stop() a radio that is up has a host, and one that is up is in sync, unless
\* it had no address.
HostKnown ==
  /\ ~unlucky /\ host = "up" => synced
  /\ ~armed => ~radio_up
  /\ radio_up /\ lpc # "deinit" => host # "off"

\* The flag is true of the air, but for what gap_event() has not heard of.
AdvertisingTrue ==
  ~unlucky /\ lpc = "idle" /\ advertising => air = "adv" \/ news \in {"connect", "refused"}

\* A host without a link, and without news of one, has the timer behind it.
SomebodyStarts ==
  ~unlucky /\ programming_mode /\ lpc = "idle" /\ host = "up" /\ ~stop_pending /\ news = "none" =>
    air # "silent" \/ adv_timer

RadioInv == OobInv /\ HostKnown /\ AdvertisingTrue /\ SomebodyStarts

\* Each callback that ends a link or finds no room for advertising leaves the timer,
\* and each that takes the timer advertises or finds that another will.
LEMMA RadioInvStep ==
  ASSUME OobTypes, RadioInv, [Next]_vars
  PROVE  HostKnown' /\ AdvertisingTrue' /\ SomebodyStarts'
<1> USE DEF OobTypes, RadioTypes, SessionTypes, HostTypes, RadioInv, OobInv, HostOnAir, Clean,
            HostKnown, AdvertisingTrue, SomebodyStarts, radio, session, loop, nimble, timers, history
<1>1. CASE OnSync  BY <1>1 DEF OnSync, Advertise, Fault
<1>2. CASE Central  BY <1>2 DEF Central
<1>3. CASE DropLink  BY <1>3 DEF DropLink
<1>4. CASE OnConnect  BY <1>4 DEF OnConnect, Told
<1>5. CASE OnRefused  BY <1>5 DEF OnRefused, Told
<1>6. CASE OnDisconnect  BY <1>6 DEF OnDisconnect, Told
<1>7. CASE Unwind  BY <1>7 DEF Unwind
<1>8. CASE OnReset  BY <1>8 DEF OnReset, Fault
<1>9. CASE Pair  BY <1>9 DEF Pair, OnLink
<1>10. CASE \E on \in BOOLEAN : Subscribe(on)  BY <1>10 DEF Subscribe, OnLink
<1>11. CASE \E on \in BOOLEAN : Identify(on)  BY <1>11 DEF Identify, OnLink
<1>12. CASE AdvTimer  BY <1>12 DEF AdvTimer, AdvertiseStart, Advertise, MayAdvertise, Fault
<1>13. CASE StatusExpires  BY <1>13 DEF StatusExpires
<1>14. CASE StatusNotifies  BY <1>14 DEF StatusNotifies
<1>15. CASE Select  BY <1>15 DEF Select, SetProgrammingMode, Overlooked
<1>16. CASE Deselect  BY <1>16 DEF Deselect, SetProgrammingMode
<1>17. CASE RadioStart  BY <1>17 DEF RadioStart, Fault
<1>18. CASE Recover  BY <1>18 DEF Recover, AdvertiseStart, Advertise, MayAdvertise, Fault
<1>19. CASE RadioStop  BY <1>19 DEF RadioStop
<1>20. CASE DropClient  BY <1>20 DEF DropClient
<1>21. CASE HostEndsLink  BY <1>21 DEF HostEndsLink
<1>22. CASE HostStops  BY <1>22 DEF HostStops
<1>23. CASE HostWillNotStop  BY <1>23 DEF HostWillNotStop, Fault
<1>24. CASE Deinit  BY <1>24 DEF Deinit
<1>25. CASE OobStart(provisioned)  BY <1>25 DEF OobStart
<1>26. CASE BootOob  BY <1>26 DEF BootOob
<1>27. CASE UNCHANGED oob  BY <1>27 DEF oob
<1> QED
  BY OobSteps, <1>1, <1>2, <1>3, <1>4, <1>5, <1>6, <1>7, <1>8, <1>9, <1>10, <1>11, <1>12, <1>13,
     <1>14, <1>15, <1>16, <1>17, <1>18, <1>19, <1>20, <1>21, <1>22, <1>23, <1>24, <1>25, <1>26, <1>27
     DEF OobNext

\* A device that stays selected is not forgotten: whatever order links, resets, refused
\* stops and selections come in, and however many, someone is left who makes it advertise.
THEOREM SelectedIsReachable == Spec => []NotForgotten
<1>1. Init => RadioInv
  BY DEF Init, OobInit, RadioInv, OobInv, HostOnAir, Clean, HostKnown, AdvertisingTrue, SomebodyStarts
<1>2. Inv /\ RadioInv /\ [Next]_vars => RadioInv'
  BY OobStep, RadioInvStep DEF Inv, RadioInv
<1>3. Inv /\ RadioInv => NotForgotten
  BY DEF Inv, OobTypes, HostTypes, RadioInv, HostKnown, SomebodyStarts, Settled, NotForgotten
<1> QED  BY <1>1, <1>2, <1>3, Invariant, PTL DEF Spec
=============================================================================
