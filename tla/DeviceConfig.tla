---------------------------- MODULE DeviceConfig ----------------------------
(***************************************************************************)
(* The registry of a device's own settings.  Owners contribute items; a    *)
(* channel reads and writes them as text, by index.  The registry holds    *)
(* no value: each item's hooks read and write what NVS has stored, and the *)
(* firmware acts on it from the next boot.                                 *)
(*                                                                         *)
(* The types are those the firmware's items have: no item is a boolean, a  *)
(* signed number or a float.                                               *)
(***************************************************************************)
EXTENDS Settings, Integers, FiniteSets, SequencesExt

CONSTANTS
  Owners,        \* a sequence: the batch of items each owner contributes, in order of start-up
  MaxItems,      \* DEVICE_CONFIG_MAX_ITEMS
  UintMax        \* UINT32_MAX

Items  == UNION {ToSet(Owners[o]) : o \in DOMAIN Owners}
Keys   == {i.key : i \in Items}
Of(k)  == CHOOSE i \in Items : i.key = k

ASSUME OwnerAssumption  == Owners \in Seq(Seq(Items)) /\ {MaxItems, UintMax} \subseteq Nat
ASSUME LengthAssumption == Length(NoText) = 0
\* Every owner starts from a legal setting, and no two labels of one item are the same.
ASSUME ItemAssumption ==
  \A i \in Items :
    /\ {i.secret, i.reboot} \subseteq BOOLEAN
    /\ \/ i.type = "string" /\ i.max \in Nat
       \/ i.type = "uint" /\ i.min = 0 /\ i.max \in 0 .. UintMax
       \/ /\ i.type = "enum" /\ i.labels \in Seq([lex : {"whole", "word"}, n : Int]) /\ Len(i.labels) > 1
          /\ \A a, b \in 1 .. Len(i.labels) : i.labels[a] = i.labels[b] => a = b

VARIABLES
  registry,      \* the keys of the items, in order of registration
  owner,         \* how many owners have contributed
  stored,        \* key -> the value in NVS, or Absent
  running,       \* key -> what the firmware read at start-up
  reboot_pending

config == <<registry, owner, stored, running, reboot_pending>>

Refused == [lex |-> "refused", n |-> 0]     \* stands for every error of parse and validate
Set     == Word(-1)                         \* "<set>"
Unset   == Word(-2)                         \* "<unset>"

-----------------------------------------------------------------------------
(* Text and values.                                                        *)

WithinBounds(item, n) == (item.min = 0 /\ item.max = 0) \/ n \in item.min .. item.max

\* Numbers are refused, never clamped; labels are the bound of an enum that has them.
Accepted(item, v) ==
  CASE item.type = "uint"   -> WithinBounds(item, v.n)
    [] item.type = "enum"   -> v.n < Len(item.labels)
    [] item.type = "string" -> item.max > 0 => Length(v) <= item.max

ParseUnsigned(t) == IF t.lex = "whole" /\ t.n \in 0 .. UintMax THEN t ELSE Refused

LabelOf(item, t) == SelectInSeq(item.labels, LAMBDA label : label = t)

\* Mutant: the position of a label, which counts from 1 here, is taken for its code point.
ParseEnumPosition(item, t) ==
  IF Contains(item.labels, t) THEN Whole(LabelOf(item, t)) ELSE ParseUnsigned(t)

\* A label goes before a code point.
ParseEnum(item, t) ==
  IF Contains(item.labels, t) THEN Whole(LabelOf(item, t) - 1) ELSE ParseUnsigned(t)

Parse(item, t) ==
  LET v == CASE item.type = "uint"   -> ParseUnsigned(t)
             [] item.type = "enum"   -> ParseEnum(item, t)
             [] item.type = "string" -> t
  IN IF v # Refused /\ Accepted(item, v) THEN v ELSE Refused

\* A secret is never rendered, only whether there is one.
Format(item, v) ==
  CASE item.secret -> IF Length(v) = 0 THEN Unset ELSE Set
    [] ~item.secret /\ item.type = "enum" -> item.labels[v.n + 1]
    [] OTHER -> v

-----------------------------------------------------------------------------
(* Registration, start-up and writes.                                      *)

Unique(batch) ==
  \A i \in DOMAIN batch :
    /\ \A j \in DOMAIN batch : i # j => batch[i].key # batch[j].key
    /\ ~Contains(registry, batch[i].key)

\* The whole batch or nothing of it.
Register(batch) ==
  registry' = IF Len(registry) + Len(batch) <= MaxItems /\ Unique(batch)
              THEN registry \o [i \in DOMAIN batch |-> batch[i].key] ELSE registry

\* An owner reads its settings and contributes its items when it starts.
StartOwner ==
  /\ owner < Len(Owners) /\ owner' = owner + 1
  /\ Register(Owners[owner + 1])
  /\ running' = [k \in Keys |-> IF k \in {i.key : i \in ToSet(Owners[owner + 1])}
                                THEN stored[k] ELSE running[k]]
  /\ UNCHANGED <<stored, reboot_pending>>

Store(item, v) ==
  /\ stored' = [stored EXCEPT ![item.key] = v]
  /\ reboot_pending' = (reboot_pending \/ item.reboot)
  /\ UNCHANGED <<registry, owner, running>>

\* device_config_set_text(), where the owner or NVS may refuse what the registry accepts.
SetText(item, t, nvs_ok) ==
  IF Parse(item, t) # Refused /\ SetHook(item, Parse(item, t)) /\ nvs_ok
  THEN Store(item, Parse(item, t))
  ELSE UNCHANGED config

GetText(item) == Format(item, Get(item, stored[item.key]))

\* What a boot leaves: NVS, or nothing of it after a factory reset.
BootConfig(erased) ==
  /\ registry' = <<>> /\ owner' = 0 /\ reboot_pending' = FALSE
  /\ stored' = IF erased THEN [k \in Keys |-> Absent] ELSE stored
  /\ UNCHANGED running

ConfigInit ==
  /\ registry = <<>> /\ owner = 0 /\ reboot_pending = FALSE
  /\ stored = [k \in Keys |-> Absent] /\ running = stored

\* The device runs on what it has stored, or says that it needs a restart.
PendingTold ==
  \A k \in ToSet(registry) : Of(k).reboot /\ stored[k] # running[k] => reboot_pending

\* What the channel shows of a setting, written back, changes nothing.
ShownReadsBack ==
  \A k \in ToSet(registry) :
    ~Of(k).secret => Parse(Of(k), GetText(Of(k))) = Get(Of(k), stored[k])
=============================================================================
