------------------------------ MODULE Settings ------------------------------
(***************************************************************************)
(* The settings the parts of the firmware contribute to the registry, and  *)
(* the hooks that read them from NVS and write them there.                 *)
(*                                                                         *)
(* A text is what the parsers tell apart: [lex |-> "whole", n |-> k] is    *)
(* the number k in digits, "word" a word by its number, 0 the empty one.   *)
(***************************************************************************)
EXTENDS Naturals, Sequences

CONSTANTS Length(_),       \* the characters of a text
          Multicast(_)     \* a text that names a multicast group

Whole(n) == [lex |-> "whole", n |-> n]
Word(n)  == [lex |-> "word", n |-> n]

NoText  == Word(0)
Present == Word(1)                       \* "x": what is told of a secret
Absent  == [lex |-> "none", n |-> 0]     \* NVS holds nothing under this key

-----------------------------------------------------------------------------
(* The tables.                                                             *)

Text(key, max, secret) ==
  [key |-> key, type |-> "string", max |-> max, secret |-> secret, reboot |-> TRUE]

\* The name that BLE advertises.
DeviceItems == <<Text("dev.name", 20, FALSE)>>

KnxIpItems == <<Text("knx.mcast", 15, FALSE)>>

WifiItems == <<Text("net.ssid", 32, FALSE), Text("net.pass", 63, TRUE)>>

MqttItems == <<Text("net.broker", 127, FALSE), Text("net.user", 63, FALSE), Text("net.mqpass", 63, TRUE)>>

\* Address 0 is the silent one; a rate is a code point with a label.
ModbusItems ==
  << [key |-> "mb.addr", type |-> "uint", min |-> 0, max |-> 247, secret |-> FALSE, reboot |-> TRUE],
     [key |-> "mb.baud", type |-> "enum", secret |-> FALSE, reboot |-> TRUE,
      labels |-> <<Whole(9600), Whole(19200), Whole(38400), Whole(57600), Whole(115200)>>] >>

-----------------------------------------------------------------------------
(* The hooks.                                                              *)

\* mb_stored_address() and mb_stored_baud_code(): unassigned, and 19200.
StoredNumber(item, v) ==
  CASE item.type = "uint" -> IF v = Absent THEN Whole(0) ELSE v
    [] item.type = "enum" -> IF v = Absent \/ v.n >= Len(item.labels) THEN Whole(1) ELSE v

StoredText(v) == IF v = Absent THEN NoText ELSE v

\* netcfg_cfg_get(): the fact that there is a secret, never the secret.
NetcfgGet(item, v) ==
  IF item.secret /\ Length(StoredText(v)) > 0 THEN Present ELSE StoredText(v)

Get(item, v) == IF item.type = "string" THEN NetcfgGet(item, v) ELSE StoredNumber(item, v)

\* A group the device could not join is refused; none stands for the default.
KnxIpConfigSet(v) == v = NoText \/ Multicast(v)

SetHook(item, v) == item.key = "knx.mcast" => KnxIpConfigSet(v)
=============================================================================
