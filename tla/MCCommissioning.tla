--------------------------- MODULE MCCommissioning ---------------------------
(* An image on RS-485 with a network: a secret and the line settings, and   *)
(* the texts a client tries.                                                *)
EXTENDS Commissioning

MCOwners == << SubSeq(WifiItems, 2, 2), ModbusItems >>

MCTexts == {Whole(19200), Whole(3)}

\* Word k has k characters, and so have the numbers.
MCLength(t)    == IF t.lex = "word" THEN t.n ELSE IF t.n < 10 THEN 1 ELSE 5
MCMulticast(t) == t = Word(9)

\* All that any image contributes fits into the registry, under keys that differ.
ASSUME EveryTableFits ==
  LET all == DeviceItems \o KnxIpItems \o WifiItems \o MqttItems \o ModbusItems
  IN /\ Len(all) <= MaxItems
     /\ Cardinality({all[i].key : i \in DOMAIN all}) = Len(all)
=============================================================================
