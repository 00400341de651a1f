----------------------------- MODULE MCRoomControl -----------------------------
(* Instances of RoomControl for TLC.                                       *)
EXTENDS RoomControl

\* Room air at 22 degrees, dry and humid, and a floor at 12, damp and dry.
MCAir == {<<0, 0>>, <<22, 40>>, <<22, 70>>, <<12, 90>>, <<12, 50>>}
MCDew == [a \in MCAir |-> CASE a = <<0, 0>> -> -60 [] a = <<22, 40>> -> 8 [] a = <<22, 70>> -> 16
                            [] a = <<12, 90>> -> 10 [] a = <<12, 50>> -> 2]
MCContent == [a \in MCAir |-> CASE a = <<0, 0>> -> 0 [] a = <<22, 40>> -> 8 [] a = <<22, 70>> -> 14
                                [] a = <<12, 90>> -> 10 [] a = <<12, 50>> -> 5]

Quiet == [tempOk |-> TRUE, humOk |-> TRUE, air |-> <<22, 40>>, floorOk |-> TRUE,
          wetOk |-> TRUE, floor |-> <<12, 50>>, co2Ok |-> TRUE, co2 |-> 8,
          draught |-> FALSE, people |-> FALSE, fire |-> FALSE]
Humid   == [Quiet EXCEPT !.air = <<22, 70>>, !.co2 = 15]
Leaking == [Quiet EXCEPT !.floor = <<12, 90>>]
NoProbe == [Humid EXCEPT !.floorOk = FALSE, !.wetOk = FALSE]
NoAir   == [Quiet EXCEPT !.tempOk = FALSE, !.humOk = FALSE, !.fire = TRUE]

\* A room with a contact and a detector, one with a fan, one with a cooled ceiling.
MCRooms ==
  {[linked |-> {"contact", "detector"},
    records |-> {[Quiet EXCEPT !.draught = TRUE], [NoAir EXCEPT !.people = TRUE]}],
   [linked |-> {"fan"}, records |-> {Leaking, Humid}],
   [linked |-> {"central", "flow"}, records |-> {Quiet, Humid, NoProbe}]}

\* The limits of the code: margin 2 and 1 kelvin, 85 and 5 percent, 2 grams.
Coldest == [surface |-> {"floor", "flow"}, margin |-> 2, gap |-> 2, damp |-> 85,
            dampGap |-> 5, excess |-> 2, excessGap |-> 1, co2 |-> 9, band |-> 4,
            humid |-> 65, humidBand |-> 15, base |-> 20, manual |-> 50]
FlowOnly == [Coldest EXCEPT !.surface = {"flow"}, !.damp = 0, !.excess = 0, !.band = 0]
MCPlans == {Coldest, FlowOnly}

MCAsks == [k \in Kinds |-> IF k = "in" THEN 2 ELSE 1]
=============================================================================
