------------------------------ MODULE LatestWins ------------------------------
(***************************************************************************)
(* What a place that holds one request promises those who ask: a request   *)
(* gives way only to a later one, an older one is never served after a     *)
(* newer one, and whoever asks is served, or somebody who asked later.     *)
(*                                                                         *)
(* The requests are numbered in the order in which they are made.          *)
(***************************************************************************)
EXTENDS Naturals

VARIABLES
  asked,    \* the last request
  served    \* the request that was served last

Init  == asked = 0 /\ served = 0

Ask   == asked' = asked + 1 /\ UNCHANGED served
Serve == served < asked /\ served' \in (served + 1) .. asked /\ UNCHANGED asked

Next  == Ask \/ Serve

Spec  == Init /\ [][Next]_<<asked, served>> /\ WF_<<asked, served>>(Serve)
=============================================================================
