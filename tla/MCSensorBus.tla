---------------------------- MODULE MCSensorBus ----------------------------
(* The image as it is built by default, and the one with BSEC dropped in.   *)
EXTENDS SensorBus

MCBuilds == {"direct", "bsec"}
=============================================================================
