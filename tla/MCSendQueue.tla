---------------------------- MODULE MCSendQueue ----------------------------
(* Three remote machines, batches of two broadcasts, calls of up to five.   *)
EXTENDS SendQueue
=============================================================================
