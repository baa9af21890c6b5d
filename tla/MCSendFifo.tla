----------------------------- MODULE MCSendFifo -----------------------------
(* Three slots of four bytes after the header, requests that fill a slot in *)
(* two to four, replies of which one fits the MTU, a leader with three     *)
(* slots, counts that fit the mirrored buffer but for messages of four, and *)
(* a signal in every five messages.                                        *)
EXTENDS Unicasts

MCSizes == {1, 2}
MCRespSizes == {0, 2}
=============================================================================
