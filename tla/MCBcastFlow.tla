---------------------------- MODULE MCBcastFlow ----------------------------
(* Model checking of BcastFlow.  Receivers are numbers, as the code orders *)
(* machines by their ids; senders are model values.                        *)
EXTENDS BcastFlow

CONSTANTS s1, s2

MCOneSender == {s1}
MCTwoSenders == {s1, s2}
MCReceivers == 1..2
=============================================================================
