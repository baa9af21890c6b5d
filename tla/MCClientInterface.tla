------------------------- MODULE MCClientInterface -------------------------
(* Bounds for TLC: one ring of three slots, so that the slots before and    *)
(* after a pointer differ, and enough requests to wrap around it twice.     *)
EXTENDS ClientInterface

CONSTANT s1

MCSessions == {s1}
=============================================================================
