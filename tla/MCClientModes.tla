---------------------------- MODULE MCClientModes ----------------------------
(* Three sessions with a node each for the stacks and the queues, two for   *)
(* the lists, and three machines for the rings.  Nothing tells two sessions *)
(* of the stacks or of the queues apart; those of the lists are ordered by  *)
(* their nodes.                                                             *)
EXTENDS ClientModes, TLC

CONSTANTS s1, s2, s3

MCSessions == {s1, s2, s3}
MCSymmetry == Permutations(MCSessions)
=============================================================================
