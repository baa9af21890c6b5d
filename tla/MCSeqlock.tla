----------------------------- MODULE MCSeqlock -----------------------------
(* Model checking of Seqlock: the workers and the words are model values,  *)
(* which the specification treats alike; the liveness run takes them as    *)
(* they are.                                                               *)
EXTENDS Seqlock

CONSTANTS w1, w2, w3, k1, k2

MCWorkers == {w1, w2, w3}
MCWords == {k1, k2}
=============================================================================
