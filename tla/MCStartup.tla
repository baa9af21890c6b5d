------------------------------ MODULE MCStartup ------------------------------
(* Three keys over two buckets of two slots, with any hashes; three machines *)
(* with two workers and a client, of both kinds of hardware in small.        *)
EXTENDS Startup

\* The first has no room for the third key.
MCLogCaps == {6, 10}

MCHardware ==
  {[totalCores |-> 4, physicalCores |-> 2, logicalCores |-> 2, distance |-> 1,
    hyperthreading |-> TRUE],
   [totalCores |-> 4, physicalCores |-> 1, logicalCores |-> 2, distance |-> 2,
    hyperthreading |-> FALSE]}

\* The session ids of this instance come back, as those of every instance that
\* 16 bits number (SessionIdsFit of StartupProofs).
ASSUME SessionIdsReturn
=============================================================================
