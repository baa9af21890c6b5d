-------------------------------- MODULE Sets --------------------------------
(***************************************************************************)
(* What the list client promises: some sets of nodes and some sessions,    *)
(* each of which puts its own node into a set and takes it out again.      *)
(***************************************************************************)
CONSTANTS Sessions, SetIds, NodeOf(_), FirstSet(_)

VARIABLE sets   \* [l]: the nodes in set l

Init == sets = [l \in SetIds |-> FirstSet(l)]

Insert(s, l) ==
  /\ \A k \in SetIds : NodeOf(s) \notin sets[k]
  /\ sets' = [sets EXCEPT ![l] = @ \cup {NodeOf(s)}]

Delete(s, l) ==
  /\ NodeOf(s) \in sets[l]
  /\ sets' = [sets EXCEPT ![l] = @ \ {NodeOf(s)}]

Next ==
  \E l \in SetIds :
    sets'[l] # sets[l] /\ \E s \in Sessions : Insert(s, l) \/ Delete(s, l)

Spec == Init /\ [][Next]_sets
=============================================================================
