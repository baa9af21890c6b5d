------------------------------ MODULE MCHMList ------------------------------
(* Two sessions and two lists, to which the sessions come back; or three    *)
(* sessions and lists to which none comes back.                             *)
EXTENDS HMList

\* An action constraint: sessions 2 and 3 come to list 1, one after the other,
\* while session 1 waits there; from then on anything may happen.
MeetAtListOne ==
  /\ listId[2] = 2 => HmRuns(2) /\ listId'[2] \in {1, 2}
  /\ listId[2] # 2 /\ listId[3] = 3 => HmRuns(3) /\ listId'[3] \in {1, 3}
=============================================================================
