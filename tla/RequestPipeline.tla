-------------------------- MODULE RequestPipeline --------------------------
(***************************************************************************)
(* What the client API promises of one session: a bounded FIFO pipeline.   *)
(* Requests are numbered 1, 2, ... in the order in which they are issued.  *)
(* At most Capacity of them are outstanding.  The worker starts them in    *)
(* issue order, may finish them in any order, and the client gets them     *)
(* back in issue order.  ClientInterface implements this specification     *)
(* with a ring of request slots shared by two threads.                     *)
(***************************************************************************)
EXTENDS Naturals, FiniteSets

CONSTANTS
  Sessions,   \* the sessions of one worker
  Capacity,   \* how many requests of a session may be outstanding
  MaxReqs     \* bound on the requests of a session

VARIABLE phase  \* phase[s][r]: how far request r of session s has come

Request == 1..MaxReqs
Phase == {"new", "issued", "started", "done", "returned"}
Outstanding(s) == {r \in Request : phase[s][r] \in {"issued", "started", "done"}}

\* Request r moves to phase p and no other request moves.
Advance(s, r, p) == phase' = [phase EXCEPT ![s][r] = p]

Init == phase = [s \in Sessions |-> [r \in Request |-> "new"]]

Issue(s, r) ==
  /\ phase[s][r] = "new"
  /\ \A q \in 1..(r - 1) : phase[s][q] # "new"
  /\ Cardinality(Outstanding(s)) < Capacity
  /\ Advance(s, r, "issued")

Start(s, r) ==
  /\ phase[s][r] = "issued"
  /\ \A q \in 1..(r - 1) : phase[s][q] # "issued"
  /\ Advance(s, r, "started")

Complete(s, r) ==
  /\ phase[s][r] = "started"
  /\ Advance(s, r, "done")

Return(s, r) ==
  /\ phase[s][r] = "done"
  /\ \A q \in 1..(r - 1) : phase[s][q] = "returned"
  /\ Advance(s, r, "returned")

Next ==
  \E s \in Sessions, r \in Request :
    Issue(s, r) \/ Start(s, r) \/ Complete(s, r) \/ Return(s, r)

\* Whatever was issued is served; the client may leave results unpolled.
Fairness ==
  \A s \in Sessions, r \in Request :
    WF_phase(Start(s, r)) /\ WF_phase(Complete(s, r))

\* What the pipeline may do, and that it does it.
Safety == Init /\ [][Next]_phase
Spec == Safety /\ Fairness
=============================================================================
