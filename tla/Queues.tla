------------------------------- MODULE Queues -------------------------------
(***************************************************************************)
(* What the queue client promises: some queues and some sessions, each of  *)
(* which enqueues the node that it holds in a queue and then dequeues from *)
(* the same queue.  The first node of a queue is a dummy: a dequeue takes  *)
(* the dummy away, and leaves the node that it dequeues as the next dummy. *)
(***************************************************************************)
EXTENDS Sequences

CONSTANTS Sessions, QueueIds, NoNode, FirstNode, FirstDummy

VARIABLES
  queues,   \* [q]: the nodes in queue q, the oldest first
  dummy,    \* [q]: the node before them
  holds     \* [s]: the node that s holds, or NoNode

vars == <<queues, dummy, holds>>

Init ==
  /\ queues = [q \in QueueIds |-> <<>>]
  /\ dummy = FirstDummy
  /\ holds = FirstNode

Enqueue(s, q) ==
  /\ holds[s] # NoNode
  /\ holds' = [holds EXCEPT ![s] = NoNode]
  /\ queues' = [queues EXCEPT ![q] = Append(@, holds[s])]
  /\ UNCHANGED dummy

Dequeue(s, q) ==
  /\ holds[s] = NoNode
  /\ holds' = [holds EXCEPT ![s] = dummy[q]]
  /\ queues[q] # <<>>
  /\ dummy' = [dummy EXCEPT ![q] = Head(queues[q])]
  /\ queues' = [queues EXCEPT ![q] = Tail(@)]

Next == \E s \in Sessions, q \in QueueIds : Enqueue(s, q) \/ Dequeue(s, q)

Spec == Init /\ [][Next]_vars
=============================================================================
