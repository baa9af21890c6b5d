------------------------------- MODULE Stacks -------------------------------
(***************************************************************************)
(* What the stack client promises: some stacks and some sessions, each of  *)
(* which pushes the node that it holds on a stack and then pops a node,    *)
(* its own or another's, off the same stack.                               *)
(***************************************************************************)
EXTENDS Sequences

CONSTANTS Sessions, StackIds, Nodes, NoNode, FirstNode

VARIABLES
  stacks,   \* [k]: the nodes on stack k, the top first
  holds     \* [s]: the node that s holds, or NoNode

vars == <<stacks, holds>>

Init ==
  /\ stacks = [k \in StackIds |-> <<>>]
  /\ holds = FirstNode

Push(s, k) ==
  /\ holds[s] # NoNode
  /\ holds' = [holds EXCEPT ![s] = NoNode]
  /\ stacks' = [stacks EXCEPT ![k] = <<holds[s]>> \o @]

Pop(s, k) ==
  /\ holds[s] = NoNode
  /\ holds'[s] # NoNode
  /\ stacks[k] # <<>>
  /\ holds' = [holds EXCEPT ![s] = Head(stacks[k])]
  /\ stacks' = [stacks EXCEPT ![k] = Tail(@)]

Next == \E s \in Sessions, k \in StackIds : Push(s, k) \/ Pop(s, k)

Spec == Init /\ [][Next]_vars
=============================================================================
