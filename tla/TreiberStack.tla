---------------------------- MODULE TreiberStack ----------------------------
(***************************************************************************)
(* The client that keeps Treiber stacks in the key-value store             *)
(* (od_client.c, CLIENT_MODE TREIBER_ASYNC): sessions of any machine push  *)
(* the node that they own on a stack and pop a node off it, which they     *)
(* then own.  The top of a stack is one value with two counters, changed   *)
(* by compare-and-swap.                                                    *)
(*                                                                         *)
(* The store belongs to the protocol.  It is taken to be one store whose   *)
(* requests take effect one at a time, those of a session in the order in  *)
(* which they were issued, which is what the client relies on when it      *)
(* writes a node and swaps the top without waiting in between.  A step is  *)
(* the effect of one request, with what the session does on its answer.    *)
(* What a session has read is forgotten here once the code does not look   *)
(* at it again.                                                            *)
(***************************************************************************)
EXTENDS Integers, Sequences, FiniteSets, Functions

CONSTANTS
  Sessions,     \* the sessions of all machines, GLOBAL_SESSION_NUM of them
  Null,         \* the key id of no node, 0 in the code
  MaxRounds     \* bound on how often sessions push and pop, together

ASSUME StackAssumption ==
  /\ IsFiniteSet(Sessions)
  /\ Null \notin Sessions
  /\ MaxRounds \in Nat

\* There are as many stacks as sessions (NUMBER_OF_STACKS), and each session
\* comes with one node: stack and node are named after the session that starts
\* with them.
StackIds == Sessions
Nodes == Sessions

VARIABLES
  tops,        \* [k]: in the store, the top of stack k
  nextKeyId,   \* [n]: in the store, next_key_id of node n
  state,       \* [s]: the request of s that takes effect next
  top,         \* [s]: the top as s last read it
  newKeyId,    \* [s]: new_top.key_id of a pop, as read from the first node
  ownedKey,    \* [s]: the node that s pushes, or has pushed last
  stackId,     \* [s]: the stack s is at
  lastPushed,  \* [s]: last_pushed_counter
  rounds       \* how many pushes have been begun

store == <<tops, nextKeyId>>
local == <<state, top, newKeyId, ownedKey, stackId, lastPushed, rounds>>
vars == <<store, local>>

\* "popWrite" is a state of the debug version only (TreiberDebug).
PopStates == {"popInit", "popReadFirst", "popCas"}
States == {"pushInit", "pushWrite", "pushCas", "popWrite"} \cup PopStates
EmptyTop == [keyId |-> Null, popCounter |-> 0, pushCounter |-> 0]

\* Sessions that begin at the stacks first.
InitAt(first) ==
  /\ tops = [k \in StackIds |-> EmptyTop]
  /\ nextKeyId = [n \in Nodes |-> Null]
  /\ state = [s \in Sessions |-> "pushInit"]
  /\ top = [s \in Sessions |-> EmptyTop]
  /\ newKeyId = [s \in Sessions |-> Null]
  /\ ownedKey = [s \in Sessions |-> s]
  /\ stackId = first
  /\ lastPushed = [s \in Sessions |-> 0]
  /\ rounds = 0

Init == InitAt([s \in Sessions |-> s])

Goto(s, st) == state' = [state EXCEPT ![s] = st]

\* A read of the top, or the answer of a swap that has failed.
LearnTop(s) == top' = [top EXCEPT ![s] = tops[stackId[s]]]

\* Mutant: the swap compares the key id and not the counters.
TopUnchangedByKey(s) == tops[stackId[s]].keyId = top[s].keyId

\* The swap finds the top as s has read it, counters included.
TopUnchanged(s) == tops[stackId[s]] = top[s]

----------------------------------------------------------------------------
(* treiber_push_state_machine                                              *)

\* TR_INIT: the read of the top.
PushInit(s) ==
  /\ state[s] = "pushInit"
  /\ rounds < MaxRounds
  /\ rounds' = rounds + 1
  /\ LearnTop(s)
  /\ Goto(s, "pushWrite")
  /\ UNCHANGED <<store, newKeyId, ownedKey, stackId, lastPushed>>

\* TR_READ_TOP: the node is written to point to the top ...
PushWrite(s) ==
  /\ state[s] = "pushWrite"
  /\ nextKeyId' = [nextKeyId EXCEPT ![ownedKey[s]] = top[s].keyId]
  /\ Goto(s, "pushCas")
  /\ UNCHANGED <<tops, top, newKeyId, ownedKey, stackId, lastPushed, rounds>>

\* The top after a push of s.
PushedTop(s) ==
  [top[s] EXCEPT !.keyId = ownedKey[s], !.pushCounter = @ + 1]

\* ... and the top swapped.  If that fails, the node is written anew.
PushCas(s) ==
  /\ state[s] = "pushCas"
  /\ IF TopUnchanged(s)
       THEN /\ tops' = [tops EXCEPT ![stackId[s]] = PushedTop(s)]
            /\ lastPushed' = [lastPushed EXCEPT ![s] = top[s].pushCounter + 1]
            /\ top' = [top EXCEPT ![s] = EmptyTop]
            /\ Goto(s, "popInit")
       ELSE /\ LearnTop(s)
            /\ Goto(s, "pushWrite")
            /\ UNCHANGED <<tops, lastPushed>>
  /\ UNCHANGED <<nextKeyId, newKeyId, ownedKey, stackId, rounds>>

----------------------------------------------------------------------------
(* treiber_pop_state_machine                                               *)

\* TR_INIT: the read of the top.
PopInit(s) ==
  /\ state[s] = "popInit"
  /\ LearnTop(s)
  /\ Goto(s, "popReadFirst")
  /\ UNCHANGED <<store, newKeyId, ownedKey, stackId, lastPushed, rounds>>

\* The top after a pop of s.
PoppedTop(s) ==
  [top[s] EXCEPT !.keyId = newKeyId[s], !.popCounter = @ + 1]

\* Mutant: an empty stack is never believed in.
IsStaleAtLast(new) ==
  \/ new.pushCounter = new.popCounter
  \/ new.pushCounter > new.popCounter /\ new.keyId = Null

\* TR_READ_FIRST finds a node that has been popped since the top was read:
\* the node points to none and the counters say that nodes are left, or the
\* other way round.
IsStale(new) ==
  \/ new.pushCounter = new.popCounter /\ new.keyId # Null
  \/ new.pushCounter > new.popCounter /\ new.keyId = Null

\* The node after the first one, as a read of the first node tells it.
NextOfFirst(s) == nextKeyId[top[s].keyId]

FirstIsStale(s) ==
  IsStale([top[s] EXCEPT !.keyId = NextOfFirst(s), !.popCounter = @ + 1])

\* TR_READ_TOP: the read of the first node.  TR_READ_FIRST starts again when
\* what it has read is stale.
PopReadFirst(s) ==
  /\ state[s] = "popReadFirst"
  /\ top[s].keyId # Null
  /\ IF FirstIsStale(s)
       THEN /\ top' = [top EXCEPT ![s] = EmptyTop]
            /\ Goto(s, "popInit")
            /\ UNCHANGED newKeyId
       ELSE /\ newKeyId' = [newKeyId EXCEPT ![s] = NextOfFirst(s)]
            /\ Goto(s, "popCas")
            /\ UNCHANGED top
  /\ UNCHANGED <<store, ownedKey, stackId, lastPushed, rounds>>

\* Mutant: stack_id_cntr does not wrap around.
NextStacksNoWrap == StackIds \cup {Null}

\* The stacks a session may go to after a pop: the client's stack_id_cntr
\* leads it to any of them.  (With TREIBER_NO_CONFLICTS, off by default, it
\* stays where it is, which is one of them.)
NextStacks == StackIds

\* The swap of the top: the node is the session's, which turns to another
\* stack; or the first node is to be read again.
PopCas(s) ==
  /\ state[s] = "popCas"
  /\ IF TopUnchanged(s)
       THEN /\ tops' = [tops EXCEPT ![stackId[s]] = PoppedTop(s)]
            /\ ownedKey' = [ownedKey EXCEPT ![s] = top[s].keyId]
            /\ \E k \in NextStacks : stackId' = [stackId EXCEPT ![s] = k]
            /\ lastPushed' = [lastPushed EXCEPT ![s] = 0]
            /\ top' = [top EXCEPT ![s] = EmptyTop]
            /\ Goto(s, "pushInit")
       ELSE /\ LearnTop(s)
            /\ Goto(s, "popReadFirst")
            /\ UNCHANGED <<tops, ownedKey, stackId, lastPushed>>
  /\ newKeyId' = [newKeyId EXCEPT ![s] = Null]
  /\ UNCHANGED <<nextKeyId, rounds>>

----------------------------------------------------------------------------
Runs(s) ==
  PushInit(s) \/ PushWrite(s) \/ PushCas(s)
    \/ PopInit(s) \/ PopReadFirst(s) \/ PopCas(s)

Next == \E s \in Sessions : Runs(s)

Spec == Init /\ [][Next]_vars

----------------------------------------------------------------------------
(* Properties.                                                             *)

Tops == [keyId : Nodes \cup {Null}, popCounter : Nat, pushCounter : Nat]

\* Every variable has its type.
TypeOK ==
  /\ tops \in [StackIds -> Tops]
  /\ nextKeyId \in [Nodes -> Nodes \cup {Null}]
  /\ state \in [Sessions -> States]
  /\ top \in [Sessions -> Tops]
  /\ newKeyId \in [Sessions -> Nodes \cup {Null}]
  /\ ownedKey \in [Sessions -> Nodes]
  /\ stackId \in [Sessions -> StackIds]
  /\ lastPushed \in [Sessions -> Nat]
  /\ rounds \in 0..MaxRounds

\* The nodes on stack k from the top down, cut after as many as there are.
Contents(k) ==
  LET node[i \in 1..(Cardinality(Nodes) + 1)] ==
        IF i = 1 THEN tops[k].keyId
        ELSE LET n == node[i - 1] IN IF n = Null THEN Null ELSE nextKeyId[n]
  IN  RestrictValues(node, LAMBDA n : n # Null)

\* Between a pop and its next push a session holds the node it has popped.
Holds(s) == IF state[s] \in PopStates THEN Null ELSE ownedKey[s]

\* check_top, of every stack at every moment: the two counters differ by the
\* number of nodes on the stack, so that no stack is cyclic or cut short.
CountersCount ==
  \A k \in StackIds :
    tops[k].pushCounter - tops[k].popCounter = Len(Contents(k))

\* The assertion of the pop state machine on the top that it reads: a session
\* never meets an empty stack, since it comes to pop only after its own push,
\* as do all others, and counts from before its push are never seen again.
PopFindsNode ==
  \A s \in Sessions :
    state[s] \in {"popReadFirst", "popCas"}
      => top[s].keyId # Null /\ lastPushed[s] <= top[s].pushCounter

Abstract == INSTANCE Stacks WITH
  NoNode <- Null,
  FirstNode <- [s \in Sessions |-> s],
  stacks <- [k \in StackIds |-> Contents(k)],
  holds <- [s \in Sessions |-> Holds(s)]

\* What the stacks hold changes only by whole pushes and pops at their tops,
\* whatever nodes are popped, pushed again elsewhere and read when stale: each
\* node is in one place, with a session or once on a stack.
ImplementsStacks == Abstract!Spec

\* A session starts over only when another has changed the stack since it
\* read the top: whoever is slow, some push or pop is always getting done.
RetryMeansProgress ==
  [][\A s \in Sessions :
       <<state[s], state'[s]>> \in {<<"pushCas", "pushWrite">>,
                                   <<"popReadFirst", "popInit">>,
                                   <<"popCas", "popReadFirst">>}
         => tops[stackId[s]] # top[s]]_vars
=============================================================================
