------------------------------- MODULE MSQueue -------------------------------
(***************************************************************************)
(* The client that keeps queues of Michael and Scott in the key-value      *)
(* store (od_client.c, CLIENT_MODE MSQ_ASYNC): sessions of any machine     *)
(* enqueue the node that they own and dequeue from the same queue, after   *)
(* which they own the node that was the queue's dummy.  Heads, tails and   *)
(* the pointers of the nodes are values with a counter, changed by         *)
(* compare-and-swap.                                                       *)
(*                                                                         *)
(* As in TreiberStack the store is taken to be one store in which the      *)
(* requests of a session take effect one at a time, in the order in which  *)
(* they were issued; a step is the effect of one request, with what the    *)
(* session does on its answer.  What a session has read is forgotten here  *)
(* (NoPtr) once the code does not look at it again.                        *)
(***************************************************************************)
EXTENDS Integers, Sequences, FiniteSets, Functions

CONSTANTS
  MsSessions,   \* the sessions of all machines, GLOBAL_SESSION_NUM of them
  NoNode,       \* the key id of no node, 0 in the code
  MsMaxRounds   \* bound on how often sessions enqueue and dequeue, together

\* There are as many queues as sessions (MS_QUEUES_NUM), each with a dummy to
\* begin with, and one node for each session.
QueueIds == MsSessions
OwnNode(s) == <<"node", s>>
Dummy(q) == <<"dummy", q>>
MsNodes == {OwnNode(s) : s \in MsSessions} \cup {Dummy(q) : q \in QueueIds}

ASSUME QueueAssumption ==
  /\ IsFiniteSet(MsSessions)
  /\ NoNode \notin MsNodes
  /\ MsMaxRounds \in Nat

VARIABLES
  heads,        \* [q]: in the store, the head of queue q
  tails,        \* [q]: in the store, the tail of queue q
  nodePtrs,     \* [n]: in the store, the pointer of node n
  leftover,     \* queue_id in the heads and tails of the set-up, as it was
                \* left on the stack, is another than 0
  msState,      \* [s]: the request of s that takes effect next
  head,         \* [s]: the head as s has read it
  tail,         \* [s]: the tail as s has read it
  nodePtr,      \* [s]: the node pointer that s goes by (owned_node_ptr, which
                \* is also first_node_ptr, or last_or_first_node_ms_ptr)
  msOwnedKey,   \* [s]: the node that s owns, or has enqueued last
  queueId,      \* [s]: the queue s is at
  msRounds      \* how many enqueues have been begun

msStore == <<heads, tails, nodePtrs, leftover>>
msVars == <<msStore, msState, head, tail, nodePtr, msOwnedKey, queueId, msRounds>>

EnqueueStates ==
  {"enqInit", "enqReadTail", "enqReadLast", "enqReadTailAgain", "enqLink",
   "enqAdvance", "enqSwing", "enqAborted"}
DequeueStates ==
  {"deqReadHead", "deqReadTail", "deqReadFirst", "deqReadHeadAgain",
   "deqAdvance", "deqCas", "deqAborted"}

Ptr(n, c) == [nextKeyId |-> n, counter |-> c]
NoPtr == Ptr(NoNode, 0)

\* ms_set_up_tail_and_head, whose flag the other clients wait for: head and
\* tail of a queue point to its dummy, and the dummy to none.
MsInit ==
  /\ heads = [q \in QueueIds |-> Ptr(Dummy(q), 0)]
  /\ tails = [q \in QueueIds |-> Ptr(Dummy(q), 0)]
  /\ nodePtrs = [n \in MsNodes |->
       Ptr(NoNode, IF \E q \in QueueIds : n = Dummy(q) THEN 1 ELSE 0)]
  /\ leftover \in BOOLEAN
  /\ msState = [s \in MsSessions |-> "enqInit"]
  /\ head = [s \in MsSessions |-> NoPtr]
  /\ tail = [s \in MsSessions |-> NoPtr]
  /\ nodePtr = [s \in MsSessions |-> NoPtr]
  /\ msOwnedKey = [s \in MsSessions |-> OwnNode(s)]
  /\ queueId = [s \in MsSessions |-> s]
  /\ msRounds = 0

MsGoto(s, st) == msState' = [msState EXCEPT ![s] = st]

\* Mutant: are_ms_ptrs_equal looks at the node alone.
SamePtrByKey(p, q) == p.nextKeyId = q.nextKeyId

\* are_ms_ptrs_equal
SamePtr(p, q) == p.nextKeyId = q.nextKeyId /\ p.counter = q.counter

\* The assertion in are_ms_ptrs_equal, which every build has: the queue ids
\* agree.  Those of new_head and new_tail are 0 and stay so.
QueueIdsAgree(p, q) == leftover => (p.counter = 0 <=> q.counter = 0)

\* Mutant: a swap compares the node alone.
SwapByKey(old, expected, new) == IF old.nextKeyId = expected.nextKeyId THEN new ELSE old

\* A swap leaves a value that is not the expected one as it is.
Swap(old, expected, new) == IF old = expected THEN new ELSE old

----------------------------------------------------------------------------
(* ms_enqueue_state_machine                                                *)

\* MS_INIT: the node is written to point to none, its counter as it is.
EnqInit(s) ==
  /\ msState[s] = "enqInit"
  /\ msRounds < MsMaxRounds
  /\ msRounds' = msRounds + 1
  /\ nodePtrs' = [nodePtrs EXCEPT ![msOwnedKey[s]] = Ptr(NoNode, nodePtr[s].counter)]
  /\ nodePtr' = [nodePtr EXCEPT ![s] = NoPtr]
  /\ MsGoto(s, "enqReadTail")
  /\ UNCHANGED <<heads, tails, leftover, head, tail, msOwnedKey, queueId>>

\* MS_LOOP_START
EnqReadTail(s) ==
  /\ msState[s] = "enqReadTail"
  /\ tail' = [tail EXCEPT ![s] = tails[queueId[s]]]
  /\ MsGoto(s, "enqReadLast")
  /\ UNCHANGED <<msStore, head, nodePtr, msOwnedKey, queueId, msRounds>>

\* MS_READ_TAIL: the pointer of the last node ...
EnqReadLast(s) ==
  /\ msState[s] = "enqReadLast"
  /\ nodePtr' = [nodePtr EXCEPT ![s] = nodePtrs[tail[s].nextKeyId]]
  /\ MsGoto(s, "enqReadTailAgain")
  /\ UNCHANGED <<msStore, head, tail, msOwnedKey, queueId, msRounds>>

\* ... and the tail once more.  MS_READ_LAST_NODE starts over if it has
\* changed, and goes on to link its node if the last node points to none.
EnqReadTailAgain(s) ==
  LET again == tails[queueId[s]]
  IN  /\ msState[s] = "enqReadTailAgain"
      /\ MsGoto(s, IF ~QueueIdsAgree(tail[s], again) THEN "enqAborted"
                   ELSE IF ~SamePtr(tail[s], again) THEN "enqReadTail"
                   ELSE IF nodePtr[s].nextKeyId = NoNode THEN "enqLink"
                   ELSE "enqAdvance")
      /\ IF msState'[s] \in {"enqLink", "enqAdvance"}
           THEN UNCHANGED <<tail, nodePtr>>
           ELSE /\ tail' = [tail EXCEPT ![s] = NoPtr]
                /\ nodePtr' = [nodePtr EXCEPT ![s] = NoPtr]
      /\ UNCHANGED <<msStore, head, msOwnedKey, queueId, msRounds>>

\* The swap of the last node's pointer, to point to the node of s; on its
\* answer MS_POTENTIAL_SUCCESS goes on to swing the tail, or starts over.
EnqLink(s) ==
  LET last == tail[s].nextKeyId
      linked == nodePtrs[last] = nodePtr[s]
  IN  /\ msState[s] = "enqLink"
      /\ nodePtrs' = [nodePtrs EXCEPT
           ![last] = Swap(@, nodePtr[s], Ptr(msOwnedKey[s], nodePtr[s].counter + 1))]
      /\ MsGoto(s, IF linked THEN "enqSwing" ELSE "enqReadTail")
      /\ tail' = [tail EXCEPT ![s] = IF linked THEN @ ELSE NoPtr]
      /\ nodePtr' = [nodePtr EXCEPT ![s] = NoPtr]
      /\ UNCHANGED <<heads, tails, leftover, head, msOwnedKey, queueId, msRounds>>

\* The swap of the tail from what s has read to node n, successful or not.
SwapTail(s, n) ==
  tails' = [tails EXCEPT ![queueId[s]] = Swap(@, tail[s], Ptr(n, tail[s].counter + 1))]

\* The tail is swung to the new node, and the session turns to dequeuing.
EnqSwing(s) ==
  /\ msState[s] = "enqSwing"
  /\ SwapTail(s, msOwnedKey[s])
  /\ tail' = [tail EXCEPT ![s] = NoPtr]
  /\ MsGoto(s, "deqReadHead")
  /\ UNCHANGED <<heads, nodePtrs, leftover, head, nodePtr, msOwnedKey, queueId, msRounds>>

\* A tail that has been left behind is moved on by whoever finds it so.
EnqAdvance(s) ==
  /\ msState[s] = "enqAdvance"
  /\ SwapTail(s, nodePtr[s].nextKeyId)
  /\ tail' = [tail EXCEPT ![s] = NoPtr]
  /\ nodePtr' = [nodePtr EXCEPT ![s] = NoPtr]
  /\ MsGoto(s, "enqReadTail")
  /\ UNCHANGED <<heads, nodePtrs, leftover, head, msOwnedKey, queueId, msRounds>>

----------------------------------------------------------------------------
(* ms_dequeue_state_machine                                                *)

\* MS_LOOP_START: the head ...
DeqReadHead(s) ==
  /\ msState[s] = "deqReadHead"
  /\ head' = [head EXCEPT ![s] = heads[queueId[s]]]
  /\ MsGoto(s, "deqReadTail")
  /\ UNCHANGED <<msStore, tail, nodePtr, msOwnedKey, queueId, msRounds>>

\* ... and the tail.
DeqReadTail(s) ==
  /\ msState[s] = "deqReadTail"
  /\ tail' = [tail EXCEPT ![s] = tails[queueId[s]]]
  /\ MsGoto(s, "deqReadFirst")
  /\ UNCHANGED <<msStore, head, nodePtr, msOwnedKey, queueId, msRounds>>

\* MS_READ_HEAD: the pointer of the first node, the dummy ...
DeqReadFirst(s) ==
  /\ msState[s] = "deqReadFirst"
  /\ nodePtr' = [nodePtr EXCEPT ![s] = nodePtrs[head[s].nextKeyId]]
  /\ MsGoto(s, "deqReadHeadAgain")
  /\ UNCHANGED <<msStore, head, tail, msOwnedKey, queueId, msRounds>>

\* The tail points where the head does.
TailIsBehind(s) == head[s].nextKeyId = tail[s].nextKeyId

\* ... and the head once more.  MS_READ_FIRST_NODE starts over if it has
\* changed, and goes on to swap the head.  The branch for a tail that is behind
\* ends here: no session ever takes it (DequeueFindsNode), as long as the plain
\* read of the tail, DeqReadTail, is no staler than the acquire of the head.
DeqReadHeadAgain(s) ==
  LET again == heads[queueId[s]]
  IN  /\ msState[s] = "deqReadHeadAgain"
      /\ MsGoto(s, IF ~QueueIdsAgree(head[s], again) THEN "deqAborted"
                   ELSE IF ~SamePtr(head[s], again) THEN "deqReadHead"
                   ELSE IF TailIsBehind(s) THEN "deqAdvance" ELSE "deqCas")
      /\ head' = [head EXCEPT ![s] = IF msState'[s] = "deqCas" THEN @ ELSE NoPtr]
      /\ tail' = [tail EXCEPT ![s] = NoPtr]
      /\ nodePtr' = [nodePtr EXCEPT ![s] = IF msState'[s] = "deqCas" THEN @ ELSE NoPtr]
      /\ UNCHANGED <<msStore, msOwnedKey, queueId, msRounds>>

\* The swap of the head.  On its answer MS_POTENTIAL_SUCCESS starts over, or
\* takes the dummy for its own and turns to any queue (queue_id_cntr; with
\* MS_NO_CONFLICT, off by default, it stays, which is one of them).
DeqCas(s) ==
  /\ msState[s] = "deqCas"
  /\ heads' = [heads EXCEPT ![queueId[s]] =
       Swap(@, head[s], Ptr(nodePtr[s].nextKeyId, head[s].counter + 1))]
  /\ IF heads[queueId[s]] = head[s]
       THEN /\ msOwnedKey' = [msOwnedKey EXCEPT ![s] = head[s].nextKeyId]
            /\ \E q \in QueueIds : queueId' = [queueId EXCEPT ![s] = q]
            /\ MsGoto(s, "enqInit")
            /\ UNCHANGED nodePtr
       ELSE /\ nodePtr' = [nodePtr EXCEPT ![s] = NoPtr]
            /\ MsGoto(s, "deqReadHead")
            /\ UNCHANGED <<msOwnedKey, queueId>>
  /\ head' = [head EXCEPT ![s] = NoPtr]
  /\ UNCHANGED <<tails, nodePtrs, leftover, tail, msRounds>>

----------------------------------------------------------------------------
MsEnqueues(s) ==
  \/ EnqInit(s) \/ EnqReadTail(s) \/ EnqReadLast(s) \/ EnqReadTailAgain(s)
  \/ EnqLink(s) \/ EnqSwing(s) \/ EnqAdvance(s)

MsDequeues(s) ==
  \/ DeqReadHead(s) \/ DeqReadTail(s) \/ DeqReadFirst(s) \/ DeqReadHeadAgain(s)
  \/ DeqCas(s)

MsNext == \E s \in MsSessions : MsEnqueues(s) \/ MsDequeues(s)

MsSpec == MsInit /\ [][MsNext]_msVars

----------------------------------------------------------------------------
(* Properties.                                                             *)

MsPtrs == [nextKeyId : MsNodes \cup {NoNode}, counter : Nat]

\* Every variable has its type.
MsTypeOK ==
  /\ heads \in [QueueIds -> MsPtrs] /\ tails \in [QueueIds -> MsPtrs]
  /\ nodePtrs \in [MsNodes -> MsPtrs]
  /\ leftover \in BOOLEAN
  /\ msState \in [MsSessions -> EnqueueStates \cup DequeueStates]
  /\ head \in [MsSessions -> MsPtrs] /\ tail \in [MsSessions -> MsPtrs]
  /\ nodePtr \in [MsSessions -> MsPtrs]
  /\ msOwnedKey \in [MsSessions -> MsNodes]
  /\ queueId \in [MsSessions -> QueueIds]
  /\ msRounds \in 0..MsMaxRounds

\* The node that each node points to.
NextNodes == [n \in MsNodes |-> nodePtrs[n].nextKeyId]

\* The nodes of queue q from the dummy on, cut after as many as there are.
Chain(q) ==
  LET node[i \in 1..(Cardinality(MsNodes) + 1)] ==
        IF i = 1 THEN heads[q].nextKeyId
        ELSE LET n == node[i - 1] IN IF n = NoNode THEN NoNode ELSE NextNodes[n]
  IN  RestrictValues(node, LAMBDA n : n # NoNode)

\* The assertions of the dequeue state machine: a session never finds the
\* queue empty, as it has enqueued there before, and never swaps the head to
\* point to no node.  Nor does it find the tail behind, as every session that
\* dequeues has swung the tail past a node of its own.
DequeueFindsNode ==
  \A s \in MsSessions :
    /\ msState[s] # "deqAdvance"
    /\ msState[s] = "deqCas" => nodePtr[s].nextKeyId # NoNode

\* A session holds a node from its dequeue until it has linked it.
MsHolds(s) ==
  IF msState[s] \in EnqueueStates \ {"enqSwing"} THEN msOwnedKey[s] ELSE NoNode

AbstractQueues == INSTANCE Queues WITH
  Sessions <- MsSessions,
  FirstNode <- [s \in MsSessions |-> OwnNode(s)],
  FirstDummy <- [q \in QueueIds |-> Dummy(q)],
  queues <- [q \in QueueIds |-> Tail(Chain(q))],
  dummy <- [q \in QueueIds |-> heads[q].nextKeyId],
  holds <- [s \in MsSessions |-> MsHolds(s)]

\* What the queues hold changes only by whole enqueues at their ends and whole
\* dequeues at their beginnings, whatever nodes are enqueued again elsewhere
\* while others still read or swap their pointers.
ImplementsQueues == AbstractQueues!Spec
=============================================================================
