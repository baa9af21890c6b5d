---------------------------- MODULE TreiberDebug ----------------------------
(***************************************************************************)
(* The debug version of the stack client (od_client.c, CLIENT_MODE         *)
(* TREIBER_DEBUG).  The top also names the nodes below the first, as far   *)
(* as they are known, and a node the stack that it is on, so that what a   *)
(* pop has read can be compared with what it should have been.  A session  *)
(* writes the node that it has popped before it turns to the next stack.   *)
(* Where a comparison fails the code reads again, in a loop, until it      *)
(* holds; that it never fails is DebugReadsHold, and the loops are left    *)
(* out.                                                                    *)
(***************************************************************************)
EXTENDS TreiberStack

CONSTANTS
  Unknown,       \* a key that the top does not know, 1 in the code
  DbgMaxRounds   \* as MaxRounds, for this version

ASSUME DebugAssumption == Unknown \notin Nodes \cup {Null} /\ DbgMaxRounds \in Nat

VARIABLES
  hints,       \* [k]: in the store, sec_, third_ and fourth_key_id of k's top
  nodeStack,   \* [n]: in the store, stack_id of node n; Null is that of no stack
  topHints,    \* [s]: the hints with the top that s has read
  firstStack   \* [s]: stack_id of the first node, as s has read it

dbgStore == <<hints, nodeStack>>
dbgOwn == <<dbgStore, topHints, firstStack>>

NoHints == <<Null, Null, Null>>

DbgInit ==
  /\ hints = [k \in StackIds |-> NoHints]
  /\ nodeStack = [n \in Nodes |-> Null]
  /\ topHints = [s \in Sessions |-> NoHints]
  /\ firstStack = [s \in Sessions |-> Null]

LearnHints(s) == topHints' = [topHints EXCEPT ![s] = hints[stackId[s]]]

\* The swap compares the whole top.
WholeTopUnchanged(s) == TopUnchanged(s) /\ hints[stackId[s]] = topHints[s]

----------------------------------------------------------------------------
(* treiber_push_state_machine_dbg                                          *)

\* TR_INIT.  The read of the owned node, which only a message is about, is
\* left out.
DbgPushInit(s) ==
  /\ rounds < DbgMaxRounds
  /\ PushInit(s)
  /\ LearnHints(s)
  /\ UNCHANGED <<dbgStore, firstStack>>

\* TR_READ_TOP: the write of the node ...
DbgPushWrite(s) ==
  /\ PushWrite(s)
  /\ nodeStack' = [nodeStack EXCEPT ![ownedKey[s]] = stackId[s]]
  /\ UNCHANGED <<hints, topHints, firstStack>>

PushedHints(s) == <<top[s].keyId, topHints[s][1], topHints[s][2]>>

\* ... and the swap.
DbgPushCas(s) ==
  /\ state[s] = "pushCas"
  /\ IF WholeTopUnchanged(s)
       THEN /\ tops' = [tops EXCEPT ![stackId[s]] = PushedTop(s)]
            /\ hints' = [hints EXCEPT ![stackId[s]] = PushedHints(s)]
            /\ top' = [top EXCEPT ![s] = EmptyTop]
            /\ topHints' = [topHints EXCEPT ![s] = NoHints]
            /\ Goto(s, "popInit")
       ELSE /\ LearnTop(s) /\ LearnHints(s)
            /\ Goto(s, "pushWrite")
            /\ UNCHANGED <<tops, hints>>
  /\ UNCHANGED <<nextKeyId, newKeyId, ownedKey, stackId, lastPushed, rounds,
                 nodeStack, firstStack>>

----------------------------------------------------------------------------
(* treiber_pop_state_machine_dbg                                           *)

\* TR_INIT
DbgPopInit(s) == PopInit(s) /\ LearnHints(s) /\ UNCHANGED <<dbgStore, firstStack>>

\* TR_READ_TOP and TR_READ_FIRST.  Only a build with assertions looks whether
\* what was read contradicts the counters, and then starts over.
DbgPopReadFirst(s) ==
  /\ state[s] = "popReadFirst"
  /\ top[s].keyId # Null
  /\ \/ /\ FirstIsStale(s)
        /\ top' = [top EXCEPT ![s] = EmptyTop]
        /\ topHints' = [topHints EXCEPT ![s] = NoHints]
        /\ Goto(s, "popInit")
        /\ UNCHANGED <<newKeyId, firstStack>>
     \/ /\ newKeyId' = [newKeyId EXCEPT ![s] = NextOfFirst(s)]
        /\ firstStack' = [firstStack EXCEPT ![s] = nodeStack[top[s].keyId]]
        /\ Goto(s, "popCas")
        /\ UNCHANGED <<top, topHints>>
  /\ UNCHANGED <<store, ownedKey, stackId, lastPushed, rounds, dbgStore>>

PoppedHints(s) == <<topHints[s][2], topHints[s][3], Unknown>>

\* The swap, which is followed by the comparisons (DebugReadsHold).
DbgPopCas(s) ==
  /\ state[s] = "popCas"
  /\ IF WholeTopUnchanged(s)
       THEN /\ tops' = [tops EXCEPT ![stackId[s]] = PoppedTop(s)]
            /\ hints' = [hints EXCEPT ![stackId[s]] = PoppedHints(s)]
            /\ ownedKey' = [ownedKey EXCEPT ![s] = top[s].keyId]
            /\ top' = [top EXCEPT ![s] = EmptyTop]
            /\ topHints' = [topHints EXCEPT ![s] = NoHints]
            /\ Goto(s, "popWrite")
            /\ UNCHANGED newKeyId
       ELSE /\ LearnTop(s) /\ LearnHints(s)
            /\ newKeyId' = [newKeyId EXCEPT ![s] = Null]
            /\ Goto(s, "popReadFirst")
            /\ UNCHANGED <<tops, hints, ownedKey>>
  /\ firstStack' = [firstStack EXCEPT ![s] = Null]
  /\ UNCHANGED <<nextKeyId, nodeStack, stackId, lastPushed, rounds>>

\* The popped node is written as it was read, but for its stack.
DbgPopWrite(s) ==
  /\ state[s] = "popWrite"
  /\ nextKeyId' = [nextKeyId EXCEPT ![ownedKey[s]] = newKeyId[s]]
  /\ nodeStack' = [nodeStack EXCEPT ![ownedKey[s]] = Null]
  /\ \E k \in NextStacks : stackId' = [stackId EXCEPT ![s] = k]
  /\ newKeyId' = [newKeyId EXCEPT ![s] = Null]
  /\ Goto(s, "pushInit")
  /\ UNCHANGED <<tops, top, ownedKey, lastPushed, rounds, hints, topHints, firstStack>>

DbgRuns(s) ==
  DbgPushInit(s) \/ DbgPushWrite(s) \/ DbgPushCas(s)
    \/ DbgPopInit(s) \/ DbgPopReadFirst(s) \/ DbgPopCas(s) \/ DbgPopWrite(s)

DbgNext == \E s \in Sessions : DbgRuns(s)

----------------------------------------------------------------------------
Hints == [1..3 -> Nodes \cup {Null, Unknown}]

DbgTypeOK ==
  /\ hints \in [StackIds -> Hints] /\ topHints \in [Sessions -> Hints]
  /\ nodeStack \in [Nodes -> StackIds \cup {Null}]
  /\ firstStack \in [Sessions -> StackIds \cup {Null}]

\* No loop of the debug version is ever entered: a pop that succeeds has read
\* its node while that was on the stack, with the successor that the top knows
\* of; and a push fails only when the counters have moved.
DebugReadsHold ==
  \A s \in Sessions :
    LET found == tops[stackId[s]]
    IN  /\ state[s] = "popCas" /\ WholeTopUnchanged(s) =>
             /\ firstStack[s] = stackId[s]
             /\ topHints[s][1] \in {Unknown, newKeyId[s]}
        /\ state[s] = "pushCas" /\ ~WholeTopUnchanged(s) =>
             \/ found.pushCounter # top[s].pushCounter
             \/ found.popCounter # top[s].popCounter
=============================================================================
