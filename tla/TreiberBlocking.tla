--------------------------- MODULE TreiberBlocking ---------------------------
(***************************************************************************)
(* The blocking version of the stack client (od_client.c, CLIENT_MODE      *)
(* TREIBER_BLOCKING): one session of each machine, all at the same stack,  *)
(* pushes its nodes and from then on pops a node and pushes it back.       *)
(*                                                                         *)
(* A swap sets the key id and the count of pops of the new top; its other  *)
(* fields are whatever the machine's stack held.  They are the same here   *)
(* in all tops, with which most swaps succeed.  Each session begins with   *)
(* one node of the code's ten.                                             *)
(***************************************************************************)
EXTENDS TreiberStack

CONSTANT BlkMaxRounds   \* as MaxRounds, for this version

ASSUME BlockingAssumption == BlkMaxRounds \in Nat

BlkInit == \E k \in StackIds : InitAt([s \in Sessions |-> k])

\* treiber_push_blocking; the write is as in the other versions.
BlkPushInit(s) == rounds < BlkMaxRounds /\ PushInit(s)

BlkPushCas(s) ==
  /\ state[s] = "pushCas"
  /\ IF TopUnchanged(s)
       THEN /\ tops' = [tops EXCEPT ![stackId[s]].keyId = ownedKey[s]]
            /\ top' = [top EXCEPT ![s] = EmptyTop]
            /\ Goto(s, "popInit")
       ELSE /\ LearnTop(s)
            /\ Goto(s, "pushWrite")
            /\ UNCHANGED tops
  /\ UNCHANGED <<nextKeyId, newKeyId, ownedKey, stackId, lastPushed, rounds>>

\* treiber_pop_blocking: a pop from the empty stack returns -1, which the push
\* that follows refuses; the session pops again.
BlkPopFrom(s) ==
  IF tops[stackId[s]].keyId = Null
    THEN Goto(s, "popInit") /\ top' = [top EXCEPT ![s] = EmptyTop]
    ELSE Goto(s, "popReadFirst") /\ LearnTop(s)

BlkPopInit(s) ==
  /\ state[s] = "popInit"
  /\ BlkPopFrom(s)
  /\ UNCHANGED <<store, newKeyId, ownedKey, stackId, lastPushed, rounds>>

BlkPopReadFirst(s) ==
  /\ state[s] = "popReadFirst"
  /\ newKeyId' = [newKeyId EXCEPT ![s] = NextOfFirst(s)]
  /\ Goto(s, "popCas")
  /\ UNCHANGED <<store, top, ownedKey, stackId, lastPushed, rounds>>

BlkPopCas(s) ==
  /\ state[s] = "popCas"
  /\ IF TopUnchanged(s)
       THEN /\ tops' = [tops EXCEPT ![stackId[s]] = PoppedTop(s)]
            /\ ownedKey' = [ownedKey EXCEPT ![s] = top[s].keyId]
            /\ top' = [top EXCEPT ![s] = EmptyTop]
            /\ Goto(s, "pushInit")
       ELSE /\ BlkPopFrom(s)
            /\ UNCHANGED <<tops, ownedKey>>
  /\ newKeyId' = [newKeyId EXCEPT ![s] = Null]
  /\ UNCHANGED <<nextKeyId, stackId, lastPushed, rounds>>

BlkNext ==
  \E s \in Sessions :
    BlkPushInit(s) \/ PushWrite(s) \/ BlkPushCas(s)
      \/ BlkPopInit(s) \/ BlkPopReadFirst(s) \/ BlkPopCas(s)
=============================================================================
