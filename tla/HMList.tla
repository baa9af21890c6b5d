------------------------------- MODULE HMList -------------------------------
(***************************************************************************)
(* The client that keeps ordered linked lists of Harris and Michael in the *)
(* key-value store (od_client.c, CLIENT_MODE HML_ASYNC): a session inserts *)
(* its own node in a list, deletes it again, and turns to another list.    *)
(* The pointers of heads and nodes are values with a counter and a mark,   *)
(* changed by compare-and-swap; a node is deleted by marking its pointer   *)
(* and then swapping it out of the one before.                             *)
(*                                                                         *)
(* As in TreiberStack the store is taken to be one store in which the      *)
(* requests of a session take effect one at a time, in the order in which  *)
(* they were issued; a step is the effect of one request, with what the    *)
(* session does on its answer.  The bodies of the nodes, which never       *)
(* change, are left out: a node is named by the key of its pointer.  What  *)
(* a session has read is forgotten here (NoHmPtr) once the code does not   *)
(* look at it again.                                                       *)
(***************************************************************************)
EXTENDS Integers, FiniteSets

CONSTANTS
  HmNum,         \* HM_LISTS_NUM, which is the number of sessions as well
  MaxWaitLoops,  \* HM_MAX_WAIT_LOOPS
  HmMaxRounds,   \* bound on the inserts of all sessions together
  Revisits       \* whether a session may come back to a list it has been at

ASSUME ListAssumption ==
  /\ HmNum \in Nat \ {0}
  /\ MaxWaitLoops \in Nat
  /\ HmMaxRounds \in Nat /\ HmMaxRounds >= HmNum
  /\ Revisits \in BOOLEAN

HmSessions == 1..HmNum
Lists == 1..HmNum

\* The allocation of keys: the heads of the lists, the pointers of the nodes
\* that are in the lists from the start, and those of the sessions' nodes.
NoKey == 0
NoList == 0
HeadKey(l) == l
PreNode(l) == HmNum + l
MyNode(s) == 2 * HmNum + s
Heads == {HeadKey(l) : l \in Lists}
HmNodes == (HmNum + 1)..(3 * HmNum)

VARIABLES
  ptrs,      \* [k]: in the store, the pointer of head or node k
  hmState,   \* [s]: the request of s that takes effect next
  purpose,   \* [s]: what s searches for or does: "ins", "del" or "cl"
  prev,      \* [s]: prev_ptr, the key of curr
  curr,      \* [s]: curr_ptr, the pointer from which s goes on
  next,      \* [s]: next_ptr, the pointer of the node that curr points to
  waits,     \* [s]: wait_cntr
  listId,    \* [s]: the list s is at
  visited,   \* [s]: the lists s has been at
  hmRounds   \* how many inserts have been begun

hmLocal == <<hmState, purpose, prev, curr, next, waits, listId, visited, hmRounds>>
hmVars == <<ptrs, hmLocal>>

HmStates == {"readHead", "readNext", "readCurrAgain", "help", "writeNode", "link",
             "mark", "unlink"}

HmPtr(n, c, m, l) == [nextKeyId |-> n, counter |-> c, marked |-> m, listId |-> l]
NoHmPtr == HmPtr(NoKey, 0, FALSE, NoList)

\* hm_set_up_lists, whose flag the other clients wait for.
HmInit ==
  /\ ptrs = [k \in Heads \cup HmNodes |->
       IF k \in Heads THEN HmPtr(PreNode(k), 0, FALSE, k)
       ELSE HmPtr(NoKey, 0, FALSE, IF k <= 2 * HmNum THEN k - HmNum ELSE NoList)]
  /\ hmState = [s \in HmSessions |-> "readHead"]
  /\ purpose = [s \in HmSessions |-> "ins"]
  /\ prev = [s \in HmSessions |-> NoKey]
  /\ curr = [s \in HmSessions |-> NoHmPtr]
  /\ next = [s \in HmSessions |-> NoHmPtr]
  /\ waits = [s \in HmSessions |-> 0]
  /\ listId = [s \in HmSessions |-> s]
  /\ visited = [s \in HmSessions |-> {s}]
  /\ hmRounds = HmNum

HmGoto(s, st) == hmState' = [hmState EXCEPT ![s] = st]

\* hm_ptrs_are_equal: the list is not compared.
SameHmPtr(p, q) ==
  p.nextKeyId = q.nextKeyId /\ p.counter = q.counter /\ p.marked = q.marked

\* Mutant: a swap compares the node alone, not counter and mark.
SwapPtrByKey(k, expected, new) ==
  ptrs' = [ptrs EXCEPT ![k] = IF @.nextKeyId = expected.nextKeyId THEN new ELSE @]

\* A swap of the pointer with key k, which compares all of it.
SwapPtr(k, expected, new) ==
  ptrs' = [ptrs EXCEPT ![k] = IF @ = expected THEN new ELSE @]

----------------------------------------------------------------------------
(* hm_search_state_machine                                                 *)

\* Mutant: a session that cleans up takes its node to be gone at once.
SearchAgainCareless(s, p) ==
  /\ purpose' = [purpose EXCEPT ![s] = IF p = "cl" THEN "ins" ELSE p]
  /\ prev' = [prev EXCEPT ![s] = NoKey]
  /\ curr' = [curr EXCEPT ![s] = NoHmPtr]
  /\ next' = [next EXCEPT ![s] = NoHmPtr]
  /\ HmGoto(s, "readHead")

\* hm_transition_to_searching, with purpose p.
SearchAgain(s, p) ==
  /\ purpose' = [purpose EXCEPT ![s] = p]
  /\ prev' = [prev EXCEPT ![s] = NoKey]
  /\ curr' = [curr EXCEPT ![s] = NoHmPtr]
  /\ next' = [next EXCEPT ![s] = NoHmPtr]
  /\ HmGoto(s, "readHead")

\* The lists a session may turn to after a delete: queue_id_cntr leads it to
\* any (with HM_NO_CONFLICT, off by default, it stays, which is one of them).
NextLists(s) == IF Revisits THEN Lists ELSE Lists \ visited[s]

\* The delete is done: the session turns to another list to insert, or stops
\* where the model is bounded.
FinishDelete(s) ==
  /\ SearchAgain(s, "ins")
  /\ IF hmRounds < HmMaxRounds /\ NextLists(s) # {}
       THEN \E l \in NextLists(s) :
              /\ listId' = [listId EXCEPT ![s] = l]
              /\ visited' = [visited EXCEPT ![s] = @ \cup {l}]
              /\ hmRounds' = hmRounds + 1
       ELSE /\ listId' = [listId EXCEPT ![s] = NoList]
            /\ UNCHANGED <<visited, hmRounds>>

NotFinished == UNCHANGED <<listId, visited, hmRounds>>

\* reset_info_state_after_searching: the place where to insert or delete is
\* found; a search that cleans up has seen that the node is gone.
Found(s) ==
  /\ waits' = [waits EXCEPT ![s] = 0]
  /\ IF purpose[s] = "cl"
       THEN FinishDelete(s)
       ELSE /\ HmGoto(s, IF purpose[s] = "ins" THEN "writeNode" ELSE "mark")
            /\ UNCHANGED purpose
            /\ NotFinished

\* s goes on from pointer p, with key k: HM_SEARCH_INNER_LOOP, at whose head
\* the end of the list is found.
GoOnFrom(s, k, p) ==
  IF p.nextKeyId = NoKey /\ purpose[s] = "cl" THEN Found(s)
  ELSE /\ prev' = [prev EXCEPT ![s] = k]
       /\ curr' = [curr EXCEPT ![s] = p]
       /\ next' = [next EXCEPT ![s] = NoHmPtr]
       /\ IF p.nextKeyId = NoKey
            THEN Found(s)
            ELSE /\ HmGoto(s, "readNext")
                 /\ UNCHANGED <<purpose, waits>>
                 /\ NotFinished

\* The read of the head of the list.
ReadHead(s) ==
  /\ hmState[s] = "readHead"
  /\ listId[s] # NoList
  /\ GoOnFrom(s, HeadKey(listId[s]), ptrs[HeadKey(listId[s])])
  /\ UNCHANGED ptrs

\* The read of the node's pointer ...
ReadNext(s) ==
  /\ hmState[s] = "readNext"
  /\ next' = [next EXCEPT ![s] = ptrs[curr[s].nextKeyId]]
  /\ HmGoto(s, "readCurrAgain")
  /\ UNCHANGED <<ptrs, purpose, prev, curr, waits, listId, visited, hmRounds>>

\* Whether s swaps a marked node out: its own, or when it has waited enough.
MayHelp(s) == curr[s].nextKeyId = MyNode(s) \/ waits[s] >= MaxWaitLoops

\* The order of the list is that of the keys of the nodes' pointers.
ComesBefore(s, node) == node < MyNode(s)

\* ... and of curr once more.  HM_READ_CURR_PTR_AGAIN starts over if that has
\* changed, helps or waits if the node is marked, is done if the node does not
\* come before that of s, and otherwise goes on with it.
ReadCurrAgain(s) ==
  LET node == curr[s].nextKeyId
  IN  /\ hmState[s] = "readCurrAgain"
      /\ IF ~SameHmPtr(curr[s], ptrs[prev[s]])
           THEN /\ SearchAgain(s, purpose[s])
                /\ UNCHANGED waits
                /\ NotFinished
         ELSE IF next[s].marked
           THEN /\ IF MayHelp(s)
                     THEN /\ HmGoto(s, "help")
                          /\ waits' = [waits EXCEPT ![s] = 0]
                          /\ UNCHANGED <<purpose, prev, curr, next>>
                     ELSE /\ SearchAgain(s, purpose[s])
                          /\ waits' = [waits EXCEPT ![s] = @ + 1]
                /\ NotFinished
         ELSE IF ~ComesBefore(s, node)
           THEN /\ Found(s)
                /\ purpose[s] # "cl" => UNCHANGED <<prev, curr, next>>
         ELSE GoOnFrom(s, node, next[s])
      /\ UNCHANGED ptrs

\* The swap that takes a marked node out of the list, and the search again.
Help(s) ==
  /\ hmState[s] = "help"
  /\ SwapPtr(prev[s], curr[s], [curr[s] EXCEPT !.counter = @ + 1,
                                               !.nextKeyId = next[s].nextKeyId])
  /\ SearchAgain(s, purpose[s])
  /\ UNCHANGED waits
  /\ NotFinished

----------------------------------------------------------------------------
(* hm_insert_state_machine                                                 *)

\* HM_TRY_INSERT: the node's pointer is written (new_node_ptr) ...
WriteNode(s) ==
  /\ hmState[s] = "writeNode"
  /\ ptrs' = [ptrs EXCEPT
       ![MyNode(s)] = HmPtr(curr[s].nextKeyId, 0, FALSE, listId[s])]
  /\ next' = [next EXCEPT ![s] = NoHmPtr]
  /\ HmGoto(s, "link")
  /\ UNCHANGED <<purpose, prev, curr, waits, listId, visited, hmRounds>>

\* ... and swapped in (new_curr_ptr).  HM_POTENTIAL_SUCCESS turns to the
\* delete, or searches again.
Link(s) ==
  /\ hmState[s] = "link"
  /\ SwapPtr(prev[s], curr[s],
             HmPtr(MyNode(s), curr[s].counter + 1, FALSE, listId[s]))
  /\ SearchAgain(s, IF ptrs[prev[s]] = curr[s] THEN "del" ELSE "ins")
  /\ UNCHANGED waits
  /\ NotFinished

----------------------------------------------------------------------------
(* hm_delete_state_machine                                                 *)

\* HM_TRY_DELETE: the node that the search has found is marked.  The counter
\* is the one of new_node_ptr, which is never any other than 0.
Mark(s) ==
  LET node == curr[s].nextKeyId
  IN  /\ hmState[s] = "mark"
      /\ node # NoKey
      /\ SwapPtr(node, next[s], HmPtr(next[s].nextKeyId, 0, TRUE, listId[s]))
      /\ IF ptrs[node] = next[s]
           THEN /\ HmGoto(s, "unlink")
                /\ UNCHANGED <<purpose, prev, curr, next>>
           ELSE SearchAgain(s, "del")
      /\ UNCHANGED waits
      /\ NotFinished

\* HM_MARKED_POTENTIAL_SUCCESS: the swap that takes it out.  If that fails,
\* a search cleans up.
Unlink(s) ==
  /\ hmState[s] = "unlink"
  /\ SwapPtr(prev[s], curr[s], [curr[s] EXCEPT !.counter = @ + 1,
                                               !.nextKeyId = next[s].nextKeyId])
  /\ IF ptrs[prev[s]] = curr[s]
       THEN FinishDelete(s)
       ELSE SearchAgain(s, "cl") /\ NotFinished
  /\ UNCHANGED waits

----------------------------------------------------------------------------
HmRuns(s) ==
  \/ ReadHead(s) \/ ReadNext(s) \/ ReadCurrAgain(s) \/ Help(s)
  \/ WriteNode(s) \/ Link(s) \/ Mark(s) \/ Unlink(s)

HmNext == \E s \in HmSessions : HmRuns(s)

HmSpec == HmInit /\ [][HmNext]_hmVars

----------------------------------------------------------------------------
(* Properties.  They hold of two sessions that do not come back to a list; *)
(* with more, or with sessions that do, the code's counters break them.    *)

HmPtrs == [nextKeyId : {NoKey} \cup HmNodes, counter : Nat, marked : BOOLEAN,
           listId : Lists \cup {NoList}]

\* Every variable has its type.
HmTypeOK ==
  /\ ptrs \in [Heads \cup HmNodes -> HmPtrs]
  /\ hmState \in [HmSessions -> HmStates]
  /\ purpose \in [HmSessions -> {"ins", "del", "cl"}]
  /\ prev \in [HmSessions -> {NoKey} \cup Heads \cup HmNodes]
  /\ curr \in [HmSessions -> HmPtrs] /\ next \in [HmSessions -> HmPtrs]
  /\ waits \in [HmSessions -> 0..MaxWaitLoops]
  /\ listId \in [HmSessions -> Lists \cup {NoList}]
  /\ visited \in [HmSessions -> SUBSET Lists]
  /\ hmRounds \in 0..HmMaxRounds

\* The nodes of list l in order, cut after as many as there are.
Linked(l) ==
  LET node[i \in 0..Cardinality(HmNodes)] ==
        IF i = 0 THEN ptrs[HeadKey(l)].nextKeyId
        ELSE LET n == node[i - 1] IN IF n = NoKey THEN NoKey ELSE ptrs[n].nextKeyId
  IN  {node[i] : i \in DOMAIN node} \ {NoKey}

\* The assertions of HM_TRY_DELETE: a session that deletes finds its own node,
\* and so never marks that of another, or none at all.
DeleteFindsOwnNode ==
  \A s \in HmSessions : hmState[s] = "mark" => curr[s].nextKeyId = MyNode(s)

\* The assertion of HM_READ_CURR_PTR_AGAIN on what it has read: a pointer that is
\* still what it was leads to a node of the list that the session is at.
NextIsInList ==
  \A s \in HmSessions :
    hmState[s] = "readCurrAgain" /\ SameHmPtr(curr[s], ptrs[prev[s]]) =>
      next[s].listId = listId[s]

\* "You must ensure that the second CAS went through, before reusing the node":
\* no list leads to the node of a session that is at inserting it.
ReusedWhenUnlinked ==
  \A s \in HmSessions :
    purpose[s] = "ins" => \A l \in Lists : MyNode(s) \notin Linked(l)

AbstractSets == INSTANCE Sets WITH
  Sessions <- HmSessions,
  SetIds <- Lists,
  NodeOf <- MyNode,
  FirstSet <- LAMBDA l : {PreNode(l)},
  sets <- [l \in Lists |-> {n \in Linked(l) : ~ptrs[n].marked}]

\* What the lists hold changes only by whole inserts and deletes of a session's
\* own node, in the list where the session is, whoever unlinks marked nodes.
ImplementsSets == AbstractSets!Spec
=============================================================================
