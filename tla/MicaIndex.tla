------------------------------ MODULE MicaIndex ------------------------------
(***************************************************************************)
(* The index of the key-value store and its population (od_kvs.c,          *)
(* od_kvs.h): buckets of slots, each with a tag and the offset of a        *)
(* key-value pair in a log.  Keys are inserted once, by the main thread,   *)
(* before any worker runs; afterwards the index is only looked up.  What a *)
(* key hashes to is left open.                                             *)
(***************************************************************************)
EXTENDS Integers, FiniteSets

CONSTANTS
  NumKeys,    \* KVS_NUM_KEYS
  NumBkts,    \* KVS_NUM_BKTS
  NumTags,    \* how many tags there are, 2^16
  SlotNum,    \* the slots of a bucket, 8
  LogCaps,    \* the log's capacities, KVS_LOG_CAP, in units of 32 bytes
  OpSize      \* MICA_OP_SIZE in these units, 64-byte aligned as it is

ASSUME IndexAssumption ==
  /\ {NumKeys, NumBkts, NumTags, SlotNum} \cup LogCaps \subseteq Nat \ {0}
  /\ OpSize \in Nat \ {0} /\ OpSize % 2 = 0
  /\ \A cap \in LogCaps : cap > OpSize + 1

KvKeys == 0..(NumKeys - 1)
Bkts == 0..(NumBkts - 1)
Hashes == [bkt : Bkts, tag : 0..(NumTags - 1)]
Slots == 0..(SlotNum - 1)
Free == [inUse |-> FALSE, tag |-> 0, offset |-> 0]
NoEntry == NumKeys

VARIABLES
  hash,        \* [k]: the bucket (masked) and tag of key k
  htIndex,     \* [b][j]: ht_index, slot j of bucket b
  logCap,      \* log_cap
  htLog,       \* [u]: ht_log, the key whose pair is in unit u
  logHead,     \* log_head
  inserted,    \* num_insert_op: the keys below it are in the store
  miAborted    \* an assertion of mica_insert_one has failed

miVars == <<hash, htIndex, logCap, htLog, logHead, inserted, miAborted>>

\* mica_init; shared memory comes zeroed.
MiInit ==
  /\ hash \in [KvKeys -> Hashes]
  /\ htIndex = [b \in Bkts |-> [j \in Slots |-> Free]]
  /\ logCap \in LogCaps
  /\ htLog = [u \in 0..(logCap - 1) |-> NoEntry]
  /\ logHead = 0
  /\ inserted = 0
  /\ miAborted = FALSE

\* Mutant: two keys with the same tag are not noticed.
ClashesNever(slots, tag) == FALSE

\* "Key overwrites": a slot in use has the tag already.
Clashes(slots, tag) == \E j \in Slots : slots[j].inUse /\ slots[j].tag = tag

\* The search does not stop at the first slot that will do, and takes the
\* last: slots fill from the end.
SlotsToUse(slots, tag) == {j \in Slots : slots[j].tag = tag \/ ~slots[j].inUse}
SlotToUse(slots, tag) ==
  CHOOSE j \in SlotsToUse(slots, tag) : \A i \in SlotsToUse(slots, tag) : i <= j

\* What comes after the assertion for a log that wraps around is not reached.
Overflows(head) == logCap - head <= OpSize + 1

\* mica_insert_one, for the next key of custom_mica_populate_fixed_len.
MicaInsertOne ==
  LET h == hash[inserted]
      slots == htIndex[h.bkt]
      fails == Clashes(slots, h.tag) \/ SlotsToUse(slots, h.tag) = {}
  IN  /\ inserted < NumKeys /\ ~miAborted
      /\ IF fails
           THEN miAborted' = TRUE /\ UNCHANGED <<htIndex, htLog, logHead, inserted>>
           ELSE /\ htIndex' = [htIndex EXCEPT ![h.bkt][SlotToUse(slots, h.tag)] =
                     [inUse |-> TRUE, tag |-> h.tag, offset |-> logHead]]
                /\ htLog' = [u \in DOMAIN htLog |->
                     IF u \in logHead..(logHead + OpSize - 1) THEN inserted ELSE htLog[u]]
                /\ logHead' = logHead + OpSize
                /\ inserted' = inserted + 1
                /\ miAborted' = Overflows(logHead + OpSize)
      /\ UNCHANGED <<hash, logCap>>

Populated == inserted = NumKeys /\ ~miAborted

\* KVS_locate_one_bucket and KVS_locate_one_kv_pair: the first slot in use
\* with the tag of the key, or none.
Matching(k) ==
  {j \in Slots : htIndex[hash[k].bkt][j].inUse /\ htIndex[hash[k].bkt][j].tag = hash[k].tag}
Located(k) ==
  LET j == CHOOSE i \in Matching(k) : \A l \in Matching(k) : i <= l
  IN  htIndex[hash[k].bkt][j].offset

----------------------------------------------------------------------------
\* A look-up of a key that has been inserted finds the key's own pair, whole,
\* whatever keys have been put in its bucket or behind it in the log since.
LookupsFindTheirKey ==
  \A k \in KvKeys : k < inserted =>
    /\ Matching(k) # {}
    /\ \A u \in Located(k)..(Located(k) + OpSize - 1) : u < logCap /\ htLog[u] = k
=============================================================================
