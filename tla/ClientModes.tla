----------------------------- MODULE ClientModes -----------------------------
(***************************************************************************)
(* The client threads (client in od_client.c): CLIENT_MODE, chosen when    *)
(* the system is built, picks the one program that all of them run.  The   *)
(* client that plays a trace and the one for the user, who calls the       *)
(* interface, are in ClientInterface; those here use the store itself.     *)
(***************************************************************************)
EXTENDS TreiberDebug, TreiberBlocking, MSQueue, HMList, Circular, ProducerConsumer

VARIABLE mode   \* CLIENT_MODE

Modes ==
  {"TREIBER_BLOCKING", "TREIBER_DEBUG", "TREIBER_ASYNC", "MSQ_ASYNC", "HML_ASYNC", "TEST_CASE",
   "PRODUCER_CONSUMER"}

clientsVars == <<mode, vars, dbgOwn, msVars, hmVars, rsVars, step, index, turns,
                 pcStep, pcIndex, acqNum, relNum, timesWritten>>

\* What the programs keep for themselves; circVars and pcVars share the store.
circOwn == <<step, index, turns>>
pcOwn == <<pcStep, pcIndex, acqNum, relNum, timesWritten>>

FirstValues ==
  [k \in CircKeys \cup PcKeys |-> IF k \in CircKeys THEN CircFirst[k] ELSE PcFirst[k]]

\* A program that is not compiled is left in the state in which it begins.
ClientsInit ==
  /\ mode \in Modes
  /\ IF mode = "TREIBER_BLOCKING" THEN BlkInit ELSE Init
  /\ DbgInit
  /\ MsInit /\ (mode # "MSQ_ASYNC" => ~leftover)
  /\ HmInit
  /\ CircOwnInit /\ PcOwnInit
  /\ RsInit(FirstValues)

stackVars == <<vars, dbgOwn>>
otherVars == <<msVars, hmVars, rsVars, circOwn, pcOwn>>

TreiberBlocks == mode = "TREIBER_BLOCKING" /\ BlkNext /\ UNCHANGED <<dbgOwn, otherVars>>
TreiberDebugs == mode = "TREIBER_DEBUG" /\ DbgNext /\ UNCHANGED otherVars
Treiber == mode = "TREIBER_ASYNC" /\ Next /\ UNCHANGED <<dbgOwn, otherVars>>
Queue == mode = "MSQ_ASYNC" /\ MsNext /\ UNCHANGED <<stackVars, hmVars, rsVars, circOwn, pcOwn>>
List == mode = "HML_ASYNC" /\ HmNext /\ UNCHANGED <<stackVars, msVars, rsVars, circOwn, pcOwn>>
TestCase == mode = "TEST_CASE" /\ CircNext /\ UNCHANGED <<stackVars, msVars, hmVars, pcOwn>>
Consumer ==
  mode = "PRODUCER_CONSUMER" /\ PcNext /\ UNCHANGED <<stackVars, msVars, hmVars, circOwn>>

ClientsNext ==
  /\ TreiberBlocks \/ TreiberDebugs \/ Treiber \/ Queue \/ List \/ TestCase \/ Consumer
  /\ UNCHANGED mode

ClientsSpec == ClientsInit /\ [][ClientsNext]_clientsVars

----------------------------------------------------------------------------
\* The variables of the program that runs have their types.
ClientsTypeOK ==
  /\ mode \in Modes
  /\ mode \in {"TREIBER_BLOCKING", "TREIBER_DEBUG", "TREIBER_ASYNC"} => TypeOK /\ DbgTypeOK
  /\ mode = "MSQ_ASYNC" => MsTypeOK
  /\ mode = "HML_ASYNC" => HmTypeOK
  /\ mode = "TEST_CASE" => CircTypeOK
  /\ mode = "PRODUCER_CONSUMER" => PcTypeOK

\* What the clients assert of what they read: the counters in a stack's top
\* differ by the number of its nodes (check_top); a session that pops or
\* dequeues always finds a node, since it has pushed or enqueued before as have
\* all others; and it never sees a count from before its own push, nor a tail
\* that has been left behind the head.  (The blocking stacks count pops only,
\* and may be empty.)
ClientsAssert ==
  /\ mode # "TREIBER_BLOCKING" => CountersCount
  /\ PopFindsNode
  /\ mode = "TREIBER_DEBUG" => DebugReadsHold
  /\ DequeueFindsNode
=============================================================================
