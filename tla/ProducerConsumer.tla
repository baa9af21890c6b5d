-------------------------- MODULE ProducerConsumer --------------------------
(***************************************************************************)
(* The client of producers and consumers (od_client.c, CLIENT_MODE         *)
(* PRODUCER_CONSUMER).  A session acquires from the session of the same    *)
(* number on the machine before and releases to the one on the machine     *)
(* after; sessions of different numbers have nothing in common, so that    *)
(* one per machine is modelled.  A flag is a counter of releases: it is    *)
(* polled by relaxed reads, which are local, and acquired once it is seen  *)
(* to have the count that the session waits for.                           *)
(***************************************************************************)
EXTENDS ReleaseStore

CONSTANTS
  PcWrites,     \* PC_WRITES_NUM, the keys of a node
  PcMaxTurns    \* bound on the releases of each session

ASSUME PcAssumption ==
  /\ PcWrites \in Nat \ {0}
  /\ PcMaxTurns \in Nat

PcFlag(m) == <<"pcflag", m>>
NodeKey(m, i) == <<"node", m, i>>
PcKeys == {PcFlag(m) : m \in Machines} \cup {NodeKey(m, i) : m \in Machines, i \in 1..PcWrites}

PcFirst == [k \in PcKeys |-> 0]

VARIABLES
  pcStep,       \* [m]: the request of m's session that takes effect next
  pcIndex,      \* [m]: i, in the loop over the keys of a node
  acqNum,       \* [m]: acq_num
  relNum,       \* [m]: rel_num, which is rel_flag.counter at every look
  timesWritten  \* [m]: times_written of node_to_write[0]

pcVars == <<rsVars, pcStep, pcIndex, acqNum, relNum, timesWritten>>

\* pc_multi_session; only the sessions of machine 0 go through pc_init_flags.
PcOwnInit ==
  /\ pcStep = [m \in Machines |-> IF m = 0 THEN "initWrite" ELSE "poll"]
  /\ pcIndex = [m \in Machines |-> 1]
  /\ acqNum = [m \in Machines |-> 0]
  /\ relNum = [m \in Machines |-> 0]
  /\ timesWritten = [m \in Machines |-> IF m = 0 THEN 1 ELSE 0]

PcInit ==
  /\ RsInit(PcFirst)
  /\ PcOwnInit

PcGoto(m, st) == pcStep' = [pcStep EXCEPT ![m] = st]

\* The loop over the keys of a node goes on with st, or is followed by out.
PcAdvance(m, st, out) ==
  /\ pcIndex' = [pcIndex EXCEPT ![m] = IF @ = PcWrites THEN 1 ELSE @ + 1]
  /\ PcGoto(m, IF pcIndex[m] = PcWrites THEN out ELSE st)

\* pc_init_flags: the node is written, and the flag released.
InitWrite(m) ==
  /\ pcStep[m] = "initWrite"
  /\ Write(m, NodeKey(m, pcIndex[m]), timesWritten[m])
  /\ PcAdvance(m, "initWrite", "release")
  /\ UNCHANGED <<acqNum, relNum, timesWritten>>

\* PC_POLL_LOCAL_STORE, and PC_TRY_TO_ACQUIRE if the flag has not the count
\* that is waited for.
PollFlag(m) ==
  /\ pcStep[m] = "poll"
  /\ \E i \in Readable(m, PcFlag(PrevMachine(m))) :
       /\ ReadFrom(m, PcFlag(PrevMachine(m)), i)
       /\ PcGoto(m, IF written[PcFlag(PrevMachine(m))][i].value = acqNum[m] + 1
                      THEN "acquire" ELSE "poll")
  /\ UNCHANGED <<pcIndex, acqNum, relNum, timesWritten>>

\* Mutant: what is read is taken for granted once the flag is seen raised.
PcAcquireNot(m) ==
  /\ pcStep[m] = "acquire"
  /\ timesWritten' = [timesWritten EXCEPT ![m] = @ + 1]
  /\ PcGoto(m, "read")
  /\ UNCHANGED <<rsVars, pcIndex, acqNum, relNum>>

\* "do the acquire to ensure correctness"
PcAcquire(m) ==
  /\ pcStep[m] = "acquire"
  /\ Acquire(m, PcFlag(PrevMachine(m)))
  /\ timesWritten' = [timesWritten EXCEPT ![m] = @ + 1]
  /\ PcGoto(m, "read")
  /\ UNCHANGED <<pcIndex, acqNum, relNum>>

\* A key of the other session's node is read ...
PcRead(m) ==
  /\ pcStep[m] = "read"
  /\ \E i \in Readable(m, NodeKey(PrevMachine(m), pcIndex[m])) :
       ReadFrom(m, NodeKey(PrevMachine(m), pcIndex[m]), i)
  /\ PcGoto(m, "write")
  /\ UNCHANGED <<pcIndex, acqNum, relNum, timesWritten>>

\* ... and one of the session's own written.
PcWrite(m) ==
  /\ pcStep[m] = "write"
  /\ Write(m, NodeKey(m, pcIndex[m]), timesWritten[m])
  /\ PcAdvance(m, "read", "release")
  /\ acqNum' = [acqNum EXCEPT ![m] = IF pcIndex[m] = PcWrites THEN @ + 1 ELSE @]
  /\ UNCHANGED <<relNum, timesWritten>>

PcRelease(m) ==
  /\ pcStep[m] = "release"
  /\ relNum[m] < PcMaxTurns
  /\ Release(m, PcFlag(m), relNum[m] + 1)
  /\ relNum' = [relNum EXCEPT ![m] = @ + 1]
  /\ PcGoto(m, "poll")
  /\ UNCHANGED <<pcIndex, acqNum, timesWritten>>

PcNext ==
  \E m \in Machines :
    \/ InitWrite(m) \/ PollFlag(m) \/ PcAcquire(m) \/ PcRead(m) \/ PcWrite(m)
    \/ PcRelease(m)

PcSpec == PcInit /\ [][PcNext]_pcVars

----------------------------------------------------------------------------
\* Every variable has its type.
PcTypeOK ==
  /\ \A k \in PcKeys : \A i \in DOMAIN written[k] :
       /\ written[k][i].value \in Nat
       /\ \A j \in DOMAIN written[k][i].view : written[k][i].view[j] \in DOMAIN written[j]
  /\ \A m \in Machines : \A k \in PcKeys : seen[m][k] \in DOMAIN written[k]
  /\ pcStep \in [Machines ->
       {"initWrite", "poll", "acquire", "read", "write", "release"}]
  /\ pcIndex \in [Machines -> 1..PcWrites]
  /\ acqNum \in [Machines -> Nat] /\ relNum \in [Machines -> 0..PcMaxTurns]
  /\ timesWritten \in [Machines -> Nat]

\* The assertion on times_written of the node that was read: a session reads
\* what was written for the release that it waited for, neither older values
\* nor those of the next turn, although it polled by relaxed reads.
ReadsReleasedNode ==
  \A m \in Machines : pcStep[m] = "read" =>
    ReadableValues(m, NodeKey(PrevMachine(m), pcIndex[m])) = {acqNum[m] + 1}
=============================================================================
