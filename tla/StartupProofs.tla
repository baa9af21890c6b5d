--------------------------- MODULE StartupProofs ---------------------------
(***************************************************************************)
(* What the start of the processes leaves behind, for any number of        *)
(* machines, workers and keys: all addresses for every worker, an index in *)
(* which every key is found, a core for each thread; and when the          *)
(* identifiers that machines give to workers and sessions can be taken     *)
(* apart again.  At the end, how timestamps compare.                       *)
(***************************************************************************)
EXTENDS Startup, Timestamps, SumTheorems

----------------------------------------------------------------------------
(* The exchange of addresses.                                              *)

Everything == Machines \X Workers
Own(m) == {m} \X Workers
WorkerStates == {"fill", "exchange", "wait", "receive", "connect", "up"}

CsShape ==
  /\ qpAttr \in [Machines -> SUBSET Everything]
  /\ filled \in [Machines -> Nat]
  /\ wState \in [Machines -> [Workers -> WorkerStates]]
  /\ rmI \in 0..(MachineNum - 1)
  /\ server # "listen" => rmI \in Ports
  /\ toServer \in [Ports -> SUBSET Everything]
  /\ toClient \in [Ports -> SUBSET Everything]
  /\ remQp \in [Machines -> SUBSET Everything]
  /\ qpsAreSetUp \in [Machines -> BOOLEAN]

\* The workers of a machine that have filled in their attributes.
HaveFilled(m) == {w \in Workers : wState[m][w] # "fill"}

\* workers_with_filled_qp_attr counts them, and the attributes are there.
CsFilled ==
  /\ \A m \in Machines : filled[m] = Cardinality(HaveFilled(m))
  /\ \A m \in Machines : \A w \in HaveFilled(m) : <<m, w>> \in qpAttr[m]

\* What has been sent to machine 0, and what it has received, is complete for
\* the machine that has sent it; what machine 0 sends back is everything.
CsServed ==
  /\ \A p \in Ports : toServer[p] # {} => Own(p + 1) \subseteq toServer[p]
  /\ \A p \in Ports : p < rmI => Own(p + 1) \subseteq qpAttr[0]
  /\ \A p \in Ports : toClient[p] # {} => toClient[p] = Everything

\* Worker 0 makes its address handles out of everything, and says so after.
CsConnected ==
  /\ \A m \in Machines : wState[m][0] = "connect" => qpAttr[m] = Everything
  /\ \A m \in Machines : qpsAreSetUp[m] => remQp[m] = (Machines \ {m}) \X Workers
  /\ \A m \in Machines, w \in Workers : wState[m][w] = "up" => qpsAreSetUp[m]

CsInv == CsShape /\ CsFilled /\ CsServed /\ CsConnected

\* Machine 0 and worker 0 are there; every machine but 0 has a port.
LEMMA Numbers ==
  /\ MachineNum \in Nat /\ MachineNum > 0
  /\ WorkersPerMachine \in Nat /\ WorkersPerMachine > 0
  /\ 0 \in Machines /\ 0 \in Workers
  /\ \A m \in Machines : m # 0 => PortOf(m) \in Ports /\ PortOf(m) + 1 = m
  /\ \A p \in Ports : p + 1 \in Machines /\ p \in Nat
BY IdAssumption DEF Machines, Workers, Ports, PortOf

\* A machine's workers are finitely many.
LEMMA WorkersFinite ==
  /\ IsFiniteSet(Workers) /\ Cardinality(Workers) = WorkersPerMachine
  /\ \A T \in SUBSET Workers : IsFiniteSet(T) /\ Cardinality(T) \in Nat
<1>1. 0 \in Int /\ WorkersPerMachine - 1 \in Int
  BY Numbers
<1>2. IsFiniteSet(Workers) /\ Cardinality(Workers) = WorkersPerMachine
  <2>1. /\ IsFiniteSet(0..(WorkersPerMachine - 1))
        /\ Cardinality(0..(WorkersPerMachine - 1))
             = IF 0 > WorkersPerMachine - 1 THEN 0 ELSE WorkersPerMachine - 1 - 0 + 1
    BY <1>1, FS_Interval
  <2> QED
    BY <2>1, Numbers DEF Workers
<1> QED
  BY <1>2, FS_Subset, FS_CardinalityType

\* When the count is that of all workers, all attributes are there.
LEMMA AllAreFilled ==
  ASSUME CsShape, CsFilled, NEW m \in Machines, AllFilled(m)
  PROVE  HaveFilled(m) = Workers /\ Own(m) \subseteq qpAttr[m]
<1>1. HaveFilled(m) \in SUBSET Workers
  BY DEF HaveFilled
<1>2. Cardinality(Workers) = Cardinality(HaveFilled(m))
  BY WorkersFinite DEF CsFilled, AllFilled
<1>3. HaveFilled(m) = Workers
  BY <1>1, <1>2, WorkersFinite, FS_Subset
<1> QED
  BY <1>3 DEF CsFilled, Own

\* With its own attributes and those from all ports machine 0 has everything.
LEMMA ServerHasAll ==
  ASSUME CsShape, CsFilled, CsServed, AllFilled(0), rmI \notin Ports
  PROVE  qpAttr[0] = Everything
<1>1. Own(0) \subseteq qpAttr[0]
  BY AllAreFilled, Numbers
<1>2. ASSUME NEW m \in Machines, m # 0 PROVE Own(m) \subseteq qpAttr[0]
  <2>1. PortOf(m) \in Ports /\ PortOf(m) + 1 = m
    BY <1>2, Numbers
  <2>2. PortOf(m) < rmI
    BY <2>1, Numbers DEF CsShape, Ports
  <2> QED
    BY <2>1, <2>2 DEF CsServed
<1>3. Everything \subseteq qpAttr[0]
  BY <1>1, <1>2 DEF Everything, Own
<1> QED
  BY <1>3, Numbers DEF CsShape

\* The steps of one worker.
LEMMA GotoIs ==
  ASSUME CsShape, NEW m \in Machines, NEW w \in Workers, NEW st \in WorkerStates,
         CsGoto(m, w, st)
  PROVE  /\ wState' \in [Machines -> [Workers -> WorkerStates]]
         /\ wState'[m][w] = st
         /\ \A n \in Machines, x \in Workers :
              <<n, x>> # <<m, w>> => wState'[n][x] = wState[n][x]
<1>1. wState' = [wState EXCEPT ![m] = [wState[m] EXCEPT ![w] = st]]
  BY DEF CsGoto, CsShape
<1> QED
  BY <1>1 DEF CsShape

\* A step within the set-up leaves the filled workers as they are.
LEMMA StillFilled ==
  ASSUME CsShape, CsFilled, NEW m \in Machines, NEW w \in Workers,
         NEW st \in WorkerStates \ {"fill"}, wState[m][w] # "fill",
         CsGoto(m, w, st), filled' = filled,
         \A n \in Machines : qpAttr[n] \subseteq qpAttr'[n]
  PROVE  CsFilled'
<1>1. \A n \in Machines : HaveFilled(n)' = HaveFilled(n)
  <2>1. ASSUME NEW n \in Machines, NEW x \in Workers
        PROVE  wState'[n][x] # "fill" <=> wState[n][x] # "fill"
    BY GotoIs
  <2> QED
    BY <2>1 DEF HaveFilled
<1> QED
  BY <1>1 DEF CsFilled

\* fill_qps: one worker more.
LEMMA FillStep ==
  ASSUME CsInv, NEW m \in Machines, NEW w \in Workers, FillQps(m, w)
  PROVE  CsInv'
<1> USE DEF CsInv
<1>1. PICK st \in WorkerStates \ {"fill", "connect", "up"} :
        /\ CsGoto(m, w, st) /\ wState[m][w] = "fill"
        /\ qpAttr' = [qpAttr EXCEPT ![m] = qpAttr[m] \cup {<<m, w>>}]
        /\ filled' = [filled EXCEPT ![m] = filled[m] + 1]
        /\ UNCHANGED <<server, rmI, sockets, remQp, qpsAreSetUp>>
  BY DEF FillQps, WorkerStates, CsShape
<1>2. /\ wState' \in [Machines -> [Workers -> WorkerStates]]
      /\ wState'[m][w] = st
      /\ \A n \in Machines, x \in Workers :
           <<n, x>> # <<m, w>> => wState'[n][x] = wState[n][x]
  BY <1>1, GotoIs
<1>3. <<m, w>> \in Everything
  BY DEF Everything
<1>4. /\ qpAttr' \in [Machines -> SUBSET Everything]
      /\ \A n \in Machines : qpAttr[n] \subseteq qpAttr'[n]
      /\ <<m, w>> \in qpAttr'[m]
  BY <1>1, <1>3 DEF CsShape
<1>5. CsShape'
  BY <1>1, <1>2, <1>4 DEF CsShape, sockets
<1>6. CsFilled'
  <2>1. HaveFilled(m)' = HaveFilled(m) \cup {w} /\ w \notin HaveFilled(m)
    BY <1>1, <1>2 DEF HaveFilled
  <2>2. \A n \in Machines : n # m => HaveFilled(n)' = HaveFilled(n)
    <3>1. ASSUME NEW n \in Machines, n # m, NEW x \in Workers
          PROVE  wState'[n][x] = wState[n][x]
      BY <1>2, <3>1
    <3> QED
      BY <3>1 DEF HaveFilled
  <2>3. HaveFilled(m) \in SUBSET Workers
    BY DEF HaveFilled
  <2>4. Cardinality(HaveFilled(m) \cup {w}) = Cardinality(HaveFilled(m)) + 1
    BY <2>1, <2>3, WorkersFinite, FS_AddElement
  <2>5. \A n \in Machines : filled'[n] = Cardinality(HaveFilled(n)')
    BY <1>1, <2>1, <2>2, <2>4 DEF CsFilled, CsShape
  <2>6. \A n \in Machines : \A x \in HaveFilled(n)' : <<n, x>> \in qpAttr'[n]
    BY <1>4, <2>1, <2>2 DEF CsFilled
  <2> QED
    BY <2>5, <2>6 DEF CsFilled
<1>7. CsServed'
  BY <1>1, <1>4, Numbers DEF CsServed, sockets
<1>8. CsConnected'
  <2>1. \A n \in Machines : wState'[n][0] = "connect" => qpAttr'[n] = Everything
    <3>1. SUFFICES ASSUME NEW n \in Machines, wState'[n][0] = "connect"
                   PROVE  qpAttr'[n] = Everything
      OBVIOUS
    <3>2. wState[n][0] = "connect"
      BY <1>1, <1>2, <3>1, Numbers DEF WorkerStates
    <3>3. qpAttr[n] = Everything /\ qpAttr[n] \subseteq qpAttr'[n]
      BY <1>4, <3>2 DEF CsConnected
    <3>4. qpAttr'[n] \subseteq Everything
      BY <1>4
    <3> QED
      BY <3>3, <3>4
  <2>2. \A n \in Machines, x \in Workers : wState'[n][x] = "up" => wState[n][x] = "up"
    BY <1>1, <1>2 DEF WorkerStates
  <2> QED
    BY <1>1, <2>1, <2>2 DEF CsConnected
<1> QED
  BY <1>5, <1>6, <1>7, <1>8

\* A worker sees the flag.
LEMMA SeeStep ==
  ASSUME CsInv, NEW m \in Machines, NEW w \in Workers, SeeFlag(m, w)
  PROVE  CsInv'
<1> USE DEF CsInv
<1>1. /\ CsGoto(m, w, "up") /\ wState[m][w] = "wait" /\ qpsAreSetUp[m]
      /\ UNCHANGED <<qpAttr, filled, server, rmI, sockets, remQp, qpsAreSetUp>>
  BY DEF SeeFlag
<1>2. "up" \in WorkerStates \ {"fill"}
  BY DEF WorkerStates
<1>3. /\ wState' \in [Machines -> [Workers -> WorkerStates]]
      /\ wState'[m][w] = "up"
      /\ \A n \in Machines, x \in Workers :
           <<n, x>> # <<m, w>> => wState'[n][x] = wState[n][x]
  BY <1>1, <1>2, GotoIs
<1>4. CsShape'
  BY <1>1, <1>3 DEF CsShape, sockets
<1>5. CsFilled'
  BY <1>1, <1>2, StillFilled
<1>6. CsServed'
  BY <1>1 DEF CsServed, sockets
<1>7. CsConnected'
  <2>1. \A n \in Machines : wState'[n][0] = "connect" => wState[n][0] = "connect"
    BY <1>3, Numbers
  <2>2. \A n \in Machines, x \in Workers : wState'[n][x] = "up" =>
          wState[n][x] = "up" \/ n = m
    BY <1>3
  <2> QED
    BY <1>1, <2>1, <2>2 DEF CsConnected
<1> QED
  BY <1>4, <1>5, <1>6, <1>7

\* Machine 0 listens, accepts, receives, and sends everything to all.
LEMMA ServerStep ==
  ASSUME CsInv, Server
  PROVE  CsInv'
<1> USE DEF CsInv
<1>0. 0 \in Machines /\ 0 \in Workers
  BY Numbers
<1>1. CASE Listen \/ Accept
  <2>1. /\ UNCHANGED <<qpAttr, filled, wState, rmI, toServer, toClient, remQp, qpsAreSetUp>>
        /\ rmI \in Ports
    BY <1>1 DEF Listen, Accept, CsShape
  <2> QED
    BY <2>1 DEF CsShape, CsFilled, CsServed, CsConnected, HaveFilled
<1>2. CASE Receive
  <2>1. /\ qpAttr' = [qpAttr EXCEPT ![0] = qpAttr[0] \cup toServer[rmI]]
        /\ rmI' = rmI + 1 /\ server' = "listen" /\ toServer[rmI] # {} /\ rmI \in Ports
        /\ wState[0][0] = "exchange"
        /\ UNCHANGED <<filled, wState, sockets, remQp, qpsAreSetUp>>
    BY <1>2 DEF Receive, Serves, CsShape
  <2>2. /\ qpAttr' \in [Machines -> SUBSET Everything]
        /\ \A n \in Machines : qpAttr[n] \subseteq qpAttr'[n]
        /\ \A n \in Machines : n # 0 => qpAttr'[n] = qpAttr[n]
        /\ toServer[rmI] \subseteq qpAttr'[0]
    BY <1>0, <2>1 DEF CsShape
  <2>3. rmI' \in 0..(MachineNum - 1)
    BY <2>1, Numbers DEF Ports
  <2>4. CsShape'
    BY <2>1, <2>2, <2>3 DEF CsShape, sockets
  <2>5. CsFilled'
    BY <2>1, <2>2 DEF CsFilled, HaveFilled
  <2>6. CsServed'
    <3>1. \A p \in Ports : p < rmI + 1 => Own(p + 1) \subseteq qpAttr'[0]
      <4>1. \A p \in Ports : p < rmI + 1 => p < rmI \/ p = rmI
        BY <2>1, Numbers
      <4> QED
        BY <1>0, <2>1, <2>2, <4>1 DEF CsServed
    <3> QED
      BY <2>1, <3>1 DEF CsServed, sockets
  <2>7. CsConnected'
    BY <2>1, <2>2 DEF CsConnected
  <2> QED
    BY <2>4, <2>5, <2>6, <2>7
<1>3. CASE SendToAll
  <2>1. /\ Serves /\ rmI \notin Ports
        /\ toClient' = [p \in Ports |-> qpAttr[0]]
        /\ CsGoto(0, 0, "connect")
        /\ UNCHANGED <<qpAttr, filled, server, rmI, conn, toServer, remQp, qpsAreSetUp>>
    BY <1>3 DEF SendToAll
  <2>2. qpAttr[0] = Everything
    BY <2>1, ServerHasAll DEF Serves
  <2>3. "connect" \in WorkerStates \ {"fill"} /\ wState[0][0] # "fill"
    BY <2>1 DEF WorkerStates, Serves
  <2>4. /\ wState' \in [Machines -> [Workers -> WorkerStates]]
        /\ wState'[0][0] = "connect"
        /\ \A n \in Machines, x \in Workers :
             <<n, x>> # <<0, 0>> => wState'[n][x] = wState[n][x]
    BY <1>0, <2>1, <2>3, GotoIs
  <2>5. CsShape'
    BY <2>1, <2>2, <2>4 DEF CsShape
  <2>6. CsFilled'
    BY <1>0, <2>1, <2>3, StillFilled
  <2>7. CsServed'
    BY <2>1, <2>2 DEF CsServed
  <2>8. CsConnected'
    <3>1. \A n \in Machines : wState'[n][0] = "connect" =>
            wState[n][0] = "connect" \/ n = 0
      BY <1>0, <2>4
    <3>2. \A n \in Machines, x \in Workers : wState'[n][x] = "up" =>
            wState[n][x] = "up"
      BY <2>4
    <3> QED
      BY <2>1, <2>2, <3>1, <3>2 DEF CsConnected
  <2> QED
    BY <2>5, <2>6, <2>7, <2>8
<1> QED
  BY <1>1, <1>2, <1>3 DEF Server

\* Another machine sends its own attributes, and receives everything.
LEMMA ClientStep ==
  ASSUME CsInv, NEW m \in Machines, m # 0, Connect(m) \/ ReceiveAll(m)
  PROVE  CsInv'
<1> USE DEF CsInv
<1>0. /\ 0 \in Workers /\ PortOf(m) \in Ports /\ PortOf(m) + 1 = m
      /\ "receive" \in WorkerStates \ {"fill"} /\ "connect" \in WorkerStates \ {"fill"}
  BY Numbers DEF WorkerStates
<1>1. CASE Connect(m)
  <2>1. /\ wState[m][0] = "exchange" /\ AllFilled(m)
        /\ toServer' = [toServer EXCEPT ![PortOf(m)] = qpAttr[m]]
        /\ CsGoto(m, 0, "receive")
        /\ UNCHANGED <<qpAttr, filled, server, rmI, toClient, remQp, qpsAreSetUp>>
    BY <1>1 DEF Connect
  <2>2. /\ wState' \in [Machines -> [Workers -> WorkerStates]]
        /\ wState'[m][0] = "receive"
        /\ \A n \in Machines, x \in Workers :
             <<n, x>> # <<m, 0>> => wState'[n][x] = wState[n][x]
    BY <1>0, <2>1, GotoIs
  <2>3. Own(m) \subseteq qpAttr[m]
    BY <2>1, AllAreFilled
  <2>4. toServer' \in [Ports -> SUBSET Everything] /\ toServer'[PortOf(m)] = qpAttr[m]
    BY <1>0, <2>1 DEF CsShape
  <2>5. CsShape'
    BY <2>1, <2>2, <2>4 DEF CsShape
  <2>6. CsFilled'
    BY <1>0, <2>1, StillFilled
  <2>7. CsServed'
    <3>1. \A p \in Ports : toServer'[p] # {} => Own(p + 1) \subseteq toServer'[p]
      <4>1. \A p \in Ports : p # PortOf(m) => toServer'[p] = toServer[p]
        BY <2>1 DEF CsShape
      <4> QED
        BY <1>0, <2>3, <2>4, <4>1 DEF CsServed
    <3> QED
      BY <2>1, <3>1 DEF CsServed
  <2>8. CsConnected'
    <3>1. /\ \A n \in Machines : wState'[n][0] = "connect" => wState[n][0] = "connect"
          /\ \A n \in Machines, x \in Workers : wState'[n][x] = "up" => wState[n][x] = "up"
      BY <1>0, <2>2
    <3> QED
      BY <2>1, <3>1 DEF CsConnected
  <2> QED
    BY <2>5, <2>6, <2>7, <2>8
<1>2. CASE ReceiveAll(m)
  <2>1. /\ wState[m][0] = "receive" /\ toClient[PortOf(m)] # {}
        /\ qpAttr' = [qpAttr EXCEPT ![m] = toClient[PortOf(m)]]
        /\ CsGoto(m, 0, "connect")
        /\ UNCHANGED <<filled, server, rmI, sockets, remQp, qpsAreSetUp>>
    BY <1>2 DEF ReceiveAll
  <2>2. toClient[PortOf(m)] = Everything
    BY <1>0, <2>1 DEF CsServed
  <2>3. /\ qpAttr' \in [Machines -> SUBSET Everything] /\ qpAttr'[m] = Everything
        /\ \A n \in Machines : qpAttr[n] \subseteq qpAttr'[n]
        /\ \A n \in Machines : n # m => qpAttr'[n] = qpAttr[n]
    BY <2>1, <2>2 DEF CsShape
  <2>4. /\ wState' \in [Machines -> [Workers -> WorkerStates]]
        /\ wState'[m][0] = "connect"
        /\ \A n \in Machines, x \in Workers :
             <<n, x>> # <<m, 0>> => wState'[n][x] = wState[n][x]
    BY <1>0, <2>1, GotoIs
  <2>5. CsShape'
    BY <2>1, <2>3, <2>4 DEF CsShape, sockets
  <2>6. CsFilled'
    BY <1>0, <2>1, <2>3, StillFilled
  <2>7. CsServed'
    BY <2>1, <2>3, Numbers DEF CsServed, sockets
  <2>8. CsConnected'
    <3>1. /\ \A n \in Machines : wState'[n][0] = "connect" =>
                wState[n][0] = "connect" \/ n = m
          /\ \A n \in Machines, x \in Workers : wState'[n][x] = "up" => wState[n][x] = "up"
      BY <1>0, <2>4
    <3> QED
      BY <2>1, <2>3, <3>1 DEF CsConnected
  <2> QED
    BY <2>5, <2>6, <2>7, <2>8
<1> QED
  BY <1>1, <1>2

\* The address handles are made.
LEMMA GetStep ==
  ASSUME CsInv, NEW m \in Machines, GetQps(m)
  PROVE  CsInv'
<1> USE DEF CsInv
<1>0. 0 \in Workers /\ "up" \in WorkerStates \ {"fill"}
  BY Numbers DEF WorkerStates
<1>1. /\ wState[m][0] = "connect" /\ CsGoto(m, 0, "up")
      /\ remQp' = [remQp EXCEPT ![m] = {a \in qpAttr[m] : a[1] # m}]
      /\ qpsAreSetUp' = [qpsAreSetUp EXCEPT ![m] = TRUE]
      /\ UNCHANGED <<qpAttr, filled, server, rmI, sockets>>
  BY DEF GetQps
<1>2. /\ wState' \in [Machines -> [Workers -> WorkerStates]]
      /\ wState'[m][0] = "up"
      /\ \A n \in Machines, x \in Workers :
           <<n, x>> # <<m, 0>> => wState'[n][x] = wState[n][x]
  BY <1>0, <1>1, GotoIs
<1>3. {a \in qpAttr[m] : a[1] # m} = (Machines \ {m}) \X Workers
  <2>1. qpAttr[m] = Machines \X Workers
    BY <1>1 DEF CsConnected, Everything
  <2> QED
    BY <2>1
<1>4. (Machines \ {m}) \X Workers \in SUBSET Everything
  BY DEF Everything
<1>5. CsShape'
  BY <1>1, <1>2, <1>3, <1>4 DEF CsShape, sockets
<1>6. CsFilled'
  BY <1>0, <1>1, StillFilled
<1>7. CsServed'
  BY <1>1 DEF CsServed, sockets
<1>8. CsConnected'
  <2>1. /\ \A n \in Machines : wState'[n][0] = "connect" => wState[n][0] = "connect"
        /\ \A n \in Machines, x \in Workers : wState'[n][x] = "up" =>
             wState[n][x] = "up" \/ n = m
    BY <1>0, <1>2
  <2>2. /\ qpsAreSetUp'[m] /\ remQp'[m] = (Machines \ {m}) \X Workers
        /\ \A n \in Machines : n # m => remQp'[n] = remQp[n] /\ qpsAreSetUp'[n] = qpsAreSetUp[n]
    BY <1>1, <1>3 DEF CsShape
  <2> QED
    BY <1>1, <2>1, <2>2 DEF CsConnected
<1> QED
  BY <1>5, <1>6, <1>7, <1>8

\* Nothing is filled, served or connected yet.
LEMMA CsInitial == CsInit => CsInv
<1> SUFFICES ASSUME CsInit PROVE CsInv
  OBVIOUS
<1>1. CsShape
  BY Numbers DEF CsInit, CsShape, WorkerStates, Ports
<1>2. CsFilled
  <2>1. \A m \in Machines : HaveFilled(m) = {}
    BY DEF CsInit, HaveFilled
  <2> QED
    BY <2>1, FS_EmptySet DEF CsInit, CsFilled
<1>3. CsServed
  BY Numbers DEF CsInit, CsServed
<1>4. CsConnected
  BY Numbers DEF CsInit, CsConnected
<1> QED
  BY <1>1, <1>2, <1>3, <1>4 DEF CsInv

\* Every step of the start keeps the invariant of the exchange.
LEMMA CsStep ==
  ASSUME CsInv, [StartNext]_startVars
  PROVE  CsInv'
<1>1. ASSUME UNCHANGED csVars PROVE CsInv'
  BY <1>1 DEF CsInv, CsShape, CsFilled, CsServed, CsConnected, HaveFilled, csVars
<1>2. CASE Populate
  BY <1>1, <1>2 DEF Populate
<1>3. ASSUME NEW m \in Machines, Spawn(m) PROVE CsInv'
  BY <1>1, <1>3 DEF Spawn
<1>4. ASSUME NEW m \in Machines, WorkerZeroConnects(m) PROVE CsInv'
  BY <1>4, ServerStep, ClientStep, GetStep DEF WorkerZeroConnects, WorkerZero
<1>5. ASSUME NEW m \in Machines, NEW w \in Workers, WorkerStarts(m, w) PROVE CsInv'
  BY <1>5, FillStep, SeeStep DEF WorkerStarts
<1>6. CASE UNCHANGED startVars
  BY <1>1, <1>6 DEF startVars
<1> QED
  BY <1>2, <1>3, <1>4, <1>5, <1>6 DEF StartNext

\* A worker that comes to its loop has the addresses of all workers of all
\* other machines, for any number of them and whichever is slow
\* (setup_connections of od_init_connect.h).
THEOREM StartsComplete == StartSpec => []StartsWithAllAddresses
<1>1. CsInv => StartsWithAllAddresses
  BY DEF CsInv, CsConnected, StartsWithAllAddresses
<1>2. StartInit => CsInv
  BY CsInitial DEF StartInit
<1>3. CsInv /\ [StartNext]_startVars => CsInv'
  BY CsStep
<1> QED
  BY <1>1, <1>2, <1>3, PTL DEF StartSpec

----------------------------------------------------------------------------
(* The index.                                                              *)

Entry == [inUse : BOOLEAN, tag : 0..(NumTags - 1), offset : Nat]

MiShape ==
  /\ hash \in [KvKeys -> Hashes]
  /\ htIndex \in [Bkts -> [Slots -> Entry]]
  /\ logCap \in Nat /\ DOMAIN htLog = 0..(logCap - 1)
  /\ logHead \in Nat /\ inserted \in 0..NumKeys /\ miAborted \in BOOLEAN
  /\ ~miAborted => logCap - logHead > OpSize + 1

\* Slot j of its bucket leads to key k, whose pair is whole, below the head.
LeadsTo(j, k) ==
  LET e == htIndex[hash[k].bkt][j]
  IN  /\ e.inUse /\ e.tag = hash[k].tag /\ e.offset + OpSize <= logHead
      /\ \A u \in e.offset..(e.offset + OpSize - 1) : u < logCap /\ htLog[u] = k

EveryKeyIsThere == \A k \in KvKeys : k < inserted => \E j \in Slots : LeadsTo(j, k)

\* mica_insert_one checks that no other slot of the bucket has the tag: a
\* look-up cannot stop at the wrong one.
TagsDiffer ==
  \A b \in Bkts : \A i, j \in Slots :
    /\ htIndex[b][i].inUse /\ htIndex[b][j].inUse
    /\ htIndex[b][i].tag = htIndex[b][j].tag
    => i = j

MiInv == MiShape /\ EveryKeyIsThere /\ TagsDiffer

\* What the assumption says of the sizes one by one.
LEMMA Sizes ==
  /\ NumKeys \in Nat /\ SlotNum \in Nat /\ OpSize \in Nat /\ OpSize > 0
  /\ \A cap \in LogCaps : cap \in Nat /\ cap > OpSize + 1
  /\ 0 \in 0..(NumTags - 1)
<1>1. \A n \in {NumKeys, NumBkts, NumTags, SlotNum} \cup LogCaps : n \in Nat \ {0}
  BY IndexAssumption
<1>2. NumKeys \in Nat /\ SlotNum \in Nat /\ NumTags \in Nat \ {0}
  BY <1>1
<1>3. \A cap \in LogCaps : cap \in Nat
  BY <1>1
<1>4. 0 \in 0..(NumTags - 1)
  BY <1>2
<1>5. OpSize \in Nat /\ OpSize > 0 /\ \A cap \in LogCaps : cap > OpSize + 1
  BY IndexAssumption
<1> QED
  BY <1>2, <1>3, <1>4, <1>5

\* An empty store has no key to find and no tag in use.
LEMMA MiInitial == MiInit => MiInv
<1> SUFFICES ASSUME MiInit PROVE MiInv
  OBVIOUS
<1>1. Free \in Entry /\ ~Free.inUse
  BY Sizes DEF Entry, Free
<1>2. logCap \in Nat /\ logCap > OpSize + 1
  BY Sizes DEF MiInit
<1>3. /\ htIndex \in [Bkts -> [Slots -> Entry]]
      /\ \A b \in Bkts : \A j \in Slots : ~htIndex[b][j].inUse
  BY <1>1 DEF MiInit
<1>4. /\ logHead \in Nat /\ inserted \in 0..NumKeys /\ miAborted \in BOOLEAN
      /\ logCap - logHead > OpSize + 1
  <2>1. logHead = 0 /\ inserted = 0 /\ miAborted = FALSE
    BY DEF MiInit
  <2>2. 0 \in 0..NumKeys
    BY Sizes
  <2>3. logCap - 0 > OpSize + 1
    BY <1>2
  <2> QED
    BY <2>1, <2>2, <2>3
<1>5. MiShape
  BY <1>2, <1>3, <1>4 DEF MiInit, MiShape
<1>6. EveryKeyIsThere
  BY Sizes DEF MiInit, EveryKeyIsThere, KvKeys
<1>7. TagsDiffer
  BY <1>3 DEF TagsDiffer
<1> QED
  BY <1>5, <1>6, <1>7 DEF MiInv

\* A slot to use that is the last of them.
LEMMA SlotIsChosen ==
  ASSUME NEW b \in [Slots -> Entry], NEW tag, SlotsToUse(b, tag) # {}
  PROVE  SlotToUse(b, tag) \in SlotsToUse(b, tag)
<1> DEFINE S == SlotsToUse(b, tag)
           T == {SlotNum - 1 - j : j \in S}
<1>1. S \in SUBSET Slots
  BY DEF SlotsToUse
<1>2. T \in SUBSET Nat /\ T # {}
  BY <1>1, Sizes DEF Slots
<1>3. Min(T) \in T /\ \A y \in T : Min(T) <= y
  BY <1>2, MinOfNaturals
<1>4. PICK x \in S : Min(T) = SlotNum - 1 - x
  BY <1>3
<1>5. \A i \in S : i <= x
  <2> SUFFICES ASSUME NEW i \in S PROVE i <= x
    OBVIOUS
  <2>1. SlotNum - 1 - x <= SlotNum - 1 - i
    BY <1>3, <1>4
  <2>2. i \in Int /\ x \in Int /\ SlotNum \in Int
    BY <1>1, Sizes DEF Slots
  <2> HIDE DEF S, T
  <2> QED
    BY <2>1, <2>2
<1> QED
  BY <1>5 DEF SlotToUse

\* An insertion that succeeds, or is the last before the log has run out.
LEMMA InsertsOne ==
  ASSUME MiInv, MicaInsertOne, inserted' # inserted
  PROVE  \E j \in Slots :
           /\ inserted \in KvKeys /\ inserted' = inserted + 1
           /\ hash[inserted] \in Hashes
           /\ ~htIndex[hash[inserted].bkt][j].inUse
           /\ \A i \in Slots : htIndex[hash[inserted].bkt][i].inUse =>
                htIndex[hash[inserted].bkt][i].tag # hash[inserted].tag
           /\ htIndex' = [htIndex EXCEPT ![hash[inserted].bkt] =
                [htIndex[hash[inserted].bkt] EXCEPT ![j] =
                  [inUse |-> TRUE, tag |-> hash[inserted].tag, offset |-> logHead]]]
           /\ htLog' = [u \in DOMAIN htLog |->
                IF u \in logHead..(logHead + OpSize - 1) THEN inserted ELSE htLog[u]]
           /\ logHead' = logHead + OpSize /\ hash' = hash /\ logCap' = logCap
           /\ logCap - logHead > OpSize + 1
           /\ miAborted' = Overflows(logHead + OpSize)
<1> DEFINE h == hash[inserted]
           b == htIndex[h.bkt]
<1>1. /\ inserted < NumKeys /\ ~miAborted /\ hash' = hash /\ logCap' = logCap
      /\ ~Clashes(b, h.tag) /\ SlotsToUse(b, h.tag) # {}
      /\ htIndex' = [htIndex EXCEPT ![h.bkt] =
           [htIndex[h.bkt] EXCEPT ![SlotToUse(b, h.tag)] =
             [inUse |-> TRUE, tag |-> h.tag, offset |-> logHead]]]
      /\ htLog' = [u \in DOMAIN htLog |->
           IF u \in logHead..(logHead + OpSize - 1) THEN inserted ELSE htLog[u]]
      /\ logHead' = logHead + OpSize
      /\ inserted' = inserted + 1 /\ miAborted' = Overflows(logHead + OpSize)
  BY DEF MicaInsertOne, MiInv, MiShape
<1>2. inserted \in KvKeys /\ h \in Hashes
  BY <1>1, Sizes DEF MiInv, MiShape, KvKeys
<1>3. b \in [Slots -> Entry]
  BY <1>2 DEF MiInv, MiShape, Hashes
<1>4. PICK j : j = SlotToUse(b, h.tag)
  OBVIOUS
<1>5. j \in Slots /\ (b[j].tag = h.tag \/ ~b[j].inUse)
  <2> HIDE DEF b, h
  <2>1. j \in SlotsToUse(b, h.tag)
    BY <1>1, <1>3, <1>4, SlotIsChosen
  <2> QED
    BY <2>1 DEF SlotsToUse
<1>6. \A i \in Slots : b[i].inUse => b[i].tag # h.tag
  BY <1>1 DEF Clashes
<1>7. logCap - logHead > OpSize + 1
  BY <1>1 DEF MiInv, MiShape
<1> QED
  BY <1>1, <1>2, <1>4, <1>5, <1>6, <1>7

\* The insertion of a key leaves every key where it was, and itself beside.
LEMMA InsertKeepsIndex ==
  ASSUME MiInv, MicaInsertOne
  PROVE  MiInv'
<1> DEFINE k == inserted
           h == hash[inserted]
           b == htIndex[h.bkt]
<1>0. MiShape /\ EveryKeyIsThere /\ TagsDiffer
  BY DEF MiInv
<1>1. CASE inserted' = inserted
  <2>1. /\ UNCHANGED <<htIndex, htLog, logHead, inserted, hash, logCap>>
        /\ miAborted' = TRUE
    BY <1>0, <1>1 DEF MicaInsertOne, MiShape
  <2> QED
    BY <1>0, <2>1 DEF MiInv, MiShape, EveryKeyIsThere, TagsDiffer, LeadsTo
<1>2. CASE inserted' # inserted
  <2>1. PICK j \in Slots :
          /\ k \in KvKeys /\ inserted' = k + 1 /\ h \in Hashes
          /\ ~b[j].inUse /\ \A i \in Slots : b[i].inUse => b[i].tag # h.tag
          /\ htIndex' = [htIndex EXCEPT ![h.bkt] = [b EXCEPT ![j] =
               [inUse |-> TRUE, tag |-> h.tag, offset |-> logHead]]]
          /\ htLog' = [u \in DOMAIN htLog |->
               IF u \in logHead..(logHead + OpSize - 1) THEN k ELSE htLog[u]]
          /\ logHead' = logHead + OpSize /\ hash' = hash /\ logCap' = logCap
          /\ logCap - logHead > OpSize + 1
          /\ miAborted' = Overflows(logHead + OpSize)
    BY <1>2, InsertsOne
  <2>2. /\ logHead \in Nat /\ logCap \in Nat /\ OpSize \in Nat /\ OpSize > 0
        /\ DOMAIN htLog = 0..(logCap - 1) /\ k \in Nat /\ NumKeys \in Nat
        /\ h.bkt \in Bkts /\ h.tag \in 0..(NumTags - 1)
        /\ htIndex \in [Bkts -> [Slots -> Entry]] /\ hash \in [KvKeys -> Hashes]
    BY <1>0, <2>1, Sizes DEF MiShape, Hashes, KvKeys
  <2>3. PICK e : e = [inUse |-> TRUE, tag |-> h.tag, offset |-> logHead]
    OBVIOUS
  <2>4. e \in Entry /\ e.inUse /\ e.tag = h.tag /\ e.offset = logHead
    BY <2>2, <2>3 DEF Entry
  <2>5. /\ htIndex' \in [Bkts -> [Slots -> Entry]] /\ htIndex'[h.bkt][j] = e
        /\ \A c \in Bkts, i \in Slots :
             <<c, i>> # <<h.bkt, j>> => htIndex'[c][i] = htIndex[c][i]
    <3>1. htIndex' = [htIndex EXCEPT ![h.bkt] = [b EXCEPT ![j] = e]]
      BY <2>1, <2>3
    <3> HIDE DEF h
    <3> QED
      BY <2>2, <2>4, <3>1
  <2>6. /\ DOMAIN htLog' = 0..(logCap - 1)
        /\ \A u \in 0..(logCap - 1) : u < logHead => htLog'[u] = htLog[u]
        /\ \A u \in logHead..(logHead + OpSize - 1) : u < logCap /\ htLog'[u] = k
    BY <2>1, <2>2
  <2>7. MiShape'
    <3>1. inserted' \in 0..NumKeys
      BY <2>1, <2>2 DEF KvKeys
    <3>2. miAborted' \in BOOLEAN /\ (~miAborted' => logCap' - logHead' > OpSize + 1)
      <4>1. Overflows(logHead + OpSize) \in BOOLEAN
        BY DEF Overflows
      <4>2. ~Overflows(logHead + OpSize) => logCap' - logHead' > OpSize + 1
        BY <2>1, <2>2 DEF Overflows
      <4>3. miAborted' = Overflows(logHead + OpSize)
        BY <2>1
      <4> QED
        BY <4>1, <4>2, <4>3, Zenon
    <3>3. logHead' \in Nat
      BY <2>1, <2>2
    <3> QED
      BY <2>1, <2>2, <2>5, <2>6, <3>1, <3>2, <3>3 DEF MiShape
  <2>8. EveryKeyIsThere'
    <3>1. SUFFICES ASSUME NEW l \in KvKeys, l < k + 1
                   PROVE  \E i \in Slots : LeadsTo(i, l)'
      BY <2>1 DEF EveryKeyIsThere
    <3>2. CASE l = k
      <4>1. LeadsTo(j, l)'
        <5>1. logHead + OpSize <= logHead'
          BY <2>1, <2>2
        <5>2. htIndex'[hash'[l].bkt][j] = e /\ hash'[l].tag = h.tag
          BY <2>1, <2>5, <3>2
        <5> HIDE DEF h
        <5> QED
          BY <2>1, <2>4, <2>6, <3>2, <5>1, <5>2 DEF LeadsTo
      <4> QED
        BY <4>1
    <3>3. CASE l # k
      <4>1. l < k
        BY <2>2, <3>1, <3>3 DEF KvKeys
      <4>2. PICK i \in Slots : LeadsTo(i, l)
        BY <1>0, <4>1 DEF EveryKeyIsThere
      <4>3. PICK f : f = htIndex[hash[l].bkt][i]
        OBVIOUS
      <4>4. /\ f.inUse /\ f.tag = hash[l].tag /\ f.offset + OpSize <= logHead
            /\ \A u \in f.offset..(f.offset + OpSize - 1) : u < logCap /\ htLog[u] = l
        BY <4>2, <4>3 DEF LeadsTo
      <4>5. hash[l].bkt \in Bkts /\ f.offset \in Nat
        BY <2>2, <4>3 DEF Hashes, Entry
      <4>6. <<hash[l].bkt, i>> # <<h.bkt, j>>
        BY <2>1, <4>3, <4>4
      <4>7. htIndex'[hash'[l].bkt][i] = f
        BY <2>1, <2>5, <4>3, <4>5, <4>6
      <4>8. \A u \in f.offset..(f.offset + OpSize - 1) : u < logCap /\ htLog'[u] = l
        <5>1. ASSUME NEW u \in f.offset..(f.offset + OpSize - 1)
              PROVE  u < logCap /\ htLog'[u] = l
          <6>1. u \in 0..(logCap - 1) /\ u < logHead /\ htLog[u] = l
            BY <2>2, <4>4, <4>5
          <6> QED
            BY <2>2, <2>6, <6>1
        <5> QED
          BY <5>1
      <4>9. f.offset + OpSize <= logHead'
        BY <2>1, <2>2, <4>4, <4>5
      <4>10. LeadsTo(i, l)'
        BY <2>1, <4>4, <4>7, <4>8, <4>9 DEF LeadsTo
      <4> QED
        BY <4>10
    <3> QED
      BY <3>2, <3>3
  <2>9. TagsDiffer'
    <3>1. SUFFICES ASSUME NEW c \in Bkts, NEW i \in Slots, NEW l \in Slots,
                          htIndex'[c][i].inUse, htIndex'[c][l].inUse,
                          htIndex'[c][i].tag = htIndex'[c][l].tag
                   PROVE  i = l
      BY DEF TagsDiffer
    <3>2. CASE c # h.bkt \/ (i # j /\ l # j)
      BY <1>0, <2>5, <3>1, <3>2 DEF TagsDiffer
    <3>3. CASE c = h.bkt /\ i = j /\ l # j
      BY <2>1, <2>4, <2>5, <3>1, <3>3
    <3>4. CASE c = h.bkt /\ i # j /\ l = j
      BY <2>1, <2>4, <2>5, <3>1, <3>4
    <3> QED
      BY <3>2, <3>3, <3>4
  <2> QED
    BY <2>7, <2>8, <2>9 DEF MiInv
<1> QED
  BY <1>1, <1>2

\* Whatever keys hash to, a look-up of a key that has been inserted finds the
\* key's own pair, whole (mica_insert_one, KVS_locate_one_kv_pair).
THEOREM LookupsAreRight == StartSpec => []LookupsFindTheirKey
<1>1. MiInv => LookupsFindTheirKey
  <2> SUFFICES ASSUME MiInv, NEW k \in KvKeys, k < inserted
               PROVE  /\ Matching(k) # {}
                      /\ \A u \in Located(k)..(Located(k) + OpSize - 1) :
                           u < logCap /\ htLog[u] = k
    BY DEF LookupsFindTheirKey
  <2>1. PICK j \in Slots : LeadsTo(j, k)
    BY DEF MiInv, EveryKeyIsThere
  <2>2. hash[k].bkt \in Bkts
    BY DEF MiInv, MiShape, Hashes
  <2>3. Matching(k) = {j}
    BY <2>1, <2>2 DEF Matching, LeadsTo, MiInv, TagsDiffer
  <2>4. j <= j
    BY <2>1, Sizes DEF Slots
  <2>5. (CHOOSE i \in {j} : \A l \in {j} : i <= l) = j
    BY <2>4
  <2>6. Located(k) = htIndex[hash[k].bkt][j].offset
    BY <2>3, <2>5 DEF Located
  <2> QED
    BY <2>1, <2>3, <2>6 DEF LeadsTo
<1>2. StartInit => MiInv
  BY MiInitial DEF StartInit
<1>3. MiInv /\ [StartNext]_startVars => MiInv'
  <2> SUFFICES ASSUME MiInv, [StartNext]_startVars PROVE MiInv'
    OBVIOUS
  <2>1. CASE MicaInsertOne
    BY <2>1, InsertKeepsIndex
  <2>2. CASE UNCHANGED miVars
    BY <2>2 DEF MiInv, MiShape, EveryKeyIsThere, TagsDiffer, LeadsTo, miVars
  <2> QED
    BY <2>1, <2>2 DEF StartNext, startVars, Populate, Spawn, WorkerZeroConnects,
                      WorkerStarts
<1> QED
  BY <1>1, <1>2, <1>3, PTL DEF StartSpec

----------------------------------------------------------------------------
(* The cores.                                                              *)

\* What pin_thread comes to, with p cores to a socket: on the numbering by
\* turns it goes through the even cores of both sockets before the odd ones if
\* it hyperthreads, and through socket halves in turn if not.
Placed(hw, t, p) ==
  /\ p = hw.physicalCores /\ t \in Nat
  /\ hw.distance = 1 => t < 2 * p - 1 /\ PinThread(hw, t) = t
  /\ hw.distance = 2 /\ hw.hyperthreading =>
       PinThread(hw, t) = IF t < 2 * p THEN 2 * t ELSE 2 * t + 1 - 4 * p
  /\ hw.distance = 2 /\ ~hw.hyperthreading =>
       PinThread(hw, t) = IF t < p THEN 2 * t
                          ELSE IF t < 2 * p THEN 2 * t + 1 - 2 * p
                          ELSE IF t < 3 * p THEN 2 * t - 2 * p
                          ELSE 2 * t + 1 - 4 * p

\* That is so, case by case of pin_thread.
LEMMA Pinned ==
  ASSUME NEW hw \in Hardware, NEW t \in Threads
  PROVE  \E p \in Nat : Placed(hw, t, p)
<1>1. /\ WorkersPerMachine \in Nat /\ ClientsPerMachine \in Nat
  BY Numbers, StartupAssumption
<1>2. PICK n \in Nat : n = TotalThreads
  BY <1>1 DEF TotalThreads
<1>3. PICK p \in Nat \ {0}, d \in {1, 2}, l \in Nat, c \in Nat :
        /\ p = hw.physicalCores /\ d = hw.distance /\ l = hw.logicalCores
        /\ c = hw.totalCores /\ (d = 2 \/ hw.hyperthreading)
        /\ l = d * p /\ c = 2 * l /\ n < c
  BY <1>2, StartupAssumption
<1>4. t \in Nat /\ t < c - 1
  BY <1>2, <1>3 DEF Threads
<1>5. CASE d = 1
  <2>1. l = p /\ c = 2 * p /\ hw.hyperthreading
    BY <1>3, <1>5
  <2>2. PinThread(hw, t) = t
    BY <1>3, <1>4, <1>5, <2>1 DEF PinThread
  <2> QED
    BY <1>3, <1>4, <1>5, <2>1, <2>2 DEF Placed
<1>6. CASE d = 2
  <2>1. l = 2 * p /\ c = 4 * p
    BY <1>3, <1>6
  <2>2. hw.hyperthreading =>
          PinThread(hw, t) = IF t < 2 * p THEN 2 * t ELSE 2 * t + 1 - 4 * p
    BY <1>3, <1>4, <1>6, <2>1 DEF PinThread
  <2>3. ~hw.hyperthreading =>
          PinThread(hw, t) = IF t < p THEN 2 * t
                             ELSE IF t < 2 * p THEN 2 * t + 1 - 2 * p
                             ELSE IF t < 3 * p THEN 2 * t - 2 * p
                             ELSE 2 * t + 1 - 4 * p
    BY <1>3, <1>4, <1>6, <2>1 DEF PinThread
  <2> QED
    BY <1>3, <1>4, <1>6, <2>2, <2>3 DEF Placed
<1> QED
  BY <1>5, <1>6

\* So no two threads get the same.
LEMMA PinnedApart ==
  ASSUME NEW hw \in Hardware, NEW t \in Threads, NEW u \in Threads, t # u
  PROVE  PinThread(hw, t) # PinThread(hw, u)
<1>1. PICK p \in Nat : Placed(hw, t, p)
  BY Pinned
<1>2. PICK q \in Nat : Placed(hw, u, q)
  BY Pinned
<1>3. q = p /\ t \in Nat /\ u \in Nat
  BY <1>1, <1>2 DEF Placed
<1>4. CASE hw.distance = 1
  BY <1>1, <1>2, <1>4 DEF Placed
<1>5. CASE hw.distance = 2 /\ hw.hyperthreading
  <2>1. /\ PinThread(hw, t) = IF t < 2 * p THEN 2 * t ELSE 2 * t + 1 - 4 * p
        /\ PinThread(hw, u) = IF u < 2 * p THEN 2 * u ELSE 2 * u + 1 - 4 * p
    BY <1>1, <1>2, <1>3, <1>5 DEF Placed
  <2> QED
    BY <1>3, <2>1
<1>6. CASE hw.distance = 2 /\ ~hw.hyperthreading
  <2>1. /\ PinThread(hw, t) = IF t < p THEN 2 * t
                              ELSE IF t < 2 * p THEN 2 * t + 1 - 2 * p
                              ELSE IF t < 3 * p THEN 2 * t - 2 * p
                              ELSE 2 * t + 1 - 4 * p
        /\ PinThread(hw, u) = IF u < p THEN 2 * u
                              ELSE IF u < 2 * p THEN 2 * u + 1 - 2 * p
                              ELSE IF u < 3 * p THEN 2 * u - 2 * p
                              ELSE 2 * u + 1 - 4 * p
    BY <1>1, <1>2, <1>3, <1>6 DEF Placed
  <2> QED
    BY <1>3, <2>1
<1>7. hw.distance = 1 \/ hw.distance = 2
  BY StartupAssumption
<1>8. hw.hyperthreading \/ ~hw.hyperthreading
  OBVIOUS
<1> QED
  BY <1>4, <1>5, <1>6, <1>7, <1>8

\* Threads that have been spawned are on the cores that pin_thread gives them.
CoreInv ==
  /\ hardware \in Hardware
  /\ spawned \in [Machines -> Nat]
  /\ DOMAIN coreOf = Machines
  /\ \A m \in Machines : DOMAIN coreOf[m] = Threads
  /\ \A m \in Machines, t \in Threads :
       t < spawned[m] => coreOf[m][t] = PinThread(hardware, t)

\* The threads of a machine, which spin, have a core each, on every machine of
\* the kinds that od_top.h describes with a core to spare (pin_thread).
THEOREM CoresStayOwn == StartSpec => []CoresAreOwn
<1>1. CoreInv => CoresAreOwn
  <2> SUFFICES ASSUME CoreInv, NEW m \in Machines, NEW t \in Threads, NEW u \in Threads,
                      t < u, u < spawned[m]
               PROVE  coreOf[m][t] # coreOf[m][u]
    BY DEF CoresAreOwn
  <2>1. TotalThreads \in Nat
    BY Numbers, StartupAssumption DEF TotalThreads
  <2>2. t # u /\ t < spawned[m]
    BY <2>1 DEF CoreInv, Threads
  <2> QED
    BY <2>2, PinnedApart DEF CoreInv
<1>2. StartInit => CoreInv
  <2> SUFFICES ASSUME StartInit PROVE CoreInv
    OBVIOUS
  <2>1. \A t \in Threads : ~ (t < 0)
    BY Numbers, StartupAssumption DEF Threads, TotalThreads
  <2> QED
    BY <2>1 DEF StartInit, CoreInv
<1>3. CoreInv /\ [StartNext]_startVars => CoreInv'
  <2> SUFFICES ASSUME CoreInv, [StartNext]_startVars PROVE CoreInv'
    OBVIOUS
  <2>1. ASSUME NEW m \in Machines, Spawn(m) PROVE CoreInv'
    <3>1. /\ spawned[m] \in Threads /\ hardware' = hardware
          /\ coreOf' = [coreOf EXCEPT ![m] =
               [coreOf[m] EXCEPT ![spawned[m]] = PinThread(hardware, spawned[m])]]
          /\ spawned' = [spawned EXCEPT ![m] = spawned[m] + 1]
      BY <2>1 DEF Spawn, CoreInv
    <3>2. /\ spawned' \in [Machines -> Nat] /\ spawned'[m] = spawned[m] + 1
          /\ \A n \in Machines : n # m => spawned'[n] = spawned[n] /\ coreOf'[n] = coreOf[n]
      BY <3>1 DEF CoreInv
    <3>3. /\ DOMAIN coreOf' = Machines /\ DOMAIN coreOf'[m] = Threads
          /\ coreOf'[m][spawned[m]] = PinThread(hardware, spawned[m])
          /\ \A t \in Threads : t # spawned[m] => coreOf'[m][t] = coreOf[m][t]
      BY <3>1 DEF CoreInv
    <3>4. \A t \in Threads : t < spawned[m] + 1 => t < spawned[m] \/ t = spawned[m]
      BY Numbers, StartupAssumption DEF Threads, TotalThreads, CoreInv
    <3> QED
      BY <3>1, <3>2, <3>3, <3>4 DEF CoreInv
  <2>2. CASE UNCHANGED <<hardware, coreOf, spawned>>
    BY <2>2 DEF CoreInv
  <2> QED
    BY <2>1, <2>2 DEF StartNext, startVars, Populate, WorkerZeroConnects, WorkerStarts
<1> QED
  BY <1>1, <1>2, <1>3, PTL DEF StartSpec

----------------------------------------------------------------------------
(* Identifiers.                                                            *)

\* A number n * q + r is taken apart again, if r is less than n.
LEMMA DivMod ==
  ASSUME NEW n \in Nat \ {0}, NEW q \in Nat, NEW r \in 0..(n - 1)
  PROVE  (n * q + r) \div n = q /\ (n * q + r) % n = r
<1> DEFINE x == n * q + r
           d == x \div n
           e == x % n
<1>1. n * q \in Nat /\ x \in Nat
  OBVIOUS
<1>2. d \in Int /\ e \in 0..(n - 1) /\ x = n * d + e
  BY <1>1
<1> HIDE DEF d, e
<1>3. n * (q - d) = e - r
  BY <1>2
<1>4. q - d < 1
  <2> SUFFICES ASSUME q - d >= 1 PROVE FALSE
    BY <1>2
  <2>1. n * (q - d) >= n * 1
    BY <1>2
  <2> QED
    BY <2>1, <1>2, <1>3
<1>5. q - d > -1
  <2> SUFFICES ASSUME q - d <= -1 PROVE FALSE
    BY <1>2
  <2>1. n * (q - d) <= n * (-1)
    BY <1>2
  <2> QED
    BY <2>1, <1>2, <1>3
<1>6. q = d
  BY <1>2, <1>4, <1>5
<1>7. e = r
  BY <1>2, <1>3, <1>6
<1> QED
  BY <1>6, <1>7 DEF d, e

\* The number of the block q of n is below the number of all m blocks.
LEMMA BelowProduct ==
  ASSUME NEW n \in Nat \ {0}, NEW m \in Nat, NEW q \in 0..(m - 1),
         NEW r \in 0..(n - 1)
  PROVE  n * q + r \in 0..(n * m - 1)
<1>1. n * q + n = n * (q + 1)
  OBVIOUS
<1>2. n * (q + 1) <= n * m
  OBVIOUS
<1>3. n * q >= 0
  OBVIOUS
<1> QED
  BY <1>1, <1>2, <1>3

\* The widths are numbers; the proofs need no more of them.
LEMMA Widths == Width16 \in Nat \ {0} /\ Width8 \in Nat \ {0}
  BY DEF Width16, Width8

\* Casting changes nothing that fits.
LEMMA CastsFit ==
  /\ \A n \in Nat : n < Width16 => UInt16(n) = n
  /\ \A n \in Nat : n < Width8 => UInt8(n) = n
  BY Widths DEF UInt16, UInt8

\* A global number of n * m parts: it fits if they all do, and its block and
\* its place there come back.
LEMMA Numbering ==
  ASSUME NEW n \in Nat \ {0}, NEW m \in Nat, n * m <= Width16, m <= Width8,
         NEW q \in 0..(m - 1), NEW r \in 0..(n - 1)
  PROVE  /\ UInt16(n * q + r) = n * q + r
         /\ UInt8(UInt16(n * q + r) \div n) = q
         /\ UInt16(n * q + r) % n = r
<1>1. n * q + r \in 0..(n * m - 1)
  BY BelowProduct
<1>2. n * q + r \in Nat /\ n * q + r < Width16
  <2> DEFINE a == n * q + r
             b == n * m
  <2>1. n * q \in Nat /\ b \in Nat /\ a \in Nat
    OBVIOUS
  <2>2. a \in 0..(b - 1) /\ b <= Width16
    BY <1>1
  <2> HIDE DEF a, b
  <2>3. a \in Nat /\ a < Width16
    BY Widths, <2>1, <2>2
  <2> QED
    BY <2>3 DEF a
<1>3. UInt16(n * q + r) = n * q + r
  BY <1>2, CastsFit
<1>4. (n * q + r) \div n = q /\ (n * q + r) % n = r
  BY DivMod
<1>5. q \in Nat /\ q < Width8
  BY Widths
<1>6. UInt8(q) = q
  BY <1>5, CastsFit
<1>7. UInt16(n * q + r) \div n = q
  BY <1>3, <1>4
<1> QED
  BY <1>3, <1>4, <1>6, <1>7

\* A worker's global id tells its machine, as long as 16 bits number all the
\* workers and 8 bits the machines.
THEOREM GIdsReturn ==
  ASSUME WorkersPerMachine * MachineNum <= Width16, MachineNum <= Width8,
         NEW m \in Machines, NEW t \in Workers
  PROVE  GIdToMId(GId(m, t)) = m
<1>1. MachineNum \in Nat \ {0} /\ WorkersPerMachine \in Nat \ {0}
  BY IdAssumption
<1>2. m \in 0..(MachineNum - 1) /\ t \in 0..(WorkersPerMachine - 1)
  BY DEF Machines, Workers
<1>3. UInt8(UInt16(WorkersPerMachine * m + t) \div WorkersPerMachine) = m
  BY <1>1, <1>2, Numbering
<1>4. m * WorkersPerMachine + t = WorkersPerMachine * m + t
  BY <1>1, <1>2
<1> QED
  BY <1>3, <1>4 DEF GIdToMId, GId

\* The remote machines of a machine are numbered without a gap, and back.
THEOREM RmIdsReturn ==
  ASSUME MachineNum <= Width8, NEW me \in Machines, NEW m \in Machines \ {me}
  PROVE  /\ MIdToRmId(me, m) \in 0..(MachineNum - 2)
         /\ RmIdToMId(me, MIdToRmId(me, m)) = m
<1>1. /\ MachineNum \in Nat \ {0} /\ m # me
      /\ m \in 0..(MachineNum - 1) /\ me \in 0..(MachineNum - 1)
  BY IdAssumption DEF Machines
<1>2. CASE m < me
  BY <1>1, <1>2 DEF MIdToRmId, RmIdToMId
<1>3. CASE m > me
  <2>1. m - 1 \in Nat /\ m \in Nat /\ m < Width8 /\ ~(m < me) /\ ~(m - 1 < me)
    BY Widths, <1>1, <1>3
  <2>2. UInt8(m - 1) = m - 1 /\ UInt8(m) = m
    BY Widths, <2>1, CastsFit
  <2>3. (m - 1) + 1 = m /\ m - 1 \in 0..(MachineNum - 2)
    BY <1>1, <1>3
  <2> QED
    BY <2>1, <2>2, <2>3 DEF MIdToRmId, RmIdToMId
<1> QED
  BY <1>1, <1>2, <1>3

\* A session's global id returns to it as long as 16 bits number all the
\* sessions of all machines, which nothing in the code asks.
THEOREM SessionIdsFit ==
  SessionsPerMachine * MachineNum <= Width16 /\ MachineNum <= Width8
    => SessionIdsReturn
<1> SUFFICES ASSUME SessionsPerMachine * MachineNum <= Width16, MachineNum <= Width8,
                    NEW s \in Sessions
    PROVE  GlobSessIdToSession(GlobSessId(s)) = s
  BY DEF SessionIdsReturn
<1>1. /\ MachineNum \in Nat \ {0} /\ WorkersPerMachine \in Nat \ {0}
      /\ SessionsPerThread \in Nat \ {0}
  BY IdAssumption
<1>2. PICK m \in 0..(MachineNum - 1), t \in 0..(WorkersPerMachine - 1),
           i \in 0..(SessionsPerThread - 1) :
        s = [mId |-> m, tId |-> t, sessId |-> i]
  BY DEF Sessions, Machines, Workers, ThreadSessions
<1>3. PICK spm \in Nat \ {0} :
        spm = SessionsPerMachine /\ spm = SessionsPerThread * WorkersPerMachine
  BY <1>1 DEF SessionsPerMachine
<1>4. PICK inner \in 0..(spm - 1) : inner = SessionsPerThread * t + i
  BY <1>1, <1>3, BelowProduct
<1>5. /\ UInt16(spm * m + inner) = spm * m + inner
      /\ UInt8(UInt16(spm * m + inner) \div spm) = m
      /\ UInt16(spm * m + inner) % spm = inner
  <2>1. spm * MachineNum <= Width16 /\ MachineNum <= Width8
    BY <1>3
  <2>2. MachineNum \in Nat
    BY <1>1
  <2> QED
    BY <2>1, <2>2, Numbering
<1>6. inner \div SessionsPerThread = t /\ inner % SessionsPerThread = i
  BY <1>1, <1>4, DivMod
<1>7. t \in Nat /\ i \in Nat /\ t < Width16 /\ i < Width16
  <2>1. spm * 1 <= spm * MachineNum
    BY <1>1
  <2>2. inner \in Nat /\ inner < Width16
    <3>1. PICK all \in Nat : all = spm * MachineNum
      BY <1>1
    <3> QED
      BY Widths, <1>3, <2>1, <3>1
  <2>3. SessionsPerThread * t >= 1 * t
    BY <1>1
  <2>4. PICK a \in Nat : a = SessionsPerThread * t /\ a >= t
    BY <1>1, <2>3
  <2> QED
    BY Widths, <1>1, <1>4, <2>2, <2>4
<1>8. UInt16(t) = t /\ UInt16(i) = i
  BY <1>7, CastsFit
<1>9. GlobSessId(s) = UInt16(spm * m + inner)
  <2>1. m * spm + t * SessionsPerThread + i = spm * m + inner
    BY <1>1, <1>3, <1>4
  <2> QED
    BY <1>2, <1>3, <2>1 DEF GlobSessId
<1> QED
  BY <1>2, <1>3, <1>5, <1>6, <1>8, <1>9 DEF GlobSessIdToSession

----------------------------------------------------------------------------
(* Timestamps.                                                             *)

\* Two timestamps always compare, and only equal ones as equal.
THEOREM CompareIsTotal ==
  ASSUME NEW a \in Ts, NEW b \in Ts
  PROVE  /\ Compare(a, b) \in {"EQUAL", "SMALLER", "GREATER"}
         /\ Compare(a, b) = "EQUAL" <=> a = b
<1>1. /\ a.version \in Nat /\ a.mId \in Nat
      /\ b.version \in Nat /\ b.mId \in Nat
  BY DEF Ts, Versions, MIds
<1>2. Compare(a, b) \in {"EQUAL", "SMALLER", "GREATER"}
  BY <1>1 DEF Compare
<1>3. a.version = b.version /\ a.mId = b.mId <=> a = b
  BY DEF Ts
<1> QED
  BY <1>1, <1>2, <1>3 DEF Compare

\* The two sides of a comparison agree: what is smaller to one machine is
\* greater to the other.
THEOREM CompareIsAntisymmetric ==
  ASSUME NEW a \in Ts, NEW b \in Ts
  PROVE  Compare(a, b) = "SMALLER" <=> Compare(b, a) = "GREATER"
<1>1. /\ a.version \in Nat /\ a.mId \in Nat
      /\ b.version \in Nat /\ b.mId \in Nat
  BY DEF Ts, Versions, MIds
<1> QED
  BY <1>1 DEF Compare

\* Writes that are ordered one after the other are ordered as a whole.
THEOREM CompareIsTransitive ==
  ASSUME NEW a \in Ts, NEW b \in Ts, NEW c \in Ts,
         Compare(a, b) = "SMALLER", Compare(b, c) = "SMALLER"
  PROVE  Compare(a, c) = "SMALLER"
<1>1. /\ a.version \in Nat /\ a.mId \in Nat
      /\ b.version \in Nat /\ b.mId \in Nat
      /\ c.version \in Nat /\ c.mId \in Nat
  BY DEF Ts, Versions, MIds
<1>2. \/ a.version < b.version
      \/ a.version = b.version /\ a.mId < b.mId
  BY <1>1 DEF Compare
<1>3. \/ b.version < c.version
      \/ b.version = c.version /\ b.mId < c.mId
  BY <1>1 DEF Compare
<1>4. \/ a.version < c.version
      \/ a.version = c.version /\ a.mId < c.mId
  BY <1>1, <1>2, <1>3
<1> QED
  BY <1>1, <1>4 DEF Compare

\* A carstamp is smaller exactly when its timestamp is, or is the same with a
\* smaller log; and the other side sees it greater.
THEOREM CartsAreLexicographic ==
  ASSUME NEW a \in Ts, NEW b \in Ts, NEW l \in Nat, NEW k \in Nat
  PROVE  /\ CompareCarts(a, l, b, k) = "SMALLER"
              <=> Compare(a, b) = "SMALLER" \/ (a = b /\ l < k)
         /\ CompareCarts(a, l, b, k) = "SMALLER"
              <=> CompareCarts(b, k, a, l) = "GREATER"
<1>1. /\ Compare(a, b) \in {"EQUAL", "SMALLER", "GREATER"}
      /\ Compare(a, b) = "EQUAL" <=> a = b
      /\ Compare(b, a) \in {"EQUAL", "SMALLER", "GREATER"}
      /\ Compare(b, a) = "EQUAL" <=> a = b
  BY CompareIsTotal
<1>2. /\ Compare(a, b) = "SMALLER" <=> Compare(b, a) = "GREATER"
      /\ Compare(b, a) = "SMALLER" <=> Compare(a, b) = "GREATER"
  BY CompareIsAntisymmetric
<1> QED
  BY <1>1, <1>2 DEF CompareCarts, CompareLogs

\* compare_ts_generic compares as the others do only when its second argument
\* comes from a message or from the store's metadata ...
THEOREM GenericComparesMessages ==
  ASSUME NEW a \in Ts, NEW raw \in Ts, NEW b \in Ts,
         NEW flag1 \in TsFlags, NEW flag2 \in TsFlags \ {"REGULAR_TS"},
         flag1 = "REGULAR_TS" => raw = a
  PROVE  CompareGeneric(a, flag1, raw, b, flag2) = Compare(a, b)
  BY DEF CompareGeneric, TsFlags

\* ... and never looks at a second argument that is a regular timestamp: two
\* regular ones are always equal.
THEOREM GenericRegularsAreEqual ==
  ASSUME NEW a \in Ts, NEW b \in Ts
  PROVE  CompareGeneric(a, "REGULAR_TS", a, b, "REGULAR_TS") = "EQUAL"
  BY DEF CompareGeneric, Compare
=============================================================================
