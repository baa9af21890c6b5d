------------------------------ MODULE ConnSetup ------------------------------
(***************************************************************************)
(* How the workers of all machines learn each other's queue pairs          *)
(* (od_init_connect.h).  Every worker fills in the attributes of its queue *)
(* pairs; worker 0 waits for all of its machine, exchanges the attributes  *)
(* with machine 0, which gathers them from the other machines one after    *)
(* the other and sends all to all, and then lets the others go on.  A      *)
(* worker's attributes are named <<machine, worker>>.                      *)
(*                                                                         *)
(* Sockets are external: a connection to a port on which machine 0 does    *)
(* not listen yet fails and is tried again, and what is sent arrives.      *)
(***************************************************************************)
EXTENDS Identifiers

Ports == 0..(MachineNum - 2)

VARIABLES
  qpAttr,      \* [m]: all_qp_attr, the attributes that machine m has
  filled,      \* [m]: workers_with_filled_qp_attr
  wState,      \* [m][w]: where worker w of machine m is
  server,      \* what machine 0 does at port rmI: "listen", "accept", "recv"
  rmI,         \* rm_i of set_up_qp_attr_server, MachineNum - 1 after the loop
  conn,        \* [p]: port p: "closed", "open", "asked" or "accepted"
  toServer,    \* [p]: the attributes sent to machine 0 at port p, {} if none
  toClient,    \* [p]: the attributes that machine 0 has sent back, {} if none
  remQp,       \* [m]: rem_qp, the workers for which m has an address handle
  qpsAreSetUp  \* [m]: qps_are_set_up

csVars == <<qpAttr, filled, wState, server, rmI, conn, toServer, toClient, remQp, qpsAreSetUp>>

CsInit ==
  /\ qpAttr = [m \in Machines |-> {}]
  /\ filled = [m \in Machines |-> 0]
  /\ wState = [m \in Machines |-> [w \in Workers |-> "fill"]]
  /\ server = "listen"
  /\ rmI = 0
  /\ conn = [p \in Ports |-> "closed"]
  /\ toServer = [p \in Ports |-> {}]
  /\ toClient = [p \in Ports |-> {}]
  /\ remQp = [m \in Machines |-> {}]
  /\ qpsAreSetUp = [m \in Machines |-> FALSE]

CsGoto(m, w, st) == wState' = [wState EXCEPT ![m][w] = st]

sockets == <<conn, toServer, toClient>>

\* fill_qps
FillQps(m, w) ==
  /\ wState[m][w] = "fill"
  /\ qpAttr' = [qpAttr EXCEPT ![m] = @ \cup {<<m, w>>}]
  /\ filled' = [filled EXCEPT ![m] = @ + 1]
  /\ CsGoto(m, w, IF w = 0 THEN "exchange" ELSE "wait")
  /\ UNCHANGED <<server, rmI, sockets, remQp, qpsAreSetUp>>

\* Mutant: worker 0 exchanges the attributes that there are.
AllFilledAlways(m) == TRUE

\* The loop of setup_connections before the exchange.
AllFilled(m) == filled[m] = WorkersPerMachine

----------------------------------------------------------------------------
(* set_up_qp_attr_server                                                   *)

Serves == wState[0][0] = "exchange" /\ AllFilled(0)

Listen ==
  /\ Serves /\ server = "listen" /\ rmI \in Ports
  /\ conn' = [conn EXCEPT ![rmI] = "open"]
  /\ server' = "accept"
  /\ UNCHANGED <<qpAttr, filled, wState, rmI, toServer, toClient, remQp, qpsAreSetUp>>

Accept ==
  /\ Serves /\ server = "accept" /\ conn[rmI] = "asked"
  /\ conn' = [conn EXCEPT ![rmI] = "accepted"]
  /\ server' = "recv"
  /\ UNCHANGED <<qpAttr, filled, wState, rmI, toServer, toClient, remQp, qpsAreSetUp>>

Receive ==
  /\ Serves /\ server = "recv" /\ toServer[rmI] # {}
  /\ qpAttr' = [qpAttr EXCEPT ![0] = @ \cup toServer[rmI]]
  /\ rmI' = rmI + 1
  /\ server' = "listen"
  /\ UNCHANGED <<filled, wState, sockets, remQp, qpsAreSetUp>>

SendToAll ==
  /\ Serves /\ rmI \notin Ports
  /\ toClient' = [p \in Ports |-> qpAttr[0]]
  /\ CsGoto(0, 0, "connect")
  /\ UNCHANGED <<qpAttr, filled, server, rmI, conn, toServer, remQp, qpsAreSetUp>>

----------------------------------------------------------------------------
(* set_up_qp_attr_client                                                   *)

\* Mutant: the ports of the clients begin one too late.
PortOfNext(m) == IF m \in Ports THEN m ELSE m - 1

PortOf(m) == m - 1

\* The connection is made as soon as machine 0 listens, and the attributes
\* are sent on it.
Connect(m) ==
  /\ wState[m][0] = "exchange" /\ AllFilled(m)
  /\ conn[PortOf(m)] = "open"
  /\ conn' = [conn EXCEPT ![PortOf(m)] = "asked"]
  /\ toServer' = [toServer EXCEPT ![PortOf(m)] = qpAttr[m]]
  /\ CsGoto(m, 0, "receive")
  /\ UNCHANGED <<qpAttr, filled, server, rmI, toClient, remQp, qpsAreSetUp>>

ReceiveAll(m) ==
  /\ wState[m][0] = "receive"
  /\ toClient[PortOf(m)] # {}
  /\ qpAttr' = [qpAttr EXCEPT ![m] = toClient[PortOf(m)]]
  /\ CsGoto(m, 0, "connect")
  /\ UNCHANGED <<filled, server, rmI, sockets, remQp, qpsAreSetUp>>

----------------------------------------------------------------------------
\* get_qps_from_all_other_machines, and the flag for the other workers.
GetQps(m) ==
  /\ wState[m][0] = "connect"
  /\ remQp' = [remQp EXCEPT ![m] = {a \in qpAttr[m] : a[1] # m}]
  /\ qpsAreSetUp' = [qpsAreSetUp EXCEPT ![m] = TRUE]
  /\ CsGoto(m, 0, "up")
  /\ UNCHANGED <<qpAttr, filled, server, rmI, sockets>>

\* The other workers wait for the flag.
SeeFlag(m, w) ==
  /\ wState[m][w] = "wait"
  /\ qpsAreSetUp[m]
  /\ CsGoto(m, w, "up")
  /\ UNCHANGED <<qpAttr, filled, server, rmI, sockets, remQp, qpsAreSetUp>>

Server == Listen \/ Accept \/ Receive \/ SendToAll
WorkerZero(m) == (m # 0 /\ (Connect(m) \/ ReceiveAll(m))) \/ GetQps(m)

----------------------------------------------------------------------------
\* A worker that goes on to its send work requests finds in the shared table
\* an address for every worker of every other machine.
StartsWithAllAddresses ==
  \A m \in Machines, w \in Workers : wState[m][w] = "up" =>
    remQp[m] = (Machines \ {m}) \X Workers
=============================================================================
