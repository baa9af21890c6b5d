------------------------------- MODULE Startup -------------------------------
(***************************************************************************)
(* The start of the system (main in od_main.c, worker in od_worker.c): the *)
(* main thread of a machine populates the key-value store, then spawns its *)
(* threads, each pinned to a core; the workers set up the connections.     *)
(* All machines populate alike: the store of machine 0 is modelled.        *)
(***************************************************************************)
EXTENDS MicaIndex, ConnSetup

CONSTANTS
  ClientsPerMachine,  \* CLIENTS_PER_MACHINE
  Hardware            \* the kinds of machines: records of the parameters of
                      \* pin_thread (od_top.h 62-80)

TotalThreads == WorkersPerMachine + ClientsPerMachine
Threads == 0..(TotalThreads - 1)

\* The machines of od_top.h have two sockets, whose cores are numbered by turns
\* (distance 2) or, with hyperthreads, through.  pin_thread keeps threads apart
\* as long as one core stays free.
ASSUME StartupAssumption ==
  /\ ClientsPerMachine \in Nat
  /\ \A hw \in Hardware :
       /\ hw.physicalCores \in Nat \ {0} /\ hw.hyperthreading \in BOOLEAN
       /\ hw.distance = 2 \/ (hw.distance = 1 /\ hw.hyperthreading)
       /\ hw.logicalCores = hw.distance * hw.physicalCores
       /\ hw.totalCores = 2 * hw.logicalCores
       /\ TotalThreads < hw.totalCores

VARIABLES
  hardware,   \* the kind of all machines
  coreOf,     \* [m][t]: the core of thread t
  spawned     \* [m]: the threads below it have been spawned

startVars == <<miVars, csVars, hardware, coreOf, spawned>>

NoCore == -1

StartInit ==
  /\ MiInit
  /\ CsInit
  /\ hardware \in Hardware
  /\ coreOf = [m \in Machines |-> [t \in Threads |-> NoCore]]
  /\ spawned = [m \in Machines |-> 0]

\* Mutant: past the first socket cores are counted from its start.
PinThreadNaive(hw, t) == (hw.distance * t) % hw.totalCores

\* pin_thread: the physical cores of the first socket, then its hyperthreads
\* or the second socket, then what is left.
PinThread(hw, t) ==
  LET c1 == hw.distance * t
      c2 == hw.logicalCores + hw.distance * (t - hw.physicalCores)
      c3 == hw.distance * (t - hw.logicalCores) + 1
      c4 == c2 + 1 - hw.distance * hw.logicalCores
      d2 == hw.distance * (t - hw.physicalCores) + 1
      d3 == hw.logicalCores + hw.distance * (t - hw.logicalCores)
      d4 == d3 + 1 - hw.distance * hw.physicalCores
  IN  IF c1 < hw.logicalCores THEN c1
      ELSE IF hw.hyperthreading
        THEN IF c2 < hw.totalCores - 1 THEN c2
             ELSE IF c3 < hw.logicalCores THEN c3 ELSE c4
        ELSE IF d2 < hw.logicalCores THEN d2
             ELSE IF d3 < hw.totalCores - 1 THEN d3 ELSE d4

\* main, after appl_init_func: od_spawn_threads.
Spawn(m) ==
  /\ m = 0 => Populated
  /\ spawned[m] \in Threads
  /\ coreOf' = [coreOf EXCEPT ![m][spawned[m]] = PinThread(hardware, spawned[m])]
  /\ spawned' = [spawned EXCEPT ![m] = @ + 1]
  /\ UNCHANGED <<miVars, csVars, hardware>>

Populate == MicaInsertOne /\ UNCHANGED <<csVars, hardware, coreOf, spawned>>

WorkerStarts(m, w) ==
  /\ w < spawned[m]
  /\ FillQps(m, w) \/ SeeFlag(m, w)
  /\ UNCHANGED <<miVars, hardware, coreOf, spawned>>

WorkerZeroConnects(m) ==
  /\ WorkerZero(m) \/ (m = 0 /\ Server)
  /\ UNCHANGED <<miVars, hardware, coreOf, spawned>>

StartNext ==
  \/ Populate
  \/ \E m \in Machines :
       \/ Spawn(m)
       \/ WorkerZeroConnects(m)
       \/ \E w \in Workers : WorkerStarts(m, w)

\* Every thread goes on while it can: none waits for another but by looking.
StartFairness ==
  /\ WF_startVars(Populate)
  /\ \A m \in Machines :
       /\ WF_startVars(Spawn(m))
       /\ WF_startVars(WorkerZeroConnects(m))
       /\ \A w \in Workers : WF_startVars(WorkerStarts(m, w))

StartSpec == StartInit /\ [][StartNext]_startVars /\ StartFairness

----------------------------------------------------------------------------
\* The threads of a machine, which spin, have a core each.
CoresAreOwn ==
  \A m \in Machines : \A t, u \in Threads :
    t < u /\ u < spawned[m] => coreOf[m][t] # coreOf[m][u]

\* Whichever machine is slow, all workers come to their loops, unless the
\* population of the store has failed.
AllWorkersStart ==
  <>(miAborted \/ \A m \in Machines, w \in Workers : wState[m][w] = "up")
=============================================================================
