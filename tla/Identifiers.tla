---------------------------- MODULE Identifiers ----------------------------
(***************************************************************************)
(* How workers and sessions are numbered across machines                   *)
(* (od_generic_inline_util.h): a worker by its global id, a session by its *)
(* global session id, both packed into 16 bits, and the remote machines of *)
(* a machine without a gap at its own place.                               *)
(***************************************************************************)
EXTENDS Integers

CONSTANTS
  MachineNum,          \* MACHINE_NUM
  WorkersPerMachine,   \* WORKERS_PER_MACHINE
  SessionsPerThread    \* SESSIONS_PER_THREAD

ASSUME IdAssumption ==
  {MachineNum, WorkersPerMachine, SessionsPerThread} \subseteq Nat \ {0}

SessionsPerMachine == WorkersPerMachine * SessionsPerThread

Machines == 0..(MachineNum - 1)
Workers == 0..(WorkersPerMachine - 1)
ThreadSessions == 0..(SessionsPerThread - 1)
Sessions == [mId : Machines, tId : Workers, sessId : ThreadSessions]

Width16 == 65536
Width8 == 256
UInt16(n) == n % Width16
UInt8(n) == n % Width8

\* get_gid, gid_to_mid
GId(m, t) == UInt16(m * WorkersPerMachine + t)
GIdToMId(g) == UInt8(g \div WorkersPerMachine)

\* mid_to_rmid, rmid_to_mid, on machine me
MIdToRmId(me, m) == IF m < me THEN m ELSE UInt8(m - 1)
RmIdToMId(me, rm) == IF rm < me THEN rm ELSE UInt8(rm + 1)

\* get_glob_sess_id, which returns 32 bits but makes 16.
GlobSessId(s) ==
  UInt16(s.mId * SessionsPerMachine + s.tId * SessionsPerThread + s.sessId)

\* glob_ses_id_to_m_id, glob_ses_id_to_t_id, glob_ses_id_to_sess_id
GlobSessIdToSession(g) ==
  [mId |-> UInt8(g \div SessionsPerMachine),
   tId |-> UInt16((g % SessionsPerMachine) \div SessionsPerThread),
   sessId |-> UInt16((g % SessionsPerMachine) % SessionsPerThread)]

\* is_global_ses_id_local
IsLocal(g, me, t) ==
  GlobSessIdToSession(g).tId = t /\ GlobSessIdToSession(g).mId = me

----------------------------------------------------------------------------
\* A reply that carries a session's global id finds its way back to it.
SessionIdsReturn ==
  \A s \in Sessions : GlobSessIdToSession(GlobSessId(s)) = s
=============================================================================
