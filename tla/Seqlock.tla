------------------------------ MODULE Seqlock ------------------------------
(***************************************************************************)
(* One key-value pair of the store and the worker threads that read it     *)
(* with KVS_local_read and write it with KVS_write (od_kvs.h), guarded by  *)
(* the sequence lock of od_generic_inline_util.h: the counter is odd while *)
(* a writer holds the pair, and a lock-free reader copies the value and    *)
(* accepts the copy only if the counter has not moved.                     *)
(*                                                                         *)
(* A step is one access to the shared pair: a load, a store or a compare   *)
(* and swap of the counter, or one word that a memcpy moves, in any order  *)
(* of the words.  The model is of a build with several workers and with    *)
(* locking on (WORKERS_PER_MACHINE > 1, DISABLE_LOCKING 0), on a machine   *)
(* that keeps loads in order, which COMPILER_BARRIER asks of the compiler. *)
(***************************************************************************)
EXTENDS Integers

CONSTANTS
  Workers,                \* the worker threads
  Words,                  \* the words of a value, moved one at a time
  MaxLockedCalls,         \* bound on the calls that take the lock
  EnableLockFreeReading   \* ENABLE_LOCK_FREE_READING

ASSUME SeqlockAssumption ==
  /\ Words # {}
  /\ MaxLockedCalls \in Nat
  /\ EnableLockFreeReading \in BOOLEAN

VARIABLES
  seqlock,   \* the pair's counter
  value,     \* [k]: the words of the pair's value
  issued,    \* how many calls that take the lock have begun
  pc,        \* [w]: where worker w is in its call
  op,        \* [w]: the call w is in or has made last
  tmpLock,   \* [w]: the counter as w has last loaded it (tmp_lock, tmp)
  left,      \* [w]: the words w's memcpy has still to move
  buf        \* [w]: the caller's buffer, value_to_read or value_to_write

vars == <<seqlock, value, issued, pc, op, tmpLock, left, buf>>

Values == [Words -> 0..MaxLockedCalls]
Pcs == {"idle", "lockLoad", "lockCas", "readLoad", "copy", "check",
        "unlockLoad", "unlockStore"}

IsOdd(n) == n % 2 = 1
Goto(w, p) == pc' = [pc EXCEPT ![w] = p]
LoadLock(w) == tmpLock' = [tmpLock EXCEPT ![w] = seqlock]

Init ==
  /\ seqlock = 0
  /\ value = [k \in Words |-> 0]
  /\ issued = 0
  /\ pc = [w \in Workers |-> "idle"]
  /\ op = [w \in Workers |-> "none"]
  /\ tmpLock = [w \in Workers |-> 0]
  /\ left = [w \in Workers |-> {}]
  /\ buf = [w \in Workers |-> [k \in Words |-> 0]]

\* KVS_write is called: every word of its value names the call.
BeginWrite(w) ==
  /\ pc[w] = "idle"
  /\ issued < MaxLockedCalls
  /\ issued' = issued + 1
  /\ op' = [op EXCEPT ![w] = "write"]
  /\ buf' = [buf EXCEPT ![w] = [k \in Words |-> issued']]
  /\ Goto(w, "lockLoad")
  /\ UNCHANGED <<seqlock, value, tmpLock, left>>

\* KVS_local_read is called: a lock-free build goes on to load the counter,
\* any other to lock_seqlock.
BeginRead(w) ==
  /\ pc[w] = "idle"
  /\ op' = [op EXCEPT ![w] = "read"]
  /\ IF EnableLockFreeReading
       THEN /\ Goto(w, "readLoad")
            /\ UNCHANGED issued
       ELSE /\ issued < MaxLockedCalls
            /\ issued' = issued + 1
            /\ Goto(w, "lockLoad")
  /\ UNCHANGED <<seqlock, value, tmpLock, left, buf>>

----------------------------------------------------------------------------
\* lock_seqlock: loads until the counter is even ...
LockLoad(w) ==
  /\ pc[w] = "lockLoad"
  /\ LoadLock(w)
  /\ Goto(w, IF IsOdd(seqlock) THEN "lockLoad" ELSE "lockCas")
  /\ UNCHANGED <<seqlock, value, issued, op, left, buf>>

\* Mutant: the counter is bumped without a look at what it is now.
LockCasBlind(w) ==
  /\ pc[w] = "lockCas"
  /\ seqlock' = tmpLock[w] + 1
  /\ left' = [left EXCEPT ![w] = Words]
  /\ Goto(w, "copy")
  /\ UNCHANGED <<value, issued, op, tmpLock, buf>>

\* ... and swaps in the odd number above it.  A failed swap has loaded the
\* counter, and spins again only if that is odd.
LockCas(w) ==
  /\ pc[w] = "lockCas"
  /\ IF seqlock = tmpLock[w]
       THEN /\ seqlock' = tmpLock[w] + 1
            /\ left' = [left EXCEPT ![w] = Words]
            /\ Goto(w, "copy")
            /\ UNCHANGED tmpLock
       ELSE /\ LoadLock(w)
            /\ Goto(w, IF IsOdd(seqlock) THEN "lockLoad" ELSE "lockCas")
            /\ UNCHANGED <<seqlock, left>>
  /\ UNCHANGED <<value, issued, op, buf>>

\* The loads of read_seqlock_lock_free, and those of check_seqlock_lock_free
\* after a check that failed: until the counter is even.
ReadLoad(w) ==
  /\ pc[w] = "readLoad"
  /\ LoadLock(w)
  /\ IF IsOdd(seqlock)
       THEN UNCHANGED <<pc, left>>
       ELSE /\ Goto(w, "copy")
            /\ left' = [left EXCEPT ![w] = Words]
  /\ UNCHANGED <<seqlock, value, issued, op, buf>>

\* After its last word a memcpy is followed by the check or by the unlock.
MoveWord(w, k) ==
  /\ pc[w] = "copy"
  /\ k \in left[w]
  /\ left' = [left EXCEPT ![w] = @ \ {k}]
  /\ Goto(w, IF left'[w] # {} THEN "copy"
             ELSE IF op[w] = "read" /\ EnableLockFreeReading THEN "check"
             ELSE "unlockLoad")
  /\ UNCHANGED <<seqlock, issued, op, tmpLock>>

CopyOut(w, k) ==
  /\ op[w] = "read"
  /\ MoveWord(w, k)
  /\ buf' = [buf EXCEPT ![w][k] = value[k]]
  /\ UNCHANGED value

CopyIn(w, k) ==
  /\ op[w] = "write"
  /\ MoveWord(w, k)
  /\ value' = [value EXCEPT ![k] = buf[w][k]]
  /\ UNCHANGED buf

\* Mutant: the copy is accepted when no writer is there now.
CheckParityOnly(w) ==
  /\ pc[w] = "check"
  /\ Goto(w, IF IsOdd(seqlock) THEN "readLoad" ELSE "idle")
  /\ UNCHANGED <<seqlock, value, issued, op, tmpLock, left, buf>>

\* Mutant: a copy that is not accepted is not made again.
CheckKeepsCopy(w) ==
  /\ pc[w] = "check"
  /\ IF seqlock = tmpLock[w]
       THEN /\ Goto(w, "idle")
            /\ UNCHANGED tmpLock
       ELSE /\ LoadLock(w)
            /\ Goto(w, IF IsOdd(seqlock) THEN "readLoad" ELSE "copy")
  /\ UNCHANGED <<seqlock, value, issued, op, left, buf>>

\* check_seqlock_lock_free: the copy is accepted, or it is made again, at
\* once if the counter is even and after the loads above if it is odd.
Check(w) ==
  /\ pc[w] = "check"
  /\ IF seqlock = tmpLock[w]
       THEN /\ Goto(w, "idle")
            /\ UNCHANGED <<tmpLock, left>>
       ELSE /\ LoadLock(w)
            /\ Goto(w, IF IsOdd(seqlock) THEN "readLoad" ELSE "copy")
            /\ left' = [left EXCEPT ![w] = IF IsOdd(seqlock) THEN {} ELSE Words]
  /\ UNCHANGED <<seqlock, value, issued, op, buf>>

\* unlock_seqlock: a load of the counter and a store of the even number
\* above it.
UnlockLoad(w) ==
  /\ pc[w] = "unlockLoad"
  /\ LoadLock(w)
  /\ Goto(w, "unlockStore")
  /\ UNCHANGED <<seqlock, value, issued, op, left, buf>>

\* Mutant: the call returns with the lock held.
UnlockStoreSkipped(w) ==
  /\ pc[w] = "unlockStore"
  /\ Goto(w, "idle")
  /\ UNCHANGED <<seqlock, value, issued, op, tmpLock, left, buf>>

UnlockStore(w) ==
  /\ pc[w] = "unlockStore"
  /\ seqlock' = tmpLock[w] + 1
  /\ Goto(w, "idle")
  /\ UNCHANGED <<value, issued, op, tmpLock, left, buf>>

----------------------------------------------------------------------------
\* The call that w is in goes on.
Runs(w) ==
  \/ LockLoad(w) \/ LockCas(w) \/ ReadLoad(w)
  \/ \E k \in Words : CopyOut(w, k) \/ CopyIn(w, k)
  \/ Check(w) \/ UnlockLoad(w) \/ UnlockStore(w)

Next == \E w \in Workers : BeginWrite(w) \/ BeginRead(w) \/ Runs(w)

Spec == Init /\ [][Next]_vars

\* A thread in a call is scheduled again and again.
FairSpec == Spec /\ \A w \in Workers : WF_vars(Runs(w))

----------------------------------------------------------------------------
(* Properties.                                                             *)

\* Every variable has its type, and a memcpy has words left exactly while it
\* is under way.
TypeOK ==
  /\ seqlock \in Nat
  /\ value \in Values
  /\ issued \in 0..MaxLockedCalls
  /\ pc \in [Workers -> Pcs]
  /\ op \in [Workers -> {"none", "read", "write"}]
  /\ tmpLock \in [Workers -> Nat]
  /\ left \in [Workers -> SUBSET Words]
  /\ buf \in [Workers -> Values]
  /\ \A w \in Workers : left[w] # {} <=> pc[w] = "copy"

\* w is between the swap of lock_seqlock and the store of unlock_seqlock.
Holds(w) ==
  \/ pc[w] \in {"unlockLoad", "unlockStore"}
  \/ pc[w] = "copy" /\ (op[w] = "write" \/ ~EnableLockFreeReading)

\* The lock excludes: one worker at most holds the pair, and the counter is
\* odd exactly then, which is what the lock-free readers go by.
LockExcludes ==
  /\ \A v, w \in Workers : Holds(v) /\ Holds(w) => v = w
  /\ IsOdd(seqlock) <=> \E w \in Workers : Holds(w)

\* The whole value that is in the pair, or that the writer who holds the pair
\* is about to put there: no reader can accept a copy before it is complete.
CurrentValue ==
  LET writers == {w \in Workers : Holds(w) /\ op[w] = "write"}
  IN  IF writers = {} THEN value ELSE buf[CHOOSE w \in writers : TRUE]

StatusOf(w) ==
  IF pc[w] = "idle" THEN "idle"
  ELSE IF op[w] = "write" THEN IF Holds(w) THEN "written" ELSE "writing"
  ELSE IF Holds(w) /\ left[w] = {} THEN "idle" ELSE "reading"

NoValue == "no value"

ArgumentOf(w) == IF pc[w] # "idle" /\ op[w] = "write" THEN buf[w] ELSE NoValue
ResultOf(w) ==
  IF StatusOf(w) = "idle" /\ op[w] = "read" THEN buf[w] ELSE NoValue

Register == INSTANCE AtomicRegister WITH
  InitialValue <- [k \in Words |-> 0],
  register <- CurrentValue,
  status <- [w \in Workers |-> StatusOf(w)],
  argument <- [w \in Workers |-> ArgumentOf(w)],
  result <- [w \in Workers |-> ResultOf(w)]

\* KVS_local_read and KVS_write make the pair an atomic register: a read
\* returns one whole value, never words of two writes, and it is the value
\* of a moment between the begin and the end of the read.
ImplementsRegister == Register!Spec

\* Every call comes to its end, once the writers leave the pair alone (their
\* number is bounded here): no worker is left spinning on an odd counter or
\* on a check that never succeeds.
CallsFinish == \A w \in Workers : pc[w] # "idle" ~> pc[w] = "idle"
=============================================================================
