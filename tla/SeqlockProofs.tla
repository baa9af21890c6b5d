--------------------------- MODULE SeqlockProofs ---------------------------
(***************************************************************************)
(* Proofs about Seqlock, for any set of workers, any value size, with and  *)
(* without lock-free reading: the lock excludes, and the pair is an atomic *)
(* register.                                                               *)
(***************************************************************************)
EXTENDS Seqlock, TLAPS

USE SeqlockAssumption

\* The calls that pass through each control state.
CallFits(w) ==
  /\ pc[w] # "idle" => op[w] \in {"read", "write"}
  /\ pc[w] \in {"lockLoad", "lockCas", "unlockLoad", "unlockStore"}
       => op[w] = "write" \/ ~EnableLockFreeReading
  /\ pc[w] \in {"readLoad", "check"} => op[w] = "read" /\ EnableLockFreeReading

\* What w remembers of the counter.
LoadFits(w) ==
  /\ tmpLock[w] <= seqlock
  /\ pc[w] \in {"lockCas", "check"} => ~IsOdd(tmpLock[w])
  /\ pc[w] = "copy" /\ ~Holds(w) => ~IsOdd(tmpLock[w])
  /\ pc[w] = "unlockStore" => tmpLock[w] = seqlock

\* The words that w has moved are the same at both ends, unless a lock-free
\* reader will find that the counter has moved.
WordsMatch(w) ==
  Holds(w) \/ (pc[w] \in {"copy", "check"} /\ tmpLock[w] = seqlock)
    => \A k \in Words \ left[w] : buf[w][k] = value[k]

WorkerInv(w) == CallFits(w) /\ LoadFits(w) /\ WordsMatch(w)

\* The inductive invariant.
IInv == TypeOK /\ LockExcludes /\ \A w \in Workers : WorkerInv(w)

----------------------------------------------------------------------------
LEMMA Parity ==
  ASSUME NEW n \in Nat
  PROVE  IsOdd(n + 1) <=> ~IsOdd(n)
BY DEF IsOdd

LEMMA Initially == Init => IInv
<1> SUFFICES ASSUME Init PROVE IInv
  OBVIOUS
<1>1. TypeOK
  BY DEF Init, TypeOK, Values, Pcs
<1>2. \A w \in Workers : ~Holds(w)
  BY DEF Init, Holds
<1>3. ~IsOdd(seqlock)
  BY DEF Init, IsOdd
<1>4. \A w \in Workers : WorkerInv(w)
  <2> SUFFICES ASSUME NEW w \in Workers PROVE WorkerInv(w)
    OBVIOUS
  <2>1. pc[w] = "idle" /\ tmpLock[w] = 0 /\ seqlock = 0
    BY DEF Init
  <2> QED
    BY <1>2, <2>1 DEF WorkerInv, CallFits, LoadFits, WordsMatch
<1> QED
  BY <1>1, <1>2, <1>3, <1>4 DEF IInv, LockExcludes

\* The private variables of v stay as they are.
Untouched(v) ==
  /\ pc'[v] = pc[v] /\ op'[v] = op[v] /\ tmpLock'[v] = tmpLock[v]
  /\ left'[v] = left[v] /\ buf'[v] = buf[v]

\* A worker that does not move keeps its invariant when the pair is left
\* alone.
LEMMA QuietFrame ==
  ASSUME NEW v \in Workers, Untouched(v), WorkerInv(v),
         seqlock' = seqlock, value' = value
  PROVE  WorkerInv(v)' /\ (Holds(v)' <=> Holds(v))
BY DEF Untouched, WorkerInv, CallFits, LoadFits, WordsMatch, Holds

\* A worker that neither moves nor holds the pair keeps its invariant when
\* the counter grows, as its copy will then not be accepted ...
LEMMA CounterFrame ==
  ASSUME TypeOK, NEW v \in Workers, Untouched(v), WorkerInv(v), ~Holds(v),
         seqlock' = seqlock + 1
  PROVE  WorkerInv(v)' /\ ~Holds(v)'
<1>1. tmpLock[v] \in Nat /\ seqlock \in Nat
  BY DEF TypeOK
<1>2. tmpLock'[v] # seqlock' /\ tmpLock'[v] <= seqlock'
  BY <1>1 DEF Untouched, WorkerInv, LoadFits
<1>3. ~Holds(v)'
  BY DEF Untouched, Holds
<1> QED
  BY <1>2, <1>3
     DEF Untouched, WorkerInv, CallFits, LoadFits, WordsMatch, Holds

\* ... and when a writer changes the value, as the counter is odd by then.
LEMMA ValueFrame ==
  ASSUME TypeOK, NEW v \in Workers, Untouched(v), WorkerInv(v), ~Holds(v),
         seqlock' = seqlock, IsOdd(seqlock)
  PROVE  WorkerInv(v)' /\ ~Holds(v)'
<1>1. ~Holds(v)'
  BY DEF Untouched, Holds
<1>2. pc[v] \in {"copy", "check"} => tmpLock[v] # seqlock
  BY DEF WorkerInv, LoadFits
<1> QED
  BY <1>1, <1>2
     DEF Untouched, WorkerInv, CallFits, LoadFits, WordsMatch, Holds

----------------------------------------------------------------------------
(* One lemma per action: it keeps the invariant.                           *)

LEMMA BeginWriteStep ==
  ASSUME IInv, NEW w \in Workers, BeginWrite(w)
  PROVE  IInv'
<1> USE DEF IInv
<1>1. /\ pc[w] = "idle" /\ pc'[w] = "lockLoad" /\ op'[w] = "write"
      /\ tmpLock'[w] = tmpLock[w] /\ seqlock' = seqlock /\ value' = value
  BY DEF BeginWrite, Goto, TypeOK
<1>2. TypeOK'
  <2>1. buf' \in [Workers -> Values] /\ issued' \in 0..MaxLockedCalls
    BY DEF BeginWrite, TypeOK, Values
  <2> QED
    BY <2>1 DEF BeginWrite, Goto, TypeOK, Pcs
<1>3. \A v \in Workers \ {w} : Untouched(v)
  BY DEF BeginWrite, Goto, TypeOK, Untouched
<1>4. ~Holds(w) /\ ~Holds(w)'
  BY <1>1 DEF Holds
<1>5. WorkerInv(w)'
  BY <1>1, <1>4 DEF WorkerInv, CallFits, LoadFits, WordsMatch
<1> QED
  BY <1>1, <1>2, <1>3, <1>4, <1>5, QuietFrame DEF LockExcludes

LEMMA BeginReadStep ==
  ASSUME IInv, NEW w \in Workers, BeginRead(w)
  PROVE  IInv'
<1> USE DEF IInv
<1>1. /\ pc[w] = "idle" /\ op'[w] = "read"
      /\ pc'[w] = IF EnableLockFreeReading THEN "readLoad" ELSE "lockLoad"
      /\ tmpLock'[w] = tmpLock[w] /\ seqlock' = seqlock /\ value' = value
  BY DEF BeginRead, Goto, TypeOK
<1>2. TypeOK'
  BY DEF BeginRead, Goto, TypeOK, Pcs
<1>3. \A v \in Workers \ {w} : Untouched(v)
  BY DEF BeginRead, Goto, TypeOK, Untouched
<1>4. ~Holds(w) /\ ~Holds(w)'
  BY <1>1 DEF Holds
<1>5. WorkerInv(w)'
  BY <1>1, <1>4 DEF WorkerInv, CallFits, LoadFits, WordsMatch
<1> QED
  BY <1>1, <1>2, <1>3, <1>4, <1>5, QuietFrame DEF LockExcludes

LEMMA LockLoadStep ==
  ASSUME IInv, NEW w \in Workers, LockLoad(w)
  PROVE  IInv'
<1> USE DEF IInv
<1>1. /\ pc[w] = "lockLoad" /\ op'[w] = op[w]
      /\ pc'[w] = IF IsOdd(seqlock) THEN "lockLoad" ELSE "lockCas"
      /\ tmpLock'[w] = seqlock /\ seqlock' = seqlock /\ value' = value
  BY DEF LockLoad, LoadLock, Goto, TypeOK
<1>2. TypeOK'
  BY DEF LockLoad, LoadLock, Goto, TypeOK, Pcs
<1>3. \A v \in Workers \ {w} : Untouched(v)
  BY DEF LockLoad, LoadLock, Goto, TypeOK, Untouched
<1>4. ~Holds(w) /\ ~Holds(w)'
  BY <1>1 DEF Holds
<1>5. WorkerInv(w)'
  BY <1>1, <1>4 DEF WorkerInv, CallFits, LoadFits, WordsMatch, TypeOK
<1> QED
  BY <1>1, <1>2, <1>3, <1>4, <1>5, QuietFrame DEF LockExcludes

LEMMA LockCasStep ==
  ASSUME IInv, NEW w \in Workers, LockCas(w)
  PROVE  IInv'
<1> USE DEF IInv
<1>1. /\ pc[w] = "lockCas" /\ op'[w] = op[w] /\ value' = value
      /\ ~IsOdd(tmpLock[w]) /\ seqlock \in Nat
      /\ op[w] = "write" \/ ~EnableLockFreeReading
      /\ op[w] \in {"read", "write"}
  BY DEF LockCas, TypeOK, WorkerInv, CallFits, LoadFits
<1>2. \A v \in Workers \ {w} : Untouched(v)
  BY DEF LockCas, LoadLock, Goto, TypeOK, Untouched
<1>3. ~Holds(w)
  BY <1>1 DEF Holds
<1>4. CASE seqlock = tmpLock[w]
  <2>1. /\ pc'[w] = "copy" /\ left'[w] = Words /\ tmpLock'[w] = tmpLock[w]
        /\ seqlock' = seqlock + 1
    BY <1>4 DEF LockCas, Goto, TypeOK
  <2>2. TypeOK'
    BY <1>4 DEF LockCas, Goto, TypeOK, Pcs
  <2>3. \A v \in Workers : ~Holds(v)
    BY <1>1, <1>4 DEF LockExcludes
  <2>4. \A v \in Workers \ {w} : WorkerInv(v)' /\ ~Holds(v)'
    BY <1>2, <2>1, <2>3, CounterFrame
  <2>5. Holds(w)' /\ IsOdd(seqlock')
    BY <1>1, <1>4, <2>1, Parity DEF Holds
  <2>6. WorkerInv(w)'
    <3>1. CallFits(w)'
      BY <1>1, <2>1 DEF CallFits
    <3>2. LoadFits(w)'
      BY <1>1, <1>4, <2>1, <2>5 DEF LoadFits
    <3> QED
      BY <2>1, <3>1, <3>2 DEF WorkerInv, WordsMatch
  <2> QED
    BY <2>2, <2>4, <2>5, <2>6 DEF LockExcludes
<1>5. CASE seqlock # tmpLock[w]
  <2>1. /\ pc'[w] = IF IsOdd(seqlock) THEN "lockLoad" ELSE "lockCas"
        /\ tmpLock'[w] = seqlock /\ seqlock' = seqlock
    BY <1>5 DEF LockCas, LoadLock, Goto, TypeOK
  <2>2. TypeOK'
    BY <1>5 DEF LockCas, LoadLock, Goto, TypeOK, Pcs
  <2>3. ~Holds(w)'
    BY <2>1 DEF Holds
  <2>4. WorkerInv(w)'
    BY <1>1, <2>1, <2>3 DEF WorkerInv, CallFits, LoadFits, WordsMatch
  <2> QED
    BY <1>1, <1>2, <1>3, <2>1, <2>2, <2>3, <2>4, QuietFrame DEF LockExcludes
<1> QED
  BY <1>4, <1>5

LEMMA ReadLoadStep ==
  ASSUME IInv, NEW w \in Workers, ReadLoad(w)
  PROVE  IInv'
<1> USE DEF IInv
<1>1. /\ pc[w] = "readLoad" /\ op'[w] = op[w] /\ op[w] = "read"
      /\ EnableLockFreeReading
      /\ pc'[w] = IF IsOdd(seqlock) THEN "readLoad" ELSE "copy"
      /\ left'[w] = IF IsOdd(seqlock) THEN left[w] ELSE Words
      /\ tmpLock'[w] = seqlock /\ seqlock' = seqlock /\ value' = value
      /\ seqlock \in Nat
  BY DEF ReadLoad, LoadLock, Goto, TypeOK, WorkerInv, CallFits
<1>2. TypeOK'
  BY DEF ReadLoad, LoadLock, Goto, TypeOK, Pcs
<1>3. \A v \in Workers \ {w} : Untouched(v)
  BY DEF ReadLoad, LoadLock, Goto, TypeOK, Untouched
<1>4. ~Holds(w) /\ ~Holds(w)'
  BY <1>1 DEF Holds
<1>5. WorkerInv(w)'
  BY <1>1, <1>4 DEF WorkerInv, CallFits, LoadFits, WordsMatch
<1> QED
  BY <1>1, <1>2, <1>3, <1>4, <1>5, QuietFrame DEF LockExcludes

\* Where the control of w goes as its memcpy moves word k.
LEMMA MoveWordGoes ==
  ASSUME TypeOK, NEW w \in Workers, NEW k \in Words, MoveWord(w, k)
  PROVE  /\ pc[w] = "copy" /\ k \in left[w]
         /\ op'[w] = op[w] /\ tmpLock'[w] = tmpLock[w] /\ seqlock' = seqlock
         /\ left'[w] = left[w] \ {k}
         /\ pc'[w] = IF left[w] \ {k} # {} THEN "copy"
                     ELSE IF op[w] = "read" /\ EnableLockFreeReading
                          THEN "check" ELSE "unlockLoad"
         /\ pc' \in [Workers -> Pcs] /\ left' \in [Workers -> SUBSET Words]
         /\ \A v \in Workers : left'[v] # {} <=> pc'[v] = "copy"
         /\ \A v \in Workers \ {w} :
              /\ pc'[v] = pc[v] /\ op'[v] = op[v]
              /\ tmpLock'[v] = tmpLock[v] /\ left'[v] = left[v]
BY DEF MoveWord, Goto, TypeOK, Pcs

LEMMA CopyOutStep ==
  ASSUME IInv, NEW w \in Workers, NEW k \in Words, CopyOut(w, k)
  PROVE  IInv'
<1> USE DEF IInv
<1>1. MoveWord(w, k) /\ op[w] = "read" /\ value' = value
  BY DEF CopyOut
<1>2. /\ buf' \in [Workers -> Values]
      /\ \A v \in Workers \ {w} : buf'[v] = buf[v]
      /\ \A j \in Words : buf'[w][j] = IF j = k THEN value[k] ELSE buf[w][j]
  <2>1. buf' = [buf EXCEPT ![w] = [buf[w] EXCEPT ![k] = value[k]]]
    BY DEF CopyOut
  <2>2. [buf[w] EXCEPT ![k] = value[k]] \in Values
    BY DEF TypeOK, Values
  <2> QED
    BY <2>1, <2>2 DEF TypeOK, Values
<1>3. TypeOK'
  BY <1>1, <1>2, MoveWordGoes DEF TypeOK, MoveWord
<1>4. \A v \in Workers \ {w} : Untouched(v)
  BY <1>1, <1>2, MoveWordGoes DEF Untouched
<1>5. Holds(w)' <=> Holds(w)
  BY <1>1, MoveWordGoes DEF Holds
<1>6. CallFits(w)' /\ LoadFits(w)'
  BY <1>1, <1>5, MoveWordGoes DEF WorkerInv, CallFits, LoadFits, Holds
<1>7. WordsMatch(w)'
  BY <1>1, <1>2, <1>5, MoveWordGoes DEF WorkerInv, WordsMatch
<1> QED
  BY <1>1, <1>3, <1>4, <1>5, <1>6, <1>7, MoveWordGoes, QuietFrame
     DEF LockExcludes, WorkerInv

LEMMA CopyInStep ==
  ASSUME IInv, NEW w \in Workers, NEW k \in Words, CopyIn(w, k)
  PROVE  IInv'
<1> USE DEF IInv
<1>1. MoveWord(w, k) /\ op[w] = "write" /\ buf' = buf
  BY DEF CopyIn
<1>2. /\ value' \in Values
      /\ \A j \in Words : value'[j] = IF j = k THEN buf[w][k] ELSE value[j]
  BY DEF CopyIn, TypeOK, Values
<1>3. TypeOK'
  BY <1>1, <1>2, MoveWordGoes DEF TypeOK, MoveWord
<1>4. \A v \in Workers \ {w} : Untouched(v)
  BY <1>1, MoveWordGoes DEF Untouched
<1>5. Holds(w) /\ Holds(w)'
  BY <1>1, MoveWordGoes DEF Holds
<1>6. CallFits(w)' /\ LoadFits(w)'
  BY <1>1, <1>5, MoveWordGoes DEF WorkerInv, CallFits, LoadFits, Holds
<1>7. WordsMatch(w)'
  BY <1>1, <1>2, <1>5, MoveWordGoes DEF WorkerInv, WordsMatch
<1>8. IsOdd(seqlock) /\ \A v \in Workers \ {w} : ~Holds(v)
  BY <1>5 DEF LockExcludes
<1>9. \A v \in Workers \ {w} : WorkerInv(v)' /\ ~Holds(v)'
  BY <1>1, <1>4, <1>8, MoveWordGoes, ValueFrame
<1> QED
  BY <1>1, <1>3, <1>5, <1>6, <1>7, <1>8, <1>9, MoveWordGoes
     DEF LockExcludes, WorkerInv

LEMMA CheckStep ==
  ASSUME IInv, NEW w \in Workers, Check(w)
  PROVE  IInv'
<1> USE DEF IInv
<1>1. /\ pc[w] = "check" /\ op'[w] = op[w] /\ op[w] = "read"
      /\ EnableLockFreeReading /\ seqlock' = seqlock /\ value' = value
      /\ seqlock \in Nat /\ left[w] = {}
  BY DEF Check, TypeOK, WorkerInv, CallFits
<1>2. \A v \in Workers \ {w} : Untouched(v)
  BY DEF Check, LoadLock, Goto, TypeOK, Untouched
<1>3. CASE seqlock = tmpLock[w]
  <2>1. pc'[w] = "idle" /\ tmpLock'[w] = tmpLock[w]
    BY <1>3 DEF Check, Goto, TypeOK
  <2>2. TypeOK'
    BY <1>1, <1>3 DEF Check, Goto, TypeOK, Pcs
  <2>3. ~Holds(w) /\ ~Holds(w)'
    BY <1>1, <2>1 DEF Holds
  <2>4. WorkerInv(w)'
    BY <1>1, <2>1, <2>3 DEF WorkerInv, CallFits, LoadFits, WordsMatch
  <2> QED
    BY <1>1, <1>2, <2>2, <2>3, <2>4, QuietFrame DEF LockExcludes
<1>4. CASE seqlock # tmpLock[w]
  <2>1. /\ pc'[w] = IF IsOdd(seqlock) THEN "readLoad" ELSE "copy"
        /\ left'[w] = IF IsOdd(seqlock) THEN {} ELSE Words
        /\ tmpLock'[w] = seqlock
    BY <1>4 DEF Check, LoadLock, Goto, TypeOK
  <2>2. TypeOK'
    BY <1>1, <1>4 DEF Check, LoadLock, Goto, TypeOK, Pcs
  <2>3. ~Holds(w) /\ ~Holds(w)'
    BY <1>1, <2>1 DEF Holds
  <2>4. WorkerInv(w)'
    BY <1>1, <2>1, <2>3 DEF WorkerInv, CallFits, LoadFits, WordsMatch
  <2> QED
    BY <1>1, <1>2, <2>2, <2>3, <2>4, QuietFrame DEF LockExcludes
<1> QED
  BY <1>3, <1>4

LEMMA UnlockLoadStep ==
  ASSUME IInv, NEW w \in Workers, UnlockLoad(w)
  PROVE  IInv'
<1> USE DEF IInv
<1>1. /\ pc[w] = "unlockLoad" /\ pc'[w] = "unlockStore" /\ op'[w] = op[w]
      /\ tmpLock'[w] = seqlock /\ seqlock' = seqlock /\ seqlock \in Nat
      /\ left' = left /\ buf' = buf /\ value' = value
  BY DEF UnlockLoad, LoadLock, Goto, TypeOK
<1>2. TypeOK'
  BY DEF UnlockLoad, LoadLock, Goto, TypeOK, Pcs
<1>3. \A v \in Workers \ {w} : Untouched(v)
  BY DEF UnlockLoad, LoadLock, Goto, TypeOK, Untouched
<1>4. Holds(w) /\ Holds(w)'
  BY <1>1 DEF Holds
<1>5. WorkerInv(w)'
  BY <1>1, <1>4 DEF WorkerInv, CallFits, LoadFits, WordsMatch
<1> QED
  BY <1>1, <1>2, <1>3, <1>4, <1>5, QuietFrame DEF LockExcludes

LEMMA UnlockStoreStep ==
  ASSUME IInv, NEW w \in Workers, UnlockStore(w)
  PROVE  IInv'
<1> USE DEF IInv
<1>1. /\ pc[w] = "unlockStore" /\ pc'[w] = "idle" /\ op'[w] = op[w]
      /\ tmpLock'[w] = tmpLock[w] /\ tmpLock[w] = seqlock /\ seqlock \in Nat
      /\ seqlock' = seqlock + 1
  BY DEF UnlockStore, Goto, TypeOK, WorkerInv, LoadFits
<1>2. TypeOK'
  BY <1>1 DEF UnlockStore, Goto, TypeOK, Pcs
<1>3. \A v \in Workers \ {w} : Untouched(v)
  BY DEF UnlockStore, Goto, TypeOK, Untouched
<1>4. Holds(w) /\ ~Holds(w)'
  BY <1>1 DEF Holds
<1>5. IsOdd(seqlock) /\ ~IsOdd(seqlock')
  BY <1>1, <1>4, Parity DEF LockExcludes
<1>6. WorkerInv(w)'
  BY <1>1, <1>4 DEF WorkerInv, CallFits, LoadFits, WordsMatch
<1>7. \A v \in Workers \ {w} : WorkerInv(v)' /\ ~Holds(v)'
  BY <1>1, <1>3, <1>4, CounterFrame DEF LockExcludes
<1> QED
  BY <1>2, <1>4, <1>5, <1>6, <1>7 DEF LockExcludes

LEMMA Inductive == IInv /\ [Next]_vars => IInv'
<1> SUFFICES ASSUME IInv, [Next]_vars PROVE IInv'
  OBVIOUS
<1>1. ASSUME Next PROVE IInv'
  BY <1>1, BeginWriteStep, BeginReadStep, LockLoadStep, LockCasStep,
     ReadLoadStep, CopyOutStep, CopyInStep, CheckStep, UnlockLoadStep,
     UnlockStoreStep
     DEF Next, Runs
<1>2. CASE UNCHANGED vars
  <2>1. TypeOK' /\ seqlock' = seqlock /\ value' = value
    BY <1>2 DEF IInv, TypeOK, vars
  <2>2. \A v \in Workers : Untouched(v)
    BY <1>2 DEF Untouched, vars
  <2> QED
    BY <2>1, <2>2, QuietFrame DEF IInv, LockExcludes
<1> QED
  BY <1>1, <1>2

THEOREM Invariance == Spec => []IInv
BY Initially, Inductive, PTL DEF Spec

\* Every variable keeps its type, and every memcpy its pace.
THEOREM TypeCorrect == Spec => []TypeOK
<1>1. IInv => TypeOK
  BY DEF IInv
<1> QED
  BY <1>1, Invariance, PTL

\* At most one worker is between lock_seqlock and unlock_seqlock, and the
\* counter is odd exactly while one is.
THEOREM LockIsExclusive == Spec => []LockExcludes
<1>1. IInv => LockExcludes
  BY DEF IInv
<1> QED
  BY <1>1, Invariance, PTL

----------------------------------------------------------------------------
(* The refinement of AtomicRegister.                                       *)

\* The register of the refinement, while a writer holds the pair ...
LEMMA CurrentHeld ==
  ASSUME LockExcludes, NEW w \in Workers, Holds(w), op[w] = "write"
  PROVE  CurrentValue = buf[w]
<1>1. {v \in Workers : Holds(v) /\ op[v] = "write"} = {w}
  BY DEF LockExcludes
<1> QED
  BY <1>1 DEF CurrentValue

LEMMA CurrentHeldNext ==
  ASSUME LockExcludes', NEW w \in Workers, Holds(w)', op'[w] = "write"
  PROVE  CurrentValue' = buf'[w]
<1>1. {v \in Workers : Holds(v) /\ op[v] = "write"}' = {w}
  BY DEF LockExcludes, Holds
<1> QED
  BY <1>1 DEF CurrentValue

\* ... and it does not change in a step that moves no writer in or out and
\* changes no value that shows.
LEMMA CurrentFrame ==
  ASSUME LockExcludes, LockExcludes',
         \A v \in Workers : Holds(v) /\ op[v] = "write"
                               <=> Holds(v)' /\ op'[v] = "write",
         \A v \in Workers : Holds(v) /\ op[v] = "write" => buf'[v] = buf[v],
         (\E v \in Workers : Holds(v) /\ op[v] = "write") \/ value' = value
  PROVE  CurrentValue' = CurrentValue
<1>1. CASE \E v \in Workers : Holds(v) /\ op[v] = "write"
  <2>1. PICK v \in Workers : Holds(v) /\ op[v] = "write"
    BY <1>1
  <2> QED
    BY <2>1, CurrentHeld, CurrentHeldNext
<1>2. CASE ~\E v \in Workers : Holds(v) /\ op[v] = "write"
  <2>1. /\ {v \in Workers : Holds(v) /\ op[v] = "write"} = {}
        /\ {v \in Workers : Holds(v) /\ op[v] = "write"}' = {}
    BY <1>2 DEF Holds
  <2> QED
    BY <1>2, <2>1 DEF CurrentValue
<1> QED
  BY <1>1, <1>2

\* A step of w changes only w's entries in the mapped variables.
LEMMA MapFrame ==
  ASSUME NEW w \in Workers, \A v \in Workers \ {w} : Untouched(v)
  PROVE  /\ [v \in Workers |-> StatusOf(v)]'
              = [[v \in Workers |-> StatusOf(v)] EXCEPT ![w] = StatusOf(w)']
         /\ [v \in Workers |-> ArgumentOf(v)]'
              = [[v \in Workers |-> ArgumentOf(v)] EXCEPT ![w] = ArgumentOf(w)']
         /\ [v \in Workers |-> ResultOf(v)]'
              = [[v \in Workers |-> ResultOf(v)] EXCEPT ![w] = ResultOf(w)']
<1>1. \A v \in Workers \ {w} : /\ StatusOf(v)' = StatusOf(v)
                             /\ ArgumentOf(v)' = ArgumentOf(v)
                             /\ ResultOf(v)' = ResultOf(v)
  BY DEF Untouched, StatusOf, ArgumentOf, ResultOf, Holds
<1> QED
  BY <1>1

\* A step of w that the register does not see.
LEMMA Stutters ==
  ASSUME NEW w \in Workers, \A v \in Workers \ {w} : Untouched(v),
         StatusOf(w)' = StatusOf(w), ArgumentOf(w)' = ArgumentOf(w),
         ResultOf(w)' = ResultOf(w), CurrentValue' = CurrentValue
  PROVE  UNCHANGED Register!vars
BY MapFrame DEF Register!vars

LEMMA RegisterInit == Init => Register!Init
<1> SUFFICES ASSUME Init PROVE Register!Init
  OBVIOUS
<1>1. \A w \in Workers : /\ ~Holds(w) /\ StatusOf(w) = "idle"
                        /\ ArgumentOf(w) = NoValue /\ ResultOf(w) = NoValue
  BY DEF Init, Holds, StatusOf, ArgumentOf, ResultOf
<1>2. CurrentValue = [k \in Words |-> 0]
  <2>1. {v \in Workers : Holds(v) /\ op[v] = "write"} = {}
    BY <1>1
  <2> QED
    BY <2>1 DEF CurrentValue, Init
<1> QED
  BY <1>1, <1>2 DEF Register!Init

\* The steps that the register sees.
LEMMA BeginWriteMaps ==
  ASSUME IInv, IInv', NEW w \in Workers, BeginWrite(w)
  PROVE  Register!BeginWrite(w, buf'[w]) /\ buf'[w] \in Values
<1> USE DEF IInv
<1>1. /\ pc[w] = "idle" /\ pc'[w] = "lockLoad" /\ op'[w] = "write"
      /\ value' = value
  BY DEF BeginWrite, Goto, TypeOK
<1>2. \A v \in Workers \ {w} : Untouched(v)
  BY DEF BeginWrite, Goto, TypeOK, Untouched
<1>3. ~Holds(w) /\ ~Holds(w)'
  BY <1>1 DEF Holds
<1>4. /\ StatusOf(w) = "idle" /\ StatusOf(w)' = "writing"
      /\ ArgumentOf(w)' = buf'[w] /\ ResultOf(w)' = NoValue
  BY <1>1, <1>3 DEF StatusOf, ArgumentOf, ResultOf
<1>5. CurrentValue' = CurrentValue
  BY <1>1, <1>2, <1>3, CurrentFrame DEF Untouched, Holds
<1>6. buf'[w] \in Values
  BY DEF TypeOK
<1> QED
  BY <1>2, <1>4, <1>5, <1>6, MapFrame DEF Register!BeginWrite, Register!Moves

LEMMA BeginReadMaps ==
  ASSUME IInv, IInv', NEW w \in Workers, BeginRead(w)
  PROVE  Register!BeginRead(w)
<1> USE DEF IInv
<1>1. /\ pc[w] = "idle" /\ pc'[w] \in {"readLoad", "lockLoad"}
      /\ op'[w] = "read" /\ value' = value
  BY DEF BeginRead, Goto, TypeOK
<1>2. \A v \in Workers \ {w} : Untouched(v)
  BY DEF BeginRead, Goto, TypeOK, Untouched
<1>3. ~Holds(w) /\ ~Holds(w)'
  BY <1>1 DEF Holds
<1>4. /\ StatusOf(w) = "idle" /\ StatusOf(w)' = "reading"
      /\ ArgumentOf(w)' = ArgumentOf(w) /\ ResultOf(w)' = NoValue
  BY <1>1, <1>3 DEF StatusOf, ArgumentOf, ResultOf
<1>5. CurrentValue' = CurrentValue
  BY <1>1, <1>2, <1>3, CurrentFrame DEF Untouched, Holds
<1>6. [v \in Workers |-> ArgumentOf(v)]' = [v \in Workers |-> ArgumentOf(v)]
  BY <1>2, <1>4, MapFrame
<1> QED
  BY <1>2, <1>4, <1>5, <1>6, MapFrame DEF Register!BeginRead, Register!Moves

\* A write takes effect as its worker gets the lock.
LEMMA LockCasMaps ==
  ASSUME IInv, IInv', NEW w \in Workers, LockCas(w)
  PROVE  Register!Write(w) \/ UNCHANGED Register!vars
<1> USE DEF IInv
<1>1. /\ pc[w] = "lockCas" /\ op'[w] = op[w] /\ value' = value
      /\ op[w] = "write" \/ ~EnableLockFreeReading
      /\ op[w] \in {"read", "write"} /\ buf' = buf
  BY DEF LockCas, TypeOK, WorkerInv, CallFits
<1>2. \A v \in Workers \ {w} : Untouched(v)
  BY DEF LockCas, LoadLock, Goto, TypeOK, Untouched
<1>3. ~Holds(w)
  BY <1>1 DEF Holds
<1>4. CASE seqlock = tmpLock[w] /\ op[w] = "write"
  <2>1. pc'[w] = "copy" /\ Holds(w)'
    BY <1>1, <1>4 DEF LockCas, Goto, TypeOK, Holds
  <2>2. /\ StatusOf(w) = "writing" /\ StatusOf(w)' = "written"
        /\ ArgumentOf(w) = buf[w] /\ ArgumentOf(w)' = buf[w]
        /\ ResultOf(w) = NoValue /\ ResultOf(w)' = NoValue
    BY <1>1, <1>3, <1>4, <2>1 DEF StatusOf, ArgumentOf, ResultOf
  <2>3. CurrentValue' = buf[w]
    BY <1>1, <1>4, <2>1, CurrentHeldNext
  <2>4. /\ [v \in Workers |-> ArgumentOf(v)]' = [v \in Workers |-> ArgumentOf(v)]
        /\ [v \in Workers |-> ResultOf(v)]' = [v \in Workers |-> ResultOf(v)]
    BY <1>2, <2>2, MapFrame
  <2> QED
    BY <1>2, <2>2, <2>3, <2>4, MapFrame DEF Register!Write, Register!Moves
<1>5. CASE seqlock = tmpLock[w] /\ op[w] = "read"
  <2>1. pc'[w] = "copy" /\ left'[w] # {}
    BY <1>1, <1>5 DEF LockCas, Goto, TypeOK
  <2>2. /\ StatusOf(w)' = StatusOf(w) /\ ArgumentOf(w)' = ArgumentOf(w)
        /\ ResultOf(w)' = ResultOf(w)
    BY <1>1, <1>3, <1>5, <2>1 DEF StatusOf, ArgumentOf, ResultOf
  <2>3. CurrentValue' = CurrentValue
    BY <1>1, <1>2, <1>5, CurrentFrame DEF Untouched, Holds
  <2> QED
    BY <1>2, <2>2, <2>3, Stutters
<1>6. CASE seqlock # tmpLock[w]
  <2>1. pc'[w] \in {"lockLoad", "lockCas"}
    BY <1>6 DEF LockCas, Goto, TypeOK
  <2>2. ~Holds(w)'
    BY <2>1 DEF Holds
  <2>3. /\ StatusOf(w)' = StatusOf(w) /\ ArgumentOf(w)' = ArgumentOf(w)
        /\ ResultOf(w)' = ResultOf(w)
    BY <1>1, <1>3, <2>1, <2>2 DEF StatusOf, ArgumentOf, ResultOf
  <2>4. CurrentValue' = CurrentValue
    BY <1>1, <1>2, <1>3, <2>2, CurrentFrame DEF Untouched, Holds
  <2> QED
    BY <1>2, <2>3, <2>4, Stutters
<1> QED
  BY <1>1, <1>4, <1>5, <1>6

\* A loop that loads the counter changes nothing that shows.
LEMMA LoadMaps ==
  ASSUME IInv, IInv', NEW w \in Workers, LockLoad(w) \/ ReadLoad(w)
  PROVE  UNCHANGED Register!vars
<1> USE DEF IInv
<1>1. /\ pc[w] \in {"lockLoad", "readLoad"} /\ op'[w] = op[w]
      /\ value' = value /\ buf' = buf
      /\ pc'[w] \in {"lockLoad", "lockCas", "readLoad", "copy"}
      /\ pc'[w] = "copy" => op[w] = "read" /\ EnableLockFreeReading
      /\ op[w] \in {"read", "write"}
  BY DEF LockLoad, ReadLoad, LoadLock, Goto, TypeOK, WorkerInv, CallFits
<1>2. \A v \in Workers \ {w} : Untouched(v)
  BY DEF LockLoad, ReadLoad, LoadLock, Goto, TypeOK, Untouched
<1>3. ~Holds(w) /\ ~Holds(w)'
  BY <1>1 DEF Holds
<1>4. /\ StatusOf(w)' = StatusOf(w) /\ ArgumentOf(w)' = ArgumentOf(w)
      /\ ResultOf(w)' = ResultOf(w)
  BY <1>1, <1>3 DEF StatusOf, ArgumentOf, ResultOf
<1>5. CurrentValue' = CurrentValue
  BY <1>1, <1>2, <1>3, CurrentFrame DEF Untouched, Holds
<1> QED
  BY <1>2, <1>4, <1>5, Stutters

\* A lock-free read takes effect as its copy is accepted.
LEMMA CheckMaps ==
  ASSUME IInv, IInv', NEW w \in Workers, Check(w)
  PROVE  Register!Read(w) \/ UNCHANGED Register!vars
<1> USE DEF IInv
<1>1. /\ pc[w] = "check" /\ op'[w] = op[w] /\ op[w] = "read"
      /\ EnableLockFreeReading /\ value' = value /\ buf' = buf
      /\ ~IsOdd(tmpLock[w]) /\ left[w] = {}
  BY DEF Check, TypeOK, WorkerInv, CallFits, LoadFits
<1>2. \A v \in Workers \ {w} : Untouched(v)
  BY DEF Check, LoadLock, Goto, TypeOK, Untouched
<1>3. ~Holds(w)
  BY <1>1 DEF Holds
<1>4. pc'[w] \in {"idle", "readLoad", "copy"}
  BY DEF Check, Goto, TypeOK
<1>5. ~Holds(w)'
  BY <1>1, <1>4 DEF Holds
<1>6. CurrentValue' = CurrentValue
  BY <1>1, <1>2, <1>3, <1>5, CurrentFrame DEF Untouched, Holds
<1>7. ArgumentOf(w)' = ArgumentOf(w)
  BY <1>1 DEF ArgumentOf
<1>8. CASE seqlock = tmpLock[w]
  <2>1. pc'[w] = "idle"
    BY <1>8 DEF Check, Goto, TypeOK
  <2>2. {v \in Workers : Holds(v) /\ op[v] = "write"} = {}
    BY <1>1, <1>8 DEF LockExcludes
  <2>3. buf[w] = CurrentValue
    <3>1. \A k \in Words : buf[w][k] = value[k]
      BY <1>1, <1>8 DEF WorkerInv, WordsMatch
    <3>2. buf[w] \in Values /\ value \in Values
      BY DEF TypeOK
    <3> QED
      BY <2>2, <3>1, <3>2 DEF CurrentValue, Values
  <2>4. /\ StatusOf(w) = "reading" /\ StatusOf(w)' = "idle"
        /\ ResultOf(w)' = CurrentValue
    BY <1>1, <1>3, <2>1, <2>3 DEF StatusOf, ResultOf
  <2>5. [v \in Workers |-> ArgumentOf(v)]' = [v \in Workers |-> ArgumentOf(v)]
    BY <1>2, <1>7, MapFrame
  <2> QED
    BY <1>2, <1>6, <2>4, <2>5, MapFrame DEF Register!Read, Register!Moves
<1>9. CASE seqlock # tmpLock[w]
  <2>1. pc'[w] \in {"readLoad", "copy"}
    BY <1>9 DEF Check, Goto, TypeOK
  <2>2. StatusOf(w)' = StatusOf(w) /\ ResultOf(w)' = ResultOf(w)
    BY <1>1, <1>3, <1>5, <2>1 DEF StatusOf, ResultOf
  <2> QED
    BY <1>2, <1>6, <1>7, <2>2, Stutters
<1> QED
  BY <1>8, <1>9

\* A locked read takes effect with the last word of its copy.
LEMMA CopyOutMaps ==
  ASSUME IInv, IInv', NEW w \in Workers, NEW k \in Words, CopyOut(w, k)
  PROVE  Register!Read(w) \/ UNCHANGED Register!vars
<1> USE DEF IInv
<1>1. /\ MoveWord(w, k) /\ op[w] = "read" /\ value' = value /\ op'[w] = "read"
      /\ pc[w] = "copy" /\ left[w] # {}
  BY MoveWordGoes DEF CopyOut
<1>2. \A v \in Workers \ {w} : Untouched(v)
  <2>1. \A v \in Workers \ {w} : buf'[v] = buf[v]
    BY DEF CopyOut, TypeOK
  <2> QED
    BY <1>1, <2>1, MoveWordGoes DEF Untouched
<1>3. Holds(w)' <=> Holds(w)
  BY <1>1, MoveWordGoes DEF Holds
<1>4. CurrentValue' = CurrentValue
  BY <1>1, <1>2, <1>3, CurrentFrame DEF Untouched, Holds
<1>5. ArgumentOf(w)' = ArgumentOf(w) /\ StatusOf(w) = "reading"
      /\ ResultOf(w) = NoValue
  BY <1>1 DEF ArgumentOf, StatusOf, ResultOf
<1>6. CASE Holds(w) /\ left'[w] = {}
  <2>1. pc'[w] = "unlockLoad" /\ Holds(w)'
    BY <1>1, <1>3, <1>6, MoveWordGoes DEF Holds
  <2>2. {v \in Workers : Holds(v) /\ op[v] = "write"}' = {}
    BY <1>1, <2>1 DEF LockExcludes, Holds
  <2>3. buf'[w] = CurrentValue'
    <3>1. \A j \in Words : buf'[w][j] = value'[j]
      BY <1>6, <2>1 DEF WorkerInv, WordsMatch
    <3>2. buf'[w] \in Values /\ value' \in Values
      BY DEF TypeOK
    <3> QED
      BY <2>2, <3>1, <3>2 DEF CurrentValue, Values
  <2>4. StatusOf(w)' = "idle" /\ ResultOf(w)' = CurrentValue
    BY <1>1, <1>4, <1>6, <2>1, <2>3 DEF StatusOf, ResultOf
  <2>5. [v \in Workers |-> ArgumentOf(v)]' = [v \in Workers |-> ArgumentOf(v)]
    BY <1>2, <1>5, MapFrame
  <2> QED
    BY <1>2, <1>4, <1>5, <2>4, <2>5, MapFrame DEF Register!Read, Register!Moves
<1>7. CASE ~(Holds(w) /\ left'[w] = {})
  <2>1. pc'[w] # "idle"
    BY <1>1, MoveWordGoes
  <2>2. StatusOf(w)' = "reading" /\ ResultOf(w)' = NoValue
    BY <1>1, <1>3, <1>7, <2>1 DEF StatusOf, ResultOf
  <2> QED
    BY <1>2, <1>4, <1>5, <2>2, Stutters
<1> QED
  BY <1>6, <1>7

LEMMA CopyInMaps ==
  ASSUME IInv, IInv', NEW w \in Workers, NEW k \in Words, CopyIn(w, k)
  PROVE  UNCHANGED Register!vars
<1> USE DEF IInv
<1>1. /\ MoveWord(w, k) /\ op[w] = "write" /\ buf' = buf /\ op'[w] = "write"
      /\ pc[w] = "copy" /\ pc'[w] # "idle"
  BY MoveWordGoes DEF CopyIn
<1>2. \A v \in Workers \ {w} : Untouched(v)
  BY <1>1, MoveWordGoes DEF Untouched
<1>3. Holds(w) /\ Holds(w)'
  BY <1>1, MoveWordGoes DEF Holds
<1>4. /\ StatusOf(w)' = StatusOf(w) /\ ArgumentOf(w)' = ArgumentOf(w)
      /\ ResultOf(w)' = ResultOf(w)
  BY <1>1, <1>3 DEF StatusOf, ArgumentOf, ResultOf
<1>5. CurrentValue' = CurrentValue
  BY <1>1, <1>3, CurrentHeld, CurrentHeldNext
<1> QED
  BY <1>2, <1>4, <1>5, Stutters

LEMMA UnlockLoadMaps ==
  ASSUME IInv, IInv', NEW w \in Workers, UnlockLoad(w)
  PROVE  UNCHANGED Register!vars
<1> USE DEF IInv
<1>1. /\ pc[w] = "unlockLoad" /\ pc'[w] = "unlockStore" /\ op'[w] = op[w]
      /\ value' = value /\ buf' = buf /\ left' = left
  BY DEF UnlockLoad, Goto, TypeOK
<1>2. \A v \in Workers \ {w} : Untouched(v)
  BY DEF UnlockLoad, LoadLock, Goto, TypeOK, Untouched
<1>3. Holds(w) /\ Holds(w)'
  BY <1>1 DEF Holds
<1>4. /\ StatusOf(w)' = StatusOf(w) /\ ArgumentOf(w)' = ArgumentOf(w)
      /\ ResultOf(w)' = ResultOf(w)
  BY <1>1, <1>3 DEF StatusOf, ArgumentOf, ResultOf
<1>5. CurrentValue' = CurrentValue
  BY <1>1, <1>2, <1>3, CurrentFrame DEF Untouched, Holds
<1> QED
  BY <1>2, <1>4, <1>5, Stutters

\* A writer lets go of the pair with its whole value in it.
LEMMA UnlockStoreMaps ==
  ASSUME IInv, IInv', NEW w \in Workers, UnlockStore(w)
  PROVE  Register!EndWrite(w) \/ UNCHANGED Register!vars
<1> USE DEF IInv
<1>1. /\ pc[w] = "unlockStore" /\ pc'[w] = "idle" /\ op'[w] = op[w]
      /\ value' = value /\ buf' = buf /\ left[w] = {}
      /\ op[w] \in {"read", "write"}
  BY DEF UnlockStore, Goto, TypeOK, WorkerInv, CallFits
<1>2. \A v \in Workers \ {w} : Untouched(v)
  BY DEF UnlockStore, Goto, TypeOK, Untouched
<1>3. Holds(w) /\ ~Holds(w)'
  BY <1>1 DEF Holds
<1>4. CASE op[w] = "write"
  <2>1. {v \in Workers : Holds(v) /\ op[v] = "write"}' = {}
    BY <1>2, <1>3 DEF LockExcludes, Untouched, Holds
  <2>2. value = buf[w]
    BY <1>1, <1>3 DEF WorkerInv, WordsMatch, TypeOK, Values
  <2>3. CurrentValue' = CurrentValue
    BY <1>1, <1>3, <1>4, <2>1, <2>2, CurrentHeld DEF CurrentValue
  <2>4. /\ StatusOf(w) = "written" /\ StatusOf(w)' = "idle"
        /\ ArgumentOf(w)' = NoValue
        /\ ResultOf(w) = NoValue /\ ResultOf(w)' = NoValue
    BY <1>1, <1>3, <1>4 DEF StatusOf, ArgumentOf, ResultOf
  <2>5. [v \in Workers |-> ResultOf(v)]' = [v \in Workers |-> ResultOf(v)]
    BY <1>2, <2>4, MapFrame
  <2> QED
    BY <1>2, <2>3, <2>4, <2>5, MapFrame DEF Register!EndWrite, Register!Moves
<1>5. CASE op[w] = "read"
  <2>1. /\ StatusOf(w)' = StatusOf(w) /\ ArgumentOf(w)' = ArgumentOf(w)
        /\ ResultOf(w)' = ResultOf(w)
    BY <1>1, <1>3, <1>5 DEF StatusOf, ArgumentOf, ResultOf
  <2>2. CurrentValue' = CurrentValue
    BY <1>1, <1>2, <1>5, CurrentFrame DEF Untouched, Holds
  <2> QED
    BY <1>2, <2>1, <2>2, Stutters
<1> QED
  BY <1>1, <1>4, <1>5

LEMMA StepMaps == IInv /\ IInv' /\ [Next]_vars => [Register!Next]_Register!vars
<1> SUFFICES ASSUME IInv, IInv', [Next]_vars
             PROVE  Register!Next \/ UNCHANGED Register!vars
  OBVIOUS
<1>1. CASE UNCHANGED vars
  BY <1>1 DEF vars, Register!vars, StatusOf, ArgumentOf, ResultOf, Holds,
              CurrentValue
<1>2. ASSUME NEW w \in Workers, BeginWrite(w)
      PROVE  Register!Next
  BY <1>2, BeginWriteMaps DEF Register!Next
<1>3. ASSUME NEW w \in Workers, BeginRead(w)
      PROVE  Register!Next
  BY <1>3, BeginReadMaps DEF Register!Next
<1>4. ASSUME NEW w \in Workers, Runs(w)
      PROVE  Register!Next \/ UNCHANGED Register!vars
  BY <1>4, LoadMaps, LockCasMaps, CheckMaps, CopyOutMaps, CopyInMaps,
     UnlockLoadMaps, UnlockStoreMaps
     DEF Runs, Register!Next
<1> QED
  BY <1>1, <1>2, <1>3, <1>4 DEF Next

\* A pair of the store is an atomic register for any number of workers and
\* any size of value, with lock-free reads and with locked ones.
THEOREM PairIsARegister == Spec => ImplementsRegister
BY RegisterInit, StepMaps, Invariance, PTL
   DEF Spec, ImplementsRegister, Register!Spec
=============================================================================
