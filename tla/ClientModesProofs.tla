-------------------------- MODULE ClientModesProofs --------------------------
(***************************************************************************)
(* What the clients of the store rely on and promise, for any number of    *)
(* machines, sessions, nodes and rounds.                                   *)
(*                                                                         *)
(* The ring: there is one turn, and whatever a machine may read at its     *)
(* turn is what the machine before has written or released.  The stacks    *)
(* and the queues: each node is in one place, a compare-and-swap that      *)
(* succeeds has compared what has not changed since it was read, and so    *)
(* they change by whole pushes, pops, enqueues and dequeues.               *)
(***************************************************************************)
EXTENDS ClientModes, SumTheorems

----------------------------------------------------------------------------
(* The ring.                                                               *)

\* The machine before, without a modulus.
LEMMA Previous ==
  ASSUME NEW m \in Machines
  PROVE  PrevMachine(m) = IF m = 0 THEN MachineNum - 1 ELSE m - 1
<1>1. MachineNum \in Nat \ {0} /\ m \in 0..(MachineNum - 1)
  BY MachineAssumption DEF Machines
<1>2. CASE m = 0
  BY <1>1, <1>2 DEF PrevMachine
<1>3. CASE m # 0
  <2>1. PICK q \in Nat : q = m - 1 /\ q < MachineNum
    BY <1>1, <1>3
  <2>2. MachineNum + m - 1 = MachineNum + q
    BY <1>1, <2>1
  <2>3. (MachineNum + q) % MachineNum = q
    BY <1>1, <2>1
  <2> QED
    BY <1>3, <2>1, <2>2, <2>3 DEF PrevMachine
<1> QED
  BY <1>2, <1>3

\* The machine after.
LEMMA Following ==
  ASSUME NEW m \in Machines
  PROVE  NextMachine(m) = IF m = MachineNum - 1 THEN 0 ELSE m + 1
BY MachineAssumption DEF Machines, NextMachine

\* Every machine has one before it, after which it comes, and no two have the
\* same.
LEMMA Ring ==
  ASSUME NEW m \in Machines
  PROVE  /\ PrevMachine(m) \in Machines /\ NextMachine(m) \in Machines
         /\ NextMachine(PrevMachine(m)) = m /\ PrevMachine(NextMachine(m)) = m
<1>1. MachineNum \in Nat \ {0} /\ m \in 0..(MachineNum - 1)
  BY MachineAssumption DEF Machines
<1>2. PrevMachine(m) \in Machines
  BY <1>1, Previous DEF Machines
<1>3. NextMachine(m) \in Machines
  BY <1>1, Following DEF Machines
<1>4. NextMachine(PrevMachine(m)) = m
  BY <1>1, <1>2, Previous, Following
<1>5. PrevMachine(NextMachine(m)) = m
  BY <1>1, <1>3, Previous, Following
<1> QED
  BY <1>2, <1>3, <1>4, <1>5

----------------------------------------------------------------------------
(* The store.                                                              *)

Views(K) == {NoView} \cup [K -> Nat]
Entries(K) == [value : Nat, view : Views(K)]

\* A view points into the values that have been written.
ViewFits(view) == \A j \in DOMAIN view : view[j] \in 1..Len(written[j])

StoreOK(K) ==
  /\ written \in [K -> Seq(Entries(K))]
  /\ seen \in [Machines -> [K -> Nat]]
  /\ \A m \in Machines, k \in K : seen[m][k] \in 1..Len(written[k])
  /\ \A k \in K : \A i \in 1..Len(written[k]) : ViewFits(written[k][i].view)

LastView(k) == written[k][Len(written[k])].view

\* m knows all that has been written of k: a relaxed read has no choice.
SeesLast(m, k) == seen[m][k] = Len(written[k])

\* What m may then read.
LEMMA ReadsLast ==
  ASSUME NEW K, StoreOK(K), NEW m \in Machines, NEW k \in K, SeesLast(m, k)
  PROVE  Readable(m, k) = {Len(written[k])} /\ ReadableValues(m, k) = {Last(k)}
<1>1. Len(written[k]) \in Nat
  BY DEF StoreOK
<1>2. Readable(m, k) = {Len(written[k])}
  BY <1>1 DEF SeesLast, Readable
<1> QED
  BY <1>2 DEF ReadableValues, Last

\* A write, relaxed or released.
LEMMA PutStore ==
  ASSUME NEW K, StoreOK(K), NEW m \in Machines, NEW k \in K, NEW v \in Nat,
         NEW view \in Views(K), ViewFits(view), Put(m, k, v, view)
  PROVE  /\ StoreOK(K)'
         /\ Last(k)' = v /\ LastView(k)' = view /\ SeesLast(m, k)'
         /\ Len(written'[k]) = Len(written[k]) + 1
         /\ \A i \in 1..Len(written[k]) : written'[k][i] = written[k][i]
         /\ \A j \in K : j # k => written'[j] = written[j]
         /\ \A n \in Machines, j \in K :
              <<n, j>> # <<m, k>> => seen'[n][j] = seen[n][j]
<1>1. PICK e : e = [value |-> v, view |-> view]
  OBVIOUS
<1>2. e \in Entries(K) /\ e.value = v /\ e.view = view
  BY <1>1 DEF Entries
<1>3. PICK s \in Seq(Entries(K)) : s = written[k]
  BY DEF StoreOK
<1>4. written' = [written EXCEPT ![k] = Append(s, e)]
  BY <1>1, <1>3 DEF Put
<1>5. PICK n \in Nat : n = Len(s)
  BY <1>3
<1>6. seen' = [seen EXCEPT ![m] = [seen[m] EXCEPT ![k] = n + 1]]
  BY <1>3, <1>5 DEF Put
<1>7. PICK t : t = Append(s, e)
  OBVIOUS
<1>8. /\ t \in Seq(Entries(K)) /\ Len(t) = n + 1 /\ t[n + 1] = e
      /\ \A i \in 1..n : t[i] = s[i]
  BY <1>2, <1>3, <1>5, <1>7
<1>9. /\ written' \in [K -> Seq(Entries(K))] /\ written'[k] = t
      /\ \A j \in K : j # k => written'[j] = written[j]
  BY <1>4, <1>7, <1>8 DEF StoreOK
<1>10. /\ seen' \in [Machines -> [K -> Nat]] /\ seen'[m][k] = n + 1
       /\ \A o \in Machines, j \in K : <<o, j>> # <<m, k>> => seen'[o][j] = seen[o][j]
  BY <1>5, <1>6 DEF StoreOK
<1>11. \A j \in K : Len(written[j]) \in Nat /\ Len(written'[j]) \in Nat
                    /\ Len(written[j]) <= Len(written'[j])
  <2> SUFFICES ASSUME NEW j \in K
               PROVE  Len(written[j]) \in Nat /\ Len(written'[j]) \in Nat
                      /\ Len(written[j]) <= Len(written'[j])
    OBVIOUS
  <2>1. Len(written[j]) \in Nat
    BY DEF StoreOK
  <2>2. CASE j = k
    BY <1>3, <1>5, <1>8, <1>9, <2>1, <2>2
  <2>3. CASE j # k
    BY <1>9, <2>1, <2>3
  <2> QED
    BY <2>2, <2>3
<1>12. \A o \in Machines, j \in K : seen'[o][j] \in 1..Len(written'[j])
  <2> SUFFICES ASSUME NEW o \in Machines, NEW j \in K
               PROVE  seen'[o][j] \in 1..Len(written'[j])
    OBVIOUS
  <2>1. CASE <<o, j>> = <<m, k>>
    BY <1>5, <1>8, <1>9, <1>10, <2>1
  <2>2. CASE <<o, j>> # <<m, k>>
    <3>1. seen[o][j] \in 1..Len(written[j])
      BY DEF StoreOK
    <3> QED
      BY <1>10, <1>11, <2>2, <3>1
  <2> QED
    BY <2>1, <2>2
<1>13. ASSUME NEW x \in Views(K), ViewFits(x) PROVE ViewFits(x)'
  <2> SUFFICES ASSUME NEW j \in DOMAIN x PROVE x[j] \in 1..Len(written'[j])
    BY DEF ViewFits
  <2>1. j \in K
    BY DEF Views, NoView
  <2>2. x[j] \in 1..Len(written[j])
    BY <1>13 DEF ViewFits
  <2> QED
    BY <1>11, <2>1, <2>2
<1>14. \A j \in K : \A i \in 1..Len(written'[j]) :
         \A l \in DOMAIN written'[j][i].view :
           written'[j][i].view[l] \in 1..Len(written'[l])
  <2> SUFFICES ASSUME NEW j \in K, NEW i \in 1..Len(written'[j])
               PROVE  \A l \in DOMAIN written'[j][i].view :
                        written'[j][i].view[l] \in 1..Len(written'[l])
    OBVIOUS
  <2>0. \A l \in K : \A a \in 1..Len(written[l]) :
          written[l][a].view \in Views(K) /\ ViewFits(written[l][a].view)
    <3> SUFFICES ASSUME NEW l \in K, NEW a \in 1..Len(written[l])
                 PROVE  written[l][a].view \in Views(K) /\ ViewFits(written[l][a].view)
      OBVIOUS
    <3>1. written[l] \in Seq(Entries(K)) /\ ViewFits(written[l][a].view)
      BY DEF StoreOK
    <3>2. written[l][a] \in Entries(K)
      BY <3>1
    <3> QED
      BY <3>1, <3>2 DEF Entries
  <2>1. PICK x : x = written'[j][i].view
    OBVIOUS
  <2>2. x \in Views(K) /\ ViewFits(x)
    <3>1. CASE j # k
      BY <1>9, <2>0, <2>1, <3>1
    <3>2. CASE j = k /\ i = n + 1
      BY <1>2, <1>8, <1>9, <2>1, <3>2
    <3>3. CASE j = k /\ i # n + 1
      <4>1. i \in 1..n
        BY <1>5, <1>8, <1>9, <3>3
      <4>2. written'[j][i] = written[k][i]
        BY <1>3, <1>8, <1>9, <3>3, <4>1
      <4> QED
        BY <1>3, <1>5, <2>0, <2>1, <4>1, <4>2
    <3> QED
      BY <3>1, <3>2, <3>3
  <2>3. ViewFits(x)'
    BY <1>13, <2>2
  <2> QED
    BY <2>1, <2>3 DEF ViewFits
<1>15. StoreOK(K)'
  BY <1>9, <1>10, <1>12, <1>14 DEF StoreOK, ViewFits
<1>16. Last(k)' = v /\ LastView(k)' = view /\ SeesLast(m, k)'
  BY <1>2, <1>8, <1>9, <1>10 DEF Last, LastView, SeesLast
<1> QED
  BY <1>3, <1>5, <1>8, <1>9, <1>10, <1>15, <1>16

\* What a release makes visible is within what has been written.
LEMMA OwnViewFits ==
  ASSUME NEW K, StoreOK(K), NEW m \in Machines
  PROVE  seen[m] \in Views(K) /\ ViewFits(seen[m])
BY DEF StoreOK, Views, ViewFits

\* Nor does a relaxed write make anything visible.
LEMMA NoViewFits == ASSUME NEW K PROVE NoView \in Views(K) /\ ViewFits(NoView)
BY DEF Views, ViewFits, NoView

\* A relaxed read.
LEMMA ReadStore ==
  ASSUME NEW K, StoreOK(K), NEW m \in Machines, NEW k \in K, NEW i \in Readable(m, k),
         ReadFrom(m, k, i)
  PROVE  /\ StoreOK(K)' /\ written' = written
         /\ SeesLast(m, k) => SeesLast(m, k)'
         /\ \A n \in Machines, j \in K :
              <<n, j>> # <<m, k>> => seen'[n][j] = seen[n][j]
<1>1. seen[m][k] \in 1..Len(written[k]) /\ Len(written[k]) \in Nat
  BY DEF StoreOK
<1>2. i \in 1..Len(written[k]) /\ i \in Nat /\ (SeesLast(m, k) => i = Len(written[k]))
  BY <1>1 DEF Readable, SeesLast
<1>3. written' = written /\ seen' = [seen EXCEPT ![m] = [seen[m] EXCEPT ![k] = i]]
  BY DEF ReadFrom
<1>4. /\ seen' \in [Machines -> [K -> Nat]] /\ seen'[m][k] = i
      /\ \A n \in Machines, j \in K : <<n, j>> # <<m, k>> => seen'[n][j] = seen[n][j]
  BY <1>2, <1>3 DEF StoreOK
<1>5. StoreOK(K)'
  <2>1. \A n \in Machines, j \in K : seen'[n][j] \in 1..Len(written[j])
    <3>1. TAKE n \in Machines, j \in K
    <3>2. seen[n][j] \in 1..Len(written[j])
      BY DEF StoreOK
    <3> QED
      BY <1>2, <1>4, <3>2
  <2>2. (\A j \in K : \A l \in 1..Len(written[j]) : ViewFits(written[j][l].view))'
    <3>1. \A j \in K : \A l \in 1..Len(written[j]) : ViewFits(written[j][l].view)
      BY DEF StoreOK
    <3> QED
      BY <1>3, <3>1 DEF ViewFits
  <2>3. written' \in [K -> Seq(Entries(K))]
    BY <1>3 DEF StoreOK
  <2> QED
    BY <1>3, <1>4, <2>1, <2>2, <2>3 DEF StoreOK
<1> QED
  BY <1>2, <1>3, <1>4, <1>5 DEF SeesLast

\* An acquire.
LEMMA AcquireStore ==
  ASSUME NEW K, StoreOK(K), NEW m \in Machines, NEW k \in K, Acquire(m, k)
  PROVE  /\ StoreOK(K)' /\ written' = written
         /\ \A j \in K : SeesLast(m, j) => SeesLast(m, j)'
         /\ \A j \in K : j \in DOMAIN LastView(k) /\ LastView(k)[j] = Len(written[j])
                           => SeesLast(m, j)'
         /\ \A n \in Machines : n # m => seen'[n] = seen[n]
<1>1. PICK view : view = LastView(k)
  OBVIOUS
<1> DEFINE Joined(i, j) == IF j \in DOMAIN view /\ view[j] > i THEN view[j] ELSE i
           row == [j \in K |-> IF j = k THEN Len(written[k]) ELSE Joined(seen[m][j], j)]
<1>2. written' = written /\ seen' = [seen EXCEPT ![m] = row]
  BY <1>1 DEF Acquire, LastView, StoreOK
<1>3. \A j \in K : seen[m][j] \in 1..Len(written[j]) /\ Len(written[j]) \in Nat
  BY DEF StoreOK
<1>4. Len(written[k]) \in 1..Len(written[k])
  BY <1>3
<1>5. ViewFits(view)
  BY <1>1, <1>4 DEF StoreOK, LastView
<1>6. \A j \in K :
        /\ row[j] \in 1..Len(written[j])
        /\ seen[m][j] = Len(written[j]) => row[j] = Len(written[j])
        /\ j \in DOMAIN view /\ view[j] = Len(written[j]) => row[j] = Len(written[j])
  <2> SUFFICES ASSUME NEW j \in K
               PROVE  /\ row[j] \in 1..Len(written[j])
                      /\ seen[m][j] = Len(written[j]) => row[j] = Len(written[j])
                      /\ j \in DOMAIN view /\ view[j] = Len(written[j])
                           => row[j] = Len(written[j])
    OBVIOUS
  <2>1. CASE j = k
    BY <1>4, <2>1
  <2>2. CASE j # k /\ j \in DOMAIN view
    BY <1>3, <1>5, <2>2 DEF ViewFits
  <2>3. CASE j # k /\ j \notin DOMAIN view
    BY <1>3, <2>3
  <2> QED
    BY <2>1, <2>2, <2>3
<1>7. row \in [K -> Nat]
  BY <1>3, <1>6
<1> HIDE DEF row
<1>8. /\ seen' \in [Machines -> [K -> Nat]] /\ seen'[m] = row
      /\ \A n \in Machines : n # m => seen'[n] = seen[n]
  BY <1>2, <1>7 DEF StoreOK
<1>9. \A n \in Machines, j \in K : seen'[n][j] \in 1..Len(written'[j])
  BY <1>2, <1>6, <1>8 DEF StoreOK
<1>10. StoreOK(K)'
  BY <1>2, <1>8, <1>9 DEF StoreOK, ViewFits
<1> QED
  BY <1>1, <1>2, <1>6, <1>8, <1>10 DEF SeesLast

\* What a write leaves as it was.
LEMMA PutElsewhere ==
  ASSUME NEW K, StoreOK(K), NEW m \in Machines, NEW k \in K, NEW v \in Nat,
         NEW view \in Views(K), ViewFits(view), Put(m, k, v, view)
  PROVE  \A j \in K : j # k =>
           /\ Last(j)' = Last(j) /\ LastView(j)' = LastView(j)
           /\ Len(written'[j]) = Len(written[j])
           /\ \A n \in Machines : SeesLast(n, j)' <=> SeesLast(n, j)
<1> SUFFICES ASSUME NEW j \in K, j # k
             PROVE  /\ Last(j)' = Last(j) /\ LastView(j)' = LastView(j)
                    /\ Len(written'[j]) = Len(written[j])
                    /\ \A n \in Machines : SeesLast(n, j)' <=> SeesLast(n, j)
  OBVIOUS
<1>1. written'[j] = written[j] /\ \A n \in Machines : seen'[n][j] = seen[n][j]
  BY PutStore
<1> QED
  BY <1>1 DEF Last, LastView, SeesLast

\* What does not write leaves all values.
LEMMA SameValues ==
  ASSUME written' = written
  PROVE  \A j : Last(j)' = Last(j) /\ LastView(j)' = LastView(j)
BY DEF Last, LastView

----------------------------------------------------------------------------
(* The turn.                                                               *)

CircSteps == {"kick", "acquire", "read", "write", "reset", "release"}

CircShape ==
  /\ step \in [Machines -> CircSteps]
  /\ index \in [Machines -> 1..RelaxedWrites]

\* The flags of the machines in F are raised, the others are not.
Raised(F) == \A m \in Machines : Last(Flag(m)) = IF m \in F THEN 1 ELSE 0

\* The first n keys have been written by m, and nobody after it.
Wrote(m, n) == \A j \in 1..n : Last(Item(j)) = m /\ SeesLast(m, Item(j))

\* All keys have been written by the machine before m, and m knows.
MayRead(m) ==
  \A j \in 1..RelaxedWrites : Last(Item(j)) = PrevMachine(m) /\ SeesLast(m, Item(j))

\* m has the turn.  The flag that it has acquired is raised until it resets it.
HoldsTurn(m) ==
  /\ step[m] # "acquire" /\ \A n \in Machines : n # m => step[n] = "acquire"
  /\ Raised(IF step[m] \in {"read", "write", "reset"} THEN {PrevMachine(m)} ELSE {})
  /\ step[m] = "read" => MayRead(m)
  /\ step[m] \in {"kick", "write"} => Wrote(m, index[m] - 1)
  /\ step[m] \in {"reset", "release"} => Wrote(m, RelaxedWrites)

\* m has passed the turn on: whoever acquires its flag sees what it has written.
OffersTurn(m) ==
  /\ \A n \in Machines : step[n] = "acquire"
  /\ Raised({m})
  /\ \A j \in 1..RelaxedWrites :
       /\ Last(Item(j)) = m
       /\ Item(j) \in DOMAIN LastView(Flag(m))
       /\ LastView(Flag(m))[Item(j)] = Len(written[Item(j)])

CircInv == CircShape /\ \E m \in Machines : HoldsTurn(m) \/ OffersTurn(m)

\* Who is past the acquire has the turn.
LEMMA ActorHoldsTurn ==
  ASSUME CircInv, NEW m \in Machines, step[m] # "acquire"
  PROVE  HoldsTurn(m)
BY DEF CircInv, HoldsTurn, OffersTurn

\* The keys.
LEMMA CircKeysApart ==
  /\ \A m \in Machines : Flag(m) \in CircKeys
  /\ \A i \in 1..RelaxedWrites : Item(i) \in CircKeys
  /\ \A m, i : Flag(m) # Item(i)
  /\ \A m, n : m # n => Flag(m) # Flag(n)
  /\ \A i, j : i # j => Item(i) # Item(j)
BY DEF CircKeys, Flag, Item

\* Machines and flags as numbers.
LEMMA RingNumbers ==
  /\ Machines \subseteq Nat /\ MachineNum \in Nat \ {0}
  /\ RelaxedWrites \in Nat \ {0} /\ 0 \in Machines
BY MachineAssumption, CircularAssumption DEF Machines

\* In a loop over the keys.
LEMMA Advances ==
  ASSUME CircShape, NEW m \in Machines, NEW st \in CircSteps, Advance(m, st)
  PROVE  /\ CircShape'
         /\ \A n \in Machines : n # m => step'[n] = step[n]
         /\ index[m] = RelaxedWrites => step'[m] = st
         /\ index[m] # RelaxedWrites => step'[m] = step[m] /\ index'[m] = index[m] + 1
         /\ index[m] = RelaxedWrites => index'[m] = 1
<1>1. index[m] \in 1..RelaxedWrites /\ RelaxedWrites \in Nat \ {0}
  BY RingNumbers DEF CircShape
<1>2. PICK a : a = IF index[m] = RelaxedWrites THEN 1 ELSE index[m] + 1
  OBVIOUS
<1>3. a \in 1..RelaxedWrites
  BY <1>1, <1>2
<1>4. PICK b : b = IF index[m] = RelaxedWrites THEN st ELSE step[m]
  OBVIOUS
<1>5. b \in CircSteps
  BY <1>4 DEF CircShape
<1>6. index' = [index EXCEPT ![m] = a] /\ step' = [step EXCEPT ![m] = b]
  BY <1>2, <1>4 DEF Advance
<1> QED
  BY <1>2, <1>3, <1>4, <1>5, <1>6 DEF CircShape

\* A key is written, before a flag is raised or while one is.
LEMMA WritesKey ==
  ASSUME NEW K, StoreOK(K), CircKeys \subseteq K, CircInv, NEW m \in Machines,
         step[m] \in {"kick", "write"},
         NEW st \in CircSteps, Write(m, Item(index[m]), m), Advance(m, st),
         st = IF step[m] = "kick" THEN "release" ELSE "reset"
  PROVE  StoreOK(K)' /\ CircInv'
<1>1. HoldsTurn(m)
  BY ActorHoldsTurn
<1>2. PICK i \in 1..RelaxedWrites : i = index[m]
  BY DEF CircInv, CircShape
<1>3. Item(i) \in K /\ m \in Nat /\ RelaxedWrites \in Nat
  BY CircKeysApart, RingNumbers
<1>4. NoView \in Views(K) /\ ViewFits(NoView) /\ Put(m, Item(i), m, NoView)
  BY <1>2, NoViewFits DEF Write
<1>5. StoreOK(K)' /\ Last(Item(i))' = m /\ SeesLast(m, Item(i))'
  BY <1>3, <1>4, PutStore
<1>6. \A k \in K : k # Item(i) =>
        Last(k)' = Last(k) /\ (SeesLast(m, k)' <=> SeesLast(m, k))
  BY <1>3, <1>4, PutElsewhere
<1>7. /\ CircShape' /\ \A n \in Machines : n # m => step'[n] = step[n]
      /\ i = RelaxedWrites => step'[m] = st
      /\ i # RelaxedWrites => step'[m] = step[m] /\ index'[m] = i + 1
  BY <1>2, Advances DEF CircInv
<1>8. Wrote(m, i)'
  <2>1. \A j \in 1..(i - 1) : Last(Item(j)) = m /\ SeesLast(m, Item(j))
    BY <1>1, <1>2 DEF HoldsTurn, Wrote
  <2>2. \A j \in 1..(i - 1) : Item(j) \in K /\ Item(j) # Item(i)
    BY <1>3, CircKeysApart
  <2>3. \A j \in 1..i : j = i \/ j \in 1..(i - 1)
    BY <1>3
  <2> QED
    BY <1>5, <1>6, <2>1, <2>2, <2>3 DEF Wrote
<1>9. \A n \in Machines : Last(Flag(n))' = Last(Flag(n))
  BY <1>6, CircKeysApart
<1>10. HoldsTurn(m)'
  <2>1. /\ step'[m] # "acquire" /\ step'[m] # "read"
        /\ \A n \in Machines : n # m => step'[n] = "acquire"
        /\ step'[m] \in {"read", "write", "reset"} <=> step[m] \in {"read", "write", "reset"}
    BY <1>1, <1>7 DEF HoldsTurn
  <2>2. Raised(IF step[m] \in {"read", "write", "reset"} THEN {PrevMachine(m)} ELSE {})'
    BY <1>1, <1>9, <2>1 DEF HoldsTurn, Raised
  <2>3. /\ step'[m] \in {"kick", "write"} => Wrote(m, index[m] - 1)'
        /\ step'[m] \in {"reset", "release"} => Wrote(m, RelaxedWrites)'
    <3>1. CASE i = RelaxedWrites
      BY <1>7, <1>8, <3>1
    <3>2. CASE i # RelaxedWrites
      <4>1. index'[m] - 1 = i
        BY <1>3, <1>7, <3>2
      <4> QED
        BY <1>7, <1>8, <3>2, <4>1 DEF Wrote
    <3> QED
      BY <3>1, <3>2
  <2> QED
    BY <2>1, <2>2, <2>3 DEF HoldsTurn, Raised
<1> QED
  BY <1>5, <1>7, <1>10 DEF CircInv

\* A machine looks at the flag of the one before it.
LEMMA AcquiresFlag ==
  ASSUME NEW K, StoreOK(K), CircKeys \subseteq K, CircInv, NEW m \in Machines,
         AcquireFlag(m)
  PROVE  StoreOK(K)' /\ CircInv'
<1>1. PICK p \in Machines : p = PrevMachine(m) /\ Flag(p) \in K
  BY Ring, CircKeysApart
<1>2. /\ step[m] = "acquire" /\ Acquire(m, Flag(p)) /\ index' = index
      /\ step' = [step EXCEPT ![m] = IF Last(Flag(p)) = 1 THEN "read" ELSE "acquire"]
  BY <1>1 DEF AcquireFlag, Turn
<1>3. /\ StoreOK(K)' /\ written' = written
      /\ \A j \in K : j \in DOMAIN LastView(Flag(p))
                        /\ LastView(Flag(p))[j] = Len(written[j]) => SeesLast(m, j)'
      /\ \A n \in Machines : n # m => seen'[n] = seen[n]
  BY <1>1, <1>2, AcquireStore
<1>4. CircShape'
  BY <1>2 DEF CircInv, CircShape, CircSteps
<1>5. \A k : Last(k)' = Last(k) /\ LastView(k)' = LastView(k)
  BY <1>3, SameValues
<1>6. CASE Last(Flag(p)) = 1
  <2>1. OffersTurn(p)
    <3>1. ASSUME NEW h \in Machines, HoldsTurn(h) PROVE FALSE
      <4>1. h # m /\ p = PrevMachine(h)
        BY <1>1, <1>2, <1>6, <3>1 DEF HoldsTurn, Raised
      <4> QED
        BY <1>1, <4>1, Ring
    <3>2. PICK h \in Machines : OffersTurn(h)
      BY <3>1 DEF CircInv
    <3>3. h = p
      BY <1>1, <1>6, <3>2 DEF OffersTurn, Raised
    <3> QED
      BY <3>2, <3>3
  <2>2. step'[m] = "read" /\ \A n \in Machines : n # m => step'[n] = "acquire"
    BY <1>2, <1>6, <2>1 DEF OffersTurn, CircInv, CircShape
  <2>3. MayRead(m)'
    <3> SUFFICES ASSUME NEW j \in 1..RelaxedWrites
                 PROVE  Last(Item(j))' = p /\ SeesLast(m, Item(j))'
      BY <1>1 DEF MayRead
    <3>1. Item(j) \in K
      BY CircKeysApart
    <3> QED
      BY <1>3, <1>5, <2>1, <3>1 DEF OffersTurn
  <2>4. Raised({PrevMachine(m)})'
    BY <1>1, <1>5, <2>1 DEF OffersTurn, Raised
  <2> QED
    BY <1>3, <1>4, <2>2, <2>3, <2>4 DEF CircInv, HoldsTurn, Raised
<1>7. CASE Last(Flag(p)) # 1
  <2>1. step' = step
    BY <1>2, <1>7 DEF CircInv, CircShape
  <2>2. ASSUME NEW h \in Machines, HoldsTurn(h) PROVE HoldsTurn(h)'
    <3>1. h # m
      BY <1>2, <2>2 DEF HoldsTurn
    <3>2. \A j : SeesLast(h, Item(j))' <=> SeesLast(h, Item(j))
      BY <1>3, <3>1 DEF SeesLast
    <3> QED
      BY <1>2, <1>5, <2>1, <2>2, <3>2 DEF HoldsTurn, Raised, MayRead, Wrote
  <2>3. ASSUME NEW h \in Machines, OffersTurn(h) PROVE OffersTurn(h)'
    BY <1>3, <1>5, <2>1, <2>3 DEF OffersTurn, Raised
  <2> QED
    BY <1>3, <1>4, <2>2, <2>3 DEF CircInv
<1> QED
  BY <1>6, <1>7

\* At its turn a machine reads.
LEMMA ReadsKey ==
  ASSUME NEW K, StoreOK(K), CircKeys \subseteq K, CircInv, NEW m \in Machines,
         ReadItem(m)
  PROVE  StoreOK(K)' /\ CircInv'
<1>1. HoldsTurn(m) /\ step[m] = "read"
  BY ActorHoldsTurn DEF ReadItem
<1>2. PICK i \in 1..RelaxedWrites : i = index[m] /\ Item(i) \in K
  BY CircKeysApart DEF CircInv, CircShape
<1>3. PICK a \in Readable(m, Item(i)) : ReadFrom(m, Item(i), a)
  BY <1>2 DEF ReadItem
<1>4. /\ StoreOK(K)' /\ written' = written
      /\ SeesLast(m, Item(i)) => SeesLast(m, Item(i))'
      /\ \A j \in K : j # Item(i) => seen'[m][j] = seen[m][j]
  BY <1>2, <1>3, ReadStore
<1>5. \A k : Last(k)' = Last(k)
  BY <1>4, SameValues
<1>6. MayRead(m)'
  <2> SUFFICES ASSUME NEW j \in 1..RelaxedWrites
               PROVE  Last(Item(j))' = PrevMachine(m) /\ SeesLast(m, Item(j))'
    BY DEF MayRead
  <2>1. Last(Item(j)) = PrevMachine(m) /\ SeesLast(m, Item(j)) /\ Item(j) \in K
    BY <1>1, CircKeysApart DEF HoldsTurn, MayRead
  <2>2. CASE Item(j) = Item(i)
    BY <1>4, <1>5, <2>1, <2>2
  <2>3. CASE Item(j) # Item(i)
    BY <1>4, <1>5, <2>1, <2>3 DEF SeesLast
  <2> QED
    BY <2>2, <2>3
<1>7. /\ CircShape' /\ \A n \in Machines : n # m => step'[n] = step[n]
      /\ i = RelaxedWrites => step'[m] = "write" /\ index'[m] = 1
      /\ i # RelaxedWrites => step'[m] = "read"
  BY <1>1, <1>2, Advances DEF CircInv, ReadItem, CircSteps
<1>8. step'[m] = "write" => Wrote(m, index[m] - 1)'
  BY <1>7 DEF Wrote
<1>9. Raised({PrevMachine(m)})'
  BY <1>1, <1>5 DEF HoldsTurn, Raised
<1>10. HoldsTurn(m)'
  BY <1>1, <1>6, <1>7, <1>8, <1>9 DEF HoldsTurn, Raised
<1> QED
  BY <1>4, <1>7, <1>10 DEF CircInv

\* The flag of the machine before is reset ...
LEMMA ResetsFlag ==
  ASSUME NEW K, StoreOK(K), CircKeys \subseteq K, CircInv, NEW m \in Machines,
         ResetFlag(m)
  PROVE  StoreOK(K)' /\ CircInv'
<1>1. HoldsTurn(m) /\ step[m] = "reset"
  BY ActorHoldsTurn DEF ResetFlag
<1>2. PICK p \in Machines : p = PrevMachine(m) /\ Flag(p) \in K
  BY Ring, CircKeysApart
<1>3. NoView \in Views(K) /\ ViewFits(NoView) /\ Put(m, Flag(p), 0, NoView)
  BY <1>2, NoViewFits DEF ResetFlag, Write
<1>4. StoreOK(K)' /\ Last(Flag(p))' = 0
  BY <1>2, <1>3, PutStore
<1>5. \A k \in K : k # Flag(p) =>
        Last(k)' = Last(k) /\ (SeesLast(m, k)' <=> SeesLast(m, k))
  BY <1>2, <1>3, PutElsewhere
<1>6. step' = [step EXCEPT ![m] = "release"] /\ index' = index
  BY DEF ResetFlag, Turn
<1>7. CircShape' /\ step'[m] = "release" /\ \A n \in Machines : n # m => step'[n] = step[n]
  BY <1>6 DEF CircInv, CircShape, CircSteps
<1>8. Raised({})'
  <2>1. \A n \in Machines : n # p => Last(Flag(n))' = 0
    BY <1>1, <1>2, <1>5, CircKeysApart DEF HoldsTurn, Raised
  <2> QED
    BY <1>4, <2>1 DEF Raised
<1>9. Wrote(m, RelaxedWrites)'
  BY <1>1, <1>5, CircKeysApart DEF HoldsTurn, Wrote
<1> QED
  BY <1>1, <1>4, <1>7, <1>8, <1>9 DEF CircInv, HoldsTurn, Raised

\* ... and the machine's own is released.
LEMMA ReleasesFlag ==
  ASSUME NEW K, StoreOK(K), CircKeys \subseteq K, CircInv, NEW m \in Machines,
         ReleaseFlag(m)
  PROVE  StoreOK(K)' /\ CircInv'
<1>1. HoldsTurn(m) /\ step[m] = "release" /\ Flag(m) \in K
  BY ActorHoldsTurn, CircKeysApart DEF ReleaseFlag
<1>2. PICK view : view = seen[m]
  OBVIOUS
<1>3. view \in Views(K) /\ ViewFits(view) /\ Put(m, Flag(m), 1, view)
  BY <1>2, OwnViewFits DEF ReleaseFlag, Release
<1>4. StoreOK(K)' /\ Last(Flag(m))' = 1 /\ LastView(Flag(m))' = view
  BY <1>1, <1>3, PutStore
<1>5. \A k \in K : k # Flag(m) =>
        Last(k)' = Last(k) /\ Len(written'[k]) = Len(written[k])
  BY <1>1, <1>3, PutElsewhere
<1>6. CircShape' /\ \A n \in Machines : step'[n] = "acquire"
  BY <1>1 DEF ReleaseFlag, Turn, CircInv, CircShape, CircSteps, HoldsTurn
<1>7. Raised({m})'
  <2>1. \A n \in Machines : n # m => Last(Flag(n))' = 0
    BY <1>1, <1>5, CircKeysApart DEF HoldsTurn, Raised
  <2> QED
    BY <1>4, <2>1 DEF Raised
<1>8. ASSUME NEW j \in 1..RelaxedWrites
      PROVE  /\ Last(Item(j))' = m /\ Item(j) \in DOMAIN view
             /\ view[Item(j)] = Len(written'[Item(j)])
  <2>1. Item(j) \in K /\ Item(j) # Flag(m)
    BY CircKeysApart
  <2>2. Last(Item(j)) = m /\ seen[m][Item(j)] = Len(written[Item(j)])
    BY <1>1 DEF HoldsTurn, Wrote, SeesLast
  <2>3. DOMAIN view = K
    BY <1>2 DEF StoreOK
  <2> QED
    BY <1>2, <1>5, <2>1, <2>2, <2>3
<1>9. OffersTurn(m)'
  BY <1>4, <1>6, <1>7, <1>8 DEF OffersTurn, Raised
<1> QED
  BY <1>4, <1>6, <1>9 DEF CircInv

\* A step of the test client keeps the turn.
LEMMA CircStep ==
  ASSUME NEW K, StoreOK(K), CircKeys \subseteq K, CircInv, CircNext
  PROVE  StoreOK(K)' /\ CircInv'
<1>1. PICK m \in Machines :
        Kick(m) \/ AcquireFlag(m) \/ ReadItem(m) \/ WriteItem(m) \/ ResetFlag(m)
          \/ ReleaseFlag(m)
  BY DEF CircNext
<1>2. CASE Kick(m)
  BY <1>2, WritesKey DEF Kick, CircSteps
<1>3. CASE WriteItem(m)
  BY <1>3, WritesKey DEF WriteItem, CircSteps
<1> QED
  BY <1>1, <1>2, <1>3, AcquiresFlag, ReadsKey, ResetsFlag, ReleasesFlag

\* The invariant says that there is one turn ...
LEMMA TurnIsOne == CircInv => OneTurn
<1> SUFFICES ASSUME CircInv PROVE OneTurn
  OBVIOUS
<1>1. CASE \E h \in Machines : HoldsTurn(h)
  <2>1. PICK h \in Machines : HoldsTurn(h)
    BY <1>1
  <2>2. HasTurn(h) /\ \A n \in Machines : n # h => ~HasTurn(n)
    BY <2>1 DEF HoldsTurn, HasTurn
  <2>3. ASSUME NEW n \in Machines, TurnOnOffer(n) PROVE FALSE
    <3>1. n = PrevMachine(h)
      BY <2>1, <2>3 DEF HoldsTurn, Raised, TurnOnOffer
    <3> QED
      BY <2>2, <2>3, <3>1, Ring DEF TurnOnOffer
  <2> QED
    BY <2>2, <2>3 DEF OneTurn
<1>2. CASE \E h \in Machines : OffersTurn(h)
  <2>1. PICK h \in Machines : OffersTurn(h)
    BY <1>2
  <2>2. \A n \in Machines : ~HasTurn(n)
    BY <2>1 DEF OffersTurn, HasTurn
  <2>3. \A n \in Machines : TurnOnOffer(n) <=> n = h
    BY <2>1, <2>2, Ring DEF OffersTurn, Raised, TurnOnOffer
  <2> QED
    BY <2>2, <2>3 DEF OneTurn
<1> QED
  BY <1>1, <1>2 DEF CircInv

\* ... and that the reader reads what the machine before has written.
LEMMA ReaderReads == ASSUME NEW K, StoreOK(K), CircKeys \subseteq K, CircInv
                     PROVE  ReadsPreviousMachine
<1> SUFFICES ASSUME NEW m \in Machines, step[m] = "read"
             PROVE  ReadableValues(m, Item(index[m])) = {PrevMachine(m)}
  BY DEF ReadsPreviousMachine
<1>1. PICK i \in 1..RelaxedWrites : i = index[m]
  BY DEF CircInv, CircShape
<1>2. Item(i) \in K /\ Last(Item(i)) = PrevMachine(m) /\ SeesLast(m, Item(i))
  BY ActorHoldsTurn, CircKeysApart DEF HoldsTurn, MayRead
<1> QED
  BY <1>1, <1>2, ReadsLast

----------------------------------------------------------------------------
(* The producers and consumers.                                            *)

PcSteps == {"initWrite", "poll", "acquire", "read", "write", "release"}

PcShape ==
  /\ pcStep \in [Machines -> PcSteps]
  /\ pcIndex \in [Machines -> 1..PcWrites]
  /\ acqNum \in [Machines -> Nat] /\ relNum \in [Machines -> Nat]
  /\ timesWritten \in [Machines -> Nat]

\* The sessions of a number take turns, too: h's is next.  All others have
\* acquired all that the one before them has released.
PcTurn(h) ==
  /\ \A n \in Machines : n # h => pcStep[n] = "poll" /\ relNum[PrevMachine(n)] = acqNum[n]
  /\ relNum[PrevMachine(h)]
       = acqNum[h] + (IF pcStep[h] \in {"poll", "acquire", "read", "write"} THEN 1 ELSE 0)

\* The flag of m counts its releases.
FlagCounts(m) ==
  /\ Len(written[PcFlag(m)]) = relNum[m] + 1
  /\ \A i \in 1..(relNum[m] + 1) : written[PcFlag(m)][i].value = i - 1

\* The keys of m's node from 1 to n have the value v.
NodeHas(m, n, v) == \A j \in 1..n : Last(NodeKey(m, j)) = v

\* An acquire of m's flag makes the node visible.
FlagShowsNode(m) ==
  \A j \in 1..PcWrites :
    /\ NodeKey(m, j) \in DOMAIN LastView(PcFlag(m))
    /\ LastView(PcFlag(m))[NodeKey(m, j)] = Len(written[NodeKey(m, j)])

\* m's node and flag: between a release and the next acquire they are those
\* of the last release; then the node is written anew, one key at a time.
NodeInv(m) ==
  /\ FlagCounts(m)
  /\ \A j \in 1..PcWrites : SeesLast(m, NodeKey(m, j))
  /\ timesWritten[m] = relNum[m] + (IF pcStep[m] \in {"poll", "acquire"} THEN 0 ELSE 1)
  /\ pcStep[m] \in {"poll", "acquire", "release"} =>
       pcIndex[m] = 1 /\ NodeHas(m, PcWrites, timesWritten[m])
  /\ pcStep[m] \in {"initWrite", "read", "write"} =>
       NodeHas(m, pcIndex[m] - 1, timesWritten[m])
  /\ pcStep[m] \in {"poll", "acquire"} /\ relNum[m] > 0 => FlagShowsNode(m)

\* What m has not read yet of the node before it is what it has waited for.
Reading(m) ==
  pcStep[m] \in {"read", "write"} =>
    \A j \in pcIndex[m]..PcWrites :
      /\ SeesLast(m, NodeKey(PrevMachine(m), j))
      /\ Last(NodeKey(PrevMachine(m), j)) = acqNum[m] + 1

PcInv ==
  /\ PcShape
  /\ \E h \in Machines : PcTurn(h)
  /\ \A m \in Machines : NodeInv(m) /\ Reading(m)

\* The keys.
LEMMA PcKeysApart ==
  /\ \A m \in Machines : PcFlag(m) \in PcKeys
  /\ \A m \in Machines, i \in 1..PcWrites : NodeKey(m, i) \in PcKeys
  /\ \A m, n, i : PcFlag(m) # NodeKey(n, i)
  /\ \A m, n : m # n => PcFlag(m) # PcFlag(n)
  /\ \A m, n, i, j : m # n \/ i # j => NodeKey(m, i) # NodeKey(n, j)
BY DEF PcKeys, PcFlag, NodeKey

\* A session that does anything but poll has the turn.
LEMMA ActorHasPcTurn ==
  ASSUME PcInv, NEW m \in Machines, pcStep[m] # "poll"
  PROVE  PcTurn(m)
BY DEF PcInv, PcTurn

\* A session's node and flag are its own: no other's step touches them.
LEMMA NodeElsewhere ==
  ASSUME NEW n \in Machines, NodeInv(n),
         pcStep'[n] = pcStep[n], pcIndex'[n] = pcIndex[n], relNum'[n] = relNum[n],
         timesWritten'[n] = timesWritten[n], seen'[n] = seen[n],
         written'[PcFlag(n)] = written[PcFlag(n)],
         \A j \in 1..PcWrites : written'[NodeKey(n, j)] = written[NodeKey(n, j)],
         pcIndex[n] \in 1..PcWrites, PcWrites \in Nat
  PROVE  NodeInv(n)'
<1>1. /\ \A j \in 1..PcWrites :
           /\ Last(NodeKey(n, j))' = Last(NodeKey(n, j))
           /\ Len(written'[NodeKey(n, j)]) = Len(written[NodeKey(n, j)])
           /\ SeesLast(n, NodeKey(n, j))' <=> SeesLast(n, NodeKey(n, j))
      /\ LastView(PcFlag(n))' = LastView(PcFlag(n))
  BY DEF Last, LastView, SeesLast
<1>2. FlagCounts(n)'
  BY DEF NodeInv, FlagCounts
<1>3. ASSUME NEW l \in 0..PcWrites, NEW v, NodeHas(n, l, v) PROVE NodeHas(n, l, v)'
  BY <1>1, <1>3 DEF NodeHas
<1>4. FlagShowsNode(n) => FlagShowsNode(n)'
  BY <1>1 DEF FlagShowsNode
<1>5. pcStep[n] \in {"poll", "acquire", "release"} =>
        pcIndex'[n] = 1 /\ NodeHas(n, PcWrites, timesWritten[n])'
  <2>1. PICK v : v = timesWritten[n]
    OBVIOUS
  <2>2. NodeHas(n, PcWrites, v) => NodeHas(n, PcWrites, v)'
    BY <1>3
  <2> QED
    BY <2>1, <2>2 DEF NodeInv, NodeHas
<1>6. pcStep[n] \in {"initWrite", "read", "write"} =>
        NodeHas(n, pcIndex[n] - 1, timesWritten[n])'
  <2>1. PICK v : v = timesWritten[n]
    OBVIOUS
  <2>2. PICK l \in 0..PcWrites : l = pcIndex[n] - 1
    OBVIOUS
  <2>3. NodeHas(n, l, v) => NodeHas(n, l, v)'
    BY <1>3
  <2> QED
    BY <2>1, <2>2, <2>3 DEF NodeInv, NodeHas
<1> QED
  BY <1>1, <1>2, <1>4, <1>5, <1>6 DEF NodeInv

\* Nor does a step that writes nothing touch what another session has read.
LEMMA ReadingElsewhere ==
  ASSUME NEW n \in Machines, Reading(n), written' = written, seen'[n] = seen[n],
         pcStep'[n] = pcStep[n], pcIndex'[n] = pcIndex[n], acqNum'[n] = acqNum[n]
  PROVE  Reading(n)'
BY DEF Reading, Last, SeesLast

\* A session polls the flag before it, whose count it reads late or in time.
LEMMA PollsFlag ==
  ASSUME NEW K, StoreOK(K), PcKeys \subseteq K, PcInv, NEW m \in Machines, PollFlag(m)
  PROVE  StoreOK(K)' /\ PcInv'
<1>0. PcWrites \in Nat
  BY PcAssumption
<1>1. PICK p \in Machines : p = PrevMachine(m) /\ PcFlag(p) \in K
  BY Ring, PcKeysApart
<1>2. PICK i \in Readable(m, PcFlag(p)) :
        /\ pcStep[m] = "poll" /\ ReadFrom(m, PcFlag(p), i)
        /\ pcStep' = [pcStep EXCEPT ![m] =
             IF written[PcFlag(p)][i].value = acqNum[m] + 1 THEN "acquire" ELSE "poll"]
        /\ UNCHANGED <<pcIndex, acqNum, relNum, timesWritten>>
  BY <1>1 DEF PollFlag, PcGoto
<1>3. /\ StoreOK(K)' /\ written' = written
      /\ \A n \in Machines, j \in K : <<n, j>> # <<m, PcFlag(p)>> => seen'[n][j] = seen[n][j]
  BY <1>1, <1>2, ReadStore
<1>4. \A n \in Machines : n # m => seen'[n] = seen[n]
  BY <1>2 DEF ReadFrom, StoreOK
<1>5. /\ PcShape' /\ \A n \in Machines : n # m => pcStep'[n] = pcStep[n]
      /\ pcStep'[m] \in {"poll", "acquire"}
      /\ written[PcFlag(p)][i].value # acqNum[m] + 1 => pcStep'[m] = "poll"
  BY <1>2 DEF PcInv, PcShape, PcSteps
<1>6. \A n \in Machines : n # m => NodeInv(n)' /\ Reading(n)'
  BY <1>0, <1>2, <1>3, <1>4, <1>5, NodeElsewhere, ReadingElsewhere DEF PcInv, PcShape
<1>7. NodeInv(m)'
  <2>1. \A j \in 1..PcWrites : SeesLast(m, NodeKey(m, j))'
    <3>1. \A j \in 1..PcWrites : NodeKey(m, j) \in K /\ NodeKey(m, j) # PcFlag(p)
      BY PcKeysApart
    <3>2. \A j \in 1..PcWrites : SeesLast(m, NodeKey(m, j))
      BY DEF PcInv, NodeInv
    <3> QED
      BY <1>3, <3>1, <3>2 DEF SeesLast
  <2>2. FlagCounts(m)' /\ (relNum[m] > 0 => FlagShowsNode(m)')
        /\ NodeHas(m, PcWrites, timesWritten[m])'
    BY <1>2, <1>3, SameValues DEF PcInv, NodeInv, FlagCounts, FlagShowsNode, NodeHas
  <2> QED
    BY <1>2, <1>5, <2>1, <2>2 DEF PcInv, NodeInv
<1>8. Reading(m)'
  BY <1>5 DEF Reading
<1>9. \E h \in Machines : PcTurn(h)'
  <2>1. PICK h \in Machines : PcTurn(h)
    BY DEF PcInv
  <2>2. CASE m = h
    BY <1>2, <1>5, <2>1, <2>2 DEF PcTurn
  <2>3. CASE m # h
    <3>1. PICK a \in Nat, r \in Nat : a = acqNum[m] /\ r = relNum[p]
      BY DEF PcInv, PcShape
    <3>2. r = a
      BY <1>1, <2>1, <2>3, <3>1 DEF PcTurn
    <3>3. seen[m][PcFlag(p)] \in Nat \ {0} /\ FlagCounts(p)
      BY <1>1 DEF StoreOK, PcInv, NodeInv
    <3>4. i \in 1..(r + 1) /\ written[PcFlag(p)][i].value = i - 1
      BY <3>1, <3>3 DEF FlagCounts, Readable
    <3>5. pcStep'[m] = "poll"
      BY <1>5, <3>1, <3>2, <3>4
    <3>6. \A n \in Machines : pcStep'[n] = pcStep[n]
      BY <1>2, <1>5, <3>5
    <3> QED
      BY <1>2, <2>1, <3>6 DEF PcTurn
  <2> QED
    BY <2>2, <2>3
<1> QED
  BY <1>3, <1>5, <1>6, <1>7, <1>8, <1>9 DEF PcInv

\* The flag is acquired, and with it the node that was released.
LEMMA AcquiresNode ==
  ASSUME NEW K, StoreOK(K), PcKeys \subseteq K, PcInv, NEW m \in Machines, PcAcquire(m)
  PROVE  StoreOK(K)' /\ PcInv'
<1>0. PcWrites \in Nat \ {0}
  BY PcAssumption
<1>1. PICK p \in Machines : p = PrevMachine(m) /\ PcFlag(p) \in K
  BY Ring, PcKeysApart
<1>2. /\ pcStep[m] = "acquire" /\ Acquire(m, PcFlag(p))
      /\ pcStep' = [pcStep EXCEPT ![m] = "read"]
      /\ timesWritten' = [timesWritten EXCEPT ![m] = timesWritten[m] + 1]
      /\ UNCHANGED <<pcIndex, acqNum, relNum>>
  BY <1>1 DEF PcAcquire, PcGoto
<1>3. /\ StoreOK(K)' /\ written' = written
      /\ \A j \in K : SeesLast(m, j) => SeesLast(m, j)'
      /\ \A j \in K : j \in DOMAIN LastView(PcFlag(p))
                        /\ LastView(PcFlag(p))[j] = Len(written[j]) => SeesLast(m, j)'
      /\ \A n \in Machines : n # m => seen'[n] = seen[n]
  BY <1>1, <1>2, AcquireStore
<1>4. PcTurn(m)
  BY <1>2, ActorHasPcTurn
<1>5. /\ PcShape'
      /\ \A n \in Machines : n # m => pcStep'[n] = pcStep[n] /\ timesWritten'[n] = timesWritten[n]
      /\ pcStep'[m] = "read" /\ timesWritten'[m] = timesWritten[m] + 1
  BY <1>2 DEF PcInv, PcShape, PcSteps
<1>6. \A n \in Machines : n # m => NodeInv(n)' /\ Reading(n)'
  BY <1>0, <1>2, <1>3, <1>5, NodeElsewhere, ReadingElsewhere DEF PcInv, PcShape
<1>7. NodeInv(m) /\ pcIndex[m] = 1 /\ timesWritten[m] = relNum[m] /\ relNum[m] \in Nat
  BY <1>2 DEF PcInv, PcShape, NodeInv
<1>8. NodeInv(m)'
  <2>1. \A j \in 1..PcWrites : SeesLast(m, NodeKey(m, j))'
    BY <1>3, <1>7, PcKeysApart DEF NodeInv
  <2>2. FlagCounts(m)'
    BY <1>2, <1>3, <1>7 DEF NodeInv, FlagCounts
  <2>3. NodeHas(m, pcIndex[m] - 1, timesWritten[m])'
    BY <1>2, <1>7 DEF NodeHas
  <2> QED
    BY <1>2, <1>5, <1>7, <2>1, <2>2, <2>3 DEF NodeInv
<1>9. relNum[p] = acqNum[m] + 1 /\ acqNum[m] \in Nat
  BY <1>1, <1>2, <1>4 DEF PcTurn, PcInv, PcShape
<1>10. Reading(m)'
  <2> SUFFICES ASSUME NEW j \in 1..PcWrites
               PROVE  SeesLast(m, NodeKey(p, j))' /\ Last(NodeKey(p, j))' = acqNum[m] + 1
    BY <1>0, <1>1, <1>2, <1>7 DEF Reading
  <2>1. pcStep[p] \in {"poll", "acquire"}
    BY <1>2, <1>4 DEF PcTurn
  <2>2. NodeHas(p, PcWrites, relNum[p]) /\ FlagShowsNode(p)
    BY <1>9, <2>1 DEF PcInv, PcShape, NodeInv
  <2>3. NodeKey(p, j) \in K
    BY PcKeysApart
  <2>4. Last(NodeKey(p, j))' = Last(NodeKey(p, j))
    BY <1>3, SameValues
  <2> QED
    BY <1>3, <1>9, <2>2, <2>3, <2>4 DEF NodeHas, FlagShowsNode
<1>11. PcTurn(m)'
  BY <1>2, <1>4, <1>5 DEF PcTurn
<1> QED
  BY <1>3, <1>5, <1>6, <1>8, <1>10, <1>11 DEF PcInv

\* A key of the node before is read.
LEMMA ReadsNode ==
  ASSUME NEW K, StoreOK(K), PcKeys \subseteq K, PcInv, NEW m \in Machines, PcRead(m)
  PROVE  StoreOK(K)' /\ PcInv'
<1>0. PcWrites \in Nat \ {0}
  BY PcAssumption
<1>1. PICK p \in Machines, l \in 1..PcWrites :
        p = PrevMachine(m) /\ l = pcIndex[m] /\ NodeKey(p, l) \in K
  BY Ring, PcKeysApart DEF PcInv, PcShape
<1>2. PICK i \in Readable(m, NodeKey(p, l)) :
        /\ pcStep[m] = "read" /\ ReadFrom(m, NodeKey(p, l), i)
        /\ pcStep' = [pcStep EXCEPT ![m] = "write"]
        /\ UNCHANGED <<pcIndex, acqNum, relNum, timesWritten>>
  BY <1>1 DEF PcRead, PcGoto
<1>3. /\ StoreOK(K)' /\ written' = written
      /\ SeesLast(m, NodeKey(p, l)) => SeesLast(m, NodeKey(p, l))'
      /\ \A j \in K : j # NodeKey(p, l) => seen'[m][j] = seen[m][j]
  BY <1>1, <1>2, ReadStore
<1>4. \A n \in Machines : n # m => seen'[n] = seen[n]
  BY <1>2 DEF ReadFrom, StoreOK
<1>5. /\ PcShape' /\ pcStep'[m] = "write"
      /\ \A n \in Machines : n # m => pcStep'[n] = pcStep[n]
  BY <1>2 DEF PcInv, PcShape, PcSteps
<1>6. \A n \in Machines : n # m => NodeInv(n)' /\ Reading(n)'
  BY <1>0, <1>2, <1>3, <1>4, <1>5, NodeElsewhere, ReadingElsewhere DEF PcInv, PcShape
<1>7. NodeInv(m) /\ Reading(m)
  BY DEF PcInv
<1>8. SeesLast(m, NodeKey(p, l))
  BY <1>0, <1>1, <1>2, <1>7 DEF Reading
<1>9. \A j \in K : SeesLast(m, j) => SeesLast(m, j)'
  BY <1>3, <1>8 DEF SeesLast
<1>10. NodeInv(m)'
  <2>1. \A j \in 1..PcWrites : SeesLast(m, NodeKey(m, j))'
    BY <1>7, <1>9, PcKeysApart DEF NodeInv
  <2>2. FlagCounts(m)'
    BY <1>2, <1>3, <1>7 DEF NodeInv, FlagCounts
  <2>3. NodeHas(m, pcIndex[m] - 1, timesWritten[m])'
    BY <1>2, <1>3, <1>7, SameValues DEF NodeInv, NodeHas
  <2> QED
    BY <1>2, <1>5, <1>7, <2>1, <2>2, <2>3 DEF NodeInv
<1>11. Reading(m)'
  <2> SUFFICES ASSUME NEW j \in l..PcWrites
               PROVE  SeesLast(m, NodeKey(p, j))' /\ Last(NodeKey(p, j))' = acqNum[m] + 1
    BY <1>1, <1>2 DEF Reading
  <2>1. SeesLast(m, NodeKey(p, j)) /\ Last(NodeKey(p, j)) = acqNum[m] + 1
    BY <1>1, <1>2, <1>7 DEF Reading
  <2>2. NodeKey(p, j) \in K
    BY <1>0, PcKeysApart
  <2> QED
    BY <1>3, <1>9, <2>1, <2>2, SameValues
<1>12. PcTurn(m)'
  BY <1>2, <1>5, ActorHasPcTurn DEF PcTurn
<1> QED
  BY <1>3, <1>5, <1>6, <1>10, <1>11, <1>12 DEF PcInv

\* A key of the node is written: the first node of machine 0, or a key for
\* each that has been read.
LEMMA WritesNode ==
  ASSUME NEW K, StoreOK(K), PcKeys \subseteq K, PcInv, NEW m \in Machines,
         InitWrite(m) \/ PcWrite(m)
  PROVE  StoreOK(K)' /\ PcInv'
<1>0. PcWrites \in Nat \ {0}
  BY PcAssumption
<1>1. PICK l \in 1..PcWrites, v \in Nat :
        l = pcIndex[m] /\ v = timesWritten[m] /\ NodeKey(m, l) \in K
  BY PcKeysApart DEF PcInv, PcShape
<1>2. PICK st \in {"initWrite", "read"} :
        /\ st = IF pcStep[m] = "initWrite" THEN "initWrite" ELSE "read"
        /\ pcStep[m] \in {"initWrite", "write"}
        /\ Write(m, NodeKey(m, l), v)
        /\ pcIndex' = [pcIndex EXCEPT ![m] = IF l = PcWrites THEN 1 ELSE l + 1]
        /\ pcStep' = [pcStep EXCEPT ![m] = IF l = PcWrites THEN "release" ELSE st]
        /\ acqNum' = [acqNum EXCEPT ![m] =
             IF l = PcWrites /\ pcStep[m] = "write" THEN acqNum[m] + 1 ELSE acqNum[m]]
        /\ UNCHANGED <<relNum, timesWritten>>
  <2>1. CASE InitWrite(m)
    BY <1>1, <2>1 DEF InitWrite, PcAdvance, PcGoto, PcInv, PcShape
  <2>2. CASE PcWrite(m)
    BY <1>1, <2>2 DEF PcWrite, PcAdvance, PcGoto, PcInv, PcShape
  <2> QED
    BY <2>1, <2>2
<1>3. NoView \in Views(K) /\ ViewFits(NoView) /\ Put(m, NodeKey(m, l), v, NoView)
  BY <1>2, NoViewFits DEF Write
<1>4. /\ StoreOK(K)' /\ Last(NodeKey(m, l))' = v /\ SeesLast(m, NodeKey(m, l))'
      /\ \A j \in K : j # NodeKey(m, l) => written'[j] = written[j]
      /\ \A n \in Machines, j \in K :
           <<n, j>> # <<m, NodeKey(m, l)>> => seen'[n][j] = seen[n][j]
  BY <1>1, <1>3, PutStore
<1>5. \A j \in K : j # NodeKey(m, l) =>
        Last(j)' = Last(j) /\ (SeesLast(m, j)' <=> SeesLast(m, j))
  BY <1>1, <1>3, PutElsewhere
<1>6. \A n \in Machines : n # m => seen'[n] = seen[n]
  BY <1>3 DEF Put, StoreOK
<1>7. /\ PcShape'
      /\ \A n \in Machines : n # m =>
           pcStep'[n] = pcStep[n] /\ pcIndex'[n] = pcIndex[n] /\ acqNum'[n] = acqNum[n]
      /\ l = PcWrites => pcStep'[m] = "release" /\ pcIndex'[m] = 1
      /\ l # PcWrites => pcStep'[m] = st /\ pcIndex'[m] = l + 1
      /\ acqNum'[m] = IF l = PcWrites /\ pcStep[m] = "write" THEN acqNum[m] + 1 ELSE acqNum[m]
  <2>1. PICK a \in 1..PcWrites : a = IF l = PcWrites THEN 1 ELSE l + 1
    BY <1>0
  <2>2. PICK b \in PcSteps : b = IF l = PcWrites THEN "release" ELSE st
    BY <1>2 DEF PcSteps
  <2>3. PICK c \in Nat :
          c = IF l = PcWrites /\ pcStep[m] = "write" THEN acqNum[m] + 1 ELSE acqNum[m]
    BY DEF PcInv, PcShape
  <2> QED
    BY <1>2, <2>1, <2>2, <2>3 DEF PcInv, PcShape
<1>8. PcTurn(m) /\ \A n \in Machines : n # m => pcStep[n] = "poll"
  BY <1>2, ActorHasPcTurn DEF PcTurn
<1>9. ASSUME NEW n \in Machines, n # m PROVE NodeInv(n)' /\ Reading(n)'
  <2>1. /\ written'[PcFlag(n)] = written[PcFlag(n)]
        /\ \A j \in 1..PcWrites : written'[NodeKey(n, j)] = written[NodeKey(n, j)]
    BY <1>4, <1>9, PcKeysApart
  <2>2. NodeInv(n)'
    BY <1>0, <1>2, <1>6, <1>7, <1>9, <2>1, NodeElsewhere DEF PcInv, PcShape
  <2> QED
    BY <1>7, <1>8, <1>9, <2>2 DEF Reading
<1>10. NodeInv(m) /\ Reading(m)
  BY DEF PcInv
<1>11. NodeHas(m, l, v)'
  <2>1. \A j \in 1..(l - 1) : Last(NodeKey(m, j)) = v
    BY <1>1, <1>2, <1>10 DEF NodeInv, NodeHas
  <2>2. \A j \in 1..l : j = l \/ j \in 1..(l - 1)
    OBVIOUS
  <2>3. \A j \in 1..(l - 1) : NodeKey(m, j) \in K /\ NodeKey(m, j) # NodeKey(m, l)
    <3>1. \A j \in 1..(l - 1) : j \in 1..PcWrites /\ j # l
      BY <1>0
    <3> QED
      BY <3>1, PcKeysApart
  <2> QED
    BY <1>4, <1>5, <2>1, <2>2, <2>3 DEF NodeHas
<1>12. NodeInv(m)'
  <2>1. FlagCounts(m)'
    <3>1. written'[PcFlag(m)] = written[PcFlag(m)]
      BY <1>4, PcKeysApart
    <3> QED
      BY <1>2, <1>10, <3>1 DEF NodeInv, FlagCounts
  <2>2. \A j \in 1..PcWrites : SeesLast(m, NodeKey(m, j))'
    <3> SUFFICES ASSUME NEW j \in 1..PcWrites PROVE SeesLast(m, NodeKey(m, j))'
      OBVIOUS
    <3>1. SeesLast(m, NodeKey(m, j)) /\ NodeKey(m, j) \in K
      BY <1>10, PcKeysApart DEF NodeInv
    <3> QED
      BY <1>4, <1>5, <3>1
  <2>3. pcStep'[m] = "release" => pcIndex'[m] = 1 /\ NodeHas(m, PcWrites, timesWritten[m])'
    BY <1>1, <1>2, <1>7, <1>11 DEF NodeHas
  <2>4. pcStep'[m] \in {"initWrite", "read", "write"} =>
          NodeHas(m, pcIndex[m] - 1, timesWritten[m])'
    <3>1. CASE l # PcWrites
      <4>1. pcIndex'[m] - 1 = l /\ timesWritten'[m] = v
        BY <1>1, <1>2, <1>7, <3>1
      <4> QED
        BY <1>11, <4>1 DEF NodeHas
    <3>2. CASE l = PcWrites
      BY <1>7, <3>2
    <3> QED
      BY <3>1, <3>2
  <2>5. pcStep'[m] \in {"release", "initWrite", "read"}
    BY <1>2, <1>7
  <2> QED
    BY <1>2, <1>10, <2>1, <2>2, <2>3, <2>4, <2>5 DEF NodeInv
<1>13. Reading(m)'
  <2>1. CASE l = PcWrites \/ pcStep[m] = "initWrite"
    BY <1>2, <1>7, <2>1 DEF Reading
  <2>2. CASE l # PcWrites /\ pcStep[m] = "write"
    <3>1. PICK p \in Machines : p = PrevMachine(m)
      BY Ring
    <3>2. acqNum'[m] = acqNum[m] /\ pcIndex'[m] = l + 1
      BY <1>7, <2>2
    <3> SUFFICES ASSUME NEW j \in (l + 1)..PcWrites
                 PROVE  SeesLast(m, NodeKey(p, j))' /\ Last(NodeKey(p, j))' = acqNum[m] + 1
      BY <3>1, <3>2 DEF Reading
    <3>3. SeesLast(m, NodeKey(p, j)) /\ Last(NodeKey(p, j)) = acqNum[m] + 1
      BY <1>1, <1>10, <2>2, <3>1 DEF Reading
    <3>4. NodeKey(p, j) \in K /\ NodeKey(p, j) # NodeKey(m, l)
      BY <1>0, PcKeysApart
    <3> QED
      BY <1>5, <3>3, <3>4
  <2> QED
    BY <1>2, <2>1, <2>2
<1>14. PcTurn(m)'
  <2>1. PICK a \in Nat, r \in Nat : a = acqNum[m] /\ r = relNum[PrevMachine(m)]
    BY Ring DEF PcInv, PcShape
  <2>2. r = acqNum'[m] + (IF pcStep'[m] \in {"poll", "acquire", "read", "write"} THEN 1 ELSE 0)
    <3>1. r = a + (IF pcStep[m] = "write" THEN 1 ELSE 0)
      BY <1>2, <1>8, <2>1 DEF PcTurn
    <3>2. CASE l = PcWrites /\ pcStep[m] = "write"
      BY <1>7, <2>1, <3>1, <3>2
    <3>3. CASE l # PcWrites /\ pcStep[m] = "write"
      BY <1>2, <1>7, <2>1, <3>1, <3>3
    <3>4. CASE pcStep[m] = "initWrite"
      BY <1>2, <1>7, <2>1, <3>1, <3>4
    <3> QED
      BY <1>2, <3>2, <3>3, <3>4
  <2> QED
    BY <1>2, <1>7, <1>8, <2>1, <2>2 DEF PcTurn
<1> QED
  BY <1>4, <1>7, <1>9, <1>12, <1>13, <1>14 DEF PcInv

\* The node is released to the machine after.
LEMMA ReleasesNode ==
  ASSUME NEW K, StoreOK(K), PcKeys \subseteq K, PcInv, NEW m \in Machines, PcRelease(m)
  PROVE  StoreOK(K)' /\ PcInv'
<1>0. PcWrites \in Nat \ {0}
  BY PcAssumption
<1>1. PICK r \in Nat : r = relNum[m] /\ PcFlag(m) \in K
  BY PcKeysApart DEF PcInv, PcShape
<1>2. PICK view : view = seen[m]
  OBVIOUS
<1>3. /\ pcStep[m] = "release" /\ Put(m, PcFlag(m), r + 1, view)
      /\ relNum' = [relNum EXCEPT ![m] = r + 1]
      /\ pcStep' = [pcStep EXCEPT ![m] = "poll"]
      /\ UNCHANGED <<pcIndex, acqNum, timesWritten>>
  BY <1>1, <1>2 DEF PcRelease, Release, PcGoto
<1>4. view \in Views(K) /\ ViewFits(view) /\ DOMAIN view = K
  BY <1>2, OwnViewFits DEF StoreOK
<1>5. /\ StoreOK(K)' /\ Last(PcFlag(m))' = r + 1 /\ LastView(PcFlag(m))' = view
      /\ Len(written'[PcFlag(m)]) = Len(written[PcFlag(m)]) + 1
      /\ \A i \in 1..Len(written[PcFlag(m)]) : written'[PcFlag(m)][i] = written[PcFlag(m)][i]
      /\ \A j \in K : j # PcFlag(m) => written'[j] = written[j]
      /\ \A n \in Machines, j \in K : <<n, j>> # <<m, PcFlag(m)>> => seen'[n][j] = seen[n][j]
  BY <1>1, <1>3, <1>4, PutStore
<1>6. \A j \in K : j # PcFlag(m) =>
        /\ Last(j)' = Last(j) /\ Len(written'[j]) = Len(written[j])
        /\ SeesLast(m, j)' <=> SeesLast(m, j)
  BY <1>1, <1>3, <1>4, PutElsewhere
<1>7. \A n \in Machines : n # m => seen'[n] = seen[n]
  BY <1>3 DEF Put, StoreOK
<1>8. /\ PcShape' /\ pcStep'[m] = "poll" /\ relNum'[m] = r + 1
      /\ \A n \in Machines : n # m => pcStep'[n] = pcStep[n] /\ relNum'[n] = relNum[n]
  BY <1>3 DEF PcInv, PcShape, PcSteps
<1>9. PcTurn(m) /\ \A n \in Machines : pcStep'[n] = "poll"
  BY <1>3, <1>8, ActorHasPcTurn DEF PcTurn
<1>10. ASSUME NEW n \in Machines, n # m PROVE NodeInv(n)'
  <2>1. /\ written'[PcFlag(n)] = written[PcFlag(n)]
        /\ \A j \in 1..PcWrites : written'[NodeKey(n, j)] = written[NodeKey(n, j)]
    BY <1>5, <1>10, PcKeysApart
  <2> QED
    BY <1>0, <1>3, <1>7, <1>8, <1>10, <2>1, NodeElsewhere DEF PcInv, PcShape
<1>11. NodeInv(m)'
  <2>0. NodeInv(m) /\ timesWritten[m] = r + 1
    BY <1>1, <1>3 DEF PcInv, NodeInv
  <2>1. FlagCounts(m)'
    <3>1. Len(written[PcFlag(m)]) = r + 1 /\ Len(written'[PcFlag(m)]) = r + 2
      BY <1>1, <1>5, <2>0 DEF NodeInv, FlagCounts
    <3>2. written'[PcFlag(m)][r + 2].value = r + 1
      BY <1>5, <3>1 DEF Last
    <3>3. \A i \in 1..(r + 1) : written'[PcFlag(m)][i].value = i - 1
      BY <1>1, <1>5, <2>0, <3>1 DEF NodeInv, FlagCounts
    <3>4. \A i \in 1..(r + 2) : i \in 1..(r + 1) \/ i = r + 2
      OBVIOUS
    <3>5. \A i \in 1..(r + 2) : written'[PcFlag(m)][i].value = i - 1
      BY <3>2, <3>3, <3>4
    <3>6. relNum'[m] + 1 = r + 2
      BY <1>8
    <3> QED
      BY <3>1, <3>5, <3>6 DEF FlagCounts
  <2>2. \A j \in 1..PcWrites :
          /\ NodeKey(m, j) \in K /\ NodeKey(m, j) # PcFlag(m)
          /\ SeesLast(m, NodeKey(m, j))
    BY <2>0, PcKeysApart DEF NodeInv
  <2>3. \A j \in 1..PcWrites : SeesLast(m, NodeKey(m, j))'
    BY <1>6, <2>2
  <2>4. NodeHas(m, PcWrites, timesWritten[m])'
    BY <1>3, <1>6, <2>0, <2>2 DEF NodeInv, NodeHas
  <2>5. FlagShowsNode(m)'
    BY <1>2, <1>4, <1>5, <1>6, <2>2 DEF FlagShowsNode, SeesLast
  <2>6. pcIndex'[m] = 1 /\ timesWritten'[m] = relNum'[m]
    BY <1>3, <1>8, <2>0 DEF NodeInv
  <2>7. relNum'[m] \in Nat
    BY <1>8
  <2> QED
    BY <1>8, <2>1, <2>3, <2>4, <2>5, <2>6, <2>7 DEF NodeInv
<1>12. \A n \in Machines : Reading(n)'
  BY <1>9 DEF Reading
<1>13. PICK h \in Machines : h = NextMachine(m) /\ PrevMachine(h) = m
  BY Ring
<1>14. PcTurn(h)'
  <2>1. relNum[PrevMachine(m)] = acqNum[m]
    BY <1>3, <1>9 DEF PcTurn, PcInv, PcShape
  <2>2. acqNum[h] = r
    BY <1>1, <1>9, <1>13, <2>1 DEF PcTurn
  <2>3. ASSUME NEW n \in Machines, n # h PROVE relNum'[PrevMachine(n)] = acqNum[n]
    <3>1. PrevMachine(n) \in Machines /\ PrevMachine(n) # m
      BY <1>13, <2>3, Ring
    <3> QED
      BY <1>8, <1>9, <2>1, <3>1 DEF PcTurn
  <2>4. relNum'[PrevMachine(h)] = acqNum'[h] + 1
    BY <1>3, <1>8, <1>13, <2>2
  <2> QED
    BY <1>3, <1>9, <2>3, <2>4 DEF PcTurn
<1> QED
  BY <1>5, <1>8, <1>10, <1>11, <1>12, <1>14 DEF PcInv

\* A step of the producers and consumers keeps all that.
LEMMA PcStepKeeps ==
  ASSUME NEW K, StoreOK(K), PcKeys \subseteq K, PcInv, PcNext
  PROVE  StoreOK(K)' /\ PcInv'
BY PollsFlag, AcquiresNode, ReadsNode, WritesNode, ReleasesNode DEF PcNext

\* The reader's only choice is the value that was released.
LEMMA ConsumerReads == ASSUME NEW K, StoreOK(K), PcKeys \subseteq K, PcInv
                       PROVE  ReadsReleasedNode
<1> SUFFICES ASSUME NEW m \in Machines, pcStep[m] = "read"
             PROVE  ReadableValues(m, NodeKey(PrevMachine(m), pcIndex[m])) = {acqNum[m] + 1}
  BY DEF ReadsReleasedNode
<1>1. PICK p \in Machines, i \in 1..PcWrites : p = PrevMachine(m) /\ i = pcIndex[m]
  BY Ring DEF PcInv, PcShape
<1>2. PcWrites \in Nat /\ Reading(m) /\ i \in i..PcWrites
  BY PcAssumption DEF PcInv
<1>3. /\ NodeKey(p, i) \in K /\ SeesLast(m, NodeKey(p, i))
      /\ Last(NodeKey(p, i)) = acqNum[m] + 1
  BY <1>1, <1>2, PcKeysApart DEF Reading
<1> QED
  BY <1>1, <1>3, ReadsLast

----------------------------------------------------------------------------
(* The clients.                                                            *)

\* At first all machines see the first values.
LEMMA StoreInitial ==
  ASSUME NEW K, NEW first \in [K -> Nat], RsInit(first)
  PROVE  /\ StoreOK(K)
         /\ \A k \in K : Last(k) = first[k] /\ Len(written[k]) = 1
         /\ \A m \in Machines, k \in K : SeesLast(m, k)
<1>1. /\ written = [k \in K |-> <<[value |-> first[k], view |-> NoView]>>]
      /\ seen = [m \in Machines |-> [k \in K |-> 1]]
  BY DEF RsInit
<1>2. ASSUME NEW k \in K
      PROVE  /\ written[k] \in Seq(Entries(K)) /\ Len(written[k]) = 1
             /\ written[k][1].value = first[k] /\ written[k][1].view = NoView
  <2>1. PICK e : e = [value |-> first[k], view |-> NoView]
    OBVIOUS
  <2>2. e \in Entries(K) /\ e.value = first[k] /\ e.view = NoView
    BY <2>1 DEF Entries, Views
  <2>3. written[k] = <<e>>
    BY <1>1, <2>1
  <2> QED
    BY <2>2, <2>3
<1>3. written \in [K -> Seq(Entries(K))] /\ seen \in [Machines -> [K -> Nat]]
  BY <1>1, <1>2
<1>4. \A m \in Machines, k \in K : seen[m][k] = 1
  BY <1>1
<1>5. \A k \in K : \A i \in 1..Len(written[k]) : ViewFits(written[k][i].view)
  <2>1. \A k \in K : \A i \in 1..Len(written[k]) : i = 1
    <3>1. \A k \in K : Len(written[k]) = 1
      BY <1>2
    <3>2. \A i \in 1..1 : i = 1
      OBVIOUS
    <3> QED
      BY <3>1, <3>2
  <2>2. ViewFits(NoView)
    BY NoViewFits
  <2> QED
    BY <1>2, <2>1, <2>2
<1>6. \A k \in K : Last(k) = first[k] /\ Len(written[k]) = 1
  BY <1>2 DEF Last
<1>7. \A m \in Machines, k \in K : SeesLast(m, k) /\ seen[m][k] \in 1..Len(written[k])
  <2>1. TAKE m \in Machines, k \in K
  <2>2. seen[m][k] = 1 /\ Len(written[k]) = 1
    BY <1>4, <1>6
  <2> QED
    BY <2>2 DEF SeesLast
<1>8. StoreOK(K)
  BY <1>3, <1>5, <1>7 DEF StoreOK
<1> QED
  BY <1>6, <1>7, <1>8

\* The turn begins with machine 0.
LEMMA CircInitial ==
  ASSUME NEW K, CircKeys \subseteq K, CircOwnInit,
         \A m \in Machines : Last(Flag(m)) = 0
  PROVE  CircInv
<1>1. /\ step = [m \in Machines |-> IF m = 0 THEN "kick" ELSE "acquire"]
      /\ index = [m \in Machines |-> 1]
  BY DEF CircOwnInit
<1>2. CircShape
  BY <1>1, RingNumbers DEF CircShape, CircSteps
<1>3. HoldsTurn(0)
  <2>1. step[0] = "kick" /\ index[0] = 1 /\ \A n \in Machines : n # 0 => step[n] = "acquire"
    BY <1>1, RingNumbers
  <2>2. Wrote(0, index[0] - 1)
    BY <2>1 DEF Wrote
  <2> QED
    BY <2>1, <2>2 DEF HoldsTurn, Raised
<1> QED
  BY <1>2, <1>3, RingNumbers DEF CircInv

\* So does that of the producers.
LEMMA PcInitial ==
  ASSUME NEW K, StoreOK(K), PcKeys \subseteq K, PcOwnInit,
         \A k \in PcKeys : Last(k) = 0 /\ Len(written[k]) = 1,
         \A m \in Machines, k \in K : SeesLast(m, k)
  PROVE  PcInv
<1>0. PcWrites \in Nat \ {0}
  BY PcAssumption
<1>1. /\ pcStep = [m \in Machines |-> IF m = 0 THEN "initWrite" ELSE "poll"]
      /\ pcIndex = [m \in Machines |-> 1]
      /\ acqNum = [m \in Machines |-> 0] /\ relNum = [m \in Machines |-> 0]
      /\ timesWritten = [m \in Machines |-> IF m = 0 THEN 1 ELSE 0]
  BY DEF PcOwnInit
<1>2. PcShape
  BY <1>0, <1>1 DEF PcShape, PcSteps
<1>3. PcTurn(0)
  BY <1>1, Ring, RingNumbers DEF PcTurn
<1>4. ASSUME NEW m \in Machines PROVE NodeInv(m) /\ Reading(m)
  <2>1. FlagCounts(m)
    <3>1. /\ PcFlag(m) \in PcKeys /\ relNum[m] = 0 /\ relNum[m] + 1 = 1
          /\ \A i \in 1..1 : i = 1 /\ i - 1 = 0
      BY <1>1, PcKeysApart
    <3> QED
      BY <3>1 DEF FlagCounts, Last
  <2>2. \A j \in 1..PcWrites : SeesLast(m, NodeKey(m, j)) /\ Last(NodeKey(m, j)) = 0
    BY PcKeysApart
  <2>3. CASE m = 0
    <3>1. /\ pcStep[m] = "initWrite" /\ pcIndex[m] = 1 /\ timesWritten[m] = 1
          /\ relNum[m] = 0
      BY <1>1, <2>3
    <3>2. NodeHas(m, pcIndex[m] - 1, timesWritten[m])
      BY <3>1 DEF NodeHas
    <3> QED
      BY <2>1, <2>2, <3>1, <3>2 DEF NodeInv, Reading
  <2>4. CASE m # 0
    <3>1. /\ pcStep[m] = "poll" /\ pcIndex[m] = 1 /\ timesWritten[m] = 0
          /\ relNum[m] = 0
      BY <1>1, <2>4
    <3>2. NodeHas(m, PcWrites, timesWritten[m])
      BY <2>2, <3>1 DEF NodeHas
    <3> QED
      BY <2>1, <2>2, <3>1, <3>2 DEF NodeInv, Reading
  <2> QED
    BY <2>3, <2>4
<1> QED
  BY <1>2, <1>3, <1>4, RingNumbers DEF PcInv

Keys == CircKeys \cup PcKeys

\* The keys of the test client and of the producers are different.
LEMMA KeysApart == \A m \in Machines : Flag(m) \in Keys \ PcKeys
BY DEF Keys, CircKeys, PcKeys, Flag, PcFlag, NodeKey

\* A program that does not run keeps its initial state, and the other one
\* keeps its hands off its keys.
ClientsInv ==
  /\ StoreOK(Keys)
  /\ mode = "TEST_CASE" => CircInv
  /\ mode = "PRODUCER_CONSUMER" => PcInv
  /\ mode # "TEST_CASE" => CircOwnInit /\ \A m \in Machines : Last(Flag(m)) = 0
  /\ mode # "PRODUCER_CONSUMER" => PcOwnInit

\* The first values of all keys.
LEMMA ClientsInitial == ClientsInit => ClientsInv
<1> SUFFICES ASSUME ClientsInit PROVE ClientsInv
  OBVIOUS
<1>1. PICK first : first = FirstValues
  OBVIOUS
<1>2. /\ first \in [Keys -> Nat]
      /\ \A m \in Machines : first[Flag(m)] = 0
      /\ \A k \in PcKeys : first[k] = 0
  <2>1. /\ DOMAIN CircFirst = CircKeys /\ DOMAIN PcFirst = PcKeys
        /\ \A k \in CircKeys : CircFirst[k] \in Nat
        /\ \A m \in Machines : CircFirst[Flag(m)] = 0
        /\ \A k \in PcKeys : PcFirst[k] = 0
    BY CircKeysApart, RingNumbers DEF CircFirst, PcFirst, Nobody, Flag
  <2>2. \A k \in PcKeys : k \notin CircKeys
    BY DEF CircKeys, PcKeys, Flag, Item, PcFlag, NodeKey
  <2>3. first = [k \in Keys |-> IF k \in CircKeys THEN CircFirst[k] ELSE PcFirst[k]]
    BY <1>1 DEF Keys, FirstValues
  <2> QED
    BY <2>1, <2>2, <2>3, KeysApart, CircKeysApart DEF Keys
<1>3. RsInit(first) /\ CircOwnInit /\ PcOwnInit
  BY <1>1 DEF ClientsInit
<1>4. /\ StoreOK(Keys)
      /\ \A k \in Keys : Last(k) = first[k] /\ Len(written[k]) = 1
      /\ \A m \in Machines, k \in Keys : SeesLast(m, k)
  BY <1>2, <1>3, StoreInitial
<1>5. \A m \in Machines : Last(Flag(m)) = 0
  BY <1>2, <1>4, KeysApart
<1>6. CircInv
  BY <1>3, <1>5, CircInitial DEF Keys
<1>7. \A k \in PcKeys : Last(k) = 0 /\ Len(written[k]) = 1
  BY <1>2, <1>4 DEF Keys
<1>8. PcInv
  BY <1>3, <1>4, <1>7, PcInitial DEF Keys
<1> QED
  BY <1>3, <1>4, <1>5, <1>6, <1>8 DEF ClientsInv

\* Producers write only keys of theirs.
LEMMA PcWritesOwnKeys ==
  ASSUME StoreOK(Keys), PcInv, PcNext, NEW k \in Keys \ PcKeys
  PROVE  written'[k] = written[k]
<1>1. PICK m \in Machines :
        InitWrite(m) \/ PollFlag(m) \/ PcAcquire(m) \/ PcRead(m) \/ PcWrite(m) \/ PcRelease(m)
  BY DEF PcNext
<1>2. PcFlag(m) \in PcKeys /\ NodeKey(m, pcIndex[m]) \in PcKeys
  BY PcKeysApart DEF PcInv, PcShape
<1>3. CASE InitWrite(m) \/ PcWrite(m)
  BY <1>2, <1>3 DEF InitWrite, PcWrite, Write, Put, StoreOK
<1>4. CASE PcRelease(m)
  BY <1>2, <1>4 DEF PcRelease, Release, Put, StoreOK
<1>5. CASE PollFlag(m) \/ PcAcquire(m) \/ PcRead(m)
  BY <1>5 DEF PollFlag, PcAcquire, PcRead, ReadFrom, Acquire
<1> QED
  BY <1>1, <1>3, <1>4, <1>5

\* Whatever program runs.
LEMMA ClientsStep == ClientsInv /\ [ClientsNext]_clientsVars => ClientsInv'
<1> SUFFICES ASSUME ClientsInv, [ClientsNext]_clientsVars PROVE ClientsInv'
  OBVIOUS
<1>0. StoreOK(Keys) /\ CircKeys \subseteq Keys /\ PcKeys \subseteq Keys
  BY DEF ClientsInv, Keys
<1>1. CASE TestCase /\ mode' = mode
  <2>1. mode = "TEST_CASE" /\ CircNext /\ UNCHANGED pcOwn
    BY <1>1 DEF TestCase
  <2>2. StoreOK(Keys)' /\ CircInv'
    BY <1>0, <2>1, CircStep DEF ClientsInv
  <2>3. PcOwnInit'
    BY <2>1 DEF ClientsInv, pcOwn, PcOwnInit
  <2> QED
    BY <1>1, <2>1, <2>2, <2>3 DEF ClientsInv
<1>2. CASE Consumer /\ mode' = mode
  <2>1. mode = "PRODUCER_CONSUMER" /\ PcNext /\ UNCHANGED circOwn /\ PcInv
    BY <1>2 DEF Consumer, ClientsInv
  <2>2. StoreOK(Keys)' /\ PcInv'
    BY <1>0, <2>1, PcStepKeeps
  <2>3. CircOwnInit'
    BY <2>1 DEF ClientsInv, circOwn, CircOwnInit
  <2>4. \A m \in Machines : Last(Flag(m))' = 0
    <3>1. \A m \in Machines : written'[Flag(m)] = written[Flag(m)]
      BY <1>0, <2>1, KeysApart, PcWritesOwnKeys
    <3> QED
      BY <2>1, <3>1 DEF ClientsInv, Last
  <2> QED
    BY <1>2, <2>1, <2>2, <2>3, <2>4 DEF ClientsInv
<1>3. CASE UNCHANGED <<mode, rsVars, circOwn, pcOwn>>
  <2>1. UNCHANGED <<mode, written, seen, step, index, turns, pcStep, pcIndex, acqNum, relNum,
                    timesWritten>>
    BY <1>3 DEF rsVars, circOwn, pcOwn
  <2>2. StoreOK(Keys)'
    BY <1>0, <2>1 DEF StoreOK, ViewFits
  <2>3. CircInv => CircInv'
    BY <2>1 DEF CircInv, CircShape, HoldsTurn, OffersTurn, Raised, MayRead, Wrote, Last,
                LastView, SeesLast
  <2>4. PcInv => PcInv'
    <3>1. PcShape => PcShape'
      BY <2>1 DEF PcShape
    <3>2. \A h \in Machines : PcTurn(h) => PcTurn(h)'
      BY <2>1 DEF PcTurn
    <3>3. \A m \in Machines : Reading(m) => Reading(m)'
      BY <2>1, ReadingElsewhere
    <3>4. PcShape => \A m \in Machines : NodeInv(m) => NodeInv(m)'
      BY <2>1, PcAssumption, NodeElsewhere DEF PcShape
    <3> QED
      BY <3>1, <3>2, <3>3, <3>4 DEF PcInv
  <2> QED
    BY <2>1, <2>2, <2>3, <2>4 DEF ClientsInv, CircOwnInit, PcOwnInit, Last
<1> QED
  BY <1>1, <1>2, <1>3 DEF ClientsNext, clientsVars, TreiberBlocks, TreiberDebugs, Treiber,
     Queue, List, TestCase, Consumer, otherVars, rsVars, circOwn, pcOwn

\* The invariant holds in every state of the clients.
THEOREM ClientsInvariance == ClientsSpec => []ClientsInv
<1> QED
  BY ClientsInitial, ClientsStep, PTL DEF ClientsSpec

\* Of all machines of the test client one has the turn, or has passed it on,
\* whatever number of machines pass it round.
THEOREM TurnsStayOne == ClientsSpec => []OneTurn
<1>1. ClientsInv => OneTurn
  <2> SUFFICES ASSUME ClientsInv PROVE OneTurn
    OBVIOUS
  <2>1. CircInv
    BY CircInitial DEF ClientsInv, Keys
  <2> QED
    BY <2>1, TurnIsOne
<1> QED
  BY <1>1, ClientsInvariance, PTL

\* A machine reads at its turn what the machine before has written, however
\* late relaxed writes arrive ("make sure they are what they are supposed to
\* be").
THEOREM TurnsCarryWrites == ClientsSpec => []ReadsPreviousMachine
<1>1. ClientsInv => ReadsPreviousMachine
  <2> SUFFICES ASSUME ClientsInv PROVE ReadsPreviousMachine
    OBVIOUS
  <2>1. CircInv
    BY CircInitial DEF ClientsInv, Keys
  <2> QED
    BY <2>1, ReaderReads DEF ClientsInv, Keys
<1> QED
  BY <1>1, ClientsInvariance, PTL

\* A consumer reads the node of the release that it has waited for, although
\* it polls by relaxed reads.
THEOREM ReleasesCarryNodes == ClientsSpec => []ReadsReleasedNode
<1>1. ClientsInv => ReadsReleasedNode
  <2> SUFFICES ASSUME ClientsInv PROVE ReadsReleasedNode
    OBVIOUS
  <2>1. CASE mode = "PRODUCER_CONSUMER"
    BY <2>1, ConsumerReads DEF ClientsInv, Keys
  <2>2. CASE mode # "PRODUCER_CONSUMER"
    <3>1. \A m \in Machines : pcStep[m] # "read"
      BY <2>2 DEF ClientsInv, PcOwnInit
    <3> QED
      BY <3>1 DEF ReadsReleasedNode
  <2> QED
    BY <2>1, <2>2
<1> QED
  BY <1>1, ClientsInvariance, PTL

----------------------------------------------------------------------------
(* Chains of nodes.                                                        *)

\* The node at place i of q, or null if q is not as long.
NodeAt(q, i, null) == IF i \in 1..Len(q) THEN q[i] ELSE null

\* q is what one meets from first on, going by the pointers of after.
IsChain(q, first, after, null) ==
  /\ first = NodeAt(q, 1, null)
  /\ \A i \in 1..Len(q) : after[q[i]] = NodeAt(q, i + 1, null)

\* The recursion by which the nodes of a chain are found.
IsWalk(node, c, first, after, null) ==
  node = [i \in 1..(c + 1) |->
            IF i = 1 THEN first
            ELSE LET n == node[i - 1] IN IF n = null THEN null ELSE after[n]]

\* No node is twice in q.
IsSimple(q) == \A i, j \in 1..Len(q) : q[i] = q[j] => i = j

\* A sequence without repetitions is no longer than there are elements.
LEMMA SimpleLength ==
  ASSUME NEW S, IsFiniteSet(S), NEW q \in Seq(S), IsSimple(q)
  PROVE  Len(q) <= Cardinality(S)
<1>1. PICK n \in Nat : n = Len(q)
  OBVIOUS
<1>2. q \in [1..n -> S]
  BY <1>1
<1>3. q \in Injection(1..n, S)
  BY <1>1, <1>2 DEF IsSimple, Injection, IsInjective
<1>4. Cardinality(1..n) <= Cardinality(S)
  BY <1>3, FS_Injection
<1>5. Cardinality(1..n) = n
  BY FS_Interval
<1> QED
  BY <1>1, <1>4, <1>5

\* The recursion has the nodes of the chain, and then null, for its solution ...
LEMMA WalkExists ==
  ASSUME NEW S, NEW q \in Seq(S), NEW first, NEW after, NEW null, null \notin S,
         IsChain(q, first, after, null), NEW c \in Nat
  PROVE  IsWalk([i \in 1..(c + 1) |-> NodeAt(q, i, null)], c, first, after, null)
<1>1. PICK w : w = [i \in 1..(c + 1) |-> NodeAt(q, i, null)]
  OBVIOUS
<1>2. PICK m \in Nat : m = Len(q)
  OBVIOUS
<1> DEFINE Step(i) == IF i = 1 THEN first
                      ELSE LET n == w[i - 1] IN IF n = null THEN null ELSE after[n]
<1>3. ASSUME NEW i \in 1..(c + 1) PROVE NodeAt(q, i, null) = Step(i)
  <2>1. CASE i = 1
    BY <2>1 DEF IsChain
  <2>2. CASE i # 1
    <3>1. PICK j \in 1..c : i = j + 1
      <4>1. i - 1 \in 1..c /\ i = (i - 1) + 1
        BY <2>2
      <4> QED
        BY <4>1
    <3>2. j \in 1..(c + 1) /\ w[j] = NodeAt(q, j, null) /\ i - 1 = j
      BY <1>1, <3>1
    <3>3. CASE j \in 1..m
      <4>1. q[j] \in S /\ NodeAt(q, j, null) = q[j]
        BY <1>2, <3>3 DEF NodeAt
      <4>2. after[q[j]] = NodeAt(q, j + 1, null)
        BY <1>2, <3>3 DEF IsChain
      <4> QED
        BY <2>2, <3>1, <3>2, <4>1, <4>2
    <3>4. CASE j \notin 1..m
      <4>1. NodeAt(q, j, null) = null /\ NodeAt(q, j + 1, null) = null
        BY <1>2, <3>1, <3>4 DEF NodeAt
      <4> QED
        BY <2>2, <3>1, <3>2, <4>1
    <3> QED
      BY <3>3, <3>4
  <2> QED
    BY <2>1, <2>2
<1>4. w = [i \in 1..(c + 1) |-> Step(i)]
  <2> HIDE DEF Step
  <2> QED
    BY <1>1, <1>3
<1> QED
  BY <1>1, <1>4 DEF IsWalk

\* ... and no other.
LEMMA WalkUnique ==
  ASSUME NEW c \in Nat, NEW first, NEW after, NEW null,
         NEW v, IsWalk(v, c, first, after, null), NEW w, IsWalk(w, c, first, after, null)
  PROVE  v = w
<1> DEFINE T == {n \in Nat : n + 1 \in 1..(c + 1) => v[n + 1] = w[n + 1]}
<1>1. 0 \in T
  BY DEF IsWalk
<1>2. ASSUME NEW n \in T PROVE n + 1 \in T
  <2>1. SUFFICES ASSUME (n + 1) + 1 \in 1..(c + 1)
                 PROVE  v[(n + 1) + 1] = w[(n + 1) + 1]
    OBVIOUS
  <2>2. PICK i \in Nat : i = n + 1 /\ i \in 1..(c + 1) /\ i + 1 \in 1..(c + 1)
    BY <2>1
  <2>3. v[i] = w[i]
    BY <2>2
  <2>4. i + 1 # 1 /\ (i + 1) - 1 = i
    BY <2>2
  <2> HIDE DEF T
  <2>5. v[i + 1] = IF v[i] = null THEN null ELSE after[v[i]]
    BY <2>2, <2>4 DEF IsWalk
  <2>6. w[i + 1] = IF w[i] = null THEN null ELSE after[w[i]]
    BY <2>2, <2>4 DEF IsWalk
  <2> QED
    BY <2>2, <2>3, <2>5, <2>6
<1>3. T = Nat
  <2> HIDE DEF T
  <2>1. T \in SUBSET Nat
    BY DEF T
  <2> QED
    BY <1>1, <1>2, <2>1, SetNatInduction
<1>4. ASSUME NEW i \in 1..(c + 1) PROVE v[i] = w[i]
  <2>1. PICK n \in Nat : i = n + 1
    <3>1. i - 1 \in Nat /\ i = (i - 1) + 1
      OBVIOUS
    <3> QED
      BY <3>1
  <2>2. n \in T
    BY <1>3
  <2> QED
    BY <2>1, <2>2
<1> HIDE DEF T
<1>5. PICK f : f = [i \in 1..(c + 1) |-> v[i]]
  OBVIOUS
<1>6. f = v
  BY <1>5 DEF IsWalk
<1>7. f = [i \in 1..(c + 1) |-> w[i]]
  BY <1>4, <1>5
<1>8. f = w
  BY <1>7 DEF IsWalk
<1> QED
  BY <1>6, <1>8

\* What is found by the recursion, up to null.
FoundOn(w, null) == RestrictValues(w, LAMBDA n : n # null)

\* So the nodes that are found are those of the chain.
LEMMA ChainIsFound ==
  ASSUME NEW S, IsFiniteSet(S), NEW q \in Seq(S), IsSimple(q), NEW first, NEW after,
         NEW null, null \notin S, IsChain(q, first, after, null),
         NEW w, w = CHOOSE v : IsWalk(v, Cardinality(S), first, after, null)
  PROVE  FoundOn(w, null) = q
<1>1. PICK c \in Nat : c = Cardinality(S)
  BY FS_CardinalityType
<1>2. PICK m \in Nat : m = Len(q) /\ m <= c
  BY <1>1, SimpleLength
<1>3. PICK v : v = [i \in 1..(c + 1) |-> NodeAt(q, i, null)]
  OBVIOUS
<1>4. IsWalk(v, c, first, after, null)
  BY <1>3, WalkExists
<1>5. IsWalk(w, c, first, after, null)
  BY <1>1, <1>4
<1>6. w = v
  BY <1>4, <1>5, WalkUnique
<1>7. {i \in DOMAIN w : w[i] # null} = 1..m
  <2>1. DOMAIN w = 1..(c + 1)
    BY <1>3, <1>6
  <2>2. ASSUME NEW i \in 1..(c + 1) PROVE w[i] # null <=> i \in 1..m
    <3>1. w[i] = NodeAt(q, i, null)
      BY <1>3, <1>6
    <3>2. i \in 1..m => q[i] \in S
      BY <1>2
    <3> QED
      BY <1>2, <3>1, <3>2 DEF NodeAt
  <2>3. 1..m \subseteq 1..(c + 1)
    BY <1>2
  <2> QED
    BY <2>1, <2>2, <2>3
<1>8. FoundOn(w, null) = [i \in 1..m |-> w[i]]
  BY <1>7 DEF FoundOn, RestrictValues, Restrict
<1>9. ASSUME NEW i \in 1..m PROVE w[i] = q[i]
  <2>1. i \in 1..(c + 1) /\ i \in 1..Len(q)
    BY <1>2
  <2> QED
    BY <1>3, <1>6, <2>1 DEF NodeAt
<1>10. q = [i \in 1..m |-> q[i]]
  BY <1>2
<1> QED
  BY <1>8, <1>9, <1>10

\* g is f but for k, where it is v.
Updates(f, k, v, g) == g = [f EXCEPT ![k] = v]

\* n is somewhere in q.
On(q, n) == \E i \in 1..Len(q) : q[i] = n

\* A node put before the others.
LEMMA Prepended ==
  ASSUME NEW S, NEW q \in Seq(S), NEW n \in S, NEW r, r = <<n>> \o q
  PROVE  /\ r \in Seq(S) /\ Len(r) = Len(q) + 1 /\ r[1] = n
         /\ \A i \in 1..Len(q) : r[i + 1] = q[i]
<1>1. PICK m \in Nat : m = Len(q)
  OBVIOUS
<1>2. <<n>> \in Seq(S) /\ Len(<<n>>) = 1 /\ <<n>>[1] = n
  OBVIOUS
<1>3. r \in Seq(S) /\ Len(r) = m + 1 /\ r[1] = n
  BY <1>1, <1>2
<1>4. ASSUME NEW i \in 1..m PROVE r[i + 1] = q[i]
  BY <1>1, <1>2
<1> QED
  BY <1>1, <1>3, <1>4

\* What is then on it.
LEMMA PrependedOn ==
  ASSUME NEW S, NEW q \in Seq(S), NEW n \in S, NEW r, r = <<n>> \o q, NEW x
  PROVE  On(r, x) <=> x = n \/ On(q, x)
<1>1. PICK m \in Nat : m = Len(q)
  OBVIOUS
<1>3. r \in Seq(S) /\ Len(r) = m + 1 /\ r[1] = n
  BY <1>1, Prepended
<1>4. \A i \in 1..m : r[i + 1] = q[i]
  BY <1>1, Prepended
<1>5. On(r, x) <=> x = n \/ On(q, x)
  <2>1. ASSUME On(r, x) PROVE x = n \/ On(q, x)
    <3>1. PICK i \in 1..(m + 1) : r[i] = x
      BY <1>3, <2>1 DEF On
    <3>2. CASE i # 1
      <4>1. i - 1 \in 1..m /\ (i - 1) + 1 = i
        BY <3>2
      <4>2. q[i - 1] = x
        BY <1>4, <3>1, <4>1
      <4> QED
        BY <1>1, <4>1, <4>2 DEF On
    <3> QED
      BY <1>3, <3>1, <3>2
  <2>2. ASSUME x = n \/ On(q, x) PROVE On(r, x)
    <3>1. CASE x = n
      <4>1. 1 \in 1..Len(r)
        BY <1>3
      <4> QED
        BY <1>3, <3>1, <4>1 DEF On
    <3>2. CASE On(q, x)
      <4>1. PICK i \in 1..m : q[i] = x
        BY <1>1, <3>2 DEF On
      <4>2. i + 1 \in 1..Len(r)
        BY <1>3
      <4> QED
        BY <1>4, <4>1, <4>2 DEF On
    <3> QED
      BY <2>2, <3>1, <3>2
  <2> QED
    BY <2>1, <2>2
<1> QED
  BY <1>5

\* n is on r, and whatever is on q.
IsAlsoOn(r, q, n) == \A x : On(r, x) <=> x = n \/ On(q, x)

\* What is on the longer sequence, as one fact.
LEMMA PrependedAlso ==
  ASSUME NEW S, NEW q \in Seq(S), NEW n \in S, NEW r, r = <<n>> \o q
  PROVE  r \in Seq(S) /\ IsAlsoOn(r, q, n)
<1>1. r \in Seq(S)
  BY Prepended
<1>2. ASSUME NEW x PROVE On(r, x) <=> x = n \/ On(q, x)
  BY PrependedOn
<1> QED
  BY <1>1, <1>2 DEF IsAlsoOn

\* The nodes but the first.
LEMMA Shortened ==
  ASSUME NEW S, NEW q \in Seq(S), q # <<>>, IsSimple(q), NEW r, r = Tail(q)
  PROVE  /\ r \in Seq(S) /\ Len(q) = Len(r) + 1 /\ q[1] = Head(q) /\ q[1] \in S
         /\ \A i \in 1..Len(r) : r[i] = q[i + 1]
<1>1. PICK m \in Nat : Len(q) = m + 1
  <2>1. Len(q) \in Nat /\ Len(q) # 0
    OBVIOUS
  <2>2. Len(q) - 1 \in Nat /\ Len(q) = (Len(q) - 1) + 1
    BY <2>1
  <2> QED
    BY <2>2
<1>2. r \in Seq(S) /\ Len(r) = m /\ q[1] = Head(q) /\ q[1] \in S
  BY <1>1
<1>3. ASSUME NEW i \in 1..m PROVE r[i] = q[i + 1]
  BY <1>1
<1> QED
  BY <1>1, <1>2, <1>3

\* What is then on it.
LEMMA ShortenedOn ==
  ASSUME NEW S, NEW q \in Seq(S), q # <<>>, IsSimple(q), NEW r, r = Tail(q), NEW x
  PROVE  On(r, x) <=> On(q, x) /\ x # q[1]
<1>2. PICK m \in Nat : Len(r) = m /\ Len(q) = m + 1
  <2>1. r \in Seq(S) /\ Len(q) = Len(r) + 1
    BY Shortened
  <2>2. Len(r) \in Nat
    BY <2>1
  <2> QED
    BY <2>1, <2>2
<1>1. Len(q) = m + 1
  BY <1>2
<1>3. \A i \in 1..m : r[i] = q[i + 1]
  BY <1>2, Shortened
<1>4. On(r, x) <=> On(q, x) /\ x # q[1]
  <2>1. ASSUME On(r, x) PROVE On(q, x) /\ x # q[1]
    <3>1. PICK i \in 1..m : r[i] = x
      BY <1>2, <2>1 DEF On
    <3>2. q[i + 1] = x
      BY <1>3, <3>1
    <3>3. i + 1 \in 1..Len(q) /\ 1 \in 1..Len(q) /\ i + 1 # 1
      BY <1>1
    <3> QED
      BY <3>2, <3>3 DEF On, IsSimple
  <2>2. ASSUME On(q, x), x # q[1] PROVE On(r, x)
    <3>1. PICK i \in 1..(m + 1) : q[i] = x
      BY <1>1, <2>2 DEF On
    <3>2. i # 1
      BY <2>2, <3>1
    <3>3. i - 1 \in 1..m /\ (i - 1) + 1 = i
      BY <3>2
    <3>4. r[i - 1] = x
      BY <1>3, <3>1, <3>3
    <3> QED
      BY <1>2, <3>3, <3>4 DEF On
  <2> QED
    BY <2>1, <2>2
<1> QED
  BY <1>4

\* A node put behind the others.
LEMMA Appended ==
  ASSUME NEW S, NEW q \in Seq(S), NEW n \in S, NEW r, r = Append(q, n)
  PROVE  /\ r \in Seq(S) /\ Len(r) = Len(q) + 1 /\ r[Len(q) + 1] = n
         /\ \A i \in 1..Len(q) : r[i] = q[i]
<1>1. PICK m \in Nat : m = Len(q)
  OBVIOUS
<1>2. r \in Seq(S) /\ Len(r) = m + 1 /\ r[m + 1] = n
  BY <1>1
<1>3. \A i \in 1..m : r[i] = q[i]
  BY <1>1
<1> QED
  BY <1>1, <1>2, <1>3

\* What is then on it.
LEMMA AppendedOn ==
  ASSUME NEW S, NEW q \in Seq(S), NEW n \in S, NEW r, r = Append(q, n), NEW x
  PROVE  On(r, x) <=> x = n \/ On(q, x)
<1>1. PICK m \in Nat : m = Len(q)
  OBVIOUS
<1>2. r \in Seq(S) /\ Len(r) = m + 1 /\ r[m + 1] = n
  BY <1>1, Appended
<1>3. \A i \in 1..m : r[i] = q[i]
  BY <1>1, Appended
<1>4. On(r, x) <=> x = n \/ On(q, x)
  <2>1. \A i \in 1..(m + 1) : i = m + 1 \/ i \in 1..m
    OBVIOUS
  <2>2. m + 1 \in 1..(m + 1) /\ \A i \in 1..m : i \in 1..(m + 1)
    OBVIOUS
  <2> QED
    BY <1>1, <1>2, <1>3, <2>1, <2>2 DEF On
<1> QED
  BY <1>4

\* What is on a sequence that has grown at its end, as one fact.
LEMMA AppendedAlso ==
  ASSUME NEW S, NEW q \in Seq(S), NEW n \in S, NEW r, r = Append(q, n)
  PROVE  r \in Seq(S) /\ IsAlsoOn(r, q, n)
<1>1. r \in Seq(S)
  BY Appended
<1>2. ASSUME NEW x PROVE On(r, x) <=> x = n \/ On(q, x)
  BY AppendedOn
<1> QED
  BY <1>1, <1>2 DEF IsAlsoOn

\* Chains stay chains when a node is put first ...
LEMMA ChainPushed ==
  ASSUME NEW S, NEW q \in Seq(S), NEW n \in S, NEW r, r = <<n>> \o q,
         NEW first, NEW after, NEW null,
         IsChain(q, first, after, null), IsSimple(q), ~On(q, n), after[n] = first
  PROVE  IsChain(r, n, after, null) /\ IsSimple(r)
<1>1. PICK m \in Nat : m = Len(q)
  OBVIOUS
<1>2. /\ r \in Seq(S) /\ Len(r) = m + 1 /\ r[1] = n
      /\ \A i \in 1..m : r[i + 1] = q[i]
  BY <1>1, Prepended
<1>3. ASSUME NEW i \in 1..(m + 1) PROVE i = 1 \/ \E j \in 1..m : i = j + 1 /\ r[i] = q[j]
  <2>1. i # 1 => i - 1 \in 1..m /\ i = (i - 1) + 1
    OBVIOUS
  <2>2. i # 1 => r[i] = q[i - 1]
    BY <1>2, <2>1
  <2> QED
    BY <2>1, <2>2
<1>4. n = NodeAt(r, 1, null)
  <2>1. 1 \in 1..Len(r)
    BY <1>2
  <2> QED
    BY <1>2, <2>1 DEF NodeAt
<1>5. ASSUME NEW j \in Nat PROVE NodeAt(r, j + 2, null) = NodeAt(q, j + 1, null)
  <2>1. j + 2 \in 1..(m + 1) <=> j + 1 \in 1..m
    OBVIOUS
  <2>2. j + 1 \in 1..m => r[(j + 1) + 1] = q[j + 1]
    BY <1>2
  <2>3. (j + 1) + 1 = j + 2
    OBVIOUS
  <2> QED
    BY <1>1, <1>2, <2>1, <2>2, <2>3 DEF NodeAt
<1>6. ASSUME NEW i \in 1..(m + 1) PROVE after[r[i]] = NodeAt(r, i + 1, null)
  <2>1. CASE i = 1
    <3>1. after[r[i]] = NodeAt(q, 1, null)
      BY <1>2, <2>1 DEF IsChain
    <3>2. NodeAt(r, 0 + 2, null) = NodeAt(q, 0 + 1, null)
      BY <1>5
    <3> QED
      BY <2>1, <3>1, <3>2
  <2>2. CASE i # 1
    <3>1. PICK j \in 1..m : i = j + 1 /\ r[i] = q[j]
      BY <1>3, <2>2
    <3>2. after[q[j]] = NodeAt(q, j + 1, null)
      BY <1>1 DEF IsChain
    <3>3. i + 1 = j + 2 /\ j \in Nat
      BY <3>1
    <3> QED
      BY <1>5, <3>1, <3>2, <3>3
  <2> QED
    BY <2>1, <2>2
<1>7. IsSimple(r)
  <2>1. SUFFICES ASSUME NEW i \in 1..(m + 1), NEW j \in 1..(m + 1), r[i] = r[j]
                 PROVE  i = j
    BY <1>2 DEF IsSimple
  <2>2. CASE i = 1 \/ j = 1
    <3>1. \A k \in 1..m : q[k] # n
      BY <1>1 DEF On
    <3> QED
      BY <1>2, <1>3, <2>1, <2>2, <3>1
  <2>3. CASE i # 1 /\ j # 1
    <3>1. PICK k \in 1..m : i = k + 1 /\ r[i] = q[k]
      BY <1>3, <2>3
    <3>2. PICK l \in 1..m : j = l + 1 /\ r[j] = q[l]
      BY <1>3, <2>3
    <3>3. k = l
      BY <1>1, <2>1, <3>1, <3>2 DEF IsSimple
    <3> QED
      BY <3>1, <3>2, <3>3
  <2> QED
    BY <2>2, <2>3
<1> QED
  BY <1>2, <1>4, <1>6, <1>7 DEF IsChain

\* ... when the first is taken away ...
LEMMA ChainPopped ==
  ASSUME NEW S, NEW q \in Seq(S), NEW first, NEW after, NEW null, null \notin S,
         IsChain(q, first, after, null), IsSimple(q), first # null, NEW r, r = Tail(q)
  PROVE  /\ q # <<>> /\ q[1] = first /\ Head(q) = first
         /\ IsChain(r, after[first], after, null) /\ IsSimple(r)
<1>1. PICK n \in Nat : n = Len(q)
  OBVIOUS
<1>2. 1 \in 1..n /\ q[1] = first /\ q # <<>>
  BY <1>1 DEF IsChain, NodeAt
<1>3. PICK m \in Nat : m = Len(r) /\ n = m + 1
  <2>1. r \in Seq(S) /\ Len(q) = Len(r) + 1
    BY <1>2, Shortened
  <2> QED
    BY <1>1, <2>1
<1>4. Head(q) = first /\ \A i \in 1..m : r[i] = q[i + 1]
  BY <1>2, <1>3, Shortened
<1>5. ASSUME NEW i \in Nat PROVE NodeAt(q, i + 2, null) = NodeAt(r, i + 1, null)
  <2>1. i + 2 \in 1..(m + 1) <=> i + 1 \in 1..m
    OBVIOUS
  <2>2. i + 1 \in 1..m => r[i + 1] = q[(i + 1) + 1]
    BY <1>4
  <2>3. (i + 1) + 1 = i + 2
    OBVIOUS
  <2> QED
    BY <1>1, <1>3, <2>1, <2>2, <2>3 DEF NodeAt
<1>6. after[first] = NodeAt(r, 1, null)
  <2>1. after[first] = NodeAt(q, 1 + 1, null)
    BY <1>1, <1>2 DEF IsChain
  <2>2. NodeAt(q, 0 + 2, null) = NodeAt(r, 0 + 1, null)
    BY <1>5
  <2> QED
    BY <2>1, <2>2
<1>7. ASSUME NEW i \in 1..m PROVE after[r[i]] = NodeAt(r, i + 1, null)
  <2>1. i + 1 \in 1..n /\ (i + 1) + 1 = i + 2 /\ i \in Nat
    BY <1>3
  <2>2. after[q[i + 1]] = NodeAt(q, (i + 1) + 1, null)
    BY <1>1, <2>1 DEF IsChain
  <2> QED
    BY <1>4, <1>5, <2>1, <2>2
<1>8. IsSimple(r)
  <2>1. \A i \in 1..m : i + 1 \in 1..n
    BY <1>3
  <2>2. SUFFICES ASSUME NEW i \in 1..m, NEW j \in 1..m, r[i] = r[j] PROVE i = j
    BY <1>3 DEF IsSimple
  <2>3. q[i + 1] = q[j + 1]
    BY <1>4, <2>2
  <2>4. i + 1 = j + 1
    BY <1>1, <2>1, <2>3 DEF IsSimple
  <2> QED
    BY <2>4
<1> QED
  BY <1>2, <1>3, <1>4, <1>6, <1>7, <1>8 DEF IsChain

\* ... when one is linked behind the last ...
LEMMA ChainLinked ==
  ASSUME NEW S, NEW q \in Seq(S), q # <<>>, NEW n \in S, NEW r, r = Append(q, n),
         NEW first, NEW after, NEW null, NEW after2, DOMAIN after = S,
         IsChain(q, first, after, null), IsSimple(q), ~On(q, n),
         NEW last, last = q[Len(q)], Updates(after, last, n, after2), after[n] = null
  PROVE  IsChain(r, first, after2, null) /\ IsSimple(r)
<1>1. PICK m \in Nat : m = Len(q) /\ m > 0
  OBVIOUS
<1>0. \A x \in S : after2[x] = IF x = q[m] THEN n ELSE after[x]
  BY <1>1 DEF Updates
<1>2. /\ r \in Seq(S) /\ Len(r) = m + 1 /\ r[m + 1] = n
      /\ \A i \in 1..m : r[i] = q[i]
  BY <1>1, Appended
<1>3. first = NodeAt(r, 1, null)
  <2>1. 1 \in 1..m /\ 1 \in 1..(m + 1)
    BY <1>1
  <2> QED
    BY <1>1, <1>2, <2>1 DEF IsChain, NodeAt
<1>4. ASSUME NEW i \in 1..(m + 1) PROVE after2[r[i]] = NodeAt(r, i + 1, null)
  <2>1. CASE i = m + 1
    <3>1. n # q[m]
      BY <1>1 DEF On
    <3>2. after2[n] = null
      BY <1>0, <3>1
    <3>3. (m + 1) + 1 \notin 1..(m + 1)
      OBVIOUS
    <3> QED
      BY <1>2, <2>1, <3>2, <3>3 DEF NodeAt
  <2>2. CASE i = m
    <3>1. i \in 1..m /\ i + 1 \in 1..(m + 1)
      BY <1>1, <2>2
    <3>2. r[i] = q[m] /\ q[m] \in S
      BY <1>1, <1>2, <2>2, <3>1
    <3>3. after2[r[i]] = n
      BY <1>0, <3>2
    <3> QED
      BY <1>2, <2>2, <3>1, <3>3 DEF NodeAt
  <2>3. CASE i # m /\ i # m + 1
    <3>1. i \in 1..m /\ i + 1 \in 1..m /\ i + 1 \in 1..(m + 1)
      BY <2>3
    <3>2. r[i] = q[i] /\ q[i] \in S /\ q[i] # q[m]
      BY <1>1, <1>2, <2>3, <3>1 DEF IsSimple
    <3>3. after2[r[i]] = after[q[i]]
      BY <1>0, <3>2
    <3>4. after[q[i]] = NodeAt(q, i + 1, null)
      BY <1>1, <3>1 DEF IsChain
    <3> QED
      BY <1>1, <1>2, <3>1, <3>3, <3>4 DEF NodeAt
  <2> QED
    BY <2>1, <2>2, <2>3
<1>5. IsSimple(r)
  <2>1. SUFFICES ASSUME NEW i \in 1..(m + 1), NEW j \in 1..(m + 1), r[i] = r[j]
                 PROVE  i = j
    BY <1>2 DEF IsSimple
  <2>2. \A k \in 1..m : q[k] # n
    BY <1>1 DEF On
  <2>3. i \in 1..m \/ i = m + 1
    OBVIOUS
  <2>4. j \in 1..m \/ j = m + 1
    OBVIOUS
  <2> QED
    BY <1>1, <1>2, <2>1, <2>2, <2>3, <2>4 DEF IsSimple
<1> QED
  BY <1>2, <1>3, <1>4, <1>5 DEF IsChain

\* ... and when a node is written that is not on them.
LEMMA ChainUntouched ==
  ASSUME NEW S, NEW q \in Seq(S), NEW first, NEW after, NEW null, NEW after2,
         IsChain(q, first, after, null), \A x \in S : On(q, x) => after2[x] = after[x]
  PROVE  IsChain(q, first, after2, null)
<1>1. \A i \in 1..Len(q) : q[i] \in S /\ On(q, q[i])
  BY DEF On
<1> QED
  BY <1>1 DEF IsChain

\* The node at which a chain starts ...
LEMMA ChainStarts ==
  ASSUME NEW S, NEW q \in Seq(S), NEW first, NEW after, NEW null, null \notin S,
         IsChain(q, first, after, null)
  PROVE  /\ first = null <=> q = <<>>
         /\ first # null => On(q, first) /\ first = q[1] /\ first \in S
<1>1. PICK m \in Nat : m = Len(q)
  OBVIOUS
<1>2. m = 0 <=> q = <<>>
  BY <1>1
<1>3. 1 \in 1..m <=> m # 0
  OBVIOUS
<1>4. \A i \in 1..m : q[i] \in S /\ q[i] # null
  BY <1>1
<1>5. first = IF m # 0 THEN q[1] ELSE null
  BY <1>1, <1>3 DEF IsChain, NodeAt
<1>6. first = null <=> q = <<>>
  BY <1>2, <1>3, <1>4, <1>5
<1>7. first # null => On(q, first) /\ first = q[1] /\ first \in S
  BY <1>1, <1>3, <1>4, <1>5 DEF On
<1> QED
  BY <1>6, <1>7

\* ... what comes at and after one that is on it ...
LEMMA ChainGoesOn ==
  ASSUME NEW S, NEW q \in Seq(S), NEW first, NEW after, NEW null, null \notin S,
         IsChain(q, first, after, null), NEW x, On(q, x)
  PROVE  /\ x \in S
         /\ after[x] # null => after[x] \in S /\ On(q, after[x])
         /\ after[x] = null => x = q[Len(q)]
<1>1. PICK m \in Nat : m = Len(q)
  OBVIOUS
<1>2. PICK i \in 1..m : q[i] = x /\ x \in S
  BY <1>1 DEF On
<1>3. i + 1 \in 1..m <=> i # m
  BY <1>2
<1>4. after[x] = IF i = m THEN null ELSE q[i + 1]
  BY <1>1, <1>2, <1>3 DEF IsChain, NodeAt
<1>5. i # m => q[i + 1] \in S /\ q[i + 1] # null /\ On(q, q[i + 1])
  BY <1>1, <1>3 DEF On
<1> QED
  BY <1>1, <1>2, <1>4, <1>5

\* ... and the one at which it ends.
LEMMA ChainLast ==
  ASSUME NEW S, NEW q \in Seq(S), q # <<>>, NEW first, NEW after, NEW null, null \notin S,
         IsChain(q, first, after, null), NEW last, last = q[Len(q)]
  PROVE  last \in S /\ On(q, last) /\ after[last] = null
<1>1. PICK m \in Nat : m = Len(q) /\ m # 0
  OBVIOUS
<1>2. m \in 1..m /\ m + 1 \notin 1..m
  BY <1>1
<1> QED
  BY <1>1, <1>2 DEF IsChain, NodeAt, On

----------------------------------------------------------------------------
(* Nodes in their places: on a chain or with a session.  There are as many *)
(* chains as sessions, and they have the same names.                       *)

\* Chain k of st begins at first[k]; session s holds the node held[s].
Placed(I, S, null, st, first, after, held) ==
  /\ st \in [I -> Seq(S)]
  /\ first \in [I -> S \cup {null}] /\ DOMAIN after = S
  /\ held \in [I -> S \cup {null}]
  /\ \A k \in I : IsChain(st[k], first[k], after, null) /\ IsSimple(st[k])
  /\ \A k, l \in I : \A n \in S : On(st[k], n) /\ On(st[l], n) => k = l
  /\ \A s, u \in I : held[s] # null /\ held[s] = held[u] => s = u
  /\ \A s, k \in I : ~On(st[k], held[s])

\* A session puts its node on chain k.
LEMMA PlacedPushed ==
  ASSUME NEW I, NEW S, NEW null, null \notin S,
         NEW st, NEW first, NEW after, NEW held, Placed(I, S, null, st, first, after, held),
         NEW s \in I, NEW k \in I, NEW n, n = held[s], n # null, after[n] = first[k],
         NEW r, r = <<n>> \o st[k], NEW st2, Updates(st, k, r, st2),
         NEW first2, Updates(first, k, n, first2), NEW held2, Updates(held, s, null, held2)
  PROVE  Placed(I, S, null, st2, first2, after, held2)
<1>0. PICK q \in Seq(S) : q = st[k]
  BY DEF Placed
<1>1. n \in S /\ ~On(q, n) /\ IsChain(q, first[k], after, null) /\ IsSimple(q)
  BY <1>0 DEF Placed
<1>2. r = <<n>> \o q
  BY <1>0
<1>13. r \in Seq(S) /\ IsAlsoOn(r, q, n)
  BY <1>1, <1>2, PrependedAlso
<1>3. r \in Seq(S) /\ \A x : On(r, x) <=> x = n \/ On(q, x)
  BY <1>13 DEF IsAlsoOn
<1>4. IsChain(r, n, after, null) /\ IsSimple(r)
  BY <1>1, <1>2, ChainPushed
<1>5. /\ st2 \in [I -> Seq(S)] /\ st2[k] = r
      /\ \A l \in I : l # k => st2[l] = st[l]
  BY <1>0, <1>2, <1>3 DEF Placed, Updates
<1>6. /\ held2 \in [I -> S \cup {null}] /\ held2[s] = null
      /\ \A u \in I : u # s => held2[u] = held[u]
  BY DEF Placed, Updates
<1>7. \A l \in I : IsChain(st2[l], first2[l], after, null) /\ IsSimple(st2[l])
  BY <1>4, <1>5 DEF Placed, Updates
<1>8. \A l \in I : \A x \in S : On(st2[l], x) <=> (On(st[l], x) \/ (l = k /\ x = n))
  BY <1>0, <1>3, <1>5
<1>9. \A l, j \in I : \A x \in S : On(st2[l], x) /\ On(st2[j], x) => l = j
  <2>1. \A l \in I : ~On(st[l], n)
    BY DEF Placed
  <2>2. \A l, j \in I : \A x \in S : On(st[l], x) /\ On(st[j], x) => l = j
    BY DEF Placed
  <2> QED
    BY <1>8, <2>1, <2>2
<1>10. \A u, v \in I : held2[u] # null /\ held2[u] = held2[v] => u = v
  BY <1>6 DEF Placed
<1>11. ASSUME NEW u \in I, NEW l \in I PROVE ~On(st2[l], held2[u])
  <2>1. CASE u = s
    <3>1. ~On(st2[l], null)
      <4>1. st2[l] \in Seq(S)
        BY <1>5
      <4> QED
        BY <4>1 DEF On
    <3> QED
      BY <1>6, <2>1, <3>1
  <2>2. CASE u # s
    <3>1. held2[u] = held[u] /\ held[u] # n
      BY <1>6, <2>2 DEF Placed
    <3>2. ~On(st[l], held[u])
      BY DEF Placed
    <3> QED
      BY <1>0, <1>3, <1>5, <3>1, <3>2
  <2> QED
    BY <2>1, <2>2
<1>12. first2 \in [I -> S \cup {null}] /\ DOMAIN after = S
  BY <1>1 DEF Placed, Updates
<1> QED
  BY <1>5, <1>6, <1>7, <1>9, <1>10, <1>11, <1>12 DEF Placed

\* A session takes the first node of chain k.
LEMMA PlacedPopped ==
  ASSUME NEW I, NEW S, NEW null, null \notin S,
         NEW st, NEW first, NEW after, NEW held, Placed(I, S, null, st, first, after, held),
         NEW s \in I, NEW k \in I, held[s] = null,
         NEW n, n = first[k], n # null,
         NEW r, r = Tail(st[k]), NEW st2, Updates(st, k, r, st2),
         NEW first2, Updates(first, k, after[n], first2), NEW held2, Updates(held, s, n, held2)
  PROVE  Placed(I, S, null, st2, first2, after, held2)
<1>0. PICK q \in Seq(S) : q = st[k]
  BY DEF Placed
<1>1. r = Tail(q) /\ IsChain(q, n, after, null) /\ IsSimple(q)
  BY <1>0 DEF Placed
<1>2. /\ q # <<>> /\ q[1] = n
      /\ IsChain(r, after[n], after, null) /\ IsSimple(r)
  BY <1>1, ChainPopped
<1>13. r \in Seq(S) /\ n \in S
  BY <1>1, <1>2, Shortened
<1>14. ASSUME NEW x PROVE On(r, x) <=> On(q, x) /\ x # n
  BY <1>1, <1>2, ShortenedOn
<1>3. r \in Seq(S) /\ n \in S /\ \A x : On(r, x) <=> On(q, x) /\ x # n
  BY <1>13, <1>14
<1>4. On(q, n)
  BY <1>1, ChainStarts
<1>5. /\ st2 \in [I -> Seq(S)] /\ st2[k] = r
      /\ \A l \in I : l # k => st2[l] = st[l]
  BY <1>0, <1>1, <1>3 DEF Placed, Updates
<1>6. /\ held2 \in [I -> S \cup {null}] /\ held2[s] = n
      /\ \A u \in I : u # s => held2[u] = held[u]
  BY <1>1, <1>3 DEF Placed, Updates
<1>7. \A l \in I : IsChain(st2[l], first2[l], after, null) /\ IsSimple(st2[l])
  BY <1>1, <1>2, <1>5 DEF Placed, Updates
<1>8. \A l \in I : \A x \in S : On(st2[l], x) => On(st[l], x) /\ x # n
  <2>1. \A l \in I : On(st[l], n) => l = k
    BY <1>0, <1>3, <1>4 DEF Placed
  <2>2. ASSUME NEW l \in I, NEW x \in S, On(st2[l], x) PROVE On(st[l], x) /\ x # n
    <3>1. CASE l = k
      BY <1>0, <1>3, <1>5, <2>2, <3>1
    <3>2. CASE l # k
      BY <1>5, <2>1, <2>2, <3>2
    <3> QED
      BY <3>1, <3>2
  <2> QED
    BY <2>2
<1>9. \A l, j \in I : \A x \in S : On(st2[l], x) /\ On(st2[j], x) => l = j
  BY <1>8 DEF Placed
<1>10. ASSUME NEW u \in I, NEW l \in I PROVE ~On(st2[l], held2[u])
  <2>1. CASE u = s
    BY <1>3, <1>6, <1>8, <2>1
  <2>2. CASE u # s
    <3>1. held2[u] = held[u] /\ ~On(st[l], held[u])
      BY <1>6, <2>2 DEF Placed
    <3> QED
      BY <1>0, <1>3, <1>5, <3>1
  <2> QED
    BY <2>1, <2>2
<1>11. \A u, v \in I : held2[u] # null /\ held2[u] = held2[v] => u = v
  <2>1. \A u \in I : held[u] # n
    BY <1>0, <1>4 DEF Placed
  <2>2. \A u, v \in I : held[u] # null /\ held[u] = held[v] => u = v
    BY DEF Placed
  <2> QED
    BY <1>6, <2>1, <2>2
<1>12. first2 \in [I -> S \cup {null}] /\ DOMAIN after = S
  <2>1. after[n] \in S \cup {null}
    <3>1. PICK x : x = after[n]
      OBVIOUS
    <3>2. IsChain(r, x, after, null)
      BY <1>2, <3>1
    <3>3. x # null => x \in S
      BY <1>13, <3>2, ChainStarts
    <3> QED
      BY <3>1, <3>3
  <2> QED
    BY <2>1 DEF Placed, Updates
<1> QED
  BY <1>5, <1>6, <1>7, <1>9, <1>10, <1>11, <1>12 DEF Placed

\* A session writes its node.
LEMMA PlacedWritten ==
  ASSUME NEW I, NEW S, NEW null, null \notin S,
         NEW st, NEW first, NEW after, NEW held, Placed(I, S, null, st, first, after, held),
         NEW s \in I, NEW n, n = held[s], NEW x, NEW after2, Updates(after, n, x, after2)
  PROVE  Placed(I, S, null, st, first, after2, held)
<1>1. ASSUME NEW k \in I PROVE IsChain(st[k], first[k], after2, null)
  <2>1. st[k] \in Seq(S) /\ IsChain(st[k], first[k], after, null) /\ ~On(st[k], held[s])
    BY DEF Placed
  <2>2. \A y \in S : On(st[k], y) => after2[y] = after[y]
    BY <2>1 DEF Placed, Updates
  <2> QED
    BY <2>1, <2>2, ChainUntouched
<1>2. DOMAIN after2 = S
  BY DEF Placed, Updates
<1> QED
  BY <1>1, <1>2 DEF Placed

\* A session links its node behind the last of chain k.
LEMMA PlacedLinked ==
  ASSUME NEW I, NEW S, NEW null, null \notin S,
         NEW st, NEW first, NEW after, NEW held, Placed(I, S, null, st, first, after, held),
         NEW s \in I, NEW k \in I, NEW n, n = held[s], n # null, after[n] = null,
         NEW q, q = st[k], q # <<>>, NEW last, last = q[Len(q)],
         NEW r, r = Append(q, n), NEW st2, Updates(st, k, r, st2),
         NEW after2, Updates(after, last, n, after2), NEW held2, Updates(held, s, null, held2)
  PROVE  Placed(I, S, null, st2, first, after2, held2)
<1>0. q \in Seq(S) /\ q = st[k] /\ IsChain(q, first[k], after, null) /\ IsSimple(q)
  BY DEF Placed
<1>1. n \in S /\ ~On(q, n) /\ q # <<>> /\ r = Append(q, n)
  BY <1>0 DEF Placed
<1>2. On(q, last) /\ last \in S
  BY <1>0, <1>1, ChainLast
<1>12. \A x \in S : after2[x] = IF x = last THEN n ELSE after[x]
  BY DEF Placed, Updates
<1>13. r \in Seq(S) /\ IsAlsoOn(r, q, n)
  BY <1>0, <1>1, AppendedAlso
<1>3. r \in Seq(S) /\ \A x : On(r, x) <=> x = n \/ On(q, x)
  BY <1>13 DEF IsAlsoOn
<1>4. IsChain(r, first[k], after2, null) /\ IsSimple(r)
  <2>1. DOMAIN after = S
    BY DEF Placed
  <2>2. PICK f : f = first[k]
    OBVIOUS
  <2>3. IsChain(q, f, after, null) /\ IsSimple(q)
    BY <1>0, <2>2
  <2>4. IsChain(r, f, after2, null) /\ IsSimple(r)
    BY <1>0, <1>1, <2>1, <2>3, ChainLinked
  <2> QED
    BY <2>2, <2>4
<1>5. /\ st2 \in [I -> Seq(S)] /\ st2[k] = r
      /\ \A l \in I : l # k => st2[l] = st[l]
  BY <1>0, <1>2, <1>3 DEF Placed, Updates
<1>6. /\ held2 \in [I -> S \cup {null}] /\ held2[s] = null
      /\ \A u \in I : u # s => held2[u] = held[u]
  BY DEF Placed, Updates
<1>7. ASSUME NEW l \in I PROVE IsChain(st2[l], first[l], after2, null) /\ IsSimple(st2[l])
  <2>1. CASE l = k
    BY <1>4, <1>5, <2>1
  <2>2. CASE l # k
    <3>3. \A x \in S : On(st[l], x) => after2[x] = after[x]
      <4>1. ~On(st[l], last)
        BY <1>0, <1>2, <2>2 DEF Placed
      <4> QED
        BY <1>12, <4>1
    <3>4. st[l] \in Seq(S) /\ IsChain(st[l], first[l], after, null)
      BY DEF Placed
    <3>5. IsChain(st[l], first[l], after2, null)
      BY <3>3, <3>4, ChainUntouched
    <3> QED
      BY <1>5, <2>2, <3>5 DEF Placed
  <2> QED
    BY <2>1, <2>2
<1>8. \A l \in I : \A x \in S : On(st2[l], x) <=> (On(st[l], x) \/ (l = k /\ x = n))
  BY <1>0, <1>3, <1>5
<1>9. \A l, j \in I : \A x \in S : On(st2[l], x) /\ On(st2[j], x) => l = j
  <2>1. \A l \in I : ~On(st[l], n)
    BY DEF Placed
  <2>2. \A l, j \in I : \A x \in S : On(st[l], x) /\ On(st[j], x) => l = j
    BY DEF Placed
  <2> QED
    BY <1>8, <2>1, <2>2
<1>10. \A u, v \in I : held2[u] # null /\ held2[u] = held2[v] => u = v
  BY <1>6 DEF Placed
<1>11. ASSUME NEW u \in I, NEW l \in I PROVE ~On(st2[l], held2[u])
  <2>1. CASE u = s
    <3>1. ~On(st2[l], null)
      <4>1. st2[l] \in Seq(S)
        BY <1>5
      <4> QED
        BY <4>1 DEF On
    <3> QED
      BY <1>6, <2>1, <3>1
  <2>2. CASE u # s
    <3>1. held2[u] = held[u] /\ held[u] # n
      BY <1>6, <2>2 DEF Placed
    <3>2. ~On(st[l], held[u])
      BY DEF Placed
    <3> QED
      BY <1>0, <1>3, <1>5, <3>1, <3>2
  <2> QED
    BY <2>1, <2>2
<1>15. first \in [I -> S \cup {null}] /\ DOMAIN after2 = S
  BY DEF Placed, Updates
<1> QED
  BY <1>5, <1>6, <1>7, <1>9, <1>10, <1>11, <1>15 DEF Placed

----------------------------------------------------------------------------
(* The stacks, whatever version of the client keeps them.                  *)

StackModes == {"TREIBER_BLOCKING", "TREIBER_DEBUG", "TREIBER_ASYNC"}

\* What is on the stacks, where they begin, and what sessions hold.
StacksNow == [k \in StackIds |-> Contents(k)]
Firsts == [k \in StackIds |-> tops[k].keyId]
HoldsNow == [s \in Sessions |-> Holds(s)]

\* Each node is in one place.
NodesPlaced == Placed(Sessions, Nodes, Null, StacksNow, Firsts, nextKeyId, HoldsNow)

\* The sessions that have pushed on k and not yet popped.
PoppersOf(k) == {s \in Sessions : state[s] \in PopStates /\ stackId[s] = k}

\* The versions that count pushes: there is a node on a stack for everyone who
\* comes to pop.
StacksCount ==
  mode # "TREIBER_BLOCKING" =>
    \A k \in StackIds :
      /\ tops[k].pushCounter - tops[k].popCounter = Len(StacksNow[k])
      /\ Len(StacksNow[k]) = Cardinality(PoppersOf(k))

\* A node that is about to be put first points to what was first when the top
\* was read.
PushKnows(s) == state[s] = "pushCas" => nextKeyId[ownedKey[s]] = top[s].keyId

\* As long as nothing is popped, the node that was first is on the stack, and
\* it points where it has pointed.
PopKnows(s) ==
  state[s] \in {"popReadFirst", "popCas"} =>
    /\ top[s].keyId # Null
    /\ top[s].popCounter <= tops[stackId[s]].popCounter
    /\ top[s].popCounter = tops[stackId[s]].popCounter =>
         /\ On(StacksNow[stackId[s]], top[s].keyId)
         /\ state[s] = "popCas" => newKeyId[s] = nextKeyId[top[s].keyId]

\* A push is not forgotten.
LastKnown(s) ==
  /\ mode # "TREIBER_ASYNC" => lastPushed[s] = 0
  /\ state[s] \in PopStates => lastPushed[s] <= tops[stackId[s]].pushCounter
  /\ state[s] \in {"popReadFirst", "popCas"} => lastPushed[s] <= top[s].pushCounter

\* The debug version: the hints are right ...
HintsHold ==
  \A k \in StackIds : \A j \in 1..3 :
    hints[k][j] \in {Unknown, NodeAt(StacksNow[k], j + 1, Null)}

\* ... a node that is on a stack is marked with it, and one that is about to
\* be pushed with the stack that it will be on; ...
NodesMarked ==
  /\ \A k \in StackIds, n \in Nodes : On(StacksNow[k], n) => nodeStack[n] = k
  /\ \A s \in Sessions : state[s] = "pushCas" => nodeStack[ownedKey[s]] = stackId[s]

\* ... and if the counters are those of the top that was read, it is the top
\* that was read.
TopAged(s) ==
  LET found == tops[stackId[s]]
  IN  /\ top[s].popCounter <= found.popCounter /\ top[s].pushCounter <= found.pushCounter
      /\ top[s].popCounter = found.popCounter /\ top[s].pushCounter = found.pushCounter
           => top[s] = found /\ topHints[s] = hints[stackId[s]]

DebugKnows(s) ==
  /\ state[s] \in {"pushWrite", "pushCas", "popReadFirst", "popCas"} => TopAged(s)
  /\ state[s] = "popCas" /\ top[s].popCounter = tops[stackId[s]].popCounter
       => firstStack[s] = stackId[s]

StacksDebug ==
  mode = "TREIBER_DEBUG" =>
    HintsHold /\ NodesMarked /\ \A s \in Sessions : DebugKnows(s)

StacksKnown == \A s \in Sessions : PushKnows(s) /\ PopKnows(s) /\ LastKnown(s)

StacksInv ==
  /\ TypeOK /\ DbgTypeOK
  /\ NodesPlaced
  /\ StacksCount
  /\ StacksKnown
  /\ StacksDebug

\* What is asked of the constants.
LEMMA StackNumbers == IsFiniteSet(Sessions) /\ Null \notin Nodes
BY StackAssumption DEF Nodes

\* The nodes that are found from the tops on are those that are placed there,
\* before a step and after it.
LEMMA StacksFound ==
  \A st : Placed(Sessions, Nodes, Null, st, Firsts, nextKeyId, HoldsNow) => StacksNow = st
<1> SUFFICES ASSUME NEW st, Placed(Sessions, Nodes, Null, st, Firsts, nextKeyId, HoldsNow)
             PROVE  StacksNow = st
  OBVIOUS
<1>1. ASSUME NEW k \in StackIds PROVE Contents(k) = st[k]
  <2>1. PICK w : w = CHOOSE v : IsWalk(v, Cardinality(Nodes), tops[k].keyId, nextKeyId, Null)
    OBVIOUS
  <2>2. Contents(k) = FoundOn(w, Null)
    BY <2>1 DEF Contents, IsWalk, FoundOn
  <2>3. st[k] \in Seq(Nodes) /\ IsChain(st[k], tops[k].keyId, nextKeyId, Null)
        /\ IsSimple(st[k])
    BY DEF Placed, Firsts, StackIds
  <2>4. IsFiniteSet(Nodes) /\ Null \notin Nodes
    BY StackNumbers DEF Nodes
  <2>5. FoundOn(w, Null) = st[k]
    BY <2>1, <2>3, <2>4, ChainIsFound
  <2> QED
    BY <2>2, <2>5
<1>2. st \in [StackIds -> Seq(Nodes)]
  BY DEF Placed, StackIds
<1> QED
  BY <1>1, <1>2 DEF StacksNow

\* The stacks are found in the next state, too.
LEMMA StacksFoundNext ==
  (\A st : Placed(Sessions, Nodes, Null, st, Firsts, nextKeyId, HoldsNow) => StacksNow = st)'
BY StacksFound, PTL

\* What a step may do to the store: s puts its node first on stack k, ...
PutsFirst(s, k) ==
  /\ Holds(s) # Null /\ nextKeyId[Holds(s)] = tops[k].keyId
  /\ UNCHANGED nextKeyId
  /\ Updates(Firsts, k, Holds(s), Firsts')
  /\ Updates(HoldsNow, s, Null, HoldsNow')

\* ... takes the first node of stack k, ...
TakesFirst(s, k) ==
  /\ Holds(s) = Null /\ tops[k].keyId # Null
  /\ UNCHANGED nextKeyId
  /\ Updates(Firsts, k, nextKeyId[tops[k].keyId], Firsts')
  /\ Updates(HoldsNow, s, tops[k].keyId, HoldsNow')

\* ... writes its node, ...
WritesOwn(s) ==
  /\ Holds(s) # Null
  /\ \E x : Updates(nextKeyId, Holds(s), x, nextKeyId')
  /\ UNCHANGED <<Firsts, HoldsNow>>

\* ... or leaves all as it is.
LeavesAll == UNCHANGED <<nextKeyId, Firsts, HoldsNow>>

\* A node put first is put on the stack.
LEMMA FirstPut ==
  ASSUME NodesPlaced, NEW s \in Sessions, NEW k \in StackIds, PutsFirst(s, k)
  PROVE  /\ NodesPlaced'
         /\ Updates(StacksNow, k, <<Holds(s)>> \o StacksNow[k], StacksNow')
<1>1. PICK st : st = StacksNow
  OBVIOUS
<1>2. PICK n : n = HoldsNow[s] /\ n = Holds(s)
  BY DEF HoldsNow
<1>3. PICK r : r = <<n>> \o st[k]
  OBVIOUS
<1>4. PICK st2 : Updates(st, k, r, st2)
  BY DEF Updates
<1>5. Placed(Sessions, Nodes, Null, st, Firsts, nextKeyId, HoldsNow)
  BY <1>1 DEF NodesPlaced
<1>6. n # Null /\ nextKeyId[n] = Firsts[k] /\ k \in Sessions
      /\ Updates(Firsts, k, n, Firsts') /\ Updates(HoldsNow, s, Null, HoldsNow')
  BY <1>2 DEF PutsFirst, Firsts, StackIds
<1>7. Placed(Sessions, Nodes, Null, st2, Firsts', nextKeyId, HoldsNow')
  BY <1>2, <1>3, <1>4, <1>5, <1>6, StackNumbers, PlacedPushed
<1>8. Placed(Sessions, Nodes, Null, st2, Firsts', nextKeyId', HoldsNow')
  BY <1>7 DEF PutsFirst
<1>9. StacksNow' = st2
  BY <1>8, StacksFoundNext
<1> QED
  BY <1>1, <1>2, <1>3, <1>4, <1>8, <1>9 DEF NodesPlaced

\* The first node taken is taken off the stack.
LEMMA FirstTaken ==
  ASSUME NodesPlaced, NEW s \in Sessions, NEW k \in StackIds, TakesFirst(s, k)
  PROVE  /\ NodesPlaced'
         /\ Updates(StacksNow, k, Tail(StacksNow[k]), StacksNow')
<1>1. PICK st : st = StacksNow
  OBVIOUS
<1>2. PICK n : n = Firsts[k] /\ n = tops[k].keyId
  BY DEF Firsts
<1>3. PICK r : r = Tail(st[k])
  OBVIOUS
<1>4. PICK st2 : Updates(st, k, r, st2)
  BY DEF Updates
<1>5. Placed(Sessions, Nodes, Null, st, Firsts, nextKeyId, HoldsNow)
  BY <1>1 DEF NodesPlaced
<1>6. n # Null /\ HoldsNow[s] = Null /\ k \in Sessions
      /\ Updates(Firsts, k, nextKeyId[n], Firsts') /\ Updates(HoldsNow, s, n, HoldsNow')
  BY <1>2 DEF TakesFirst, HoldsNow, StackIds
<1>7. Placed(Sessions, Nodes, Null, st2, Firsts', nextKeyId, HoldsNow')
  BY <1>2, <1>3, <1>4, <1>5, <1>6, StackNumbers, PlacedPopped
<1>8. Placed(Sessions, Nodes, Null, st2, Firsts', nextKeyId', HoldsNow')
  BY <1>7 DEF TakesFirst
<1>9. StacksNow' = st2
  BY <1>8, StacksFoundNext
<1> QED
  BY <1>1, <1>3, <1>4, <1>8, <1>9 DEF NodesPlaced

\* Whatever a session writes to its own node, the stacks stay.
LEMMA OwnWritten ==
  ASSUME NodesPlaced, NEW s \in Sessions, WritesOwn(s)
  PROVE  NodesPlaced' /\ StacksNow' = StacksNow
<1>1. PICK st : st = StacksNow
  OBVIOUS
<1>2. PICK n : n = HoldsNow[s] /\ n = Holds(s)
  BY DEF HoldsNow
<1>3. PICK x : Updates(nextKeyId, n, x, nextKeyId')
  BY <1>2 DEF WritesOwn
<1>4. Placed(Sessions, Nodes, Null, st, Firsts, nextKeyId, HoldsNow)
  BY <1>1 DEF NodesPlaced
<1>5. Placed(Sessions, Nodes, Null, st, Firsts, nextKeyId', HoldsNow)
  BY <1>2, <1>3, <1>4, StackNumbers, PlacedWritten
<1>6. Placed(Sessions, Nodes, Null, st, Firsts', nextKeyId', HoldsNow')
  BY <1>5 DEF WritesOwn
<1>7. StacksNow' = st
  BY <1>6, StacksFoundNext
<1> QED
  BY <1>1, <1>6, <1>7 DEF NodesPlaced

\* The stacks stay when nothing they are found by changes.
LEMMA AllLeft ==
  ASSUME NodesPlaced, LeavesAll
  PROVE  NodesPlaced' /\ StacksNow' = StacksNow
<1>1. PICK st : st = StacksNow
  OBVIOUS
<1>2. Placed(Sessions, Nodes, Null, st, Firsts, nextKeyId, HoldsNow)
  BY <1>1 DEF NodesPlaced
<1>3. Placed(Sessions, Nodes, Null, st, Firsts', nextKeyId', HoldsNow')
  BY <1>2 DEF LeavesAll
<1>4. StacksNow' = st
  BY <1>3, StacksFoundNext
<1> QED
  BY <1>1, <1>3, <1>4 DEF NodesPlaced

\* Where a stack begins, and that it is not empty if someone comes to pop.
LEMMA TopIsOn ==
  ASSUME NodesPlaced, NEW k \in StackIds
  PROVE  /\ StacksNow[k] \in Seq(Nodes)
         /\ StacksNow[k] = <<>> <=> tops[k].keyId = Null
         /\ tops[k].keyId # Null => /\ On(StacksNow[k], tops[k].keyId)
                                    /\ tops[k].keyId = StacksNow[k][1]
<1>1. PICK q \in Seq(Nodes) : q = StacksNow[k]
  BY DEF NodesPlaced, Placed, StackIds
<1>2. IsChain(q, tops[k].keyId, nextKeyId, Null)
  BY <1>1 DEF NodesPlaced, Placed, StackIds, Firsts
<1>3. Null \notin Nodes
  BY StackNumbers
<1>4. PICK f : f = tops[k].keyId
  OBVIOUS
<1>5. (f = Null <=> q = <<>>) /\ (f # Null => On(q, f) /\ f = q[1])
  BY <1>2, <1>3, <1>4, ChainStarts
<1> QED
  BY <1>1, <1>4, <1>5

\* Whoever comes to pop where pushes are counted finds a node: there is one for
\* every session that does.
LEMMA PoppersFindNodes ==
  ASSUME NodesPlaced, StacksCount, mode # "TREIBER_BLOCKING", NEW s \in Sessions,
         stackId[s] \in StackIds, state[s] \in PopStates
  PROVE  tops[stackId[s]].keyId # Null
<1>1. PICK k \in StackIds : k = stackId[s]
  OBVIOUS
<1>2. PICK q \in Seq(Nodes) : q = StacksNow[k]
  BY TopIsOn
<1>3. s \in PoppersOf(k) /\ IsFiniteSet(PoppersOf(k))
  BY <1>1, StackNumbers, FS_Subset DEF PoppersOf
<1>4. Cardinality(PoppersOf(k)) # 0
  BY <1>3, FS_EmptySet
<1>5. Len(q) # 0
  BY <1>2, <1>4 DEF StacksCount
<1> QED
  BY <1>1, <1>2, <1>5, TopIsOn

\* What only s may change, and what it changes when its push or its pop gets
\* done, ...
LocalStays(u) ==
  /\ state'[u] = state[u] /\ top'[u] = top[u] /\ newKeyId'[u] = newKeyId[u]
  /\ ownedKey'[u] = ownedKey[u] /\ stackId'[u] = stackId[u]
  /\ lastPushed'[u] = lastPushed[u]
  /\ topHints'[u] = topHints[u] /\ firstStack'[u] = firstStack[u]

OthersStay(s) == \A u \in Sessions \ {s} : LocalStays(u)

OtherTopsStay(k) == \A l \in StackIds \ {k} : tops'[l] = tops[l] /\ hints'[l] = hints[l]

PushDone(s) ==
  LET k == stackId[s]
  IN  /\ PutsFirst(s, k)
      /\ OtherTopsStay(k)
      /\ tops'[k].popCounter = tops[k].popCounter
      /\ tops'[k].pushCounter =
           IF mode = "TREIBER_BLOCKING" THEN tops[k].pushCounter ELSE tops[k].pushCounter + 1
      /\ state[s] = "pushCas" /\ state'[s] = "popInit" /\ stackId'[s] = k

PopDone(s) ==
  LET k == stackId[s]
  IN  /\ TakesFirst(s, k)
      /\ OtherTopsStay(k)
      /\ tops'[k].popCounter = tops[k].popCounter + 1
      /\ tops'[k].pushCounter = tops[k].pushCounter
      /\ state[s] = "popCas" /\ state'[s] \notin PopStates

\* ... and what it leaves alone else.
OwnWrite(s) ==
  /\ WritesOwn(s)
  /\ UNCHANGED <<tops, hints>>
  /\ state[s] \notin PopStates /\ state'[s] \notin PopStates

Quiet(s) ==
  /\ LeavesAll
  /\ UNCHANGED <<tops, hints>>
  /\ state[s] \in PopStates <=> state'[s] \in PopStates
  /\ stackId'[s] = stackId[s]

StackStep(s) ==
  /\ UNCHANGED mode
  /\ OthersStay(s)
  /\ PushDone(s) \/ PopDone(s) \/ OwnWrite(s) \/ Quiet(s)

\* Counters only grow, and as long as that of the pops does not, the nodes
\* that are on a stack stay and point where they do.
StacksGrow ==
  \A k \in StackIds :
    /\ tops[k].popCounter <= tops'[k].popCounter
    /\ tops[k].pushCounter <= tops'[k].pushCounter
    /\ tops'[k].popCounter = tops[k].popCounter =>
         \A n \in Nodes :
           On(StacksNow[k], n) => On(StacksNow'[k], n) /\ nextKeyId'[n] = nextKeyId[n]

\* How a step changes what is on the stacks.
LEMMA StepPlaces ==
  ASSUME NodesPlaced, NEW s \in Sessions, stackId[s] \in StackIds, StackStep(s)
  PROVE  /\ NodesPlaced'
         /\ PushDone(s) => Updates(StacksNow, stackId[s],
                                   <<Holds(s)>> \o StacksNow[stackId[s]], StacksNow')
         /\ PopDone(s) => Updates(StacksNow, stackId[s], Tail(StacksNow[stackId[s]]), StacksNow')
         /\ OwnWrite(s) \/ Quiet(s) => StacksNow' = StacksNow
<1>1. CASE PushDone(s)
  <2>1. PutsFirst(s, stackId[s])
    BY <1>1 DEF PushDone
  <2>2. /\ NodesPlaced'
        /\ Updates(StacksNow, stackId[s], <<Holds(s)>> \o StacksNow[stackId[s]], StacksNow')
    BY <2>1, FirstPut
  <2>3. ~PopDone(s) /\ ~OwnWrite(s) /\ ~Quiet(s)
    BY <1>1 DEF PushDone, PopDone, OwnWrite, Quiet, PopStates
  <2> QED
    BY <2>2, <2>3
<1>2. CASE PopDone(s)
  <2>1. TakesFirst(s, stackId[s])
    BY <1>2 DEF PopDone
  <2>2. /\ NodesPlaced'
        /\ Updates(StacksNow, stackId[s], Tail(StacksNow[stackId[s]]), StacksNow')
    BY <2>1, FirstTaken
  <2>3. ~PushDone(s) /\ ~OwnWrite(s) /\ ~Quiet(s)
    BY <1>2 DEF PushDone, PopDone, OwnWrite, Quiet, PopStates
  <2> QED
    BY <2>2, <2>3
<1>3. CASE OwnWrite(s) \/ Quiet(s)
  <2>1. ~PushDone(s) /\ ~PopDone(s)
    BY <1>3 DEF PushDone, PopDone, OwnWrite, Quiet, PopStates
  <2>2. NodesPlaced' /\ StacksNow' = StacksNow
    BY <1>3, OwnWritten, AllLeft DEF OwnWrite, Quiet
  <2> QED
    BY <2>1, <2>2
<1> QED
  BY <1>1, <1>2, <1>3 DEF StackStep

\* Tops have their types, of which this is what counting needs.
CountsOK == \A k \in StackIds : tops[k].popCounter \in Nat /\ tops[k].pushCounter \in Nat

\* The counters of a top never go back, and any pop is counted.
LEMMA StepGrows ==
  ASSUME NodesPlaced, CountsOK, NEW s \in Sessions, stackId[s] \in StackIds, StackStep(s)
  PROVE  StacksGrow
<1>1. PICK k \in StackIds : k = stackId[s]
  OBVIOUS
<1>2. PICK q \in Seq(Nodes) : q = StacksNow[k]
  BY TopIsOn
<1>3. DOMAIN StacksNow = StackIds
  BY DEF StacksNow
<1>4. CASE PushDone(s)
  <2>1. PICK n \in Nodes : n = Holds(s)
    BY <1>4 DEF PushDone, PutsFirst, NodesPlaced, Placed, HoldsNow
  <2>2. PICK r : r = <<n>> \o q
    OBVIOUS
  <2>3. Updates(StacksNow, k, r, StacksNow')
    BY <1>1, <1>2, <1>4, <2>1, <2>2, StepPlaces
  <2>4. IsAlsoOn(r, q, n)
    BY <2>2, PrependedAlso
  <2>5. ASSUME NEW l \in StackIds, NEW x \in Nodes, On(StacksNow[l], x)
        PROVE  On(StacksNow'[l], x)
    <3>1. StacksNow'[l] = IF l = k THEN r ELSE StacksNow[l]
      BY <1>3, <2>3 DEF Updates
    <3> QED
      BY <1>2, <2>4, <2>5, <3>1 DEF IsAlsoOn
  <2>6. nextKeyId' = nextKeyId
    BY <1>4 DEF PushDone, PutsFirst
  <2>7. ASSUME NEW l \in StackIds
        PROVE  /\ tops[l].popCounter <= tops'[l].popCounter
               /\ tops[l].pushCounter <= tops'[l].pushCounter
    BY <1>1, <1>4 DEF PushDone, OtherTopsStay, CountsOK
  <2> QED
    BY <2>5, <2>6, <2>7 DEF StacksGrow
<1>5. CASE PopDone(s)
  <2>1. ASSUME NEW l \in StackIds
        PROVE  /\ tops[l].popCounter <= tops'[l].popCounter
               /\ tops[l].pushCounter <= tops'[l].pushCounter
               /\ tops'[l].popCounter = tops[l].popCounter => l # k
    BY <1>1, <1>5 DEF PopDone, OtherTopsStay, CountsOK
  <2>2. \A l \in StackIds : l # k => StacksNow'[l] = StacksNow[l]
    <3>1. Updates(StacksNow, k, Tail(StacksNow[k]), StacksNow')
      BY <1>1, <1>5, StepPlaces
    <3> QED
      BY <1>3, <3>1 DEF Updates
  <2>3. nextKeyId' = nextKeyId
    BY <1>5 DEF PopDone, TakesFirst
  <2> QED
    BY <2>1, <2>2, <2>3 DEF StacksGrow
<1>6. CASE OwnWrite(s)
  <2>1. StacksNow' = StacksNow /\ tops' = tops
    BY <1>6, StepPlaces DEF OwnWrite
  <2>2. ASSUME NEW l \in StackIds, NEW x \in Nodes, On(StacksNow[l], x)
        PROVE  nextKeyId'[x] = nextKeyId[x]
    <3>1. x # Holds(s)
      BY <2>2 DEF NodesPlaced, Placed, HoldsNow, StackIds
    <3>2. DOMAIN nextKeyId = Nodes
      BY DEF NodesPlaced, Placed
    <3> QED
      BY <1>6, <3>1, <3>2 DEF OwnWrite, WritesOwn, Updates
  <2> QED
    BY <2>1, <2>2 DEF StacksGrow, CountsOK
<1>7. CASE Quiet(s)
  <2>1. StacksNow' = StacksNow /\ tops' = tops /\ nextKeyId' = nextKeyId
    BY <1>7, StepPlaces DEF Quiet, LeavesAll
  <2> QED
    BY <2>1 DEF StacksGrow, CountsOK
<1> QED
  BY <1>4, <1>5, <1>6, <1>7 DEF StackStep

\* A session that holds a node is the only one that writes it.
LEMMA OthersNodesStay ==
  ASSUME NodesPlaced, NEW s \in Sessions, stackId[s] \in StackIds, StackStep(s),
         NEW u \in Sessions \ {s}, Holds(u) # Null
  PROVE  nextKeyId'[Holds(u)] = nextKeyId[Holds(u)]
<1>1. Holds(u) \in Nodes /\ Holds(s) # Holds(u)
  BY DEF NodesPlaced, Placed, HoldsNow
<1>2. DOMAIN nextKeyId = Nodes
  BY DEF NodesPlaced, Placed
<1> QED
  BY <1>1, <1>2 DEF StackStep, PushDone, PopDone, OwnWrite, Quiet, PutsFirst, TakesFirst,
     WritesOwn, LeavesAll, Updates

\* What a session knows it knows after the steps of others.
LEMMA OthersKnow ==
  ASSUME NodesPlaced, CountsOK, StacksKnown, NEW s \in Sessions, stackId[s] \in StackIds,
         StackStep(s), NEW u \in Sessions \ {s}, stackId[u] \in StackIds, ownedKey[u] \in Nodes,
         top[u].popCounter \in Nat, top[u].pushCounter \in Nat, lastPushed[u] \in Nat
  PROVE  PushKnows(u)' /\ PopKnows(u)' /\ LastKnown(u)'
<1>1. LocalStays(u) /\ mode' = mode
  BY DEF StackStep, OthersStay
<1>2. StacksGrow
  BY StepGrows
<1>3. PushKnows(u) /\ PopKnows(u) /\ LastKnown(u)
  BY DEF StacksKnown
<1>4. PushKnows(u)'
  <2>1. SUFFICES ASSUME state[u] = "pushCas"
                 PROVE  nextKeyId'[ownedKey[u]] = top[u].keyId
    BY <1>1 DEF PushKnows, LocalStays
  <2>2. Holds(u) = ownedKey[u] /\ Holds(u) # Null
    BY <2>1, StackNumbers DEF Holds, PopStates
  <2> QED
    BY <1>3, <2>1, <2>2, OthersNodesStay DEF PushKnows
<1>5. PopKnows(u)'
  <2>1. SUFFICES ASSUME state[u] \in {"popReadFirst", "popCas"}
                 PROVE  /\ top[u].keyId # Null
                        /\ top[u].popCounter <= tops'[stackId[u]].popCounter
                        /\ top[u].popCounter = tops'[stackId[u]].popCounter =>
                             /\ On(StacksNow'[stackId[u]], top[u].keyId)
                             /\ state[u] = "popCas" => newKeyId[u] = nextKeyId'[top[u].keyId]
    BY <1>1 DEF PopKnows, LocalStays
  <2>2. PICK k \in StackIds : k = stackId[u]
    OBVIOUS
  <2>3. /\ tops[k].popCounter \in Nat
        /\ tops[k].popCounter <= tops'[k].popCounter
        /\ tops'[k].popCounter = tops[k].popCounter =>
             \A n \in Nodes :
               On(StacksNow[k], n) => On(StacksNow'[k], n) /\ nextKeyId'[n] = nextKeyId[n]
    BY <1>2 DEF StacksGrow, CountsOK
  <2>4. /\ top[u].keyId # Null /\ top[u].popCounter <= tops[k].popCounter
        /\ top[u].popCounter = tops[k].popCounter =>
             /\ On(StacksNow[k], top[u].keyId)
             /\ state[u] = "popCas" => newKeyId[u] = nextKeyId[top[u].keyId]
    BY <1>3, <2>1, <2>2 DEF PopKnows
  <2>5. \A x : On(StacksNow[k], x) => x \in Nodes
    BY TopIsOn DEF On
  <2>6. CountsOK'
    BY DEF CountsOK, StackStep, PushDone, PopDone, OwnWrite, Quiet, OtherTopsStay
  <2>7. tops'[k].popCounter \in Nat
    BY <2>6 DEF CountsOK
  <2>8. top[u].popCounter <= tops'[k].popCounter
    BY <2>3, <2>4, <2>7
  <2>9. ASSUME top[u].popCounter = tops'[k].popCounter
        PROVE  top[u].popCounter = tops[k].popCounter /\ tops'[k].popCounter = tops[k].popCounter
    BY <2>3, <2>4, <2>7, <2>9
  <2> QED
    BY <2>2, <2>3, <2>4, <2>5, <2>8, <2>9
<1>6. LastKnown(u)'
  <2>1. PICK k \in StackIds : k = stackId[u]
    OBVIOUS
  <2>2. tops[k].pushCounter <= tops'[k].pushCounter /\ tops[k].pushCounter \in Nat
    BY <1>2 DEF StacksGrow, CountsOK
  <2>3. CountsOK'
    BY DEF CountsOK, StackStep, PushDone, PopDone, OwnWrite, Quiet, OtherTopsStay
  <2>4. tops'[k].pushCounter \in Nat
    BY <2>3 DEF CountsOK
  <2> QED
    BY <1>1, <1>3, <2>1, <2>2, <2>4 DEF LastKnown, LocalStays
<1> QED
  BY <1>4, <1>5, <1>6

\* The count of the nodes and of those who come for them.
LEMMA StepCounts ==
  ASSUME NodesPlaced, CountsOK, StacksCount, stackId \in [Sessions -> StackIds],
         NEW s \in Sessions, StackStep(s)
  PROVE  StacksCount'
<1> SUFFICES ASSUME mode # "TREIBER_BLOCKING", NEW l \in StackIds
             PROVE  /\ tops'[l].pushCounter - tops'[l].popCounter = Len(StacksNow'[l])
                    /\ Len(StacksNow'[l]) = Cardinality(PoppersOf(l)')
  BY DEF StacksCount, StackStep
<1>1. PICK k \in StackIds : k = stackId[s]
  OBVIOUS
<1>2. PICK q \in Seq(Nodes) : q = StacksNow[l]
  BY TopIsOn
<1>3. /\ tops[l].pushCounter - tops[l].popCounter = Len(q)
      /\ Len(q) = Cardinality(PoppersOf(l))
      /\ tops[l].pushCounter \in Nat /\ tops[l].popCounter \in Nat /\ Len(q) \in Nat
  BY <1>2 DEF StacksCount, CountsOK
<1>4. IsFiniteSet(PoppersOf(l)) /\ DOMAIN StacksNow = StackIds
  BY StackNumbers, FS_Subset DEF PoppersOf, StacksNow
<1>5. \A u \in Sessions \ {s} : u \in PoppersOf(l)' <=> u \in PoppersOf(l)
  BY DEF StackStep, OthersStay, LocalStays, PoppersOf
<1>10. PoppersOf(l) \subseteq Sessions /\ PoppersOf(l)' \subseteq Sessions
  BY DEF PoppersOf
<1>11. (s \in PoppersOf(l)' <=> s \in PoppersOf(l)) => PoppersOf(l)' = PoppersOf(l)
  <2>1. PICK A : A = PoppersOf(l)
    OBVIOUS
  <2>2. PICK B : B = PoppersOf(l)'
    OBVIOUS
  <2>3. A \subseteq Sessions /\ B \subseteq Sessions
        /\ \A u \in Sessions \ {s} : u \in B <=> u \in A
    BY <1>5, <1>10, <2>1, <2>2
  <2>4. ASSUME s \in B <=> s \in A PROVE A = B
    <3>1. ASSUME NEW x PROVE x \in A <=> x \in B
      BY <2>3, <2>4
    <3> QED
      BY <3>1, Zenon
  <2> QED
    BY <2>1, <2>2, <2>4
<1>6. CASE PushDone(s)
  <2>1. PICK n \in Nodes : n = Holds(s)
    BY <1>6 DEF PushDone, PutsFirst, NodesPlaced, Placed, HoldsNow
  <2>2. Updates(StacksNow, k, <<n>> \o StacksNow[k], StacksNow')
    BY <1>1, <1>6, <2>1, StepPlaces
  <2>3. CASE l = k
    <3>1. s \notin PoppersOf(l) /\ s \in PoppersOf(l)'
      BY <1>1, <1>6, <2>3 DEF PushDone, PoppersOf, PopStates
    <3>2. PoppersOf(l)' = PoppersOf(l) \cup {s}
      BY <1>5, <1>10, <3>1
    <3>3. Cardinality(PoppersOf(l)') = Cardinality(PoppersOf(l)) + 1
      BY <1>4, <3>1, <3>2, FS_AddElement
    <3>4. StacksNow'[l] = <<n>> \o q
      BY <1>2, <1>4, <2>2, <2>3 DEF Updates
    <3>5. Len(StacksNow'[l]) = Len(q) + 1
      BY <3>4, Prepended
    <3>6. /\ tops'[l].popCounter = tops[l].popCounter
          /\ tops'[l].pushCounter = tops[l].pushCounter + 1
      BY <1>1, <1>6, <2>3 DEF PushDone
    <3> QED
      BY <1>3, <3>3, <3>5, <3>6
  <2>4. CASE l # k
    <3>1. PoppersOf(l)' = PoppersOf(l)
      <4>1. s \notin PoppersOf(l) /\ s \notin PoppersOf(l)'
        BY <1>1, <1>6, <2>4 DEF PushDone, PoppersOf
      <4> QED
        BY <1>11, <4>1
    <3>2. StacksNow'[l] = q /\ tops'[l] = tops[l]
      BY <1>1, <1>2, <1>4, <1>6, <2>2, <2>4 DEF Updates, PushDone, OtherTopsStay
    <3> QED
      BY <1>3, <3>1, <3>2
  <2> QED
    BY <2>3, <2>4
<1>7. CASE PopDone(s)
  <2>2. Updates(StacksNow, k, Tail(StacksNow[k]), StacksNow')
    BY <1>1, <1>7, StepPlaces
  <2>3. CASE l = k
    <3>1. s \in PoppersOf(l) /\ s \notin PoppersOf(l)'
      BY <1>1, <1>7, <2>3 DEF PopDone, PoppersOf, PopStates
    <3>2. PoppersOf(l)' = PoppersOf(l) \ {s}
      BY <1>5, <1>10, <3>1
    <3>3. Cardinality(PoppersOf(l)') = Cardinality(PoppersOf(l)) - 1
      BY <1>4, <3>1, <3>2, FS_RemoveElement
    <3>4. StacksNow'[l] = Tail(q)
      BY <1>2, <1>4, <2>2, <2>3 DEF Updates
    <3>5. Len(StacksNow'[l]) = Len(q) - 1
      <4>1. q # <<>>
        BY <1>1, <1>2, <1>7, <2>3, TopIsOn DEF PopDone, TakesFirst
      <4> QED
        BY <3>4, <4>1
    <3>6. /\ tops'[l].popCounter = tops[l].popCounter + 1
          /\ tops'[l].pushCounter = tops[l].pushCounter
      BY <1>1, <1>7, <2>3 DEF PopDone
    <3> QED
      BY <1>3, <3>3, <3>5, <3>6
  <2>4. CASE l # k
    <3>1. PoppersOf(l)' = PoppersOf(l)
      <4>1. s \notin PoppersOf(l) /\ s \notin PoppersOf(l)'
        BY <1>1, <1>7, <2>4 DEF PopDone, PoppersOf
      <4> QED
        BY <1>11, <4>1
    <3>2. StacksNow'[l] = q /\ tops'[l] = tops[l]
      BY <1>1, <1>2, <1>4, <1>7, <2>2, <2>4 DEF Updates, PopDone, OtherTopsStay
    <3> QED
      BY <1>3, <3>1, <3>2
  <2> QED
    BY <2>3, <2>4
<1>8. CASE OwnWrite(s) \/ Quiet(s)
  <2>1. StacksNow' = StacksNow /\ tops' = tops
    BY <1>8, StepPlaces DEF OwnWrite, Quiet
  <2>2. s \in PoppersOf(l)' <=> s \in PoppersOf(l)
    BY <1>8 DEF OwnWrite, Quiet, PoppersOf
  <2>3. PoppersOf(l)' = PoppersOf(l)
    BY <1>11, <2>2
  <2> QED
    BY <1>2, <1>3, <2>1, <2>3
<1> QED
  BY <1>6, <1>7, <1>8 DEF StackStep

\* Steps are of one of the four kinds, by what they do to s and the store.
LEMMA HoldsUpdated ==
  ASSUME NEW s \in Sessions, OthersStay(s)
  PROVE  Updates(HoldsNow, s, Holds(s)', HoldsNow')
<1>1. \A u \in Sessions \ {s} : Holds(u)' = Holds(u)
  BY DEF OthersStay, LocalStays, Holds
<1> QED
  BY <1>1 DEF HoldsNow, Updates

\* What sessions hold stays, ...
LEMMA HoldsKept ==
  ASSUME NEW s \in Sessions, OthersStay(s), Holds(s)' = Holds(s)
  PROVE  HoldsNow' = HoldsNow
<1>1. \A u \in Sessions : Holds(u)' = Holds(u)
  BY DEF OthersStay, LocalStays, Holds
<1> QED
  BY <1>1 DEF HoldsNow

\* ... and the first nodes change in one place.
LEMMA FirstsUpdated ==
  ASSUME NEW k \in StackIds, OtherTopsStay(k), NEW x, tops'[k].keyId = x
  PROVE  Updates(Firsts, k, x, Firsts')
<1>1. \A l \in StackIds \ {k} : tops'[l].keyId = tops[l].keyId
  BY DEF OtherTopsStay
<1> QED
  BY <1>1 DEF Firsts, Updates

\* The effects of the requests.  One that reads, ...
LEMMA QuietStep ==
  ASSUME NEW s \in Sessions, OthersStay(s), UNCHANGED <<mode, tops, nextKeyId, hints>>,
         state[s] \in PopStates <=> state'[s] \in PopStates,
         stackId'[s] = stackId[s], Holds(s)' = Holds(s)
  PROVE  StackStep(s) /\ Quiet(s)
<1>1. HoldsNow' = HoldsNow /\ Firsts' = Firsts
  BY HoldsKept DEF Firsts
<1> QED
  BY <1>1 DEF StackStep, Quiet, LeavesAll

\* ... one that writes the session's own node, ...
LEMMA WriteStep ==
  ASSUME NEW s \in Sessions, OthersStay(s), UNCHANGED <<mode, tops, hints>>,
         state[s] \notin PopStates, state'[s] \notin PopStates, ownedKey'[s] = ownedKey[s],
         ownedKey[s] \in Nodes, NEW x, nextKeyId' = [nextKeyId EXCEPT ![ownedKey[s]] = x]
  PROVE  StackStep(s) /\ OwnWrite(s)
<1>1. Holds(s)' = Holds(s) /\ Holds(s) = ownedKey[s] /\ Holds(s) # Null
  BY StackNumbers DEF Holds
<1>2. HoldsNow' = HoldsNow /\ Firsts' = Firsts
  BY <1>1, HoldsKept DEF Firsts
<1>3. WritesOwn(s)
  BY <1>1, <1>2 DEF WritesOwn, Updates
<1> QED
  BY <1>3 DEF StackStep, OwnWrite

\* ... a push that is done, ...
LEMMA PushStep ==
  ASSUME NEW s \in Sessions, OthersStay(s), UNCHANGED <<mode, nextKeyId>>,
         NEW k \in StackIds, k = stackId[s], k = stackId'[s], OtherTopsStay(k),
         state[s] = "pushCas", state'[s] = "popInit",
         ownedKey[s] \in Nodes, nextKeyId[ownedKey[s]] = tops[k].keyId,
         tops'[k].keyId = ownedKey[s], tops'[k].popCounter = tops[k].popCounter,
         tops'[k].pushCounter =
           IF mode = "TREIBER_BLOCKING" THEN tops[k].pushCounter ELSE tops[k].pushCounter + 1
  PROVE  StackStep(s) /\ PushDone(s)
<1>1. Holds(s)' = Null /\ Holds(s) = ownedKey[s] /\ Holds(s) # Null
  BY StackNumbers DEF Holds, PopStates
<1>2. Updates(HoldsNow, s, Null, HoldsNow') /\ Updates(Firsts, k, Holds(s), Firsts')
  BY <1>1, HoldsUpdated, FirstsUpdated
<1>3. PutsFirst(s, k)
  BY <1>1, <1>2 DEF PutsFirst
<1> QED
  BY <1>3 DEF StackStep, PushDone

\* ... and a pop that is done.
LEMMA PopStep ==
  ASSUME NEW s \in Sessions, OthersStay(s), UNCHANGED <<mode, nextKeyId>>,
         NEW k \in StackIds, k = stackId[s], OtherTopsStay(k),
         state[s] = "popCas", state'[s] \in States \ PopStates,
         tops[k].keyId # Null, ownedKey'[s] = tops[k].keyId,
         tops'[k].keyId = nextKeyId[tops[k].keyId],
         tops'[k].popCounter = tops[k].popCounter + 1,
         tops'[k].pushCounter = tops[k].pushCounter
  PROVE  StackStep(s) /\ PopDone(s)
<1>1. Holds(s)' = tops[k].keyId /\ Holds(s) = Null
  BY StackNumbers DEF Holds, PopStates
<1>2. /\ Updates(HoldsNow, s, tops[k].keyId, HoldsNow')
      /\ Updates(Firsts, k, nextKeyId[tops[k].keyId], Firsts')
  BY <1>1, HoldsUpdated, FirstsUpdated
<1>3. TakesFirst(s, k)
  BY <1>1, <1>2 DEF TakesFirst
<1> QED
  BY <1>3 DEF StackStep, PopDone

\* A session that has read the top of a stack that is not empty.
LEMMA TopRead ==
  ASSUME NodesPlaced, CountsOK, NEW s \in Sessions, stackId[s] \in StackIds,
         StackStep(s), Quiet(s), tops[stackId[s]].keyId # Null,
         state'[s] = "popReadFirst", top'[s] = tops[stackId[s]]
  PROVE  PopKnows(s)'
<1>1. PICK k \in StackIds : k = stackId[s] /\ k = stackId'[s]
  BY DEF Quiet
<1>2. On(StacksNow[k], tops[k].keyId)
  BY <1>1, TopIsOn
<1>3. StacksNow' = StacksNow /\ tops' = tops
  BY StepPlaces DEF Quiet
<1> QED
  BY <1>1, <1>2, <1>3 DEF PopKnows, CountsOK

\* What the types say of s.
LEMMA SessionTypes ==
  ASSUME TypeOK, NEW s \in Sessions
  PROVE  /\ CountsOK
         /\ stackId[s] \in StackIds /\ ownedKey[s] \in Nodes /\ lastPushed[s] \in Nat
         /\ top[s].popCounter \in Nat /\ top[s].pushCounter \in Nat
         /\ top[s].keyId \in Nodes \cup {Null} /\ newKeyId[s] \in Nodes \cup {Null}
         /\ state[s] \in States
         /\ \A k \in StackIds : tops[k] \in Tops
BY DEF TypeOK, Tops, CountsOK

\* What a step of s leaves for s to know.
Knows(s) == PushKnows(s) /\ PopKnows(s) /\ LastKnown(s)

\* Tops that are pushed on and popped from.
LEMMA TopsCounted ==
  ASSUME NEW t \in Tops, NEW n \in Nodes \cup {Null}
  PROVE  /\ [t EXCEPT !.keyId = n, !.pushCounter = @ + 1] =
              [keyId |-> n, popCounter |-> t.popCounter, pushCounter |-> t.pushCounter + 1]
         /\ [t EXCEPT !.keyId = n, !.popCounter = @ + 1] =
              [keyId |-> n, popCounter |-> t.popCounter + 1, pushCounter |-> t.pushCounter]
<1>1. PICK a \in Nat : a = t.popCounter
  BY DEF Tops
<1>2. PICK b \in Nat : b = t.pushCounter
  BY DEF Tops
<1>3. PICK p : p = [t EXCEPT !.keyId = n, !.pushCounter = @ + 1]
  OBVIOUS
<1>4. PICK r : r = [t EXCEPT !.keyId = n, !.popCounter = @ + 1]
  OBVIOUS
<1>5. p = [keyId |-> n, popCounter |-> a, pushCounter |-> b + 1]
  BY <1>1, <1>2, <1>3 DEF Tops
<1>6. r = [keyId |-> n, popCounter |-> a + 1, pushCounter |-> b]
  BY <1>1, <1>2, <1>4 DEF Tops
<1> QED
  BY <1>1, <1>2, <1>3, <1>4, <1>5, <1>6

\* The tops that a session would put in.
LEMMA NextTops ==
  ASSUME TypeOK, NEW s \in Sessions
  PROVE  /\ PushedTop(s) \in Tops /\ PushedTop(s).keyId = ownedKey[s]
         /\ PushedTop(s).popCounter = top[s].popCounter
         /\ PushedTop(s).pushCounter = top[s].pushCounter + 1
         /\ PoppedTop(s) \in Tops /\ PoppedTop(s).keyId = newKeyId[s]
         /\ PoppedTop(s).popCounter = top[s].popCounter + 1
         /\ PoppedTop(s).pushCounter = top[s].pushCounter
<1>1. PICK t \in Tops : t = top[s]
  BY DEF TypeOK
<1>2. PICK n \in Nodes : n = ownedKey[s]
  BY DEF TypeOK
<1>3. PICK m \in Nodes \cup {Null} : m = newKeyId[s]
  BY DEF TypeOK
<1>4. PushedTop(s) = [t EXCEPT !.keyId = n, !.pushCounter = @ + 1]
  BY <1>1, <1>2 DEF PushedTop
<1>5. PoppedTop(s) = [t EXCEPT !.keyId = m, !.popCounter = @ + 1]
  BY <1>1, <1>3 DEF PoppedTop
<1>6. PushedTop(s) = [keyId |-> n, popCounter |-> t.popCounter, pushCounter |-> t.pushCounter + 1]
  BY <1>4, TopsCounted
<1>7. PoppedTop(s) = [keyId |-> m, popCounter |-> t.popCounter + 1, pushCounter |-> t.pushCounter]
  BY <1>5, TopsCounted
<1>8. t.popCounter \in Nat /\ t.pushCounter \in Nat
  BY DEF Tops
<1> QED
  BY <1>1, <1>2, <1>3, <1>6, <1>7, <1>8 DEF Tops

HintsOfOthersStay(s) ==
  \A u \in Sessions \ {s} : topHints'[u] = topHints[u] /\ firstStack'[u] = firstStack[u]

\* A push begins with a read of the top, ...
LEMMA PushBegins ==
  ASSUME StacksInv, NEW s \in Sessions, PushInit(s), UNCHANGED <<mode, hints>>, HintsOfOthersStay(s)
  PROVE  StackStep(s) /\ TypeOK' /\ Knows(s)'
<1>1. PICK k \in StackIds : k = stackId[s]
  BY DEF StacksInv, TypeOK
<1>2. /\ TypeOK /\ NodesPlaced /\ StacksCount /\ CountsOK
      /\ PushKnows(s) /\ PopKnows(s) /\ LastKnown(s)
  BY SessionTypes DEF StacksInv, StacksKnown
<1>3. /\ hints' = hints
      /\ \A u \in Sessions \ {s} : topHints'[u] = topHints[u] /\ firstStack'[u] = firstStack[u]
  BY DEF HintsOfOthersStay
<1>4. TypeOK'
  BY <1>2, StackAssumption DEF PushInit, TypeOK, LearnTop, Goto, States, store
<1>5. OthersStay(s)
  BY <1>2, <1>3 DEF PushInit, TypeOK, LearnTop, Goto, OthersStay, LocalStays
<1>6. /\ state[s] = "pushInit" /\ state'[s] = "pushWrite"
      /\ UNCHANGED <<tops, nextKeyId, newKeyId, ownedKey, stackId, lastPushed>>
  BY <1>2 DEF PushInit, TypeOK, Goto, store
<1>7. StackStep(s)
  BY <1>3, <1>5, <1>6, QuietStep DEF PopStates, Holds
<1>8. Knows(s)'
  BY <1>2, <1>6 DEF Knows, PushKnows, PopKnows, LastKnown, PopStates
<1> QED
  BY <1>4, <1>7, <1>8

\* ... then the node is written; ...
LEMMA NodeWritten ==
  ASSUME StacksInv, NEW s \in Sessions, PushWrite(s), UNCHANGED <<mode, hints>>,
         HintsOfOthersStay(s)
  PROVE  StackStep(s) /\ TypeOK' /\ Knows(s)'
<1>1. PICK k \in StackIds : k = stackId[s]
  BY DEF StacksInv, TypeOK
<1>2. /\ TypeOK /\ NodesPlaced /\ StacksCount /\ CountsOK
      /\ PushKnows(s) /\ PopKnows(s) /\ LastKnown(s)
  BY SessionTypes DEF StacksInv, StacksKnown
<1>3. /\ hints' = hints
      /\ \A u \in Sessions \ {s} : topHints'[u] = topHints[u] /\ firstStack'[u] = firstStack[u]
  BY DEF HintsOfOthersStay
<1>4. /\ state[s] = "pushWrite" /\ state'[s] = "pushCas"
      /\ nextKeyId' = [nextKeyId EXCEPT ![ownedKey[s]] = top[s].keyId]
      /\ UNCHANGED <<tops, top, newKeyId, ownedKey, stackId, lastPushed, rounds>>
  BY <1>2 DEF PushWrite, TypeOK, Goto
<1>5. TypeOK'
  BY <1>2, SessionTypes DEF PushWrite, TypeOK, Goto, States
<1>6. OthersStay(s)
  BY <1>2, <1>3 DEF PushWrite, TypeOK, Goto, OthersStay, LocalStays
<1>7. StackStep(s)
  BY <1>2, <1>3, <1>4, <1>6, SessionTypes, WriteStep DEF PopStates
<1>8. Knows(s)'
  <2>1. nextKeyId'[ownedKey[s]] = top[s].keyId
    BY <1>2, <1>4 DEF TypeOK
  <2> QED
    BY <1>2, <1>4, <2>1 DEF Knows, PushKnows, PopKnows, LastKnown, PopStates
<1> QED
  BY <1>5, <1>7, <1>8

\* ... and a pop begins with a read of the top.
LEMMA PopBegins ==
  ASSUME StacksInv, NEW s \in Sessions, PopInit(s), UNCHANGED <<mode, hints>>, HintsOfOthersStay(s),
         mode # "TREIBER_BLOCKING"
  PROVE  StackStep(s) /\ TypeOK' /\ Knows(s)'
<1>1. PICK k \in StackIds : k = stackId[s]
  BY DEF StacksInv, TypeOK
<1>2. /\ TypeOK /\ NodesPlaced /\ StacksCount /\ CountsOK
      /\ PushKnows(s) /\ PopKnows(s) /\ LastKnown(s)
  BY SessionTypes DEF StacksInv, StacksKnown
<1>3. /\ hints' = hints
      /\ \A u \in Sessions \ {s} : topHints'[u] = topHints[u] /\ firstStack'[u] = firstStack[u]
  BY DEF HintsOfOthersStay
<1>4. /\ state[s] = "popInit" /\ state'[s] = "popReadFirst" /\ top'[s] = tops[k]
      /\ UNCHANGED <<tops, nextKeyId, newKeyId, ownedKey, stackId, lastPushed, rounds>>
  BY <1>1, <1>2 DEF PopInit, LearnTop, TypeOK, Goto, store
<1>5. TypeOK'
  BY <1>2, <1>4 DEF PopInit, LearnTop, TypeOK, Goto, States, PopStates
<1>6. OthersStay(s)
  BY <1>2, <1>3 DEF PopInit, LearnTop, TypeOK, Goto, OthersStay, LocalStays
<1>7. StackStep(s) /\ Quiet(s)
  BY <1>2, <1>3, <1>4, <1>6, QuietStep DEF PopStates, Holds
<1>8. Knows(s)'
  <2>1. tops[k].keyId # Null
    BY <1>1, <1>2, <1>4, PoppersFindNodes DEF PopStates
  <2>2. PopKnows(s)'
    BY <1>1, <1>2, <1>4, <1>7, <2>1, TopRead
  <2>3. lastPushed[s] <= tops[k].pushCounter
    BY <1>1, <1>2, <1>4 DEF LastKnown, PopStates
  <2> QED
    BY <1>1, <1>2, <1>4, <2>2, <2>3 DEF Knows, PushKnows, LastKnown
<1> QED
  BY <1>5, <1>7, <1>8

\* The pushes and pops of TREIBER_ASYNC.
LEMMA AsyncStep ==
  ASSUME StacksInv, mode = "TREIBER_ASYNC", NEW s \in Sessions, Runs(s),
         UNCHANGED <<mode, dbgOwn>>
  PROVE  StackStep(s) /\ TypeOK' /\ Knows(s)'
<1>1. PICK k \in StackIds : k = stackId[s]
  BY DEF StacksInv, TypeOK
<1>2. /\ TypeOK /\ NodesPlaced /\ StacksCount /\ CountsOK
      /\ PushKnows(s) /\ PopKnows(s) /\ LastKnown(s)
      /\ mode # "TREIBER_BLOCKING"
  BY SessionTypes DEF StacksInv, StacksKnown
<1>3. UNCHANGED <<hints, nodeStack, topHints, firstStack>>
  BY DEF dbgOwn, dbgStore
<1>4. CASE PushInit(s)
  BY <1>2, <1>3, <1>4, PushBegins DEF HintsOfOthersStay
<1>5. CASE PushWrite(s)
  BY <1>2, <1>3, <1>5, NodeWritten DEF HintsOfOthersStay
<1>6. CASE PushCas(s) /\ TopUnchanged(s)
  <2>1. /\ state[s] = "pushCas" /\ state'[s] = "popInit" /\ tops[k] = top[s]
        /\ tops' = [tops EXCEPT ![k] = PushedTop(s)]
        /\ lastPushed'[s] = top[s].pushCounter + 1
        /\ UNCHANGED <<nextKeyId, newKeyId, ownedKey, stackId, rounds>>
    BY <1>1, <1>2, <1>6 DEF PushCas, TopUnchanged, TypeOK, Goto
  <2>2. /\ PushedTop(s) \in Tops /\ PushedTop(s).keyId = ownedKey[s]
        /\ PushedTop(s).popCounter = tops[k].popCounter
        /\ PushedTop(s).pushCounter = tops[k].pushCounter + 1
    BY <1>2, <2>1, NextTops
  <2>3. TypeOK'
    <3>1. tops' \in [StackIds -> Tops]
      BY <1>2, <2>1, <2>2 DEF TypeOK
    <3>2. EmptyTop \in Tops
      BY DEF EmptyTop, Tops
    <3> QED
      BY <1>2, <1>6, <2>1, <3>1, <3>2, SessionTypes DEF PushCas, TypeOK, Goto, States, PopStates
  <2>4. OthersStay(s)
    BY <1>2, <1>3, <1>6 DEF PushCas, TypeOK, Goto, OthersStay, LocalStays
  <2>5. OtherTopsStay(k) /\ tops'[k] = PushedTop(s)
    BY <1>2, <1>3, <2>1 DEF OtherTopsStay, TypeOK
  <2>6. nextKeyId[ownedKey[s]] = tops[k].keyId
    BY <1>2, <2>1 DEF PushKnows
  <2>7. StackStep(s)
    BY <1>1, <1>2, <2>1, <2>2, <2>4, <2>5, <2>6, SessionTypes, PushStep
  <2>8. Knows(s)'
    <3>1. lastPushed'[s] = tops'[stackId'[s]].pushCounter /\ lastPushed'[s] \in Nat
      BY <1>1, <1>2, <2>1, <2>2, <2>5, SessionTypes
    <3> QED
      BY <1>2, <2>1, <3>1 DEF Knows, PushKnows, PopKnows, LastKnown
  <2> QED
    BY <2>3, <2>7, <2>8
<1>7. CASE PushCas(s) /\ ~TopUnchanged(s)
  <2>1. /\ state[s] = "pushCas" /\ state'[s] = "pushWrite"
        /\ UNCHANGED <<tops, lastPushed, nextKeyId, newKeyId, ownedKey, stackId, rounds>>
    BY <1>2, <1>7 DEF PushCas, TypeOK, Goto
  <2>2. TypeOK'
    BY <1>2, <1>7, <2>1 DEF PushCas, LearnTop, TypeOK, Goto, States
  <2>3. OthersStay(s)
    BY <1>2, <1>3, <1>7 DEF PushCas, LearnTop, TypeOK, Goto, OthersStay, LocalStays
  <2>4. StackStep(s)
    BY <1>2, <1>3, <2>1, <2>3, QuietStep DEF PopStates, Holds
  <2>5. Knows(s)'
    BY <1>2, <2>1 DEF Knows, PushKnows, PopKnows, LastKnown, PopStates
  <2> QED
    BY <2>2, <2>4, <2>5
<1>8. CASE PopInit(s)
  BY <1>2, <1>3, <1>8, PopBegins DEF HintsOfOthersStay
<1>9. CASE PopReadFirst(s) /\ FirstIsStale(s)
  <2>1. /\ state[s] = "popReadFirst" /\ state'[s] = "popInit"
        /\ UNCHANGED <<tops, nextKeyId, newKeyId, ownedKey, stackId, lastPushed, rounds>>
    BY <1>2, <1>9 DEF PopReadFirst, TypeOK, Goto, store
  <2>2. TypeOK'
    <3>1. EmptyTop \in Tops
      BY DEF EmptyTop, Tops
    <3> QED
      BY <1>2, <1>9, <2>1, <3>1 DEF PopReadFirst, TypeOK, Goto, States, PopStates
  <2>3. OthersStay(s)
    BY <1>2, <1>3, <1>9 DEF PopReadFirst, TypeOK, Goto, OthersStay, LocalStays
  <2>4. StackStep(s)
    BY <1>2, <1>3, <2>1, <2>3, QuietStep DEF PopStates, Holds
  <2>5. Knows(s)'
    BY <1>2, <2>1 DEF Knows, PushKnows, PopKnows, LastKnown, PopStates
  <2> QED
    BY <2>2, <2>4, <2>5
<1>10. CASE PopReadFirst(s) /\ ~FirstIsStale(s)
  <2>1. /\ state[s] = "popReadFirst" /\ state'[s] = "popCas" /\ top[s].keyId # Null
        /\ newKeyId'[s] = nextKeyId[top[s].keyId]
        /\ UNCHANGED <<tops, top, nextKeyId, ownedKey, stackId, lastPushed, rounds>>
    BY <1>2, <1>10 DEF PopReadFirst, NextOfFirst, TypeOK, Goto, store
  <2>2. TypeOK'
    BY <1>2, <1>10, <2>1, SessionTypes
    DEF PopReadFirst, NextOfFirst, TypeOK, Goto, States, PopStates
  <2>3. OthersStay(s)
    BY <1>2, <1>3, <1>10 DEF PopReadFirst, TypeOK, Goto, OthersStay, LocalStays
  <2>4. StackStep(s) /\ Quiet(s)
    BY <1>2, <1>3, <2>1, <2>3, QuietStep DEF PopStates, Holds
  <2>5. StacksNow' = StacksNow
    BY <1>1, <1>2, <2>4, StepPlaces
  <2>6. Knows(s)'
    BY <1>2, <2>1, <2>5 DEF Knows, PushKnows, PopKnows, LastKnown, PopStates
  <2> QED
    BY <2>2, <2>4, <2>6
<1>11. CASE PopCas(s) /\ TopUnchanged(s)
  <2>1. /\ state[s] = "popCas" /\ state'[s] = "pushInit" /\ tops[k] = top[s]
        /\ tops' = [tops EXCEPT ![k] = PoppedTop(s)] /\ ownedKey'[s] = top[s].keyId
        /\ UNCHANGED <<nextKeyId, rounds>>
    BY <1>1, <1>2, <1>11 DEF PopCas, TopUnchanged, TypeOK, Goto
  <2>2. top[s].keyId # Null /\ newKeyId[s] = nextKeyId[top[s].keyId]
    BY <1>1, <1>2, <2>1 DEF PopKnows
  <2>3. /\ PoppedTop(s) \in Tops /\ PoppedTop(s).keyId = nextKeyId[tops[k].keyId]
        /\ PoppedTop(s).popCounter = tops[k].popCounter + 1
        /\ PoppedTop(s).pushCounter = tops[k].pushCounter
    BY <1>2, <2>1, <2>2, NextTops
  <2>4. TypeOK'
    <3>1. tops' \in [StackIds -> Tops]
      BY <1>2, <2>1, <2>3 DEF TypeOK
    <3>2. EmptyTop \in Tops /\ top[s].keyId \in Nodes
      BY <1>2, <2>2, SessionTypes DEF EmptyTop, Tops
    <3> QED
      BY <1>2, <1>11, <2>1, <3>1, <3>2 DEF PopCas, NextStacks, TypeOK, Goto, States
  <2>5. OthersStay(s)
    BY <1>2, <1>3, <1>11 DEF PopCas, TypeOK, Goto, OthersStay, LocalStays
  <2>6. OtherTopsStay(k) /\ tops'[k] = PoppedTop(s)
    BY <1>2, <1>3, <2>1 DEF OtherTopsStay, TypeOK
  <2>7. StackStep(s)
    <3>1. state'[s] \in States \ PopStates
      BY <2>1 DEF States, PopStates
    <3> QED
      BY <1>1, <2>1, <2>2, <2>3, <2>5, <2>6, <3>1, PopStep
  <2>8. Knows(s)'
    BY <1>2, <2>1 DEF Knows, PushKnows, PopKnows, LastKnown, PopStates
  <2> QED
    BY <2>4, <2>7, <2>8
<1>12. CASE PopCas(s) /\ ~TopUnchanged(s)
  <2>1. /\ state[s] = "popCas" /\ state'[s] = "popReadFirst" /\ top'[s] = tops[k]
        /\ UNCHANGED <<tops, nextKeyId, ownedKey, stackId, lastPushed, rounds>>
    BY <1>1, <1>2, <1>12 DEF PopCas, LearnTop, TypeOK, Goto
  <2>2. TypeOK'
    BY <1>2, <1>12, <2>1 DEF PopCas, LearnTop, TypeOK, Goto, States, PopStates
  <2>3. OthersStay(s)
    BY <1>2, <1>3, <1>12 DEF PopCas, LearnTop, TypeOK, Goto, OthersStay, LocalStays
  <2>4. StackStep(s) /\ Quiet(s)
    BY <1>2, <1>3, <2>1, <2>3, QuietStep DEF PopStates, Holds
  <2>5. Knows(s)'
    <3>1. tops[k].keyId # Null
      BY <1>1, <1>2, <2>1, PoppersFindNodes DEF PopStates
    <3>2. PopKnows(s)'
      BY <1>1, <1>2, <2>1, <2>4, <3>1, TopRead
    <3>3. lastPushed[s] <= tops[k].pushCounter
      BY <1>1, <1>2, <2>1 DEF LastKnown, PopStates
    <3> QED
      BY <1>1, <1>2, <2>1, <3>2, <3>3 DEF Knows, PushKnows, LastKnown
  <2> QED
    BY <2>2, <2>4, <2>5
<1> QED
  BY <1>4, <1>5, <1>6, <1>7, <1>8, <1>9, <1>10, <1>11, <1>12 DEF Runs

\* The debug version: what becomes of the hints and the marks.
HintsFollow(s) ==
  LET k == stackId[s]
  IN  /\ PushDone(s) => hints'[k] = <<tops[k].keyId, hints[k][1], hints[k][2]>>
      /\ PopDone(s) => hints'[k] = <<hints[k][2], hints[k][3], Unknown>>

MarksFollow(s) ==
  /\ \A n \in Nodes \ {Holds(s)} : nodeStack'[n] = nodeStack[n]
  /\ state[s] = "pushCas" => nodeStack' = nodeStack
  /\ state'[s] = "pushCas" => nodeStack'[ownedKey'[s]] = stackId'[s]

DebugDone(s) ==
  /\ StackStep(s) /\ TypeOK' /\ Knows(s)'
  /\ DbgTypeOK' /\ HintsFollow(s) /\ MarksFollow(s) /\ DebugKnows(s)'

\* Three keys are hints.
LEMMA HintsType ==
  ASSUME NEW a \in Nodes \cup {Null, Unknown}, NEW b \in Nodes \cup {Null, Unknown},
         NEW c \in Nodes \cup {Null, Unknown}
  PROVE  <<a, b, c>> \in Hints
BY DEF Hints

\* What is no swap changes no hints.
LEMMA QuietHints ==
  ASSUME NEW s \in Sessions, state[s] # "pushCas", state[s] # "popCas"
  PROVE  HintsFollow(s)
BY DEF HintsFollow, PushDone, PopDone

\* The requests of the debug version: the read of the top before a push, ...
LEMMA DebugPushBegins ==
  ASSUME StacksInv, mode = "TREIBER_DEBUG", NEW s \in Sessions, DbgPushInit(s), UNCHANGED mode
  PROVE  DebugDone(s)
<1>1. PICK k \in StackIds : k = stackId[s]
  BY DEF StacksInv, TypeOK
<1>2. TypeOK /\ DbgTypeOK
  BY DEF StacksInv
<1>3. /\ hints' = hints /\ nodeStack' = nodeStack /\ firstStack' = firstStack
      /\ topHints' = [topHints EXCEPT ![s] = hints[k]] /\ PushInit(s)
  BY <1>1 DEF DbgPushInit, LearnHints, dbgStore
<1>4. HintsOfOthersStay(s)
  BY <1>2, <1>3 DEF HintsOfOthersStay, DbgTypeOK
<1>5. StackStep(s) /\ TypeOK' /\ Knows(s)'
  BY <1>3, <1>4, PushBegins
<1>6. DbgTypeOK'
  BY <1>2, <1>3 DEF DbgTypeOK
<1>7. /\ state[s] = "pushInit" /\ state'[s] = "pushWrite"
      /\ top'[s] = tops[k] /\ tops' = tops /\ stackId' = stackId
  BY <1>1, <1>2, <1>3 DEF PushInit, Goto, LearnTop, TypeOK, store
<1>8. HintsFollow(s) /\ MarksFollow(s)
  BY <1>3, <1>7, QuietHints DEF MarksFollow
<1>9. DebugKnows(s)'
  <2>1. topHints'[s] = hints[k]
    BY <1>2, <1>3 DEF DbgTypeOK
  <2>2. tops[k].popCounter \in Nat /\ tops[k].pushCounter \in Nat
    BY <1>2, SessionTypes DEF CountsOK
  <2> QED
    BY <1>1, <1>3, <1>7, <2>1, <2>2 DEF DebugKnows, TopAged
<1> QED
  BY <1>5, <1>6, <1>8, <1>9 DEF DebugDone

\* ... the write of the node, which marks it, ...
LEMMA DebugNodeWritten ==
  ASSUME StacksInv, mode = "TREIBER_DEBUG", NEW s \in Sessions, DbgPushWrite(s), UNCHANGED mode
  PROVE  DebugDone(s)
<1>1. PICK k \in StackIds : k = stackId[s]
  BY DEF StacksInv, TypeOK
<1>2. /\ TypeOK /\ DbgTypeOK /\ DebugKnows(s)
      /\ ownedKey[s] \in Nodes
  BY SessionTypes DEF StacksInv, StacksDebug
<1>3. /\ hints' = hints /\ topHints' = topHints /\ firstStack' = firstStack
      /\ nodeStack' = [nodeStack EXCEPT ![ownedKey[s]] = k] /\ PushWrite(s)
  BY <1>1 DEF DbgPushWrite
<1>4. StackStep(s) /\ TypeOK' /\ Knows(s)'
  BY <1>3, NodeWritten DEF HintsOfOthersStay
<1>5. DbgTypeOK'
  BY <1>2, <1>3 DEF DbgTypeOK
<1>6. /\ state[s] = "pushWrite" /\ state'[s] = "pushCas"
      /\ top' = top /\ tops' = tops /\ stackId' = stackId /\ ownedKey' = ownedKey
  BY <1>2, <1>3 DEF PushWrite, Goto, TypeOK
<1>7. HintsFollow(s)
  BY <1>6, QuietHints
<1>8. MarksFollow(s)
  <2>1. Holds(s) = ownedKey[s]
    BY <1>6 DEF Holds, PopStates
  <2> QED
    BY <1>1, <1>2, <1>3, <1>6, <2>1 DEF MarksFollow, DbgTypeOK
<1>9. DebugKnows(s)'
  BY <1>2, <1>3, <1>6 DEF DebugKnows, TopAged
<1> QED
  BY <1>4, <1>5, <1>7, <1>8, <1>9 DEF DebugDone

\* ... and the read of the top before a pop.
LEMMA DebugPopBegins ==
  ASSUME StacksInv, mode = "TREIBER_DEBUG", NEW s \in Sessions, DbgPopInit(s), UNCHANGED mode
  PROVE  DebugDone(s)
<1>1. PICK k \in StackIds : k = stackId[s]
  BY DEF StacksInv, TypeOK
<1>2. TypeOK /\ DbgTypeOK
  BY DEF StacksInv
<1>3. /\ hints' = hints /\ nodeStack' = nodeStack /\ firstStack' = firstStack
      /\ topHints' = [topHints EXCEPT ![s] = hints[k]] /\ PopInit(s)
  BY <1>1 DEF DbgPopInit, LearnHints, dbgStore
<1>4. HintsOfOthersStay(s)
  BY <1>2, <1>3 DEF HintsOfOthersStay, DbgTypeOK
<1>5. StackStep(s) /\ TypeOK' /\ Knows(s)'
  BY <1>3, <1>4, PopBegins
<1>6. DbgTypeOK'
  BY <1>2, <1>3 DEF DbgTypeOK
<1>7. /\ state[s] = "popInit" /\ state'[s] = "popReadFirst"
      /\ top'[s] = tops[k] /\ tops' = tops /\ stackId' = stackId
  BY <1>1, <1>2, <1>3 DEF PopInit, Goto, LearnTop, TypeOK, store
<1>8. HintsFollow(s) /\ MarksFollow(s)
  BY <1>3, <1>7, QuietHints DEF MarksFollow
<1>9. DebugKnows(s)'
  <2>1. topHints'[s] = hints[k]
    BY <1>2, <1>3 DEF DbgTypeOK
  <2>2. tops[k].popCounter \in Nat /\ tops[k].pushCounter \in Nat
    BY <1>2, SessionTypes DEF CountsOK
  <2> QED
    BY <1>1, <1>3, <1>7, <2>1, <2>2 DEF DebugKnows, TopAged
<1> QED
  BY <1>5, <1>6, <1>8, <1>9 DEF DebugDone

\* The swap of a push, ...
LEMMA DebugPushes ==
  ASSUME StacksInv, mode = "TREIBER_DEBUG", NEW s \in Sessions, DbgPushCas(s), UNCHANGED mode
  PROVE  DebugDone(s)
<1>1. PICK k \in StackIds : k = stackId[s]
  BY DEF StacksInv, TypeOK
<1>2. /\ TypeOK /\ DbgTypeOK /\ NodesPlaced /\ CountsOK
      /\ PushKnows(s) /\ LastKnown(s) /\ lastPushed[s] = 0
  BY SessionTypes DEF StacksInv, StacksKnown, LastKnown
<1>3. /\ state[s] = "pushCas"
      /\ UNCHANGED <<nextKeyId, newKeyId, ownedKey, stackId, lastPushed, rounds,
                     nodeStack, firstStack>>
  BY DEF DbgPushCas
<1>4. MarksFollow(s)
  BY <1>1, <1>3 DEF MarksFollow, StacksInv, StacksDebug, NodesMarked
<1>5. CASE WholeTopUnchanged(s)
  <2>1. /\ tops[k] = top[s] /\ hints[k] = topHints[s] /\ state'[s] = "popInit"
        /\ tops' = [tops EXCEPT ![k] = PushedTop(s)]
        /\ hints' = [hints EXCEPT ![k] = PushedHints(s)]
        /\ top' = [top EXCEPT ![s] = EmptyTop]
        /\ topHints' = [topHints EXCEPT ![s] = NoHints]
        /\ state' = [state EXCEPT ![s] = "popInit"]
    BY <1>1, <1>2, <1>5 DEF DbgPushCas, WholeTopUnchanged, TopUnchanged, TypeOK, Goto
  <2>2. /\ PushedTop(s) \in Tops /\ PushedTop(s).keyId = ownedKey[s]
        /\ PushedTop(s).popCounter = tops[k].popCounter
        /\ PushedTop(s).pushCounter = tops[k].pushCounter + 1
    BY <1>2, <2>1, NextTops
  <2>3. TypeOK'
    <3>1. tops' \in [StackIds -> Tops]
      BY <1>2, <2>1, <2>2 DEF TypeOK
    <3>2. EmptyTop \in Tops
      BY DEF EmptyTop, Tops
    <3> QED
      BY <1>2, <1>3, <2>1, <3>1, <3>2 DEF TypeOK, States, PopStates
  <2>4. PushedHints(s) = <<tops[k].keyId, hints[k][1], hints[k][2]>>
    BY <2>1 DEF PushedHints
  <2>5. PushedHints(s) \in Hints /\ NoHints \in Hints
    <3>1. /\ tops[k].keyId \in Nodes \cup {Null, Unknown}
          /\ hints[k][1] \in Nodes \cup {Null, Unknown}
          /\ hints[k][2] \in Nodes \cup {Null, Unknown}
      BY <1>2 DEF TypeOK, Tops, DbgTypeOK, Hints
    <3> QED
      BY <2>4, <3>1, HintsType DEF NoHints
  <2>6. DbgTypeOK'
    BY <1>2, <1>3, <2>1, <2>5 DEF DbgTypeOK
  <2>7. OthersStay(s)
    BY <1>2, <1>3, <2>1 DEF TypeOK, DbgTypeOK, OthersStay, LocalStays
  <2>8. OtherTopsStay(k) /\ tops'[k] = PushedTop(s) /\ hints'[k] = PushedHints(s)
    BY <1>2, <2>1 DEF OtherTopsStay, TypeOK, DbgTypeOK
  <2>9. nextKeyId[ownedKey[s]] = tops[k].keyId
    BY <1>2, <1>3, <2>1 DEF PushKnows
  <2>10. StackStep(s) /\ PushDone(s)
    BY <1>1, <1>2, <1>3, <2>1, <2>2, <2>7, <2>8, <2>9, SessionTypes, PushStep
  <2>11. Knows(s)'
    <3>1. tops'[k].pushCounter \in Nat
      BY <2>2, <2>8 DEF Tops
    <3> QED
      BY <1>1, <1>2, <1>3, <2>1, <3>1 DEF Knows, PushKnows, PopKnows, LastKnown
  <2>12. HintsFollow(s)
    <3>1. ~PopDone(s)
      BY <1>3 DEF PopDone
    <3> QED
      BY <1>1, <2>4, <2>8, <3>1 DEF HintsFollow
  <2>13. DebugKnows(s)'
    BY <2>1 DEF DebugKnows
  <2> QED
    BY <1>4, <2>3, <2>6, <2>10, <2>11, <2>12, <2>13 DEF DebugDone
<1>6. CASE ~WholeTopUnchanged(s)
  <2>1. /\ tops' = tops /\ hints' = hints /\ state'[s] = "pushWrite"
        /\ top' = [top EXCEPT ![s] = tops[k]]
        /\ topHints' = [topHints EXCEPT ![s] = hints[k]]
        /\ state' = [state EXCEPT ![s] = "pushWrite"]
    BY <1>1, <1>2, <1>6 DEF DbgPushCas, LearnTop, LearnHints, TypeOK, Goto
  <2>2. TypeOK' /\ DbgTypeOK'
    BY <1>2, <1>3, <2>1 DEF TypeOK, DbgTypeOK, States
  <2>3. OthersStay(s)
    BY <1>2, <1>3, <2>1 DEF TypeOK, DbgTypeOK, OthersStay, LocalStays
  <2>4. StackStep(s) /\ Quiet(s)
    BY <1>3, <2>1, <2>3, QuietStep DEF PopStates, Holds
  <2>5. Knows(s)'
    BY <1>2, <1>3, <2>1 DEF Knows, PushKnows, PopKnows, LastKnown, PopStates
  <2>6. HintsFollow(s)
    BY <1>3, <2>1 DEF HintsFollow, PushDone, PopDone
  <2>7. DebugKnows(s)'
    <3>1. topHints'[s] = hints[k] /\ top'[s] = tops[k]
      BY <1>2, <2>1 DEF TypeOK, DbgTypeOK
    <3>2. tops[k].popCounter \in Nat /\ tops[k].pushCounter \in Nat
      BY <1>2 DEF CountsOK
    <3> QED
      BY <1>1, <1>3, <2>1, <3>1, <3>2 DEF DebugKnows, TopAged
  <2> QED
    BY <1>4, <2>2, <2>4, <2>5, <2>6, <2>7 DEF DebugDone
<1> QED
  BY <1>5, <1>6

\* ... the read of the first node, ...
LEMMA DebugReadsFirst ==
  ASSUME StacksInv, mode = "TREIBER_DEBUG", NEW s \in Sessions, DbgPopReadFirst(s),
         UNCHANGED mode
  PROVE  DebugDone(s)
<1>1. PICK k \in StackIds : k = stackId[s]
  BY DEF StacksInv, TypeOK
<1>2. /\ TypeOK /\ DbgTypeOK /\ NodesPlaced /\ CountsOK
      /\ PopKnows(s) /\ LastKnown(s) /\ lastPushed[s] = 0 /\ DebugKnows(s)
  BY SessionTypes DEF StacksInv, StacksKnown, LastKnown, StacksDebug
<1>3. /\ state[s] = "popReadFirst" /\ top[s].keyId # Null
      /\ UNCHANGED <<tops, nextKeyId, ownedKey, stackId, lastPushed, rounds, hints, nodeStack>>
  BY DEF DbgPopReadFirst, store, dbgStore
<1>4. top[s].keyId \in Nodes
  BY <1>2, <1>3, SessionTypes
<1>5. HintsFollow(s)
  BY <1>3, QuietHints
<1>6. CASE /\ top' = [top EXCEPT ![s] = EmptyTop]
           /\ topHints' = [topHints EXCEPT ![s] = NoHints]
           /\ Goto(s, "popInit")
           /\ UNCHANGED <<newKeyId, firstStack>>
  <2>1. state' = [state EXCEPT ![s] = "popInit"] /\ state'[s] = "popInit"
    BY <1>2, <1>6 DEF TypeOK, Goto
  <2>2. TypeOK' /\ DbgTypeOK'
    <3>1. EmptyTop \in Tops /\ NoHints \in Hints
      BY HintsType DEF EmptyTop, Tops, NoHints
    <3> QED
      BY <1>2, <1>3, <1>6, <2>1, <3>1 DEF TypeOK, DbgTypeOK, States, PopStates
  <2>3. OthersStay(s)
    BY <1>2, <1>3, <1>6, <2>1 DEF TypeOK, DbgTypeOK, OthersStay, LocalStays
  <2>4. StackStep(s)
    BY <1>3, <2>1, <2>3, QuietStep DEF PopStates, Holds
  <2>5. Knows(s)'
    BY <1>2, <1>3, <2>1 DEF Knows, PushKnows, PopKnows, LastKnown, PopStates
  <2>6. MarksFollow(s) /\ DebugKnows(s)'
    BY <1>3, <2>1 DEF MarksFollow, DebugKnows
  <2> QED
    BY <1>5, <2>2, <2>4, <2>5, <2>6 DEF DebugDone
<1>7. CASE /\ newKeyId' = [newKeyId EXCEPT ![s] = NextOfFirst(s)]
           /\ firstStack' = [firstStack EXCEPT ![s] = nodeStack[top[s].keyId]]
           /\ Goto(s, "popCas")
           /\ UNCHANGED <<top, topHints>>
  <2>1. /\ state' = [state EXCEPT ![s] = "popCas"] /\ state'[s] = "popCas"
        /\ newKeyId'[s] = nextKeyId[top[s].keyId]
        /\ firstStack'[s] = nodeStack[top[s].keyId]
    BY <1>2, <1>7 DEF TypeOK, DbgTypeOK, Goto, NextOfFirst
  <2>2. TypeOK' /\ DbgTypeOK'
    <3>1. /\ NextOfFirst(s) \in Nodes \cup {Null}
          /\ nodeStack[top[s].keyId] \in StackIds \cup {Null}
      BY <1>2, <1>4 DEF TypeOK, DbgTypeOK, NextOfFirst
    <3> QED
      BY <1>2, <1>3, <1>7, <2>1, <3>1 DEF TypeOK, DbgTypeOK, States, PopStates
  <2>3. OthersStay(s)
    BY <1>2, <1>3, <1>7, <2>1 DEF TypeOK, DbgTypeOK, OthersStay, LocalStays
  <2>4. StackStep(s) /\ Quiet(s)
    BY <1>3, <2>1, <2>3, QuietStep DEF PopStates, Holds
  <2>5. StacksNow' = StacksNow
    BY <1>1, <1>2, <2>4, StepPlaces
  <2>6. Knows(s)'
    BY <1>2, <1>3, <1>7, <2>1, <2>5 DEF Knows, PushKnows, PopKnows, LastKnown, PopStates
  <2>7. MarksFollow(s)
    BY <1>3, <2>1 DEF MarksFollow
  <2>8. DebugKnows(s)'
    <3>1. TopAged(s)'
      BY <1>2, <1>3, <1>7 DEF DebugKnows, TopAged
    <3>2. top[s].popCounter = tops[k].popCounter => nodeStack[top[s].keyId] = k
      <4>1. top[s].popCounter = tops[k].popCounter => On(StacksNow[k], top[s].keyId)
        BY <1>1, <1>2, <1>3 DEF PopKnows
      <4> QED
        BY <1>4, <4>1 DEF StacksInv, StacksDebug, NodesMarked
    <3> QED
      BY <1>1, <1>3, <1>7, <2>1, <3>1, <3>2 DEF DebugKnows
  <2> QED
    BY <1>5, <2>2, <2>4, <2>6, <2>7, <2>8 DEF DebugDone
<1> QED
  BY <1>6, <1>7 DEF DbgPopReadFirst

\* ... the swap of a pop, ...
LEMMA DebugPops ==
  ASSUME StacksInv, mode = "TREIBER_DEBUG", NEW s \in Sessions, DbgPopCas(s), UNCHANGED mode
  PROVE  DebugDone(s)
<1>1. PICK k \in StackIds : k = stackId[s]
  BY DEF StacksInv, TypeOK
<1>2. /\ TypeOK /\ DbgTypeOK /\ NodesPlaced /\ StacksCount /\ CountsOK
      /\ PopKnows(s) /\ LastKnown(s) /\ lastPushed[s] = 0
      /\ mode # "TREIBER_BLOCKING"
  BY SessionTypes DEF StacksInv, StacksKnown, LastKnown
<1>3. /\ state[s] = "popCas"
      /\ firstStack' = [firstStack EXCEPT ![s] = Null]
      /\ UNCHANGED <<nextKeyId, nodeStack, stackId, lastPushed, rounds>>
  BY DEF DbgPopCas
<1>4. CASE WholeTopUnchanged(s)
  <2>1. /\ tops[k] = top[s] /\ hints[k] = topHints[s] /\ state'[s] = "popWrite"
        /\ tops' = [tops EXCEPT ![k] = PoppedTop(s)]
        /\ hints' = [hints EXCEPT ![k] = PoppedHints(s)]
        /\ ownedKey' = [ownedKey EXCEPT ![s] = top[s].keyId] /\ ownedKey'[s] = top[s].keyId
        /\ top' = [top EXCEPT ![s] = EmptyTop]
        /\ topHints' = [topHints EXCEPT ![s] = NoHints]
        /\ state' = [state EXCEPT ![s] = "popWrite"]
        /\ newKeyId' = newKeyId
    BY <1>1, <1>2, <1>4 DEF DbgPopCas, WholeTopUnchanged, TopUnchanged, TypeOK, Goto
  <2>2. top[s].keyId # Null /\ newKeyId[s] = nextKeyId[top[s].keyId]
    BY <1>1, <1>2, <1>3, <2>1 DEF PopKnows
  <2>3. /\ PoppedTop(s) \in Tops /\ PoppedTop(s).keyId = nextKeyId[tops[k].keyId]
        /\ PoppedTop(s).popCounter = tops[k].popCounter + 1
        /\ PoppedTop(s).pushCounter = tops[k].pushCounter
    BY <1>2, <2>1, <2>2, NextTops
  <2>4. TypeOK'
    <3>1. tops' \in [StackIds -> Tops]
      BY <1>2, <2>1, <2>3 DEF TypeOK
    <3>2. EmptyTop \in Tops /\ top[s].keyId \in Nodes
      BY <1>2, <2>2, SessionTypes DEF EmptyTop, Tops
    <3> QED
      BY <1>2, <1>3, <2>1, <3>1, <3>2 DEF TypeOK, States
  <2>5. PoppedHints(s) = <<hints[k][2], hints[k][3], Unknown>>
    BY <2>1 DEF PoppedHints
  <2>6. DbgTypeOK'
    <3>1. hints[k][2] \in Nodes \cup {Null, Unknown} /\ hints[k][3] \in Nodes \cup {Null, Unknown}
      BY <1>2 DEF DbgTypeOK, Hints
    <3>2. PoppedHints(s) \in Hints /\ NoHints \in Hints
      BY <2>5, <3>1, HintsType DEF NoHints
    <3> QED
      BY <1>2, <1>3, <2>1, <3>2 DEF DbgTypeOK
  <2>7. OthersStay(s)
    BY <1>2, <1>3, <2>1 DEF TypeOK, DbgTypeOK, OthersStay, LocalStays
  <2>8. OtherTopsStay(k) /\ tops'[k] = PoppedTop(s) /\ hints'[k] = PoppedHints(s)
    BY <1>2, <2>1 DEF OtherTopsStay, TypeOK, DbgTypeOK
  <2>9. StackStep(s) /\ PopDone(s)
    <3>1. state'[s] \in States \ PopStates
      BY <2>1 DEF States, PopStates
    <3> QED
      BY <1>1, <1>3, <2>1, <2>2, <2>3, <2>7, <2>8, <3>1, PopStep
  <2>10. Knows(s)'
    BY <1>2, <1>3, <2>1 DEF Knows, PushKnows, PopKnows, LastKnown, PopStates
  <2>11. HintsFollow(s)
    <3>1. ~PushDone(s)
      BY <1>3 DEF PushDone
    <3> QED
      BY <1>1, <2>5, <2>8, <3>1 DEF HintsFollow
  <2>12. MarksFollow(s) /\ DebugKnows(s)'
    BY <1>3, <2>1 DEF MarksFollow, DebugKnows
  <2> QED
    BY <2>4, <2>6, <2>9, <2>10, <2>11, <2>12 DEF DebugDone
<1>5. CASE ~WholeTopUnchanged(s)
  <2>1. /\ tops' = tops /\ hints' = hints /\ ownedKey' = ownedKey
        /\ top' = [top EXCEPT ![s] = tops[k]] /\ top'[s] = tops[k]
        /\ topHints' = [topHints EXCEPT ![s] = hints[k]] /\ topHints'[s] = hints[k]
        /\ state' = [state EXCEPT ![s] = "popReadFirst"] /\ state'[s] = "popReadFirst"
        /\ newKeyId' = [newKeyId EXCEPT ![s] = Null]
    BY <1>1, <1>2, <1>5 DEF DbgPopCas, LearnTop, LearnHints, TypeOK, DbgTypeOK, Goto
  <2>2. TypeOK' /\ DbgTypeOK'
    BY <1>2, <1>3, <2>1 DEF TypeOK, DbgTypeOK, States, PopStates
  <2>3. OthersStay(s)
    BY <1>2, <1>3, <2>1 DEF TypeOK, DbgTypeOK, OthersStay, LocalStays
  <2>4. StackStep(s) /\ Quiet(s)
    BY <1>3, <2>1, <2>3, QuietStep DEF PopStates, Holds
  <2>5. Knows(s)'
    <3>1. tops[k].keyId # Null
      BY <1>1, <1>2, <1>3, PoppersFindNodes DEF PopStates
    <3>2. PopKnows(s)'
      BY <1>1, <1>2, <2>1, <2>4, <3>1, TopRead
    <3>3. lastPushed[s] <= tops[k].pushCounter
      BY <1>1, <1>2, <1>3 DEF LastKnown, PopStates
    <3> QED
      BY <1>1, <1>2, <1>3, <2>1, <3>2, <3>3 DEF Knows, PushKnows, LastKnown
  <2>6. HintsFollow(s)
    BY <1>3, <2>1 DEF HintsFollow, PushDone, PopDone, PopStates
  <2>7. MarksFollow(s)
    BY <1>3, <2>1 DEF MarksFollow
  <2>8. DebugKnows(s)'
    <3>1. tops[k].popCounter \in Nat /\ tops[k].pushCounter \in Nat
      BY <1>2 DEF CountsOK
    <3> QED
      BY <1>1, <1>3, <2>1, <3>1 DEF DebugKnows, TopAged
  <2> QED
    BY <2>2, <2>4, <2>5, <2>6, <2>7, <2>8 DEF DebugDone
<1> QED
  BY <1>4, <1>5

\* ... and the write that follows it.
LEMMA DebugPopWrites ==
  ASSUME StacksInv, mode = "TREIBER_DEBUG", NEW s \in Sessions, DbgPopWrite(s), UNCHANGED mode
  PROVE  DebugDone(s)
<1>1. /\ TypeOK /\ DbgTypeOK /\ LastKnown(s) /\ ownedKey[s] \in Nodes
      /\ newKeyId[s] \in Nodes \cup {Null}
  BY SessionTypes DEF StacksInv, StacksKnown
<1>2. PICK k \in StackIds : stackId' = [stackId EXCEPT ![s] = k]
  BY DEF DbgPopWrite, NextStacks
<1>3. /\ state[s] = "popWrite" /\ state'[s] = "pushInit"
      /\ state' = [state EXCEPT ![s] = "pushInit"]
      /\ nextKeyId' = [nextKeyId EXCEPT ![ownedKey[s]] = newKeyId[s]]
      /\ nodeStack' = [nodeStack EXCEPT ![ownedKey[s]] = Null]
      /\ newKeyId' = [newKeyId EXCEPT ![s] = Null]
      /\ UNCHANGED <<tops, top, ownedKey, lastPushed, rounds, hints, topHints, firstStack>>
  BY <1>1 DEF DbgPopWrite, Goto, TypeOK
<1>4. TypeOK' /\ DbgTypeOK'
  BY <1>1, <1>2, <1>3 DEF TypeOK, DbgTypeOK, States
<1>5. OthersStay(s)
  BY <1>1, <1>2, <1>3 DEF TypeOK, OthersStay, LocalStays
<1>6. StackStep(s)
  BY <1>1, <1>3, <1>5, WriteStep DEF PopStates
<1>7. Knows(s)'
  BY <1>1, <1>3 DEF Knows, PushKnows, PopKnows, LastKnown, PopStates
<1>8. HintsFollow(s)
  BY <1>3, QuietHints
<1>9. MarksFollow(s) /\ DebugKnows(s)'
  <2>1. Holds(s) = ownedKey[s]
    BY <1>3 DEF Holds, PopStates
  <2> QED
    BY <1>1, <1>3, <2>1 DEF MarksFollow, DebugKnows, DbgTypeOK
<1> QED
  BY <1>4, <1>6, <1>7, <1>8, <1>9 DEF DebugDone

\* Any request of the debug version.
LEMMA DebugStep ==
  ASSUME StacksInv, mode = "TREIBER_DEBUG", NEW s \in Sessions, DbgRuns(s), UNCHANGED mode
  PROVE  DebugDone(s)
BY DebugPushBegins, DebugNodeWritten, DebugPushes, DebugPopBegins, DebugReadsFirst, DebugPops,
   DebugPopWrites DEF DbgRuns

\* The blocking version, whose pops may find the stack empty.
LEMMA BlockingStep ==
  ASSUME StacksInv, mode = "TREIBER_BLOCKING", NEW s \in Sessions, UNCHANGED <<mode, dbgOwn>>,
         BlkPushInit(s) \/ PushWrite(s) \/ BlkPushCas(s)
           \/ BlkPopInit(s) \/ BlkPopReadFirst(s) \/ BlkPopCas(s)
  PROVE  StackStep(s) /\ TypeOK' /\ Knows(s)'
<1>1. PICK k \in StackIds : k = stackId[s]
  BY DEF StacksInv, TypeOK
<1>2. /\ TypeOK /\ NodesPlaced /\ CountsOK
      /\ PushKnows(s) /\ PopKnows(s) /\ LastKnown(s) /\ lastPushed[s] = 0
      /\ EmptyTop \in Tops
      /\ tops[k].pushCounter \in Nat
  BY SessionTypes DEF StacksInv, StacksKnown, LastKnown, EmptyTop, Tops, CountsOK
<1>3. UNCHANGED <<hints, nodeStack, topHints, firstStack>>
  BY DEF dbgOwn, dbgStore
<1>4. CASE BlkPushInit(s)
  BY <1>3, <1>4, PushBegins DEF HintsOfOthersStay, BlkPushInit
<1>5. CASE PushWrite(s)
  BY <1>3, <1>5, NodeWritten DEF HintsOfOthersStay
<1>6. CASE BlkPushCas(s) /\ TopUnchanged(s)
  <2>1. /\ state[s] = "pushCas" /\ state'[s] = "popInit" /\ tops[k] = top[s]
        /\ tops' = [tops EXCEPT ![k].keyId = ownedKey[s]]
        /\ top' = [top EXCEPT ![s] = EmptyTop]
        /\ state' = [state EXCEPT ![s] = "popInit"]
        /\ UNCHANGED <<nextKeyId, newKeyId, ownedKey, stackId, lastPushed, rounds>>
    BY <1>1, <1>2, <1>6 DEF BlkPushCas, TopUnchanged, TypeOK, Goto
  <2>2. /\ tops'[k] \in Tops /\ tops'[k].keyId = ownedKey[s]
        /\ tops'[k].popCounter = tops[k].popCounter
        /\ tops'[k].pushCounter = tops[k].pushCounter
        /\ \A l \in StackIds \ {k} : tops'[l] = tops[l]
        /\ DOMAIN tops' = StackIds
    BY <1>2, <2>1 DEF TypeOK, Tops
  <2>3. TypeOK'
    <3>1. tops' \in [StackIds -> Tops]
      <4>1. tops' = [l \in StackIds |-> tops'[l]]
        BY <1>2, <2>1 DEF TypeOK
      <4> QED
        BY <1>2, <2>2, <4>1 DEF TypeOK
    <3> QED
      BY <1>2, <2>1, <3>1 DEF TypeOK, States, PopStates
  <2>4. OthersStay(s)
    BY <1>2, <1>3, <2>1 DEF TypeOK, OthersStay, LocalStays
  <2>5. OtherTopsStay(k)
    BY <1>3, <2>2 DEF OtherTopsStay
  <2>6. nextKeyId[ownedKey[s]] = tops[k].keyId
    BY <1>2, <2>1 DEF PushKnows
  <2>7. StackStep(s)
    BY <1>1, <1>2, <2>1, <2>2, <2>4, <2>5, <2>6, SessionTypes, PushStep
  <2>8. Knows(s)'
    BY <1>1, <1>2, <2>1, <2>2 DEF Knows, PushKnows, PopKnows, LastKnown
  <2> QED
    BY <2>3, <2>7, <2>8
<1>7. CASE BlkPushCas(s) /\ ~TopUnchanged(s)
  <2>1. /\ state[s] = "pushCas" /\ state'[s] = "pushWrite"
        /\ top' = [top EXCEPT ![s] = tops[k]]
        /\ state' = [state EXCEPT ![s] = "pushWrite"]
        /\ UNCHANGED <<tops, nextKeyId, newKeyId, ownedKey, stackId, lastPushed, rounds>>
    BY <1>1, <1>2, <1>7 DEF BlkPushCas, LearnTop, TypeOK, Goto
  <2>2. TypeOK'
    BY <1>2, <2>1 DEF TypeOK, States
  <2>3. OthersStay(s)
    BY <1>2, <1>3, <2>1 DEF TypeOK, OthersStay, LocalStays
  <2>4. StackStep(s)
    BY <1>3, <2>1, <2>3, QuietStep DEF PopStates, Holds
  <2>5. Knows(s)'
    BY <1>2, <2>1 DEF Knows, PushKnows, PopKnows, LastKnown, PopStates
  <2> QED
    BY <2>2, <2>4, <2>5
<1>8. CASE BlkPopInit(s) \/ (BlkPopCas(s) /\ ~TopUnchanged(s))
  <2>1. /\ state[s] \in {"popInit", "popCas"} /\ BlkPopFrom(s)
        /\ newKeyId' \in {newKeyId, [newKeyId EXCEPT ![s] = Null]}
        /\ UNCHANGED <<tops, nextKeyId, ownedKey, stackId, lastPushed, rounds>>
    BY <1>8 DEF BlkPopInit, BlkPopCas, store
  <2>2. \/ /\ tops[k].keyId = Null /\ state'[s] = "popInit"
           /\ top' = [top EXCEPT ![s] = EmptyTop]
           /\ state' = [state EXCEPT ![s] = "popInit"]
        \/ /\ tops[k].keyId # Null /\ state'[s] = "popReadFirst" /\ top'[s] = tops[k]
           /\ top' = [top EXCEPT ![s] = tops[k]]
           /\ state' = [state EXCEPT ![s] = "popReadFirst"]
    BY <1>1, <1>2, <2>1 DEF BlkPopFrom, LearnTop, TypeOK, Goto
  <2>3. TypeOK'
    BY <1>2, <2>1, <2>2 DEF TypeOK, States, PopStates
  <2>4. OthersStay(s)
    BY <1>2, <1>3, <2>1, <2>2 DEF TypeOK, OthersStay, LocalStays
  <2>5. StackStep(s) /\ Quiet(s)
    BY <1>3, <2>1, <2>2, <2>4, QuietStep DEF PopStates, Holds
  <2>6. PopKnows(s)'
    <3>1. CASE state'[s] = "popInit"
      BY <3>1 DEF PopKnows
    <3>2. CASE state'[s] = "popReadFirst"
      <4>1. tops[k].keyId # Null /\ top'[s] = tops[k]
        BY <2>2, <3>2
      <4> QED
        BY <1>1, <1>2, <2>5, <3>2, <4>1, TopRead
    <3> QED
      BY <2>2, <3>1, <3>2
  <2>7. PushKnows(s)' /\ LastKnown(s)'
    BY <1>1, <1>2, <2>1, <2>2 DEF PushKnows, LastKnown
  <2> QED
    BY <2>3, <2>5, <2>6, <2>7 DEF Knows
<1>9. CASE BlkPopReadFirst(s)
  <2>1. /\ state[s] = "popReadFirst" /\ state'[s] = "popCas"
        /\ newKeyId' = [newKeyId EXCEPT ![s] = NextOfFirst(s)]
        /\ newKeyId'[s] = nextKeyId[top[s].keyId]
        /\ state' = [state EXCEPT ![s] = "popCas"]
        /\ UNCHANGED <<tops, top, nextKeyId, ownedKey, stackId, lastPushed, rounds>>
    BY <1>2, <1>9 DEF BlkPopReadFirst, NextOfFirst, TypeOK, Goto, store
  <2>2. top[s].keyId # Null /\ NextOfFirst(s) \in Nodes \cup {Null}
    <3>1. top[s].keyId # Null
      BY <1>2, <2>1 DEF PopKnows
    <3>2. top[s].keyId \in Nodes
      BY <1>2, <3>1, SessionTypes
    <3> QED
      BY <1>2, <3>1, <3>2 DEF NextOfFirst, TypeOK
  <2>3. TypeOK'
    BY <1>2, <2>1, <2>2 DEF TypeOK, States, PopStates
  <2>4. OthersStay(s)
    BY <1>2, <1>3, <2>1 DEF TypeOK, OthersStay, LocalStays
  <2>5. StackStep(s) /\ Quiet(s)
    BY <1>3, <2>1, <2>4, QuietStep DEF PopStates, Holds
  <2>6. StacksNow' = StacksNow
    BY <1>1, <1>2, <2>5, StepPlaces
  <2>7. Knows(s)'
    BY <1>2, <2>1, <2>6 DEF Knows, PushKnows, PopKnows, LastKnown, PopStates
  <2> QED
    BY <2>3, <2>5, <2>7
<1>10. CASE BlkPopCas(s) /\ TopUnchanged(s)
  <2>1. /\ state[s] = "popCas" /\ state'[s] = "pushInit" /\ tops[k] = top[s]
        /\ tops' = [tops EXCEPT ![k] = PoppedTop(s)]
        /\ ownedKey' = [ownedKey EXCEPT ![s] = top[s].keyId] /\ ownedKey'[s] = top[s].keyId
        /\ top' = [top EXCEPT ![s] = EmptyTop]
        /\ state' = [state EXCEPT ![s] = "pushInit"]
        /\ newKeyId' = [newKeyId EXCEPT ![s] = Null]
        /\ UNCHANGED <<nextKeyId, stackId, lastPushed, rounds>>
    BY <1>1, <1>2, <1>10 DEF BlkPopCas, TopUnchanged, TypeOK, Goto
  <2>2. top[s].keyId # Null /\ newKeyId[s] = nextKeyId[top[s].keyId]
    BY <1>1, <1>2, <2>1 DEF PopKnows
  <2>3. /\ PoppedTop(s) \in Tops /\ PoppedTop(s).keyId = nextKeyId[tops[k].keyId]
        /\ PoppedTop(s).popCounter = tops[k].popCounter + 1
        /\ PoppedTop(s).pushCounter = tops[k].pushCounter
    BY <1>2, <2>1, <2>2, NextTops
  <2>4. TypeOK'
    <3>1. tops' \in [StackIds -> Tops]
      BY <1>2, <2>1, <2>3 DEF TypeOK
    <3>2. top[s].keyId \in Nodes
      BY <1>2, <2>2, SessionTypes
    <3> QED
      BY <1>2, <2>1, <3>1, <3>2 DEF TypeOK, States
  <2>5. OthersStay(s)
    BY <1>2, <1>3, <2>1 DEF TypeOK, OthersStay, LocalStays
  <2>6. OtherTopsStay(k) /\ tops'[k] = PoppedTop(s)
    BY <1>2, <1>3, <2>1 DEF OtherTopsStay, TypeOK
  <2>7. StackStep(s)
    <3>1. state'[s] \in States \ PopStates
      BY <2>1 DEF States, PopStates
    <3> QED
      BY <1>1, <2>1, <2>2, <2>3, <2>5, <2>6, <3>1, PopStep
  <2>8. Knows(s)'
    BY <1>2, <2>1 DEF Knows, PushKnows, PopKnows, LastKnown, PopStates
  <2> QED
    BY <2>4, <2>7, <2>8
<1> QED
  BY <1>4, <1>5, <1>6, <1>7, <1>8, <1>9, <1>10

\* What is at a place of a stack is a place further after a push, and a place
\* nearer after a pop.
LEMMA PlacesPushed ==
  ASSUME NEW q \in Seq(Nodes), NEW n \in Nodes, NEW r, r = <<n>> \o q
  PROVE  /\ NodeAt(r, 2, Null) = NodeAt(q, 1, Null)
         /\ NodeAt(r, 3, Null) = NodeAt(q, 2, Null)
         /\ NodeAt(r, 4, Null) = NodeAt(q, 3, Null)
<1>1. PICK m \in Nat : m = Len(q)
  OBVIOUS
<1>2. Len(r) = m + 1 /\ \A j \in 1..m : r[j + 1] = q[j]
  BY <1>1, Prepended
<1>3. ASSUME NEW i \in {1, 2, 3} PROVE NodeAt(r, i + 1, Null) = NodeAt(q, i, Null)
  <2>1. i + 1 \in 1..(m + 1) <=> i \in 1..m
    OBVIOUS
  <2> QED
    BY <1>1, <1>2, <2>1 DEF NodeAt
<1>4. 1 + 1 = 2 /\ 2 + 1 = 3 /\ 3 + 1 = 4
  OBVIOUS
<1> QED
  BY <1>3, <1>4

\* A pop moves all places down.
LEMMA PlacesPopped ==
  ASSUME NEW S, NEW q \in Seq(S), q # <<>>, IsSimple(q), NEW r, r = Tail(q), NEW null
  PROVE  /\ NodeAt(r, 2, null) = NodeAt(q, 3, null)
         /\ NodeAt(r, 3, null) = NodeAt(q, 4, null)
<1>1. PICK m \in Nat : m = Len(r)
  <2>1. r \in Seq(S)
    BY Shortened
  <2> QED
    BY <2>1
<1>2. Len(q) = m + 1 /\ \A j \in 1..m : r[j] = q[j + 1]
  BY <1>1, Shortened
<1>3. ASSUME NEW i \in {2, 3} PROVE NodeAt(r, i, null) = NodeAt(q, i + 1, null)
  <2>1. i + 1 \in 1..(m + 1) <=> i \in 1..m
    OBVIOUS
  <2> QED
    BY <1>1, <1>2, <2>1 DEF NodeAt
<1>4. 2 + 1 = 3 /\ 3 + 1 = 4
  OBVIOUS
<1> QED
  BY <1>3, <1>4

\* A push shifts the hints as it shifts the nodes, and so does a pop.
LEMMA StepHints ==
  ASSUME StacksInv, mode = "TREIBER_DEBUG", NEW s \in Sessions, DebugDone(s)
  PROVE  HintsHold'
<1>1. PICK k \in StackIds : k = stackId[s]
  BY DEF StacksInv, TypeOK
<1>2. NodesPlaced /\ StackStep(s) /\ HintsFollow(s) /\ HintsHold
  BY DEF StacksInv, DebugDone, StacksDebug
<1>3. PICK q \in Seq(Nodes) : q = StacksNow[k]
  BY <1>2, TopIsOn
<1>4. DOMAIN StacksNow = StackIds
  BY DEF StacksNow
<1>5. /\ hints[k][1] \in {Unknown, NodeAt(q, 2, Null)}
      /\ hints[k][2] \in {Unknown, NodeAt(q, 3, Null)}
      /\ hints[k][3] \in {Unknown, NodeAt(q, 4, Null)}
  <2>1. \A j \in 1..3 : hints[k][j] \in {Unknown, NodeAt(q, j + 1, Null)}
    BY <1>2, <1>3 DEF HintsHold
  <2>2. hints[k][1] \in {Unknown, NodeAt(q, 1 + 1, Null)}
    BY <2>1
  <2>3. hints[k][2] \in {Unknown, NodeAt(q, 2 + 1, Null)}
    BY <2>1
  <2>4. hints[k][3] \in {Unknown, NodeAt(q, 3 + 1, Null)}
    BY <2>1
  <2> QED
    BY <2>2, <2>3, <2>4
<1>6. ASSUME NEW r, StacksNow'[k] = r,
             \A l \in StackIds \ {k} : StacksNow'[l] = StacksNow[l] /\ hints'[l] = hints[l],
             hints'[k][1] \in {Unknown, NodeAt(r, 2, Null)},
             hints'[k][2] \in {Unknown, NodeAt(r, 3, Null)},
             hints'[k][3] \in {Unknown, NodeAt(r, 4, Null)}
      PROVE  HintsHold'
  <2>1. SUFFICES ASSUME NEW l \in StackIds, NEW j \in 1..3
                 PROVE  hints'[l][j] \in {Unknown, NodeAt(StacksNow'[l], j + 1, Null)}
    BY DEF HintsHold
  <2>2. CASE l = k
    <3>1. (j = 1 /\ j + 1 = 2) \/ (j = 2 /\ j + 1 = 3) \/ (j = 3 /\ j + 1 = 4)
      OBVIOUS
    <3> QED
      BY <1>6, <2>2, <3>1
  <2>3. CASE l # k
    BY <1>2, <1>6, <2>3 DEF HintsHold
  <2> QED
    BY <2>2, <2>3
<1>7. CASE PushDone(s)
  <2>1. PICK n \in Nodes : n = Holds(s)
    BY <1>2, <1>7 DEF PushDone, PutsFirst, NodesPlaced, Placed, HoldsNow
  <2>2. PICK r : r = <<n>> \o q
    OBVIOUS
  <2>3. Updates(StacksNow, k, r, StacksNow')
    BY <1>1, <1>2, <1>3, <1>7, <2>1, <2>2, StepPlaces
  <2>4. StacksNow'[k] = r /\ \A l \in StackIds \ {k} : StacksNow'[l] = StacksNow[l]
    BY <1>4, <2>3 DEF Updates
  <2>5. hints'[k] = <<tops[k].keyId, hints[k][1], hints[k][2]>>
    BY <1>1, <1>2, <1>7 DEF HintsFollow
  <2>6. tops[k].keyId = NodeAt(q, 1, Null)
    BY <1>2, <1>3 DEF NodesPlaced, Placed, IsChain, Firsts, StackIds
  <2>7. /\ NodeAt(r, 2, Null) = NodeAt(q, 1, Null)
        /\ NodeAt(r, 3, Null) = NodeAt(q, 2, Null)
        /\ NodeAt(r, 4, Null) = NodeAt(q, 3, Null)
    BY <2>2, PlacesPushed
  <2>8. \A l \in StackIds \ {k} : hints'[l] = hints[l]
    BY <1>1, <1>7 DEF PushDone, OtherTopsStay
  <2> QED
    BY <1>5, <1>6, <2>4, <2>5, <2>6, <2>7, <2>8
<1>8. CASE PopDone(s)
  <2>1. PICK r : r = Tail(q)
    OBVIOUS
  <2>2. Updates(StacksNow, k, r, StacksNow')
    BY <1>1, <1>2, <1>3, <1>8, <2>1, StepPlaces
  <2>3. StacksNow'[k] = r /\ \A l \in StackIds \ {k} : StacksNow'[l] = StacksNow[l]
    BY <1>4, <2>2 DEF Updates
  <2>4. hints'[k] = <<hints[k][2], hints[k][3], Unknown>>
    BY <1>1, <1>2, <1>8 DEF HintsFollow
  <2>5. q # <<>> /\ IsSimple(q)
    <3>1. tops[k].keyId # Null
      BY <1>1, <1>8 DEF PopDone, TakesFirst
    <3>2. IsSimple(q)
      BY <1>2, <1>3 DEF NodesPlaced, Placed, StackIds
    <3> QED
      BY <1>2, <1>3, <3>1, <3>2, TopIsOn
  <2>6. /\ NodeAt(r, 2, Null) = NodeAt(q, 3, Null)
        /\ NodeAt(r, 3, Null) = NodeAt(q, 4, Null)
    BY <2>1, <2>5, PlacesPopped
  <2>7. \A l \in StackIds \ {k} : hints'[l] = hints[l]
    BY <1>1, <1>8 DEF PopDone, OtherTopsStay
  <2> QED
    BY <1>5, <1>6, <2>3, <2>4, <2>6, <2>7
<1>9. CASE OwnWrite(s) \/ Quiet(s)
  <2>1. StacksNow' = StacksNow /\ hints' = hints
    BY <1>1, <1>2, <1>9, StepPlaces DEF OwnWrite, Quiet
  <2> QED
    BY <1>2, <2>1 DEF HintsHold
<1> QED
  BY <1>2, <1>7, <1>8, <1>9 DEF StackStep

\* Who pushes has marked the node, and no other marks it while it is on the
\* stack.
LEMMA StepMarks ==
  ASSUME StacksInv, mode = "TREIBER_DEBUG", NEW s \in Sessions, DebugDone(s)
  PROVE  NodesMarked'
<1>1. PICK k \in StackIds : k = stackId[s]
  BY DEF StacksInv, TypeOK
<1>2. NodesPlaced /\ StackStep(s) /\ MarksFollow(s) /\ NodesMarked /\ TypeOK
  BY DEF StacksInv, DebugDone, StacksDebug
<1>3. PICK q \in Seq(Nodes) : q = StacksNow[k]
  BY <1>2, TopIsOn
<1>4. DOMAIN StacksNow = StackIds
  BY DEF StacksNow
<1>5. ASSUME NEW l \in StackIds, NEW x \in Nodes, On(StacksNow'[l], x)
      PROVE  nodeStack'[x] = l
  <2>1. CASE PushDone(s)
    <3>1. PICK n \in Nodes : n = Holds(s) /\ n = ownedKey[s]
      BY <1>2, <2>1, SessionTypes DEF PushDone, Holds, PopStates
    <3>2. PICK r : r = <<n>> \o q
      OBVIOUS
    <3>3. Updates(StacksNow, k, r, StacksNow')
      BY <1>1, <1>2, <1>3, <2>1, <3>1, <3>2, StepPlaces
    <3>4. IsAlsoOn(r, q, n)
      BY <3>2, PrependedAlso
    <3>5. On(StacksNow[l], x) \/ (l = k /\ x = n)
      <4>1. StacksNow'[l] = IF l = k THEN r ELSE StacksNow[l]
        BY <1>4, <3>3 DEF Updates
      <4> QED
        BY <1>3, <1>5, <3>4, <4>1 DEF IsAlsoOn
    <3>6. nodeStack' = nodeStack /\ nodeStack[n] = k
      BY <1>1, <1>2, <2>1, <3>1 DEF PushDone, MarksFollow, NodesMarked
    <3> QED
      BY <1>2, <3>5, <3>6 DEF NodesMarked
  <2>2. CASE PopDone(s)
    <3>1. Updates(StacksNow, k, Tail(StacksNow[k]), StacksNow')
      BY <1>1, <1>2, <2>2, StepPlaces
    <3>2. q # <<>> /\ IsSimple(q)
      <4>1. tops[k].keyId # Null
        BY <1>1, <2>2 DEF PopDone, TakesFirst
      <4>2. IsSimple(q)
        BY <1>2, <1>3 DEF NodesPlaced, Placed, StackIds
      <4> QED
        BY <1>2, <1>3, <4>1, <4>2, TopIsOn
    <3>3. On(StacksNow[l], x)
      <4>1. StacksNow'[l] = IF l = k THEN Tail(q) ELSE StacksNow[l]
        BY <1>3, <1>4, <3>1 DEF Updates
      <4>2. On(Tail(q), x) => On(q, x)
        BY <3>2, ShortenedOn
      <4> QED
        BY <1>3, <1>5, <4>1, <4>2
    <3>4. x # Holds(s)
      BY <2>2, StackNumbers DEF PopDone, TakesFirst
    <3> QED
      BY <1>2, <3>3, <3>4 DEF NodesMarked, MarksFollow
  <2>3. CASE OwnWrite(s) \/ Quiet(s)
    <3>1. StacksNow' = StacksNow
      BY <1>1, <1>2, <2>3, StepPlaces
    <3>2. x # Holds(s)
      BY <1>2, <1>5, <3>1 DEF NodesPlaced, Placed, HoldsNow, StackIds
    <3> QED
      BY <1>2, <1>5, <3>1, <3>2 DEF NodesMarked, MarksFollow
  <2> QED
    BY <1>2, <2>1, <2>2, <2>3 DEF StackStep
<1>6. ASSUME NEW u \in Sessions, state'[u] = "pushCas"
      PROVE  nodeStack'[ownedKey'[u]] = stackId'[u]
  <2>1. CASE u = s
    BY <1>2, <1>6, <2>1 DEF MarksFollow
  <2>2. CASE u # s
    <3>1. LocalStays(u)
      BY <1>2, <2>2 DEF StackStep, OthersStay
    <3>2. Holds(u) = ownedKey[u] /\ Holds(u) \in Nodes
      BY <1>2, <1>6, <3>1, SessionTypes DEF LocalStays, Holds, PopStates
    <3>3. Holds(u) # Holds(s)
      <4>1. HoldsNow[u] # Null
        BY <3>2, StackNumbers DEF HoldsNow
      <4> QED
        BY <1>2, <2>2, <4>1 DEF NodesPlaced, Placed, HoldsNow
    <3> QED
      BY <1>2, <1>6, <3>1, <3>2, <3>3 DEF LocalStays, MarksFollow, NodesMarked
  <2> QED
    BY <2>1, <2>2
<1> QED
  BY <1>5, <1>6 DEF NodesMarked

\* What another session knows still holds: counters that are what they were
\* mean that nothing was pushed or popped.
LEMMA OthersDebug ==
  ASSUME StacksInv, mode = "TREIBER_DEBUG", NEW s \in Sessions, DebugDone(s),
         NEW u \in Sessions \ {s}
  PROVE  DebugKnows(u)'
<1>1. PICK k \in StackIds : k = stackId[s]
  BY DEF StacksInv, TypeOK
<1>2. PICK l \in StackIds : l = stackId[u]
  BY DEF StacksInv, TypeOK
<1>3. TypeOK /\ CountsOK /\ StackStep(s) /\ TypeOK' /\ DebugKnows(u) /\ LocalStays(u)
  BY SessionTypes DEF StacksInv, DebugDone, StacksDebug, StackStep, OthersStay
<1>4. /\ tops[l].popCounter \in Nat /\ tops[l].pushCounter \in Nat
      /\ tops'[l].popCounter \in Nat /\ tops'[l].pushCounter \in Nat
      /\ top[u].popCounter \in Nat /\ top[u].pushCounter \in Nat
  <2>1. CountsOK'
    BY <1>3 DEF TypeOK, Tops, CountsOK
  <2> QED
    BY <1>3, <2>1, SessionTypes DEF CountsOK
<1>5. /\ tops[l].popCounter <= tops'[l].popCounter
      /\ tops[l].pushCounter <= tops'[l].pushCounter
      /\ tops[l].popCounter = tops'[l].popCounter /\ tops[l].pushCounter = tops'[l].pushCounter
           => tops'[l] = tops[l] /\ hints'[l] = hints[l]
  <2>1. CASE PushDone(s)
    <3>1. l # k => tops'[l] = tops[l] /\ hints'[l] = hints[l]
      BY <1>1, <2>1 DEF PushDone, OtherTopsStay
    <3>2. /\ tops'[k].popCounter = tops[k].popCounter
          /\ tops'[k].pushCounter = tops[k].pushCounter + 1
      BY <1>1, <2>1 DEF PushDone
    <3> QED
      BY <1>4, <3>1, <3>2
  <2>2. CASE PopDone(s)
    <3>1. l # k => tops'[l] = tops[l] /\ hints'[l] = hints[l]
      BY <1>1, <2>2 DEF PopDone, OtherTopsStay
    <3>2. /\ tops'[k].popCounter = tops[k].popCounter + 1
          /\ tops'[k].pushCounter = tops[k].pushCounter
      BY <1>1, <2>2 DEF PopDone
    <3> QED
      BY <1>4, <3>1, <3>2
  <2>3. CASE OwnWrite(s) \/ Quiet(s)
    <3>1. tops' = tops /\ hints' = hints
      BY <2>3 DEF OwnWrite, Quiet
    <3> QED
      BY <1>4, <3>1
  <2> QED
    BY <1>3, <2>1, <2>2, <2>3 DEF StackStep
<1>6. TopAged(u) => TopAged(u)'
  <2>1. SUFFICES ASSUME TopAged(u) PROVE TopAged(u)'
    OBVIOUS
  <2>2. /\ top[u].popCounter <= tops[l].popCounter /\ top[u].pushCounter <= tops[l].pushCounter
        /\ top[u].popCounter = tops[l].popCounter /\ top[u].pushCounter = tops[l].pushCounter
             => top[u] = tops[l] /\ topHints[u] = hints[l]
    BY <1>2, <2>1 DEF TopAged
  <2>3. /\ top[u].popCounter <= tops'[l].popCounter
        /\ top[u].pushCounter <= tops'[l].pushCounter
        /\ top[u].popCounter = tops'[l].popCounter /\ top[u].pushCounter = tops'[l].pushCounter
             => top[u] = tops'[l] /\ topHints[u] = hints'[l]
    BY <1>4, <1>5, <2>2
  <2>4. stackId'[u] = l /\ top'[u] = top[u] /\ topHints'[u] = topHints[u]
    BY <1>2, <1>3 DEF LocalStays
  <2> QED
    BY <2>3, <2>4 DEF TopAged
<1>7. state[u] = "popCas" /\ top[u].popCounter = tops'[l].popCounter => firstStack[u] = l
  <2>1. SUFFICES ASSUME state[u] = "popCas", top[u].popCounter = tops'[l].popCounter
                 PROVE  firstStack[u] = l
    OBVIOUS
  <2>2. top[u].popCounter <= tops[l].popCounter
    BY <1>2, <1>3, <2>1 DEF DebugKnows, TopAged
  <2>3. top[u].popCounter = tops[l].popCounter
    BY <1>4, <1>5, <2>1, <2>2
  <2> QED
    BY <1>2, <1>3, <2>1, <2>3 DEF DebugKnows
<1> QED
  BY <1>2, <1>3, <1>6, <1>7 DEF DebugKnows, LocalStays

\* What the debug version keeps holds after any request of it.
LEMMA StepDebug ==
  ASSUME StacksInv, mode = "TREIBER_DEBUG", NEW s \in Sessions, DebugDone(s)
  PROVE  StacksDebug'
<1>1. ASSUME NEW u \in Sessions PROVE DebugKnows(u)'
  BY OthersDebug DEF DebugDone
<1> QED
  BY <1>1, StepHints, StepMarks DEF StacksDebug

\* A step of a stack's client keeps the invariant.
LEMMA StackStepKeeps ==
  ASSUME StacksInv, NEW s \in Sessions, StackStep(s), TypeOK', DbgTypeOK', Knows(s)',
         mode = "TREIBER_DEBUG" => DebugDone(s)
  PROVE  StacksInv'
<1>1. /\ TypeOK /\ NodesPlaced /\ StacksCount /\ StacksKnown /\ CountsOK
      /\ stackId[s] \in StackIds /\ stackId \in [Sessions -> StackIds]
  BY SessionTypes DEF StacksInv, TypeOK
<1>2. NodesPlaced'
  BY <1>1, StepPlaces
<1>3. StacksCount'
  BY <1>1, StepCounts
<1>4. ASSUME NEW u \in Sessions PROVE PushKnows(u)' /\ PopKnows(u)' /\ LastKnown(u)'
  <2>1. CASE u = s
    BY <2>1 DEF Knows
  <2>2. CASE u # s
    BY <1>1, <2>2, SessionTypes, OthersKnow
  <2> QED
    BY <2>1, <2>2
<1>5. StacksKnown'
  BY <1>4 DEF StacksKnown
<1>6. StacksDebug'
  <2>1. mode' = mode
    BY DEF StackStep
  <2>2. CASE mode = "TREIBER_DEBUG"
    BY <2>2, StepDebug
  <2>3. CASE mode # "TREIBER_DEBUG"
    BY <2>1, <2>3 DEF StacksDebug
  <2> QED
    BY <2>2, <2>3
<1> QED
  BY <1>2, <1>3, <1>5, <1>6 DEF StacksInv

\* Every step of the clients is one of them, or does not concern the stacks.
StacksIdle == UNCHANGED <<mode, stackVars>>

\* Every step of the clients that touches the stacks is the effect of one request.
LEMMA ClientsStackStep ==
  ASSUME StacksInv, [ClientsNext]_clientsVars
  PROVE  \/ StacksIdle
         \/ \E s \in Sessions :
              /\ StackStep(s) /\ TypeOK' /\ DbgTypeOK' /\ Knows(s)'
              /\ mode = "TREIBER_DEBUG" => DebugDone(s)
<1>1. CASE Treiber /\ mode' = mode
  <2>1. /\ mode = "TREIBER_ASYNC" /\ UNCHANGED <<mode, dbgOwn>>
        /\ \E s \in Sessions : Runs(s)
    BY <1>1 DEF Treiber, Next
  <2>2. DbgTypeOK'
    BY <2>1 DEF StacksInv, DbgTypeOK, dbgOwn, dbgStore
  <2> QED
    BY <2>1, <2>2, AsyncStep
<1>2. CASE TreiberDebugs /\ mode' = mode
  <2>1. mode = "TREIBER_DEBUG" /\ mode' = mode /\ \E s \in Sessions : DbgRuns(s)
    BY <1>2 DEF TreiberDebugs, DbgNext
  <2> QED
    BY <2>1, DebugStep DEF DebugDone
<1>3. CASE TreiberBlocks /\ mode' = mode
  <2>1. /\ mode = "TREIBER_BLOCKING" /\ UNCHANGED <<mode, dbgOwn>>
        /\ \E s \in Sessions : BlkPushInit(s) \/ PushWrite(s) \/ BlkPushCas(s)
                                 \/ BlkPopInit(s) \/ BlkPopReadFirst(s) \/ BlkPopCas(s)
    BY <1>3 DEF TreiberBlocks, BlkNext
  <2>2. DbgTypeOK'
    BY <2>1 DEF StacksInv, DbgTypeOK, dbgOwn, dbgStore
  <2> QED
    BY <2>1, <2>2, BlockingStep
<1>4. CASE (Queue \/ List \/ TestCase \/ Consumer) /\ mode' = mode
  BY <1>4 DEF Queue, List, TestCase, Consumer, StacksIdle
<1>5. CASE UNCHANGED clientsVars
  BY <1>5 DEF clientsVars, StacksIdle, stackVars
<1> QED
  BY <1>1, <1>2, <1>3, <1>4, <1>5 DEF ClientsNext

\* The other clients leave the stacks alone.
LEMMA IdleKeeps ==
  ASSUME StacksInv, StacksIdle
  PROVE  StacksInv' /\ StacksNow' = StacksNow /\ HoldsNow' = HoldsNow
<1>1. /\ UNCHANGED <<mode, tops, nextKeyId, state, top, newKeyId, ownedKey, stackId,
                     lastPushed, rounds, hints, nodeStack, topHints, firstStack>>
  BY DEF StacksIdle, stackVars, vars, store, local, dbgOwn, dbgStore
<1>2. Firsts' = Firsts /\ HoldsNow' = HoldsNow
  BY <1>1 DEF Firsts, HoldsNow, Holds
<1>3. NodesPlaced' /\ StacksNow' = StacksNow
  BY <1>1, <1>2, AllLeft DEF LeavesAll, StacksInv
<1>4. TypeOK' /\ DbgTypeOK'
  BY <1>1 DEF StacksInv, TypeOK, DbgTypeOK
<1>5. StacksCount'
  <2>1. \A k \in StackIds : PoppersOf(k)' = PoppersOf(k)
    BY <1>1 DEF PoppersOf
  <2> QED
    BY <1>1, <1>3, <2>1 DEF StacksInv, StacksCount
<1>6. StacksKnown'
  BY <1>1, <1>3 DEF StacksInv, StacksKnown, PushKnows, PopKnows, LastKnown
<1>7. StacksDebug'
  BY <1>1, <1>3 DEF StacksInv, StacksDebug, HintsHold, NodesMarked, DebugKnows, TopAged
<1> QED
  BY <1>2, <1>3, <1>4, <1>5, <1>6, <1>7 DEF StacksInv

\* The invariant of the stacks is kept.
LEMMA StacksStep == StacksInv /\ [ClientsNext]_clientsVars => StacksInv'
BY ClientsStackStep, IdleKeeps, StackStepKeeps

\* The stacks are empty to begin with, and every session has its node.
LEMMA StacksInitial ==
  ASSUME ClientsInit
  PROVE  StacksInv /\ StacksNow = [k \in StackIds |-> <<>>]
         /\ HoldsNow = [s \in Sessions |-> s]
<1>1. PICK first : InitAt(first) /\ first \in [Sessions -> StackIds]
  BY DEF ClientsInit, Init, BlkInit, StackIds
<1>2. PICK st : st = [k \in StackIds |-> <<>>]
  OBVIOUS
<1>3. HoldsNow = [s \in Sessions |-> s]
  BY <1>1 DEF HoldsNow, Holds, InitAt, PopStates
<1>4. Firsts = [k \in StackIds |-> Null]
  BY <1>1 DEF Firsts, InitAt, EmptyTop
<1>5. Placed(Sessions, Nodes, Null, st, Firsts, nextKeyId, HoldsNow)
  <2>1. \A k \in StackIds : st[k] = <<>> /\ st[k] \in Seq(Nodes) /\ Len(st[k]) = 0
    BY <1>2
  <2>2. st \in [Sessions -> Seq(Nodes)]
    BY <1>2, <2>1 DEF StackIds
  <2>3. \A k \in StackIds : \A x : ~On(st[k], x)
    BY <2>1 DEF On
  <2>4. \A k \in StackIds : IsSimple(st[k]) /\ IsChain(st[k], Firsts[k], nextKeyId, Null)
    BY <1>4, <2>1 DEF IsSimple, IsChain, NodeAt
  <2>5. Firsts \in [Sessions -> Nodes \cup {Null}] /\ HoldsNow \in [Sessions -> Nodes \cup {Null}]
    BY <1>3, <1>4 DEF StackIds, Nodes
  <2>6. DOMAIN nextKeyId = Nodes
    BY <1>1 DEF InitAt
  <2>7. \A s, u \in Sessions : HoldsNow[s] = HoldsNow[u] => s = u
    BY <1>3
  <2> QED
    BY <2>2, <2>3, <2>4, <2>5, <2>6, <2>7 DEF Placed, StackIds
<1>6. StacksNow = st /\ NodesPlaced
  BY <1>5, StacksFound DEF NodesPlaced
<1>7. TypeOK
  BY <1>1, StackAssumption DEF InitAt, TypeOK, EmptyTop, Tops, States, StackIds, Nodes
<1>8. DbgTypeOK
  <2>1. NoHints \in Hints
    BY HintsType DEF NoHints
  <2> QED
    BY <2>1 DEF ClientsInit, DbgInit, DbgTypeOK
<1>9. StacksCount
  <2>1. \A k \in StackIds : PoppersOf(k) = {}
    BY <1>1 DEF PoppersOf, InitAt, PopStates
  <2>2. Cardinality({}) = 0
    BY FS_EmptySet
  <2>3. \A k \in StackIds : Len(StacksNow[k]) = 0
    BY <1>2, <1>6
  <2>4. \A k \in StackIds : tops[k].pushCounter = 0 /\ tops[k].popCounter = 0
    BY <1>1 DEF InitAt, EmptyTop
  <2>5. \A k \in StackIds : Cardinality(PoppersOf(k)) = 0
    BY <2>1, <2>2
  <2> QED
    BY <2>3, <2>4, <2>5 DEF StacksCount
<1>10. StacksKnown
  BY <1>1 DEF StacksKnown, PushKnows, PopKnows, LastKnown, InitAt, PopStates
<1>11. StacksDebug
  <2>1. HintsHold
    <3>1. \A k \in StackIds, j \in 1..3 : hints[k][j] = Null
      BY DEF ClientsInit, DbgInit, NoHints
    <3>2. \A k \in StackIds, j \in 1..3 : NodeAt(StacksNow[k], j + 1, Null) = Null
      BY <1>2, <1>6 DEF NodeAt
    <3> QED
      BY <3>1, <3>2 DEF HintsHold
  <2>2. NodesMarked
    BY <1>1, <1>2, <1>6 DEF NodesMarked, On, InitAt
  <2>3. \A s \in Sessions : DebugKnows(s)
    BY <1>1 DEF DebugKnows, InitAt
  <2> QED
    BY <2>1, <2>2, <2>3 DEF StacksDebug
<1> QED
  BY <1>2, <1>3, <1>6, <1>7, <1>8, <1>9, <1>10, <1>11 DEF StacksInv

\* The invariant of the stacks, in every mode.
THEOREM StacksInvariance == ClientsSpec => []StacksInv
<1>1. ClientsInit => StacksInv
  BY StacksInitial
<1> QED
  BY <1>1, StacksStep, PTL DEF ClientsSpec

\* The counters of a stack's top tell how many nodes it has, whatever has been
\* popped, pushed again elsewhere and read when stale (check_top).
StacksAssert ==
  /\ mode # "TREIBER_BLOCKING" => CountersCount
  /\ PopFindsNode
  /\ mode = "TREIBER_DEBUG" => DebugReadsHold

\* What it says of the assertions.
LEMMA StacksHold == StacksInv => StacksAssert
<1> SUFFICES ASSUME StacksInv PROVE StacksAssert
  OBVIOUS
<1>1. mode # "TREIBER_BLOCKING" => CountersCount
  <2>1. \A k \in StackIds : StacksNow[k] = Contents(k)
    BY DEF StacksNow
  <2> QED
    BY <2>1 DEF StacksInv, StacksCount, CountersCount
<1>2. PopFindsNode
  BY DEF StacksInv, StacksKnown, PopKnows, LastKnown, PopFindsNode
<1>3. ASSUME mode = "TREIBER_DEBUG" PROVE DebugReadsHold
  <2>1. SUFFICES ASSUME NEW s \in Sessions
                 PROVE  /\ state[s] = "popCas" /\ WholeTopUnchanged(s) =>
                             /\ firstStack[s] = stackId[s]
                             /\ topHints[s][1] \in {Unknown, newKeyId[s]}
                        /\ state[s] = "pushCas" /\ ~WholeTopUnchanged(s) =>
                             \/ tops[stackId[s]].pushCounter # top[s].pushCounter
                             \/ tops[stackId[s]].popCounter # top[s].popCounter
    BY DEF DebugReadsHold
  <2>2. PICK k \in StackIds : k = stackId[s]
    BY DEF StacksInv, TypeOK
  <2>3. DebugKnows(s) /\ PopKnows(s) /\ HintsHold /\ NodesPlaced
    BY <1>3 DEF StacksInv, StacksDebug, StacksKnown
  <2>4. PICK q \in Seq(Nodes) : q = StacksNow[k]
    BY <2>3, TopIsOn
  <2>5. ASSUME state[s] = "popCas", WholeTopUnchanged(s)
        PROVE  firstStack[s] = stackId[s] /\ topHints[s][1] \in {Unknown, newKeyId[s]}
    <3>1. tops[k] = top[s] /\ hints[k] = topHints[s]
      BY <2>2, <2>5 DEF WholeTopUnchanged, TopUnchanged
    <3>2. firstStack[s] = stackId[s]
      BY <2>2, <2>3, <2>5, <3>1 DEF DebugKnows
    <3>3. newKeyId[s] = nextKeyId[top[s].keyId] /\ top[s].keyId # Null
      BY <2>2, <2>3, <2>5, <3>1 DEF PopKnows
    <3>4. IsChain(q, top[s].keyId, nextKeyId, Null)
      BY <2>3, <2>4, <3>1 DEF NodesPlaced, Placed, Firsts, StackIds
    <3>5. nextKeyId[top[s].keyId] = NodeAt(q, 2, Null)
      <4>1. PICK m \in Nat : m = Len(q)
        OBVIOUS
      <4>2. 1 \in 1..m /\ q[1] = top[s].keyId /\ 1 + 1 = 2
        BY <3>3, <3>4, <4>1 DEF IsChain, NodeAt
      <4>3. nextKeyId[q[1]] = NodeAt(q, 1 + 1, Null)
        BY <3>4, <4>1, <4>2 DEF IsChain
      <4> QED
        BY <4>2, <4>3
    <3>6. hints[k][1] \in {Unknown, NodeAt(q, 2, Null)}
      <4>1. 1 \in 1..3 /\ 1 + 1 = 2
        OBVIOUS
      <4>2. hints[k][1] \in {Unknown, NodeAt(StacksNow[k], 1 + 1, Null)}
        BY <2>3, <4>1 DEF HintsHold
      <4> QED
        BY <2>4, <4>1, <4>2
    <3> QED
      BY <3>1, <3>2, <3>3, <3>5, <3>6
  <2>6. ASSUME state[s] = "pushCas", ~WholeTopUnchanged(s)
        PROVE  \/ tops[k].pushCounter # top[s].pushCounter
               \/ tops[k].popCounter # top[s].popCounter
    BY <2>2, <2>3, <2>6 DEF DebugKnows, TopAged, WholeTopUnchanged, TopUnchanged
  <2> QED
    BY <2>2, <2>5, <2>6
<1> QED
  BY <1>1, <1>2, <1>3 DEF StacksAssert

\* The stack clients' part of what the clients assert.
THEOREM StacksAsserted == ClientsSpec => []StacksAssert
BY StacksInvariance, StacksHold, PTL

\* A session starts over only when another has changed the top since it read
\* it: one that takes a first node for stale is right about it, ...
LEMMA StaleMeansProgress ==
  ASSUME StacksInv, mode # "TREIBER_BLOCKING", NEW s \in Sessions,
         state[s] = "popReadFirst", FirstIsStale(s)
  PROVE  tops[stackId[s]] # top[s]
<1> SUFFICES ASSUME tops[stackId[s]] = top[s] PROVE FALSE
  OBVIOUS
<1>1. PICK k \in StackIds : k = stackId[s]
  BY DEF StacksInv, TypeOK
<1>2. /\ NodesPlaced /\ StacksCount /\ TypeOK /\ PopKnows(s) /\ tops[k] = top[s]
      /\ tops[k].popCounter \in Nat /\ tops[k].pushCounter \in Nat
  BY <1>1, SessionTypes DEF StacksInv, StacksKnown, CountsOK
<1>3. PICK q \in Seq(Nodes) : q = StacksNow[k]
  BY <1>2, TopIsOn
<1>4. PICK m \in Nat : m = Len(q)
  OBVIOUS
<1>5. tops[k].pushCounter - tops[k].popCounter = m
  BY <1>2, <1>3, <1>4 DEF StacksCount
<1>6. top[s].keyId # Null /\ top[s].keyId \in Nodes
  <2>1. top[s].keyId # Null
    BY <1>2 DEF PopKnows
  <2> QED
    BY <1>2, <2>1, SessionTypes
<1>7. PICK x \in Nodes \cup {Null} : x = NextOfFirst(s)
  BY <1>2, <1>6 DEF NextOfFirst, TypeOK
<1>8. x = Null <=> m = 1
  <2>1. IsChain(q, top[s].keyId, nextKeyId, Null)
    BY <1>2, <1>3 DEF NodesPlaced, Placed, Firsts, StackIds
  <2>2. 1 \in 1..m /\ q[1] = top[s].keyId
    BY <1>4, <1>6, <2>1 DEF IsChain, NodeAt
  <2>3. x = NodeAt(q, 1 + 1, Null)
    BY <1>4, <1>7, <2>1, <2>2 DEF IsChain, NextOfFirst
  <2>4. 1 + 1 \in 1..m <=> m # 1
    BY <2>2
  <2>5. m # 1 => q[1 + 1] \in Nodes
    BY <1>4, <2>4
  <2> QED
    BY <1>4, <2>3, <2>4, <2>5, StackNumbers DEF NodeAt
<1>9. PICK new : new = [top[s] EXCEPT !.keyId = x, !.popCounter = @ + 1]
  OBVIOUS
<1>10. IsStale(new)
  BY <1>7, <1>9 DEF FirstIsStale
<1>11. /\ new.keyId = x /\ new.popCounter = tops[k].popCounter + 1
       /\ new.pushCounter = tops[k].pushCounter
  <2>1. PICK t \in Tops : t = top[s]
    BY <1>2 DEF TypeOK
  <2>2. new = [t EXCEPT !.keyId = x, !.popCounter = @ + 1]
    BY <1>9, <2>1
  <2>3. new = [keyId |-> x, popCounter |-> t.popCounter + 1, pushCounter |-> t.pushCounter]
    BY <2>2, TopsCounted
  <2> QED
    BY <1>2, <2>1, <2>3
<1> QED
  BY <1>2, <1>5, <1>8, <1>10, <1>11 DEF IsStale

\* ... and so is one whose swap of the whole top has failed.
LEMMA AgedMeansProgress ==
  ASSUME StacksInv, mode = "TREIBER_DEBUG", NEW s \in Sessions,
         state[s] \in {"pushCas", "popCas"}, ~WholeTopUnchanged(s)
  PROVE  tops[stackId[s]] # top[s]
BY DEF StacksInv, StacksDebug, DebugKnows, TopAged, WholeTopUnchanged, TopUnchanged

StartsOver(s) ==
  <<state[s], state'[s]>> \in {<<"pushCas", "pushWrite">>, <<"popReadFirst", "popInit">>,
                              <<"popCas", "popReadFirst">>}

\* Who starts over has lost to a push or a pop of another session.
LEMMA RetryStep ==
  ASSUME StacksInv, [ClientsNext]_clientsVars, NEW s \in Sessions, StartsOver(s)
  PROVE  tops[stackId[s]] # top[s]
<1>1. TypeOK
  BY DEF StacksInv
<1>2. state'[s] # state[s]
  BY DEF StartsOver
<1>3. mode' = mode /\ ~StacksIdle
  BY <1>2 DEF ClientsNext, clientsVars, StacksIdle, stackVars, vars, local
<1>4. CASE mode = "TREIBER_ASYNC"
  <2>1. PICK u \in Sessions : Runs(u)
    BY <1>3, <1>4 DEF ClientsNext, clientsVars, StacksIdle, stackVars, Treiber, Next,
       TreiberBlocks, TreiberDebugs, Queue, List, TestCase, Consumer
  <2>2. u = s
    BY <1>1, <1>2, <2>1 DEF Runs, PushInit, PushWrite, PushCas, PopInit, PopReadFirst, PopCas,
       Goto, TypeOK
  <2>3. \/ PushCas(s) /\ ~TopUnchanged(s)
        \/ PopReadFirst(s) /\ FirstIsStale(s)
        \/ PopCas(s) /\ ~TopUnchanged(s)
    BY <1>1, <2>1, <2>2 DEF StartsOver, Runs, PushInit, PushWrite, PushCas, PopInit,
       PopReadFirst, PopCas, Goto, TypeOK
  <2> QED
    BY <1>4, <2>3, StaleMeansProgress DEF TopUnchanged, PopReadFirst
<1>5. CASE mode = "TREIBER_DEBUG"
  <2>1. PICK u \in Sessions : DbgRuns(u)
    BY <1>3, <1>5 DEF ClientsNext, clientsVars, StacksIdle, stackVars, Treiber, DbgNext,
       TreiberBlocks, TreiberDebugs, Queue, List, TestCase, Consumer
  <2>2. u = s
    BY <1>1, <1>2, <2>1 DEF DbgRuns, DbgPushInit, DbgPushWrite, DbgPushCas, DbgPopInit,
       DbgPopReadFirst, DbgPopCas, DbgPopWrite, PushInit, PushWrite, PopInit, Goto, TypeOK
  <2>3. \/ state[s] = "pushCas" /\ ~WholeTopUnchanged(s)
        \/ state[s] = "popReadFirst" /\ FirstIsStale(s)
        \/ state[s] = "popCas" /\ ~WholeTopUnchanged(s)
    BY <1>1, <2>1, <2>2 DEF StartsOver, DbgRuns, DbgPushInit, DbgPushWrite, DbgPushCas,
       DbgPopInit, DbgPopReadFirst, DbgPopCas, DbgPopWrite, PushInit, PushWrite, PopInit,
       Goto, TypeOK
  <2> QED
    BY <1>5, <2>3, StaleMeansProgress, AgedMeansProgress
<1>6. CASE mode = "TREIBER_BLOCKING"
  <2>1. PICK u \in Sessions : BlkPushInit(u) \/ PushWrite(u) \/ BlkPushCas(u)
                                \/ BlkPopInit(u) \/ BlkPopReadFirst(u) \/ BlkPopCas(u)
    BY <1>3, <1>6 DEF ClientsNext, clientsVars, StacksIdle, stackVars, Treiber, BlkNext,
       TreiberBlocks, TreiberDebugs, Queue, List, TestCase, Consumer
  <2>2. u = s
    BY <1>1, <1>2, <2>1 DEF BlkPushInit, BlkPushCas, BlkPopInit, BlkPopReadFirst, BlkPopCas,
       BlkPopFrom, PushInit, PushWrite, Goto, TypeOK
  <2>3. (BlkPushCas(s) \/ BlkPopCas(s)) /\ ~TopUnchanged(s)
    BY <1>1, <2>1, <2>2 DEF StartsOver, BlkPushInit, BlkPushCas, BlkPopInit, BlkPopReadFirst,
       BlkPopCas, BlkPopFrom, PushInit, PushWrite, Goto, TypeOK
  <2> QED
    BY <2>3 DEF TopUnchanged
<1> QED
  BY <1>3, <1>4, <1>5, <1>6 DEF ClientsNext, clientsVars, StacksIdle, stackVars, Treiber,
     TreiberBlocks, TreiberDebugs, Queue, List, TestCase, Consumer

\* Some push or pop is always getting done.
THEOREM RetriesProgress == ClientsSpec => RetryMeansProgress
<1>1. ASSUME StacksInv, [ClientsNext]_clientsVars
      PROVE  [\A s \in Sessions :
                <<state[s], state'[s]>> \in {<<"pushCas", "pushWrite">>,
                                            <<"popReadFirst", "popInit">>,
                                            <<"popCas", "popReadFirst">>}
                  => tops[stackId[s]] # top[s]]_vars
  BY <1>1, RetryStep DEF StartsOver
<1> QED
  BY <1>1, StacksInvariance, PTL DEF ClientsSpec, RetryMeansProgress

\* A push and a pop are those of the stacks as they were promised.
LEMMA StackStepImplements ==
  ASSUME StacksInv, NEW s \in Sessions, StackStep(s)
  PROVE  [Abstract!Next]_(Abstract!vars)
<1>1. NodesPlaced /\ stackId[s] \in StackIds
  BY DEF StacksInv, TypeOK
<1>2. PICK k \in StackIds : k = stackId[s]
  BY <1>1
<1>3. PICK q \in Seq(Nodes) : q = StacksNow[k]
  BY <1>1, TopIsOn
<1>4. OthersStay(s)
  BY DEF StackStep
<1>5. HoldsNow[s] = Holds(s)
  BY DEF HoldsNow
<1>6. CASE PushDone(s)
  <2>1. /\ HoldsNow[s] # Null /\ HoldsNow' = [HoldsNow EXCEPT ![s] = Null]
        /\ StacksNow' = [StacksNow EXCEPT ![k] = <<HoldsNow[s]>> \o StacksNow[k]]
    BY <1>1, <1>2, <1>5, <1>6, StepPlaces DEF PushDone, PutsFirst, Updates
  <2>2. Abstract!Push(s, k)
    BY <2>1 DEF Abstract!Push, HoldsNow, StacksNow
  <2> QED
    BY <2>2 DEF Abstract!Next
<1>7. CASE PopDone(s)
  <2>1. HoldsNow[s] = Null /\ tops[k].keyId # Null
    BY <1>2, <1>5, <1>7 DEF PopDone, TakesFirst
  <2>2. StacksNow[k] # <<>> /\ Head(StacksNow[k]) = tops[k].keyId
    <3>1. q # <<>> /\ q[1] = tops[k].keyId
      BY <1>1, <1>3, <2>1, TopIsOn
    <3> QED
      BY <1>3, <3>1
  <2>3. HoldsNow' = [HoldsNow EXCEPT ![s] = Head(StacksNow[k])]
    BY <1>2, <1>7, <2>2 DEF PopDone, TakesFirst, Updates
  <2>4. StacksNow' = [StacksNow EXCEPT ![k] = Tail(StacksNow[k])]
    BY <1>1, <1>2, <1>7, StepPlaces DEF Updates
  <2>5. HoldsNow'[s] # Null
    BY <2>1, <2>2, <2>3 DEF HoldsNow
  <2>6. Abstract!Pop(s, k)
    BY <2>1, <2>2, <2>3, <2>4, <2>5 DEF Abstract!Pop, HoldsNow, StacksNow
  <2> QED
    BY <2>6 DEF Abstract!Next
<1>8. CASE OwnWrite(s) \/ Quiet(s)
  <2>1. StacksNow' = StacksNow /\ HoldsNow' = HoldsNow
    BY <1>1, <1>8, StepPlaces DEF OwnWrite, Quiet, WritesOwn, LeavesAll
  <2> QED
    BY <2>1 DEF Abstract!vars, StacksNow, HoldsNow
<1> QED
  BY <1>6, <1>7, <1>8 DEF StackStep

\* Whatever version of the client keeps them, the stacks hold each node once,
\* and change by whole pushes and pops.
THEOREM StacksImplemented == ClientsSpec => ImplementsStacks
<1>1. ClientsInit => Abstract!Init
  BY StacksInitial DEF Abstract!Init, StacksNow, HoldsNow
<1>2. StacksInv /\ [ClientsNext]_clientsVars => [Abstract!Next]_(Abstract!vars)
  <2> SUFFICES ASSUME StacksInv, [ClientsNext]_clientsVars
               PROVE  [Abstract!Next]_(Abstract!vars)
    OBVIOUS
  <2>1. CASE StacksIdle
    BY <2>1, IdleKeeps DEF Abstract!vars, StacksNow, HoldsNow
  <2> QED
    BY <2>1, ClientsStackStep, StackStepImplements
<1> QED
  BY <1>1, <1>2, StacksInvariance, PTL DEF ClientsSpec, ImplementsStacks, Abstract!Spec

----------------------------------------------------------------------------
(* The queues.                                                             *)

\* The nodes of the queues from their dummies on, where they begin, where the
\* nodes point, and what sessions hold.
ChainsNow == [q \in QueueIds |-> Chain(q)]
HeadNodes == [q \in QueueIds |-> heads[q].nextKeyId]
MsHoldsNow == [s \in MsSessions |-> MsHolds(s)]

\* Each node is in one place, and every queue has its dummy.
ChainsPlaced ==
  /\ Placed(MsSessions, MsNodes, NoNode, ChainsNow, HeadNodes, NextNodes, MsHoldsNow)
  /\ \A q \in QueueIds : ChainsNow[q] # <<>>

\* The sessions that have linked a node to q and not yet taken one.
LinkersOf(q) ==
  {s \in MsSessions : msState[s] \in DequeueStates \cup {"enqSwing"} /\ queueId[s] = q}

ChainsCount == \A q \in QueueIds : Len(ChainsNow[q]) = Cardinality(LinkersOf(q)) + 1

LastNode(q) == ChainsNow[q][Len(ChainsNow[q])]
TailNode(q) == tails[q].nextKeyId

\* The tail is at the last node, or at the one before as long as the session
\* that has linked the last node has not swung it.
TailNear(q) ==
  /\ On(ChainsNow[q], TailNode(q))
  /\ \/ TailNode(q) = LastNode(q)
     \/ /\ nodePtrs[TailNode(q)].nextKeyId = LastNode(q)
        /\ \E s \in MsSessions :
             msState[s] = "enqSwing" /\ queueId[s] = q /\ tail[s] = tails[q]

\* What a session knows of the node that it owns, ...
OwnKnown(s) ==
  /\ msState[s] = "enqInit" => nodePtr[s].counter = nodePtrs[msOwnedKey[s]].counter
  /\ msState[s] \in EnqueueStates \ {"enqInit", "enqSwing"} =>
       nodePtrs[msOwnedKey[s]].nextKeyId = NoNode

\* ... of the tail that it has read and of the node that was there, ...
TailKnown(s) ==
  LET q == queueId[s]
      n == tail[s].nextKeyId
  IN  /\ msState[s] \in {"enqReadLast", "enqReadTailAgain", "enqLink", "enqAdvance",
                         "enqSwing"} =>
           /\ n \in MsNodes
           /\ tail[s].counter <= tails[q].counter
           /\ tail[s].counter = tails[q].counter => tail[s] = tails[q]
      /\ msState[s] = "enqReadTailAgain" /\ tail[s] = tails[q] =>
           \/ nodePtr[s] = nodePtrs[n]
           \/ nodePtr[s].nextKeyId = NoNode /\ nodePtr[s].counter < nodePtrs[n].counter
      /\ msState[s] = "enqLink" =>
           /\ nodePtr[s].nextKeyId = NoNode
           /\ nodePtr[s].counter <= nodePtrs[n].counter
           /\ nodePtr[s].counter = nodePtrs[n].counter =>
                tail[s] = tails[q] /\ nodePtrs[n].nextKeyId = NoNode
      /\ msState[s] = "enqAdvance" =>
           /\ nodePtr[s].nextKeyId # NoNode
           /\ tail[s] = tails[q] => nodePtrs[n].nextKeyId = nodePtr[s].nextKeyId
      /\ msState[s] = "enqSwing" /\ tail[s] = tails[q] =>
           nodePtrs[n].nextKeyId = msOwnedKey[s]

\* ... and of the head.
HeadKnown(s) ==
  LET q == queueId[s]
      n == head[s].nextKeyId
  IN  /\ msState[s] \in {"deqReadTail", "deqReadFirst", "deqReadHeadAgain", "deqCas"} =>
           /\ n \in MsNodes
           /\ head[s].counter <= heads[q].counter
           /\ head[s].counter = heads[q].counter => head[s] = heads[q]
      /\ msState[s] \in {"deqReadFirst", "deqReadHeadAgain"} /\ head[s] = heads[q] =>
           tail[s].nextKeyId # n
      /\ msState[s] = "deqReadHeadAgain" /\ head[s] = heads[q] => nodePtr[s].nextKeyId # NoNode
      /\ msState[s] = "deqCas" => nodePtr[s].nextKeyId # NoNode
      /\ msState[s] \in {"deqReadHeadAgain", "deqCas"} /\ head[s] = heads[q] =>
           nodePtr[s] = nodePtrs[n]
      /\ msState[s] # "deqAdvance"

MsKnows(s) == OwnKnown(s) /\ TailKnown(s) /\ HeadKnown(s)

QueuesInv ==
  /\ MsTypeOK
  /\ ChainsPlaced
  /\ ChainsCount
  /\ \A q \in QueueIds : TailNear(q)
  /\ \A s \in MsSessions : MsKnows(s)

\* What is asked of the constants.
LEMMA MsNumbers ==
  /\ IsFiniteSet(MsSessions) /\ IsFiniteSet(MsNodes) /\ NoNode \notin MsNodes
  /\ QueueIds = MsSessions
<1>1. IsFiniteSet({OwnNode(s) : s \in MsSessions})
  <2>1. PICK f : f = [s \in MsSessions |-> OwnNode(s)]
    OBVIOUS
  <2>2. f \in Surjection(MsSessions, {OwnNode(s) : s \in MsSessions})
    BY <2>1 DEF Surjection
  <2> QED
    BY <2>2, QueueAssumption, FS_Surjection
<1>2. IsFiniteSet({Dummy(q) : q \in QueueIds})
  <2>1. PICK f : f = [q \in QueueIds |-> Dummy(q)]
    OBVIOUS
  <2>2. f \in Surjection(QueueIds, {Dummy(q) : q \in QueueIds})
    BY <2>1 DEF Surjection
  <2> QED
    BY <2>2, QueueAssumption, FS_Surjection DEF QueueIds
<1>3. IsFiniteSet(MsNodes)
  BY <1>1, <1>2, FS_Union DEF MsNodes
<1> QED
  BY <1>3, QueueAssumption DEF QueueIds

\* The nodes that are found from the heads on are those that are placed there,
\* before a step and after it.
LEMMA ChainsFound ==
  \A st : Placed(MsSessions, MsNodes, NoNode, st, HeadNodes, NextNodes, MsHoldsNow)
            => ChainsNow = st
<1> SUFFICES ASSUME NEW st,
                    Placed(MsSessions, MsNodes, NoNode, st, HeadNodes, NextNodes, MsHoldsNow)
             PROVE  ChainsNow = st
  OBVIOUS
<1>1. ASSUME NEW q \in QueueIds PROVE Chain(q) = st[q]
  <2>1. PICK w : w = CHOOSE v : IsWalk(v, Cardinality(MsNodes), HeadNodes[q], NextNodes, NoNode)
    OBVIOUS
  <2>3. st[q] \in Seq(MsNodes) /\ IsChain(st[q], HeadNodes[q], NextNodes, NoNode)
        /\ IsSimple(st[q])
    BY MsNumbers DEF Placed
  <2>2. Chain(q) = FoundOn(w, NoNode)
    BY <2>1 DEF Chain, HeadNodes, IsWalk, FoundOn
  <2>5. FoundOn(w, NoNode) = st[q]
    BY <2>1, <2>3, MsNumbers, ChainIsFound
  <2> QED
    BY <2>2, <2>5
<1>2. st \in [QueueIds -> Seq(MsNodes)]
  BY MsNumbers DEF Placed
<1> QED
  BY <1>1, <1>2 DEF ChainsNow

\* The chains are found in the next state, too.
LEMMA ChainsFoundNext ==
  (\A st : Placed(MsSessions, MsNodes, NoNode, st, HeadNodes, NextNodes, MsHoldsNow)
             => ChainsNow = st)'
BY ChainsFound, PTL

\* What a step may do to the nodes: s links its node behind the last of queue
\* q, ...
LinksLast(s, q) ==
  /\ MsHolds(s) # NoNode /\ NextNodes[MsHolds(s)] = NoNode
  /\ UNCHANGED HeadNodes
  /\ Updates(NextNodes, LastNode(q), MsHolds(s), NextNodes')
  /\ Updates(MsHoldsNow, s, NoNode, MsHoldsNow')

\* ... takes the dummy of queue q, ...
TakesDummy(s, q) ==
  /\ MsHolds(s) = NoNode /\ NextNodes[HeadNodes[q]] # NoNode
  /\ UNCHANGED NextNodes
  /\ Updates(HeadNodes, q, NextNodes[HeadNodes[q]], HeadNodes')
  /\ Updates(MsHoldsNow, s, HeadNodes[q], MsHoldsNow')

\* ... has its own node point to none, or leaves all as it is.
ClearsOwn(s) ==
  /\ Updates(NextNodes, MsHolds(s), NoNode, NextNodes')
  /\ UNCHANGED <<HeadNodes, MsHoldsNow>>

NodesStay == UNCHANGED <<NextNodes, HeadNodes, MsHoldsNow>>

\* What a queue's chain is like.
LEMMA ChainIsOn ==
  ASSUME ChainsPlaced, NEW q \in QueueIds
  PROVE  /\ ChainsNow[q] \in Seq(MsNodes) /\ ChainsNow[q] # <<>> /\ IsSimple(ChainsNow[q])
         /\ IsChain(ChainsNow[q], HeadNodes[q], NextNodes, NoNode)
         /\ HeadNodes[q] \in MsNodes /\ HeadNodes[q] = ChainsNow[q][1]
         /\ On(ChainsNow[q], HeadNodes[q])
         /\ LastNode(q) \in MsNodes /\ On(ChainsNow[q], LastNode(q))
         /\ NextNodes[LastNode(q)] = NoNode
<1>1. PICK c \in Seq(MsNodes) : c = ChainsNow[q]
  BY MsNumbers DEF ChainsPlaced, Placed
<1>2. c # <<>> /\ IsSimple(c) /\ IsChain(c, HeadNodes[q], NextNodes, NoNode)
  BY <1>1, MsNumbers DEF ChainsPlaced, Placed
<1>3. PICK f : f = HeadNodes[q]
  OBVIOUS
<1>4. IsChain(c, f, NextNodes, NoNode)
  BY <1>2, <1>3
<1>5. f # NoNode /\ f \in MsNodes /\ f = c[1] /\ On(c, f)
  BY <1>2, <1>4, MsNumbers, ChainStarts
<1>6. PICK last : last = c[Len(c)]
  OBVIOUS
<1>7. last \in MsNodes /\ On(c, last) /\ NextNodes[last] = NoNode
  BY <1>2, <1>4, <1>6, MsNumbers, ChainLast
<1> QED
  BY <1>1, <1>2, <1>3, <1>5, <1>6, <1>7 DEF LastNode

\* A node linked to the last one is at the end of the queue.
LEMMA LastLinked ==
  ASSUME ChainsPlaced, NEW s \in MsSessions, NEW q \in QueueIds, LinksLast(s, q)
  PROVE  /\ ChainsPlaced'
         /\ Updates(ChainsNow, q, Append(ChainsNow[q], MsHolds(s)), ChainsNow')
<1>1. PICK st : st = ChainsNow
  OBVIOUS
<1>2. PICK n : n = MsHoldsNow[s] /\ n = MsHolds(s)
  BY DEF MsHoldsNow
<1>3. PICK c : c = st[q]
  OBVIOUS
<1>4. PICK r : r = Append(c, n)
  OBVIOUS
<1>5. PICK st2 : Updates(st, q, r, st2)
  BY DEF Updates
<1>6. PICK last : last = c[Len(c)] /\ last = LastNode(q)
  BY <1>1, <1>3 DEF LastNode
<1>7. Placed(MsSessions, MsNodes, NoNode, st, HeadNodes, NextNodes, MsHoldsNow)
  BY <1>1 DEF ChainsPlaced
<1>8. n # NoNode /\ NextNodes[n] = NoNode /\ q \in MsSessions /\ c # <<>>
      /\ Updates(NextNodes, last, n, NextNodes') /\ Updates(MsHoldsNow, s, NoNode, MsHoldsNow')
  BY <1>1, <1>2, <1>3, <1>6, MsNumbers DEF LinksLast, ChainsPlaced
<1>9. Placed(MsSessions, MsNodes, NoNode, st2, HeadNodes, NextNodes', MsHoldsNow')
  BY <1>2, <1>3, <1>4, <1>5, <1>6, <1>7, <1>8, MsNumbers, PlacedLinked
<1>10. Placed(MsSessions, MsNodes, NoNode, st2, HeadNodes', NextNodes', MsHoldsNow')
  BY <1>9 DEF LinksLast
<1>11. ChainsNow' = st2
  BY <1>10, ChainsFoundNext
<1>12. \A k \in QueueIds : st2[k] # <<>>
  <2>1. n \in MsNodes /\ c \in Seq(MsNodes)
    BY <1>2, <1>3, <1>7, <1>8 DEF Placed
  <2>2. r # <<>>
    BY <1>4, <2>1
  <2>3. \A k \in QueueIds : st[k] # <<>>
    BY <1>1 DEF ChainsPlaced
  <2>4. DOMAIN st = QueueIds
    BY <1>1 DEF ChainsNow
  <2> QED
    BY <1>5, <2>2, <2>3, <2>4 DEF Updates
<1> QED
  BY <1>1, <1>2, <1>3, <1>4, <1>5, <1>10, <1>11, <1>12 DEF ChainsPlaced

\* With the head swapped on, the old dummy is off the queue.
LEMMA DummyTaken ==
  ASSUME ChainsPlaced, NEW s \in MsSessions, NEW q \in QueueIds, TakesDummy(s, q)
  PROVE  /\ ChainsPlaced'
         /\ Updates(ChainsNow, q, Tail(ChainsNow[q]), ChainsNow')
<1>1. PICK st : st = ChainsNow
  OBVIOUS
<1>2. PICK n : n = HeadNodes[q]
  OBVIOUS
<1>3. PICK r : r = Tail(st[q])
  OBVIOUS
<1>4. PICK st2 : Updates(st, q, r, st2)
  BY DEF Updates
<1>5. Placed(MsSessions, MsNodes, NoNode, st, HeadNodes, NextNodes, MsHoldsNow)
  BY <1>1 DEF ChainsPlaced
<1>6. n \in MsNodes /\ n # NoNode
  BY <1>2, MsNumbers, ChainIsOn
<1>7. MsHoldsNow[s] = NoNode /\ q \in MsSessions /\ NextNodes[n] # NoNode
      /\ Updates(HeadNodes, q, NextNodes[n], HeadNodes')
      /\ Updates(MsHoldsNow, s, n, MsHoldsNow')
  BY <1>2, MsNumbers DEF TakesDummy, MsHoldsNow
<1>8. Placed(MsSessions, MsNodes, NoNode, st2, HeadNodes', NextNodes, MsHoldsNow')
  BY <1>2, <1>3, <1>4, <1>5, <1>6, <1>7, MsNumbers, PlacedPopped
<1>9. Placed(MsSessions, MsNodes, NoNode, st2, HeadNodes', NextNodes', MsHoldsNow')
  BY <1>8 DEF TakesDummy
<1>10. ChainsNow' = st2
  BY <1>9, ChainsFoundNext
<1>11. r # <<>>
  <2>1. PICK c \in Seq(MsNodes) : c = st[q] /\ r = Tail(c)
    BY <1>1, <1>3, ChainIsOn
  <2>2. IsChain(c, n, NextNodes, NoNode) /\ IsSimple(c)
    BY <1>1, <1>2, <2>1, ChainIsOn
  <2>3. PICK x : x = NextNodes[n]
    OBVIOUS
  <2>4. IsChain(r, x, NextNodes, NoNode)
    BY <1>6, <2>1, <2>2, <2>3, MsNumbers, ChainPopped
  <2>5. r \in Seq(MsNodes)
    <3>1. c # <<>>
      BY <1>1, <2>1, ChainIsOn
    <3> QED
      BY <2>1, <2>2, <3>1, Shortened
  <2> QED
    BY <1>7, <2>3, <2>4, <2>5, MsNumbers, ChainStarts
<1>12. \A k \in QueueIds : st2[k] # <<>>
  <2>3. \A k \in QueueIds : st[k] # <<>>
    BY <1>1 DEF ChainsPlaced
  <2>4. DOMAIN st = QueueIds
    BY <1>1 DEF ChainsNow
  <2> QED
    BY <1>4, <1>11, <2>3, <2>4 DEF Updates
<1> QED
  BY <1>1, <1>3, <1>4, <1>9, <1>10, <1>12 DEF ChainsPlaced

\* Whatever a session writes to its own node, the queues stay.
LEMMA OwnCleared ==
  ASSUME ChainsPlaced, NEW s \in MsSessions, ClearsOwn(s)
  PROVE  ChainsPlaced' /\ ChainsNow' = ChainsNow
<1>1. PICK st : st = ChainsNow
  OBVIOUS
<1>2. PICK n : n = MsHoldsNow[s] /\ n = MsHolds(s)
  BY DEF MsHoldsNow
<1>3. Updates(NextNodes, n, NoNode, NextNodes')
  BY <1>2 DEF ClearsOwn
<1>4. Placed(MsSessions, MsNodes, NoNode, st, HeadNodes, NextNodes, MsHoldsNow)
  BY <1>1 DEF ChainsPlaced
<1>5. Placed(MsSessions, MsNodes, NoNode, st, HeadNodes, NextNodes', MsHoldsNow)
  BY <1>2, <1>3, <1>4, MsNumbers, PlacedWritten
<1>6. Placed(MsSessions, MsNodes, NoNode, st, HeadNodes', NextNodes', MsHoldsNow')
  BY <1>5 DEF ClearsOwn
<1>7. ChainsNow' = st
  BY <1>6, ChainsFoundNext
<1> QED
  BY <1>1, <1>6, <1>7 DEF ChainsPlaced

\* The queues stay when nothing they are found by changes.
LEMMA ChainsLeft ==
  ASSUME ChainsPlaced, NodesStay
  PROVE  ChainsPlaced' /\ ChainsNow' = ChainsNow
<1>1. PICK st : st = ChainsNow
  OBVIOUS
<1>2. Placed(MsSessions, MsNodes, NoNode, st, HeadNodes, NextNodes, MsHoldsNow)
  BY <1>1 DEF ChainsPlaced
<1>3. Placed(MsSessions, MsNodes, NoNode, st, HeadNodes', NextNodes', MsHoldsNow')
  BY <1>2 DEF NodesStay
<1>4. ChainsNow' = st
  BY <1>3, ChainsFoundNext
<1> QED
  BY <1>1, <1>3, <1>4 DEF ChainsPlaced

\* What only s may change, ...
MsLocalStays(u) ==
  /\ msState'[u] = msState[u] /\ head'[u] = head[u] /\ tail'[u] = tail[u]
  /\ nodePtr'[u] = nodePtr[u] /\ msOwnedKey'[u] = msOwnedKey[u] /\ queueId'[u] = queueId[u]

MsOthersStay(s) == \A u \in MsSessions \ {s} : MsLocalStays(u)

\* ... and what it changes in the store: its node is linked, ...
LinkDone(s) ==
  LET n == tail[s].nextKeyId
  IN  /\ msState[s] = "enqLink" /\ msState'[s] = "enqSwing"
      /\ nodePtrs[n] = nodePtr[s]
      /\ Updates(nodePtrs, n, Ptr(msOwnedKey[s], nodePtr[s].counter + 1), nodePtrs')
      /\ UNCHANGED <<heads, tails>>
      /\ tail'[s] = tail[s] /\ msOwnedKey'[s] = msOwnedKey[s] /\ queueId'[s] = queueId[s]

\* ... the tail is swung, by the session itself or by one that advances it, ...
NewTail(s) == IF msState[s] = "enqSwing" THEN msOwnedKey[s] ELSE nodePtr[s].nextKeyId

SwingDone(s) ==
  LET q == queueId[s]
  IN  /\ \/ msState[s] = "enqSwing" /\ msState'[s] = "deqReadHead"
         \/ msState[s] = "enqAdvance" /\ msState'[s] = "enqReadTail"
      /\ tails[q] = tail[s]
      /\ Updates(tails, q, Ptr(NewTail(s), tail[s].counter + 1), tails')
      /\ UNCHANGED <<heads, nodePtrs>>
      /\ msOwnedKey'[s] = msOwnedKey[s] /\ queueId'[s] = queueId[s]

\* ... the dummy is taken, ...
DequeueDone(s) ==
  LET q == queueId[s]
  IN  /\ msState[s] = "deqCas" /\ msState'[s] = "enqInit"
      /\ heads[q] = head[s]
      /\ Updates(heads, q, Ptr(nodePtr[s].nextKeyId, head[s].counter + 1), heads')
      /\ UNCHANGED <<tails, nodePtrs>>
      /\ msOwnedKey'[s] = head[s].nextKeyId /\ nodePtr'[s] = nodePtr[s]

\* ... the node to be enqueued next is written, ...
InitDone(s) ==
  /\ msState[s] = "enqInit" /\ msState'[s] = "enqReadTail"
  /\ Updates(nodePtrs, msOwnedKey[s], Ptr(NoNode, nodePtr[s].counter), nodePtrs')
  /\ UNCHANGED <<heads, tails>>
  /\ msOwnedKey'[s] = msOwnedKey[s] /\ queueId'[s] = queueId[s]

\* ... or nothing, after a read or a swap that has failed.
StoreLeft(s) ==
  /\ UNCHANGED <<heads, tails, nodePtrs>>
  /\ msState[s] \in DequeueStates \cup {"enqSwing"} <=>
       msState'[s] \in DequeueStates \cup {"enqSwing"}
  /\ msState[s] = "enqSwing" => tail[s] # tails[queueId[s]]
  /\ msOwnedKey'[s] = msOwnedKey[s] /\ queueId'[s] = queueId[s]

MsStepOf(s) ==
  /\ MsOthersStay(s)
  /\ LinkDone(s) \/ SwingDone(s) \/ DequeueDone(s) \/ InitDone(s) \/ StoreLeft(s)

\* The parts of a pointer.
LEMMA PtrParts ==
  ASSUME NEW n, NEW c
  PROVE  Ptr(n, c).nextKeyId = n /\ Ptr(n, c).counter = c
BY DEF Ptr

\* What the pointers that are written make of where the nodes point, and what
\* the others hold.
LEMMA PointsThere ==
  ASSUME MsTypeOK, NEW n \in MsNodes, NEW x, NEW c, Updates(nodePtrs, n, Ptr(x, c), nodePtrs')
  PROVE  Updates(NextNodes, n, x, NextNodes')
<1>1. \A k \in MsNodes : nodePtrs'[k] = IF k = n THEN Ptr(x, c) ELSE nodePtrs[k]
  BY DEF MsTypeOK, Updates
<1>2. ASSUME NEW k \in MsNodes
      PROVE  nodePtrs'[k].nextKeyId = IF k = n THEN x ELSE nodePtrs[k].nextKeyId
  BY <1>1, PtrParts
<1> QED
  BY <1>2 DEF NextNodes, Updates

\* The heads of the other queues stay where they are, ...
LEMMA HeadsThere ==
  ASSUME MsTypeOK, NEW q \in QueueIds, NEW x, NEW c, Updates(heads, q, Ptr(x, c), heads')
  PROVE  Updates(HeadNodes, q, x, HeadNodes')
<1>1. \A k \in QueueIds : heads'[k] = IF k = q THEN Ptr(x, c) ELSE heads[k]
  BY DEF MsTypeOK, Updates
<1>2. ASSUME NEW k \in QueueIds
      PROVE  heads'[k].nextKeyId = IF k = q THEN x ELSE heads[k].nextKeyId
  BY <1>1, PtrParts
<1> QED
  BY <1>2 DEF HeadNodes, Updates

\* ... and so does what other sessions hold.
LEMMA OthersHold ==
  ASSUME NEW s \in MsSessions, MsOthersStay(s), NEW x, x = MsHolds(s)'
  PROVE  Updates(MsHoldsNow, s, x, MsHoldsNow')
<1>1. ASSUME NEW u \in MsSessions PROVE MsHolds(u)' = IF u = s THEN x ELSE MsHolds(u)
  BY DEF MsOthersStay, MsLocalStays, MsHolds
<1> QED
  BY <1>1 DEF MsHoldsNow, Updates

\* Who has a node of its own, and who has linked it.
LEMMA WhatIsHeld ==
  ASSUME MsTypeOK, NEW s \in MsSessions
  PROVE  /\ queueId[s] \in QueueIds /\ msOwnedKey[s] \in MsNodes
         /\ msState[s] \in EnqueueStates \ {"enqSwing"} =>
              MsHolds(s) = msOwnedKey[s] /\ MsHolds(s) # NoNode /\ MsHolds(s) \in MsNodes
         /\ msState[s] \in DequeueStates \cup {"enqSwing"} <=>
              msState[s] \notin EnqueueStates \ {"enqSwing"}
         /\ msState[s] \in DequeueStates \cup {"enqSwing"} => MsHolds(s) = NoNode
         /\ On(ChainsNow[queueId[s]], MsHolds(s)) => ~ChainsPlaced
<1>1. queueId[s] \in QueueIds /\ msOwnedKey[s] \in MsNodes
      /\ msState[s] \in EnqueueStates \cup DequeueStates
  BY DEF MsTypeOK
<1>2. MsHoldsNow[s] = MsHolds(s)
  BY DEF MsHoldsNow
<1>3. ChainsPlaced => ~On(ChainsNow[queueId[s]], MsHolds(s))
  BY <1>1, <1>2, MsNumbers DEF ChainsPlaced, Placed
<1> QED
  BY <1>1, <1>3, MsNumbers DEF MsHolds, EnqueueStates, DequeueStates

\* The tail of a queue is on its chain, and points to none or to the last node.
LEMMA TailIsOn ==
  ASSUME QueuesInv, NEW q \in QueueIds
  PROVE  /\ TailNode(q) \in MsNodes /\ On(ChainsNow[q], TailNode(q))
         /\ NextNodes[TailNode(q)] = nodePtrs[TailNode(q)].nextKeyId
         /\ NextNodes[TailNode(q)] = NoNode => TailNode(q) = LastNode(q)
         /\ NextNodes[TailNode(q)] # NoNode => NextNodes[TailNode(q)] = LastNode(q)
<1>1. ChainsPlaced /\ TailNear(q) /\ MsTypeOK
  BY DEF QueuesInv
<1>2. PICK c \in Seq(MsNodes) : c = ChainsNow[q]
  BY <1>1, ChainIsOn
<1>3. On(c, TailNode(q))
  BY <1>1, <1>2 DEF TailNear
<1>4. TailNode(q) \in MsNodes
  BY <1>3 DEF On
<1>5. NextNodes[TailNode(q)] = nodePtrs[TailNode(q)].nextKeyId
  BY <1>4 DEF NextNodes
<1>6. LastNode(q) \in MsNodes /\ LastNode(q) # NoNode /\ NextNodes[LastNode(q)] = NoNode
  BY <1>1, MsNumbers, ChainIsOn
<1> QED
  BY <1>1, <1>2, <1>3, <1>4, <1>5, <1>6 DEF TailNear

\* A session that dequeues finds a node behind the dummy, and the tail past
\* the dummy: it has linked a node of its own that it has not taken again, as
\* has any other session that keeps the tail from being at the last node.
LEMMA DequeuersAhead ==
  ASSUME QueuesInv, NEW s \in MsSessions, msState[s] \in DequeueStates,
         NEW q \in QueueIds, q = queueId[s]
  PROVE  NextNodes[HeadNodes[q]] # NoNode /\ TailNode(q) # HeadNodes[q]
<1>1. ChainsPlaced /\ TailNear(q) /\ MsTypeOK /\ ChainsCount
  BY DEF QueuesInv
<1>2. PICK c \in Seq(MsNodes) : c = ChainsNow[q]
  BY <1>1, ChainIsOn
<1>3. PICK m \in Nat : m = Len(c)
  OBVIOUS
<1>4. s \in LinkersOf(q) /\ IsFiniteSet(LinkersOf(q))
  BY QueueAssumption, FS_Subset DEF LinkersOf
<1>5. PICK k \in Nat : k = Cardinality(LinkersOf(q) \ {s}) /\ m = k + 2
  <2>1. IsFiniteSet(LinkersOf(q) \ {s})
    BY <1>4, FS_Subset
  <2>2. Cardinality(LinkersOf(q) \ {s}) = Cardinality(LinkersOf(q)) - 1
    BY <1>4, FS_RemoveElement
  <2>3. Cardinality(LinkersOf(q)) \in Nat /\ Cardinality(LinkersOf(q) \ {s}) \in Nat
    BY <1>4, <2>1, FS_CardinalityType
  <2>4. m = Cardinality(LinkersOf(q)) + 1
    BY <1>1, <1>2, <1>3 DEF ChainsCount
  <2> QED
    BY <2>2, <2>3, <2>4
<1>6. 1 \in 1..m /\ 2 \in 1..m /\ m \in 1..m /\ 1 # m /\ 1 + 1 = 2
  BY <1>5
<1>7. /\ IsChain(c, HeadNodes[q], NextNodes, NoNode) /\ IsSimple(c)
      /\ HeadNodes[q] = c[1] /\ LastNode(q) = c[m]
  BY <1>1, <1>2, <1>3, ChainIsOn DEF LastNode
<1>8. NextNodes[c[1]] = c[2] /\ c[2] \in MsNodes
  BY <1>3, <1>6, <1>7 DEF IsChain, NodeAt
<1>9. ASSUME TailNode(q) = HeadNodes[q] PROVE FALSE
  <2>1. NextNodes[TailNode(q)] = c[2] /\ c[2] # NoNode
    BY <1>7, <1>8, <1>9, MsNumbers
  <2>2. c[2] = c[m]
    BY <1>7, <2>1, TailIsOn
  <2>3. m = 2
    BY <1>3, <1>6, <1>7, <2>2 DEF IsSimple
  <2>4. LinkersOf(q) \ {s} = {}
    <3>1. k = 0 /\ IsFiniteSet(LinkersOf(q) \ {s})
      BY <1>4, <1>5, <2>3, FS_Subset
    <3> QED
      BY <1>5, <3>1, FS_EmptySet
  <2>5. TailNode(q) # LastNode(q)
    BY <1>3, <1>6, <1>7, <1>9 DEF IsSimple
  <2>6. PICK u \in MsSessions : msState[u] = "enqSwing" /\ queueId[u] = q
    BY <1>1, <2>5 DEF TailNear
  <2>7. u \in LinkersOf(q) \ {s}
    BY <2>6 DEF LinkersOf, DequeueStates
  <2> QED
    BY <2>4, <2>7
<1> QED
  BY <1>7, <1>8, <1>9, MsNumbers

\* What the changes of the store do to the chains.
LEMMA LinkPlaces ==
  ASSUME QueuesInv, NEW s \in MsSessions, MsOthersStay(s), LinkDone(s),
         NEW q \in QueueIds, q = queueId[s]
  PROVE  /\ tail[s] = tails[q] /\ TailNode(q) = LastNode(q)
         /\ nodePtr[s].nextKeyId = NoNode
         /\ MsHolds(s) = msOwnedKey[s]
         /\ LinksLast(s, q)
<1>1. MsTypeOK /\ ChainsPlaced /\ TailKnown(s) /\ OwnKnown(s)
  BY DEF QueuesInv, MsKnows
<1>2. /\ msState[s] = "enqLink" /\ msState'[s] = "enqSwing"
      /\ nodePtrs[tail[s].nextKeyId] = nodePtr[s]
      /\ Updates(nodePtrs, tail[s].nextKeyId, Ptr(msOwnedKey[s], nodePtr[s].counter + 1),
                 nodePtrs')
      /\ UNCHANGED heads
  BY DEF LinkDone
<1>3. tail[s] = tails[q] /\ nodePtrs[TailNode(q)].nextKeyId = NoNode
      /\ nodePtr[s].nextKeyId = NoNode
  BY <1>1, <1>2 DEF TailKnown, TailNode
<1>4. TailNode(q) = LastNode(q) /\ TailNode(q) \in MsNodes
  BY <1>3, TailIsOn
<1>5. MsHolds(s) = msOwnedKey[s] /\ MsHolds(s) # NoNode /\ msOwnedKey[s] \in MsNodes
  BY <1>1, <1>2, WhatIsHeld DEF EnqueueStates
<1>6. NextNodes[MsHolds(s)] = NoNode
  BY <1>1, <1>2, <1>5 DEF OwnKnown, NextNodes, EnqueueStates
<1>7. Updates(NextNodes, LastNode(q), MsHolds(s), NextNodes')
  <2>1. PICK n \in MsNodes : n = LastNode(q)
    BY <1>4
  <2>2. PICK c : c = nodePtr[s].counter + 1
    OBVIOUS
  <2>3. Updates(nodePtrs, n, Ptr(msOwnedKey[s], c), nodePtrs')
    BY <1>2, <1>3, <1>4, <2>1, <2>2 DEF TailNode
  <2>4. Updates(NextNodes, n, msOwnedKey[s], NextNodes')
    BY <1>1, <2>3, PointsThere
  <2> QED
    BY <1>5, <2>1, <2>4
<1>8. Updates(MsHoldsNow, s, NoNode, MsHoldsNow')
  <2>1. MsHolds(s)' = NoNode
    BY <1>2 DEF MsHolds, EnqueueStates
  <2> QED
    BY <2>1, OthersHold
<1>9. HeadNodes' = HeadNodes
  BY <1>2 DEF HeadNodes
<1> QED
  BY <1>3, <1>4, <1>5, <1>6, <1>7, <1>8, <1>9 DEF LinksLast

\* The session that swings the tail swings it to the last node.
LEMMA SwingPlaces ==
  ASSUME QueuesInv, NEW s \in MsSessions, MsOthersStay(s), SwingDone(s),
         NEW q \in QueueIds, q = queueId[s]
  PROVE  /\ NewTail(s) = LastNode(q) /\ NextNodes[TailNode(q)] = LastNode(q)
         /\ NodesStay
<1>1. MsTypeOK /\ ChainsPlaced /\ TailKnown(s)
  BY DEF QueuesInv, MsKnows
<1>2. /\ \/ msState[s] = "enqSwing" /\ msState'[s] = "deqReadHead"
         \/ msState[s] = "enqAdvance" /\ msState'[s] = "enqReadTail"
      /\ tails[q] = tail[s]
      /\ UNCHANGED <<heads, nodePtrs>>
      /\ msOwnedKey'[s] = msOwnedKey[s]
  BY DEF SwingDone
<1>3. msOwnedKey[s] \in MsNodes /\ msOwnedKey[s] # NoNode
  BY <1>1, MsNumbers DEF MsTypeOK
<1>4. nodePtrs[TailNode(q)].nextKeyId = NewTail(s) /\ NewTail(s) # NoNode
  BY <1>1, <1>2, <1>3 DEF TailKnown, NewTail, TailNode
<1>5. NextNodes[TailNode(q)] = NewTail(s) /\ NextNodes[TailNode(q)] = LastNode(q)
  BY <1>4, TailIsOn
<1>6. MsHolds(s)' = MsHolds(s)
  BY <1>2 DEF MsHolds, EnqueueStates
<1>7. MsHoldsNow' = MsHoldsNow
  <2>1. Updates(MsHoldsNow, s, MsHolds(s), MsHoldsNow')
    BY <1>6, OthersHold
  <2> QED
    BY <2>1 DEF Updates, MsHoldsNow
<1> QED
  BY <1>2, <1>5, <1>7 DEF NodesStay, NextNodes, HeadNodes

\* The swap of the head takes the dummy that was read, and another node than
\* the tail's.
LEMMA DequeuePlaces ==
  ASSUME QueuesInv, NEW s \in MsSessions, MsOthersStay(s), DequeueDone(s),
         NEW q \in QueueIds, q = queueId[s]
  PROVE  /\ head[s].nextKeyId = HeadNodes[q] /\ nodePtr[s] = nodePtrs[HeadNodes[q]]
         /\ TailNode(q) # HeadNodes[q]
         /\ TakesDummy(s, q)
<1>1. MsTypeOK /\ ChainsPlaced /\ HeadKnown(s)
  BY DEF QueuesInv, MsKnows
<1>2. /\ msState[s] = "deqCas" /\ msState'[s] = "enqInit"
      /\ heads[q] = head[s]
      /\ Updates(heads, q, Ptr(nodePtr[s].nextKeyId, head[s].counter + 1), heads')
      /\ UNCHANGED nodePtrs
      /\ msOwnedKey'[s] = head[s].nextKeyId
  BY DEF DequeueDone
<1>3. msState[s] \in DequeueStates
  BY <1>2 DEF DequeueStates
<1>4. NextNodes[HeadNodes[q]] # NoNode /\ TailNode(q) # HeadNodes[q]
  BY <1>3, DequeuersAhead
<1>5. head[s].nextKeyId = HeadNodes[q] /\ HeadNodes[q] \in MsNodes
  BY <1>1, <1>2, ChainIsOn DEF HeadNodes
<1>6. nodePtr[s] = nodePtrs[HeadNodes[q]] /\ nodePtr[s].nextKeyId = NextNodes[HeadNodes[q]]
  BY <1>1, <1>2, <1>5 DEF HeadKnown, NextNodes
<1>7. Updates(HeadNodes, q, NextNodes[HeadNodes[q]], HeadNodes')
  <2>1. PICK c : c = head[s].counter + 1
    OBVIOUS
  <2>2. Updates(heads, q, Ptr(NextNodes[HeadNodes[q]], c), heads')
    BY <1>2, <1>6, <2>1
  <2> QED
    BY <1>1, <2>2, HeadsThere
<1>8. Updates(MsHoldsNow, s, HeadNodes[q], MsHoldsNow')
  <2>1. MsHolds(s)' = HeadNodes[q]
    BY <1>2, <1>5 DEF MsHolds, EnqueueStates
  <2> QED
    BY <2>1, OthersHold
<1>9. MsHolds(s) = NoNode
  BY <1>2 DEF MsHolds, EnqueueStates
<1>10. NextNodes' = NextNodes
  BY <1>2 DEF NextNodes
<1> QED
  BY <1>4, <1>5, <1>6, <1>7, <1>8, <1>9, <1>10 DEF TakesDummy

\* The node that a session clears is its own.
LEMMA InitPlaces ==
  ASSUME QueuesInv, NEW s \in MsSessions, MsOthersStay(s), InitDone(s)
  PROVE  /\ MsHolds(s) = msOwnedKey[s] /\ nodePtr[s].counter = nodePtrs[msOwnedKey[s]].counter
         /\ ClearsOwn(s)
<1>1. MsTypeOK /\ OwnKnown(s)
  BY DEF QueuesInv, MsKnows
<1>2. /\ msState[s] = "enqInit" /\ msState'[s] = "enqReadTail"
      /\ Updates(nodePtrs, msOwnedKey[s], Ptr(NoNode, nodePtr[s].counter), nodePtrs')
      /\ UNCHANGED heads
      /\ msOwnedKey'[s] = msOwnedKey[s]
  BY DEF InitDone
<1>3. MsHolds(s) = msOwnedKey[s] /\ MsHolds(s)' = msOwnedKey[s] /\ msOwnedKey[s] \in MsNodes
  BY <1>1, <1>2 DEF MsHolds, EnqueueStates, MsTypeOK
<1>4. Updates(NextNodes, MsHolds(s), NoNode, NextNodes')
  <2>1. PICK n \in MsNodes : n = msOwnedKey[s]
    BY <1>3
  <2>2. PICK c : c = nodePtr[s].counter
    OBVIOUS
  <2>3. Updates(nodePtrs, n, Ptr(NoNode, c), nodePtrs')
    BY <1>2, <2>1, <2>2
  <2>4. Updates(NextNodes, n, NoNode, NextNodes')
    BY <1>1, <2>3, PointsThere
  <2> QED
    BY <1>3, <2>1, <2>4
<1>5. MsHoldsNow' = MsHoldsNow
  <2>1. Updates(MsHoldsNow, s, MsHolds(s), MsHoldsNow')
    BY <1>3, OthersHold
  <2> QED
    BY <2>1 DEF Updates, MsHoldsNow
<1> QED
  BY <1>1, <1>2, <1>3, <1>4, <1>5 DEF ClearsOwn, OwnKnown, HeadNodes

\* What leaves the store alone moves no node.
LEMMA ReadPlaces ==
  ASSUME QueuesInv, NEW s \in MsSessions, MsOthersStay(s), StoreLeft(s), MsTypeOK'
  PROVE  NodesStay
<1>1. MsTypeOK /\ UNCHANGED <<heads, nodePtrs>> /\ msOwnedKey'[s] = msOwnedKey[s]
      /\ (msState[s] \in DequeueStates \cup {"enqSwing"} <=>
            msState'[s] \in DequeueStates \cup {"enqSwing"})
  BY DEF QueuesInv, StoreLeft
<1>2. msState[s] \in EnqueueStates \cup DequeueStates
      /\ msState'[s] \in EnqueueStates \cup DequeueStates
  BY <1>1 DEF MsTypeOK
<1>3. MsHolds(s)' = MsHolds(s)
  BY <1>1, <1>2 DEF MsHolds, EnqueueStates, DequeueStates
<1>4. MsHoldsNow' = MsHoldsNow
  <2>1. Updates(MsHoldsNow, s, MsHolds(s), MsHoldsNow')
    BY <1>3, OthersHold
  <2> QED
    BY <2>1 DEF Updates, MsHoldsNow
<1> QED
  BY <1>1, <1>4 DEF NodesStay, NextNodes, HeadNodes

\* How a step changes the chains.
LEMMA ChainsStep ==
  ASSUME QueuesInv, NEW s \in MsSessions, MsStepOf(s), MsTypeOK',
         NEW q \in QueueIds, q = queueId[s]
  PROVE  /\ ChainsPlaced'
         /\ LinkDone(s) =>
              Updates(ChainsNow, q, Append(ChainsNow[q], MsHolds(s)), ChainsNow')
         /\ DequeueDone(s) => Updates(ChainsNow, q, Tail(ChainsNow[q]), ChainsNow')
         /\ SwingDone(s) \/ InitDone(s) \/ StoreLeft(s) => ChainsNow' = ChainsNow
<1>0. ChainsPlaced /\ MsOthersStay(s)
  BY DEF QueuesInv, MsStepOf
<1>1. CASE LinkDone(s)
  <2>1. LinksLast(s, q)
    BY <1>0, <1>1, LinkPlaces
  <2>2. ~DequeueDone(s) /\ ~SwingDone(s) /\ ~InitDone(s) /\ ~StoreLeft(s)
    BY <1>1 DEF LinkDone, DequeueDone, SwingDone, InitDone, StoreLeft, DequeueStates
  <2> QED
    BY <1>0, <2>1, <2>2, LastLinked
<1>2. CASE DequeueDone(s)
  <2>1. TakesDummy(s, q)
    BY <1>0, <1>2, DequeuePlaces
  <2>2. ~LinkDone(s) /\ ~SwingDone(s) /\ ~InitDone(s) /\ ~StoreLeft(s)
    BY <1>2 DEF LinkDone, DequeueDone, SwingDone, InitDone, StoreLeft, DequeueStates
  <2> QED
    BY <1>0, <2>1, <2>2, DummyTaken
<1>3. CASE SwingDone(s) \/ InitDone(s) \/ StoreLeft(s)
  <2>1. NodesStay \/ ClearsOwn(s)
    BY <1>0, <1>3, SwingPlaces, InitPlaces, ReadPlaces
  <2>2. ~LinkDone(s) /\ ~DequeueDone(s)
    BY <1>3 DEF LinkDone, DequeueDone, SwingDone, InitDone, StoreLeft, DequeueStates
  <2> QED
    BY <1>0, <2>1, <2>2, OwnCleared, ChainsLeft
<1> QED
  BY <1>1, <1>2, <1>3 DEF MsStepOf

\* Counters only grow, and a value changes with its counter; a node of a queue
\* is changed only when it is linked to, and a tail only when it is behind.
MsGrows(s) ==
  /\ \A q \in QueueIds :
       /\ heads[q].counter <= heads'[q].counter
       /\ heads'[q] # heads[q] => heads[q].counter < heads'[q].counter
       /\ tails[q].counter <= tails'[q].counter
       /\ tails'[q] # tails[q] =>
            tails[q].counter < tails'[q].counter /\ nodePtrs[TailNode(q)].nextKeyId # NoNode
  /\ \A n \in MsNodes : nodePtrs[n].counter <= nodePtrs'[n].counter
  /\ \A q \in QueueIds, n \in MsNodes :
       On(ChainsNow[q], n) /\ nodePtrs'[n] # nodePtrs[n] =>
         nodePtrs[n].nextKeyId = NoNode /\ nodePtrs[n].counter < nodePtrs'[n].counter
  /\ \A u \in MsSessions \ {s} :
       MsHolds(u) # NoNode => nodePtrs'[MsHolds(u)] = nodePtrs[MsHolds(u)]

\* The counters of pointers.
LEMMA PtrTypes ==
  ASSUME MsTypeOK
  PROVE  /\ \A q \in QueueIds : heads[q].counter \in Nat /\ tails[q].counter \in Nat
         /\ \A n \in MsNodes : nodePtrs[n].counter \in Nat
         /\ \A s \in MsSessions :
              head[s].counter \in Nat /\ tail[s].counter \in Nat /\ nodePtr[s].counter \in Nat
BY DEF MsTypeOK, MsPtrs

\* Counters of pointers never go back, and a pointer that has changed has a
\* greater one.
LEMMA StepGrowsMs ==
  ASSUME QueuesInv, NEW s \in MsSessions, MsStepOf(s), MsTypeOK'
  PROVE  MsGrows(s)
<1>1. MsTypeOK /\ ChainsPlaced /\ MsOthersStay(s) /\ queueId[s] \in QueueIds
  BY DEF QueuesInv, MsStepOf, MsTypeOK
<1>2. PICK q \in QueueIds : q = queueId[s]
  BY <1>1
<1>3. /\ \A k \in QueueIds : heads[k].counter \in Nat /\ tails[k].counter \in Nat
      /\ \A n \in MsNodes : nodePtrs[n].counter \in Nat
  BY <1>1, PtrTypes
<1>4. CASE LinkDone(s)
  <2>1. /\ tail[s] = tails[q] /\ TailNode(q) = LastNode(q) /\ nodePtr[s].nextKeyId = NoNode
        /\ TailNode(q) \in MsNodes /\ On(ChainsNow[q], TailNode(q))
    BY <1>1, <1>2, <1>4, LinkPlaces, TailIsOn
  <2>2. PICK n \in MsNodes : n = TailNode(q)
    BY <2>1
  <2>3. PICK new : new = Ptr(msOwnedKey[s], nodePtr[s].counter + 1)
    OBVIOUS
  <2>4. nodePtrs[n] = nodePtr[s] /\ Updates(nodePtrs, n, new, nodePtrs')
        /\ UNCHANGED <<heads, tails>>
    BY <1>4, <2>1, <2>2, <2>3 DEF LinkDone, TailNode
  <2>5. \A k \in MsNodes : nodePtrs'[k] = IF k = n THEN new ELSE nodePtrs[k]
    BY <1>1, <2>4 DEF MsTypeOK, Updates
  <2>6. new.counter = nodePtrs[n].counter + 1 /\ nodePtrs[n].nextKeyId = NoNode
    BY <2>1, <2>3, <2>4, PtrParts
  <2>7. ASSUME NEW u \in MsSessions \ {s}, MsHolds(u) # NoNode
        PROVE  nodePtrs'[MsHolds(u)] = nodePtrs[MsHolds(u)]
    <3>1. MsHolds(u) \in MsNodes
      BY <1>1, <2>7 DEF MsHolds, MsTypeOK
    <3>2. MsHolds(u) # n
      BY <1>1, <1>2, <2>1, <2>2, MsNumbers DEF ChainsPlaced, Placed, MsHoldsNow
    <3> QED
      BY <2>5, <3>1, <3>2
  <2>8. \A k \in MsNodes : nodePtrs'[k] # nodePtrs[k] =>
          nodePtrs[k].nextKeyId = NoNode /\ nodePtrs[k].counter < nodePtrs'[k].counter
    BY <1>3, <2>5, <2>6
  <2>9. \A k \in MsNodes : nodePtrs[k].counter <= nodePtrs'[k].counter
    BY <1>3, <2>5, <2>6
  <2> QED
    BY <1>3, <2>4, <2>7, <2>8, <2>9 DEF MsGrows
<1>5. CASE SwingDone(s)
  <2>1. NextNodes[TailNode(q)] # NoNode
    <3>1. LastNode(q) \in MsNodes
      BY <1>1, ChainIsOn
    <3> QED
      BY <1>1, <1>2, <1>5, <3>1, MsNumbers, SwingPlaces
  <2>2. nodePtrs[TailNode(q)].nextKeyId # NoNode
    BY <2>1, TailIsOn
  <2>3. PICK new : new = Ptr(NewTail(s), tail[s].counter + 1)
    OBVIOUS
  <2>4. tails[q] = tail[s] /\ Updates(tails, q, new, tails') /\ UNCHANGED <<heads, nodePtrs>>
    BY <1>2, <1>5, <2>3 DEF SwingDone
  <2>5. \A k \in QueueIds : tails'[k] = IF k = q THEN new ELSE tails[k]
    BY <1>1, <2>4 DEF MsTypeOK, Updates
  <2>6. new.counter = tails[q].counter + 1
    BY <2>3, <2>4, PtrParts
  <2> QED
    BY <1>3, <2>2, <2>4, <2>5, <2>6 DEF MsGrows
<1>6. CASE DequeueDone(s)
  <2>1. PICK new : new = Ptr(nodePtr[s].nextKeyId, head[s].counter + 1)
    OBVIOUS
  <2>2. heads[q] = head[s] /\ Updates(heads, q, new, heads') /\ UNCHANGED <<tails, nodePtrs>>
    BY <1>2, <1>6, <2>1 DEF DequeueDone
  <2>3. \A k \in QueueIds : heads'[k] = IF k = q THEN new ELSE heads[k]
    BY <1>1, <2>2 DEF MsTypeOK, Updates
  <2>4. new.counter = heads[q].counter + 1
    BY <2>1, <2>2, PtrParts
  <2> QED
    BY <1>3, <2>2, <2>3, <2>4 DEF MsGrows
<1>7. CASE InitDone(s)
  <2>1. PICK n \in MsNodes : n = msOwnedKey[s] /\ n = MsHolds(s)
    BY <1>1, <1>7, InitPlaces DEF MsTypeOK
  <2>2. PICK new : new = Ptr(NoNode, nodePtr[s].counter)
    OBVIOUS
  <2>3. Updates(nodePtrs, n, new, nodePtrs') /\ UNCHANGED <<heads, tails>>
        /\ nodePtr[s].counter = nodePtrs[n].counter
    BY <1>1, <1>7, <2>1, <2>2, InitPlaces DEF InitDone
  <2>4. \A k \in MsNodes : nodePtrs'[k] = IF k = n THEN new ELSE nodePtrs[k]
    BY <1>1, <2>3 DEF MsTypeOK, Updates
  <2>5. new.counter = nodePtrs[n].counter
    BY <2>2, <2>3, PtrParts
  <2>6. \A k \in QueueIds : ~On(ChainsNow[k], n)
    BY <1>1, <2>1, MsNumbers DEF ChainsPlaced, Placed, MsHoldsNow
  <2>7. ASSUME NEW u \in MsSessions \ {s}, MsHolds(u) # NoNode
        PROVE  nodePtrs'[MsHolds(u)] = nodePtrs[MsHolds(u)]
    <3>1. MsHolds(u) \in MsNodes
      BY <1>1, <2>7 DEF MsHolds, MsTypeOK
    <3>2. MsHolds(u) # n
      BY <1>1, <2>1, <2>7, MsNumbers DEF ChainsPlaced, Placed, MsHoldsNow
    <3> QED
      BY <2>4, <3>1, <3>2
  <2>8. \A k \in MsNodes : nodePtrs[k].counter <= nodePtrs'[k].counter
    BY <1>3, <2>4, <2>5
  <2> QED
    BY <1>3, <2>3, <2>4, <2>6, <2>7, <2>8 DEF MsGrows
<1>8. CASE StoreLeft(s)
  <2>1. UNCHANGED <<heads, tails, nodePtrs>>
    BY <1>8 DEF StoreLeft
  <2> QED
    BY <1>3, <2>1 DEF MsGrows
<1> QED
  BY <1>4, <1>5, <1>6, <1>7, <1>8 DEF MsStepOf

\* What a session knows it knows after the steps of others.
LEMMA OthersKnowMs ==
  ASSUME QueuesInv, NEW s \in MsSessions, MsStepOf(s), MsTypeOK',
         NEW u \in MsSessions \ {s}
  PROVE  MsKnows(u)'
<1>1. /\ MsTypeOK /\ MsGrows(s) /\ MsLocalStays(u) /\ ChainsPlaced
      /\ OwnKnown(u) /\ TailKnown(u) /\ HeadKnown(u)
  BY StepGrowsMs DEF QueuesInv, MsStepOf, MsOthersStay, MsKnows
<1>2. PICK q \in QueueIds : q = queueId[u]
  BY <1>1 DEF MsTypeOK
<1>3. PICK own \in MsNodes : own = msOwnedKey[u]
  BY <1>1 DEF MsTypeOK
<1>4. /\ heads[q].counter \in Nat /\ heads'[q].counter \in Nat
      /\ tails[q].counter \in Nat /\ tails'[q].counter \in Nat
      /\ head[u].counter \in Nat /\ tail[u].counter \in Nat /\ nodePtr[u].counter \in Nat
      /\ \A n \in MsNodes : nodePtrs[n].counter \in Nat /\ nodePtrs'[n].counter \in Nat
  <2>1. MsTypeOK'
    OBVIOUS
  <2>2. heads'[q] \in MsPtrs /\ tails'[q] \in MsPtrs
        /\ \A n \in MsNodes : nodePtrs'[n] \in MsPtrs
    BY <2>1 DEF MsTypeOK
  <2> QED
    BY <1>1, <2>2, PtrTypes DEF MsPtrs
<1>5. /\ heads[q].counter <= heads'[q].counter
      /\ heads'[q] # heads[q] => heads[q].counter < heads'[q].counter
      /\ tails[q].counter <= tails'[q].counter
      /\ tails'[q] # tails[q] =>
           tails[q].counter < tails'[q].counter /\ nodePtrs[TailNode(q)].nextKeyId # NoNode
      /\ \A n \in MsNodes : nodePtrs[n].counter <= nodePtrs'[n].counter
      /\ \A n \in MsNodes : On(ChainsNow[q], n) /\ nodePtrs'[n] # nodePtrs[n] =>
           nodePtrs[n].nextKeyId = NoNode /\ nodePtrs[n].counter < nodePtrs'[n].counter
  BY <1>1 DEF MsGrows
<1>6. OwnKnown(u)'
  <2>1. ASSUME msState[u] \in EnqueueStates \ {"enqSwing"}
        PROVE  nodePtrs'[own] = nodePtrs[own]
    <3>1. MsHolds(u) = own /\ own # NoNode
      BY <1>3, <2>1, MsNumbers DEF MsHolds
    <3> QED
      BY <1>1, <3>1 DEF MsGrows
  <2> QED
    BY <1>1, <1>3, <2>1 DEF OwnKnown, MsLocalStays, EnqueueStates
<1>7. TailKnown(u)'
  <2>1. PICK n : n = tail[u].nextKeyId
    OBVIOUS
  <2>2. ASSUME msState[u] \in {"enqReadLast", "enqReadTailAgain", "enqLink", "enqAdvance",
                               "enqSwing"}
        PROVE  /\ n \in MsNodes
               /\ tail[u].counter <= tails'[q].counter
               /\ tail[u].counter = tails'[q].counter => tail[u] = tails'[q]
               /\ tail[u] = tails'[q] => tail[u] = tails[q]
               /\ tail[u] = tails[q] => n = TailNode(q) /\ On(ChainsNow[q], n)
    <3>1. /\ n \in MsNodes /\ tail[u].counter <= tails[q].counter
          /\ tail[u].counter = tails[q].counter => tail[u] = tails[q]
      BY <1>1, <1>2, <2>1, <2>2 DEF TailKnown
    <3>2. tail[u] = tails[q] => n = TailNode(q) /\ On(ChainsNow[q], n)
      BY <1>1, <2>1, TailIsOn DEF TailNode
    <3> QED
      BY <1>4, <1>5, <3>1, <3>2
  <2>3. ASSUME msState[u] = "enqReadTailAgain", tail[u] = tails'[q]
        PROVE  \/ nodePtr[u] = nodePtrs'[n]
               \/ nodePtr[u].nextKeyId = NoNode /\ nodePtr[u].counter < nodePtrs'[n].counter
    <3>1. n \in MsNodes /\ tail[u] = tails[q] /\ On(ChainsNow[q], n)
      BY <2>2, <2>3
    <3>2. \/ nodePtr[u] = nodePtrs[n]
          \/ nodePtr[u].nextKeyId = NoNode /\ nodePtr[u].counter < nodePtrs[n].counter
      BY <1>1, <1>2, <2>1, <2>3, <3>1 DEF TailKnown
    <3> QED
      BY <1>4, <1>5, <3>1, <3>2
  <2>4. ASSUME msState[u] = "enqLink"
        PROVE  /\ nodePtr[u].nextKeyId = NoNode
               /\ nodePtr[u].counter <= nodePtrs'[n].counter
               /\ nodePtr[u].counter = nodePtrs'[n].counter =>
                    tail[u] = tails'[q] /\ nodePtrs'[n].nextKeyId = NoNode
    <3>1. /\ nodePtr[u].nextKeyId = NoNode
          /\ nodePtr[u].counter <= nodePtrs[n].counter
          /\ nodePtr[u].counter = nodePtrs[n].counter =>
               tail[u] = tails[q] /\ nodePtrs[n].nextKeyId = NoNode
      BY <1>1, <1>2, <2>1, <2>4 DEF TailKnown
    <3>2. n \in MsNodes /\ (tail[u] = tails[q] => n = TailNode(q) /\ On(ChainsNow[q], n))
      BY <2>2, <2>4
    <3>3. nodePtrs[n].counter <= nodePtrs'[n].counter
      BY <1>5, <3>2
    <3>4. nodePtr[u].counter <= nodePtrs'[n].counter
      BY <1>4, <3>1, <3>2, <3>3
    <3>5. ASSUME nodePtr[u].counter = nodePtrs'[n].counter
          PROVE  tail[u] = tails'[q] /\ nodePtrs'[n].nextKeyId = NoNode
      <4>1. nodePtr[u].counter = nodePtrs[n].counter
            /\ nodePtrs'[n].counter = nodePtrs[n].counter
        BY <1>4, <3>1, <3>2, <3>3, <3>5
      <4>2. tail[u] = tails[q] /\ nodePtrs[n].nextKeyId = NoNode /\ n = TailNode(q)
            /\ On(ChainsNow[q], n)
        BY <3>1, <3>2, <4>1
      <4>3. nodePtrs'[n] = nodePtrs[n]
        BY <1>4, <1>5, <3>2, <4>1, <4>2
      <4>4. tails'[q] = tails[q]
        BY <1>5, <4>2
      <4> QED
        BY <4>2, <4>3, <4>4
    <3> QED
      BY <3>1, <3>4, <3>5
  <2>5. ASSUME msState[u] = "enqAdvance"
        PROVE  /\ nodePtr[u].nextKeyId # NoNode
               /\ tail[u] = tails'[q] => nodePtrs'[n].nextKeyId = nodePtr[u].nextKeyId
    <3>1. /\ nodePtr[u].nextKeyId # NoNode
          /\ tail[u] = tails[q] => nodePtrs[n].nextKeyId = nodePtr[u].nextKeyId
      BY <1>1, <1>2, <2>1, <2>5 DEF TailKnown
    <3>2. tail[u] = tails'[q] => n \in MsNodes /\ tail[u] = tails[q] /\ On(ChainsNow[q], n)
      BY <2>2, <2>5
    <3> QED
      BY <1>5, <3>1, <3>2
  <2>6. ASSUME msState[u] = "enqSwing", tail[u] = tails'[q]
        PROVE  nodePtrs'[n].nextKeyId = own
    <3>1. n \in MsNodes /\ tail[u] = tails[q] /\ On(ChainsNow[q], n)
      BY <2>2, <2>6
    <3>2. nodePtrs[n].nextKeyId = own /\ own # NoNode
      BY <1>1, <1>2, <1>3, <2>1, <2>6, <3>1, MsNumbers DEF TailKnown
    <3> QED
      BY <1>5, <3>1, <3>2
  <2>7. /\ msState'[u] = msState[u] /\ tail'[u] = tail[u] /\ nodePtr'[u] = nodePtr[u]
        /\ msOwnedKey'[u] = own /\ queueId'[u] = q /\ tail'[u].nextKeyId = n
    BY <1>1, <1>2, <1>3, <2>1 DEF MsLocalStays
  <2> QED
    BY <2>2, <2>3, <2>4, <2>5, <2>6, <2>7 DEF TailKnown
<1>8. HeadKnown(u)'
  <2>1. PICK n : n = head[u].nextKeyId
    OBVIOUS
  <2>2. ASSUME msState[u] \in {"deqReadTail", "deqReadFirst", "deqReadHeadAgain", "deqCas"}
        PROVE  /\ n \in MsNodes
               /\ head[u].counter <= heads'[q].counter
               /\ head[u].counter = heads'[q].counter => head[u] = heads'[q]
               /\ head[u] = heads'[q] => head[u] = heads[q] /\ On(ChainsNow[q], n)
    <3>1. /\ n \in MsNodes /\ head[u].counter <= heads[q].counter
          /\ head[u].counter = heads[q].counter => head[u] = heads[q]
      BY <1>1, <1>2, <2>1, <2>2 DEF HeadKnown
    <3>2. head[u] = heads[q] => On(ChainsNow[q], n)
      BY <1>1, <2>1, ChainIsOn DEF HeadNodes
    <3> QED
      BY <1>4, <1>5, <3>1, <3>2
  <2>3. ASSUME msState[u] \in {"deqReadFirst", "deqReadHeadAgain"}, head[u] = heads'[q]
        PROVE  tail[u].nextKeyId # n
    BY <1>1, <1>2, <2>1, <2>2, <2>3 DEF HeadKnown
  <2>4. ASSUME msState[u] = "deqReadHeadAgain", head[u] = heads'[q]
        PROVE  nodePtr[u].nextKeyId # NoNode
    BY <1>1, <1>2, <2>1, <2>2, <2>4 DEF HeadKnown
  <2>5. msState[u] = "deqCas" => nodePtr[u].nextKeyId # NoNode
    BY <1>1 DEF HeadKnown
  <2>6. ASSUME msState[u] \in {"deqReadHeadAgain", "deqCas"}, head[u] = heads'[q]
        PROVE  nodePtr[u] = nodePtrs'[n]
    <3>1. n \in MsNodes /\ head[u] = heads[q] /\ On(ChainsNow[q], n)
      BY <2>2, <2>6
    <3>2. nodePtr[u] = nodePtrs[n] /\ nodePtr[u].nextKeyId # NoNode
      BY <1>1, <1>2, <2>1, <2>6, <3>1 DEF HeadKnown
    <3> QED
      BY <1>5, <3>1, <3>2
  <2>7. msState[u] # "deqAdvance"
    BY <1>1 DEF HeadKnown
  <2>8. /\ msState'[u] = msState[u] /\ tail'[u] = tail[u] /\ nodePtr'[u] = nodePtr[u]
        /\ head'[u] = head[u] /\ queueId'[u] = q /\ head'[u].nextKeyId = n
    BY <1>1, <1>2, <2>1 DEF MsLocalStays
  <2> QED
    BY <2>2, <2>3, <2>4, <2>5, <2>6, <2>7, <2>8 DEF HeadKnown
<1> QED
  BY <1>6, <1>7, <1>8 DEF MsKnows

\* The count of the nodes of a queue and of those who have linked one.
LEMMA StepCountsMs ==
  ASSUME QueuesInv, NEW s \in MsSessions, MsStepOf(s), MsTypeOK'
  PROVE  ChainsCount'
<1> SUFFICES ASSUME NEW k \in QueueIds
             PROVE  Len(ChainsNow'[k]) = Cardinality(LinkersOf(k)') + 1
  BY DEF ChainsCount
<1>0. ChainsPlaced /\ MsTypeOK /\ MsOthersStay(s)
  BY DEF QueuesInv, MsStepOf
<1>1. PICK q \in QueueIds : q = queueId[s]
  BY <1>0 DEF MsTypeOK
<1>2. PICK c \in Seq(MsNodes) : c = ChainsNow[k]
  BY <1>0, ChainIsOn
<1>3. /\ Len(c) = Cardinality(LinkersOf(k)) + 1
      /\ IsFiniteSet(LinkersOf(k)) /\ Cardinality(LinkersOf(k)) \in Nat
  <2>1. IsFiniteSet(LinkersOf(k))
    BY QueueAssumption, FS_Subset DEF LinkersOf
  <2> QED
    BY <1>2, <2>1, FS_CardinalityType DEF QueuesInv, ChainsCount
<1>4. DOMAIN ChainsNow = QueueIds
  BY DEF ChainsNow
<1>5. \A u \in MsSessions \ {s} : u \in LinkersOf(k)' <=> u \in LinkersOf(k)
  BY <1>0 DEF MsOthersStay, MsLocalStays, LinkersOf
<1>6. LinkersOf(k) \subseteq MsSessions /\ LinkersOf(k)' \subseteq MsSessions
  BY DEF LinkersOf
<1>7. (s \in LinkersOf(k)' <=> s \in LinkersOf(k)) => LinkersOf(k)' = LinkersOf(k)
  <2>1. PICK A : A = LinkersOf(k)
    OBVIOUS
  <2>2. PICK B : B = LinkersOf(k)'
    OBVIOUS
  <2>3. A \subseteq MsSessions /\ B \subseteq MsSessions
        /\ \A u \in MsSessions \ {s} : u \in B <=> u \in A
    BY <1>5, <1>6, <2>1, <2>2
  <2>4. ASSUME s \in B <=> s \in A PROVE A = B
    <3>1. ASSUME NEW x PROVE x \in A <=> x \in B
      BY <2>3, <2>4
    <3> QED
      BY <3>1, Zenon
  <2> QED
    BY <2>1, <2>2, <2>4
<1>8. CASE LinkDone(s)
  <2>1. PICK n \in MsNodes : n = MsHolds(s)
    BY <1>0, <1>8, WhatIsHeld DEF LinkDone, EnqueueStates
  <2>2. Updates(ChainsNow, q, Append(ChainsNow[q], n), ChainsNow')
    BY <1>1, <1>8, <2>1, ChainsStep
  <2>3. s \notin LinkersOf(k) /\ (s \in LinkersOf(k)' <=> k = q)
    BY <1>1, <1>8 DEF LinkDone, LinkersOf, DequeueStates
  <2>4. CASE k = q
    <3>1. LinkersOf(k)' = LinkersOf(k) \cup {s}
      BY <1>5, <1>6, <2>3, <2>4
    <3>2. Cardinality(LinkersOf(k)') = Cardinality(LinkersOf(k)) + 1
      BY <1>3, <2>3, <3>1, FS_AddElement
    <3>3. ChainsNow'[k] = Append(c, n)
      BY <1>2, <1>4, <2>2, <2>4 DEF Updates
    <3>4. Len(ChainsNow'[k]) = Len(c) + 1
      BY <3>3, Appended
    <3> QED
      BY <1>3, <3>2, <3>4
  <2>5. CASE k # q
    <3>1. ChainsNow'[k] = c
      BY <1>2, <1>4, <2>2, <2>5 DEF Updates
    <3>2. LinkersOf(k)' = LinkersOf(k)
      BY <1>7, <2>3, <2>5
    <3> QED
      BY <1>3, <3>1, <3>2
  <2> QED
    BY <2>4, <2>5
<1>9. CASE DequeueDone(s)
  <2>2. Updates(ChainsNow, q, Tail(ChainsNow[q]), ChainsNow')
    BY <1>1, <1>9, ChainsStep
  <2>3. s \notin LinkersOf(k)' /\ (s \in LinkersOf(k) <=> k = q)
    BY <1>1, <1>9 DEF DequeueDone, LinkersOf, DequeueStates
  <2>4. CASE k = q
    <3>1. LinkersOf(k)' = LinkersOf(k) \ {s}
      BY <1>5, <1>6, <2>3, <2>4
    <3>2. Cardinality(LinkersOf(k)') = Cardinality(LinkersOf(k)) - 1
      <4>1. PICK l : l = LinkersOf(k)
        OBVIOUS
      <4>2. IsFiniteSet(l) /\ s \in l
        BY <1>3, <2>3, <2>4, <4>1
      <4>3. Cardinality(l \ {s}) = Cardinality(l) - 1
        BY <4>2, FS_RemoveElement
      <4> QED
        BY <3>1, <4>1, <4>3
    <3>3. ChainsNow'[k] = Tail(c)
      BY <1>2, <1>4, <2>2, <2>4 DEF Updates
    <3>4. c # <<>>
      BY <1>0, <1>2, ChainIsOn
    <3>5. Len(ChainsNow'[k]) = Len(c) - 1
      BY <3>3, <3>4
    <3> QED
      BY <1>3, <3>2, <3>5
  <2>5. CASE k # q
    <3>1. ChainsNow'[k] = c
      BY <1>2, <1>4, <2>2, <2>5 DEF Updates
    <3>2. LinkersOf(k)' = LinkersOf(k)
      BY <1>7, <2>3, <2>5
    <3> QED
      BY <1>3, <3>1, <3>2
  <2> QED
    BY <2>4, <2>5
<1>10. CASE SwingDone(s) \/ InitDone(s) \/ StoreLeft(s)
  <2>1. ChainsNow' = ChainsNow
    BY <1>1, <1>10, ChainsStep
  <2>2. s \in LinkersOf(k)' <=> s \in LinkersOf(k)
    BY <1>10 DEF SwingDone, InitDone, StoreLeft, LinkersOf, DequeueStates
  <2> QED
    BY <1>2, <1>3, <1>7, <2>1, <2>2
<1> QED
  BY <1>8, <1>9, <1>10 DEF MsStepOf

\* The tail stays near the last node.
LEMMA StepNearMs ==
  ASSUME QueuesInv, NEW s \in MsSessions, MsStepOf(s), MsTypeOK', NEW k \in QueueIds
  PROVE  TailNear(k)'
<1>0. ChainsPlaced /\ MsTypeOK /\ MsOthersStay(s) /\ TailNear(k)
  BY DEF QueuesInv, MsStepOf
<1>1. PICK q \in QueueIds : q = queueId[s]
  BY <1>0 DEF MsTypeOK
<1>2. PICK c \in Seq(MsNodes) : c = ChainsNow[k] /\ c # <<>>
  BY <1>0, ChainIsOn
<1>3. PICK m \in Nat : m = Len(c) /\ m # 0
  BY <1>2
<1>4. LastNode(k) = c[m] /\ DOMAIN ChainsNow = QueueIds
  BY <1>2, <1>3 DEF LastNode, ChainsNow
<1>5. PICK t \in MsNodes : t = TailNode(k)
  BY TailIsOn
<1>6. /\ On(c, t)
      /\ \/ t = c[m]
         \/ /\ nodePtrs[t].nextKeyId = c[m]
            /\ \E u \in MsSessions :
                 msState[u] = "enqSwing" /\ queueId[u] = k /\ tail[u] = tails[k]
  BY <1>0, <1>2, <1>4, <1>5 DEF TailNear
<1>7. ASSUME DequeueDone(s) \/ InitDone(s) \/ StoreLeft(s),
             NEW u \in MsSessions, msState[u] = "enqSwing", queueId[u] = k, tail[u] = tails[k]
      PROVE  u # s /\ msState'[u] = "enqSwing" /\ queueId'[u] = k /\ tail'[u] = tail[u]
  <2>1. u # s
    BY <1>7 DEF DequeueDone, InitDone, StoreLeft
  <2> QED
    BY <1>0, <1>7, <2>1 DEF MsOthersStay, MsLocalStays
<1>8. CASE LinkDone(s)
  <2>1. PICK n \in MsNodes : n = MsHolds(s) /\ n = msOwnedKey[s]
    BY <1>0, <1>8, WhatIsHeld DEF LinkDone, EnqueueStates
  <2>2. Updates(ChainsNow, q, Append(ChainsNow[q], n), ChainsNow')
    BY <1>1, <1>8, <2>1, ChainsStep
  <2>3. UNCHANGED tails /\ msState'[s] = "enqSwing" /\ tail'[s] = tail[s]
        /\ queueId'[s] = queueId[s]
    BY <1>8 DEF LinkDone
  <2>4. tail[s] = tails[q] /\ TailNode(q) = LastNode(q) /\ LinksLast(s, q)
    BY <1>0, <1>1, <1>8, LinkPlaces
  <2>5. CASE k = q
    <3>1. PICK r : r = Append(c, n)
      OBVIOUS
    <3>2. ChainsNow'[k] = r
      BY <1>2, <1>4, <2>2, <2>5, <3>1 DEF Updates
    <3>3. r \in Seq(MsNodes) /\ Len(r) = m + 1 /\ r[m + 1] = n
      BY <1>3, <3>1, Appended
    <3>4. On(r, t)
      <4>1. IsAlsoOn(r, c, n)
        BY <3>1, AppendedAlso
      <4> QED
        BY <1>6, <4>1 DEF IsAlsoOn
    <3>5. nodePtrs'[t].nextKeyId = n
      <4>1. NextNodes'[t] = n
        BY <1>5, <2>1, <2>4, <2>5 DEF LinksLast, Updates, NextNodes
      <4> QED
        BY <4>1 DEF NextNodes
    <3>6. TailNode(k)' = t /\ LastNode(k)' = n
      BY <1>5, <2>3, <3>2, <3>3 DEF TailNode, LastNode
    <3> QED
      BY <1>1, <2>3, <2>4, <2>5, <3>2, <3>4, <3>5, <3>6 DEF TailNear
  <2>6. CASE k # q
    <3>1. ChainsNow'[k] = c
      BY <1>2, <1>4, <2>2, <2>6 DEF Updates
    <3>2. TailNode(k)' = t /\ LastNode(k)' = c[m]
      BY <1>3, <1>5, <2>3, <3>1 DEF TailNode, LastNode
    <3>3. t # c[m] => nodePtrs'[t] = nodePtrs[t]
      <4>1. t # tail[s].nextKeyId
        <5>1. tail[s].nextKeyId = TailNode(q) /\ On(ChainsNow[q], TailNode(q))
          BY <2>4, TailIsOn DEF TailNode
        <5> QED
          BY <1>0, <1>2, <1>6, <2>6, <5>1, MsNumbers DEF ChainsPlaced, Placed
      <4> QED
        BY <1>0, <1>8, <4>1 DEF LinkDone, Updates, MsTypeOK
    <3>4. ASSUME NEW u \in MsSessions, msState[u] = "enqSwing", queueId[u] = k,
                 tail[u] = tails[k]
          PROVE  msState'[u] = "enqSwing" /\ queueId'[u] = k /\ tail'[u] = tails'[k]
      <4>1. u # s
        BY <1>1, <2>6, <3>4
      <4> QED
        BY <1>0, <2>3, <3>4, <4>1 DEF MsOthersStay, MsLocalStays
    <3>5. CASE t = c[m]
      BY <1>6, <3>1, <3>2, <3>5 DEF TailNear
    <3>6. CASE t # c[m]
      BY <1>6, <3>1, <3>2, <3>3, <3>4, <3>6 DEF TailNear
    <3> QED
      BY <3>5, <3>6
  <2> QED
    BY <2>5, <2>6
<1>9. CASE SwingDone(s)
  <2>1. NewTail(s) = LastNode(q) /\ NextNodes[TailNode(q)] = LastNode(q)
    BY <1>0, <1>1, <1>9, SwingPlaces
  <2>2. ChainsNow' = ChainsNow
    BY <1>1, <1>9, ChainsStep
  <2>3. PICK new : new = Ptr(NewTail(s), tail[s].counter + 1)
    OBVIOUS
  <2>4. Updates(tails, q, new, tails') /\ UNCHANGED <<heads, nodePtrs>> /\ tails[q] = tail[s]
    BY <1>1, <1>9, <2>3 DEF SwingDone
  <2>5. \A l \in QueueIds : tails'[l] = IF l = q THEN new ELSE tails[l]
    BY <1>0, <2>4 DEF MsTypeOK, Updates
  <2>6. CASE k = q
    <3>1. TailNode(k)' = c[m]
      BY <1>4, <2>1, <2>3, <2>5, <2>6, PtrParts DEF TailNode
    <3>2. LastNode(k)' = c[m]
      BY <1>4, <2>2 DEF LastNode
    <3>3. On(ChainsNow'[k], c[m])
      BY <1>0, <1>4, <2>2, ChainIsOn
    <3> QED
      BY <3>1, <3>2, <3>3 DEF TailNear
  <2>7. CASE k # q
    <3>1. tails'[k] = tails[k] /\ TailNode(k)' = t /\ LastNode(k)' = c[m]
          /\ nodePtrs' = nodePtrs /\ ChainsNow'[k] = c
      BY <1>2, <1>4, <1>5, <2>2, <2>4, <2>5, <2>7 DEF TailNode, LastNode
    <3>2. ASSUME NEW u \in MsSessions, msState[u] = "enqSwing", queueId[u] = k,
                 tail[u] = tails[k]
          PROVE  msState'[u] = "enqSwing" /\ queueId'[u] = k /\ tail'[u] = tails'[k]
      <4>1. u # s
        BY <1>1, <2>7, <3>2
      <4> QED
        BY <1>0, <3>1, <3>2, <4>1 DEF MsOthersStay, MsLocalStays
    <3>3. CASE t = c[m]
      BY <1>6, <3>1, <3>3 DEF TailNear
    <3>4. CASE t # c[m]
      BY <1>6, <3>1, <3>2, <3>4 DEF TailNear
    <3> QED
      BY <3>3, <3>4
  <2> QED
    BY <2>6, <2>7
<1>10. CASE DequeueDone(s)
  <2>1. UNCHANGED <<tails, nodePtrs>>
    BY <1>10 DEF DequeueDone
  <2>2. Updates(ChainsNow, q, Tail(ChainsNow[q]), ChainsNow')
    BY <1>1, <1>10, ChainsStep
  <2>3. TailNode(q) # HeadNodes[q]
    BY <1>0, <1>1, <1>10, DequeuePlaces
  <2>5. PICK r : r = ChainsNow'[k]
    OBVIOUS
  <2>6. On(r, t) /\ r[Len(r)] = c[m]
    <3>1. CASE k = q
      <4>1. r = Tail(c) /\ IsSimple(c) /\ c[1] = HeadNodes[q]
        BY <1>0, <1>2, <1>4, <2>2, <2>5, <3>1, ChainIsOn DEF Updates
      <4>2. On(r, t)
        BY <1>2, <1>5, <1>6, <2>3, <3>1, <4>1, ShortenedOn
      <4>3. r \in Seq(MsNodes) /\ m = Len(r) + 1 /\ \A i \in 1..Len(r) : r[i] = c[i + 1]
        BY <1>2, <1>3, <4>1, Shortened
      <4>4. PICK l \in Nat : l = Len(r)
        BY <4>3
      <4>5. l \in 1..l
        <5>1. l # 0
          BY <4>2, <4>4 DEF On
        <5> QED
          BY <5>1
      <4> QED
        BY <4>2, <4>3, <4>4, <4>5
    <3>2. CASE k # q
      <4>1. r = c
        BY <1>2, <1>4, <2>2, <2>5, <3>2 DEF Updates
      <4> QED
        BY <1>3, <1>6, <4>1
    <3> QED
      BY <3>1, <3>2
  <2>7. TailNode(k)' = t /\ LastNode(k)' = c[m] /\ On(ChainsNow'[k], t)
    BY <1>5, <2>1, <2>5, <2>6 DEF TailNode, LastNode
  <2>8. CASE t = c[m]
    BY <2>7, <2>8 DEF TailNear
  <2>9. CASE t # c[m]
    BY <1>6, <1>7, <1>10, <2>1, <2>7, <2>9 DEF TailNear
  <2> QED
    BY <2>8, <2>9
<1>11. CASE InitDone(s) \/ StoreLeft(s)
  <2>1. UNCHANGED tails
    BY <1>11 DEF InitDone, StoreLeft
  <2>2. ChainsNow' = ChainsNow
    BY <1>1, <1>11, ChainsStep
  <2>3. nodePtrs'[t] = nodePtrs[t]
    <3>1. CASE InitDone(s)
      <4>1. t # msOwnedKey[s]
        <5>1. ~On(c, MsHolds(s)) /\ MsHolds(s) = msOwnedKey[s]
          BY <1>0, <1>2, <3>1, InitPlaces, MsNumbers DEF ChainsPlaced, Placed, MsHoldsNow
        <5> QED
          BY <1>6, <5>1
      <4> QED
        BY <1>0, <3>1, <4>1 DEF InitDone, Updates, MsTypeOK
    <3>2. CASE StoreLeft(s)
      BY <3>2 DEF StoreLeft
    <3> QED
      BY <1>11, <3>1, <3>2
  <2>4. TailNode(k)' = t /\ LastNode(k)' = c[m] /\ On(ChainsNow'[k], t)
    BY <1>2, <1>4, <1>5, <1>6, <2>1, <2>2 DEF TailNode, LastNode
  <2>5. CASE t = c[m]
    BY <2>4, <2>5 DEF TailNear
  <2>6. CASE t # c[m]
    BY <1>6, <1>7, <1>11, <2>1, <2>3, <2>4, <2>6 DEF TailNear
  <2> QED
    BY <2>5, <2>6
<1> QED
  BY <1>8, <1>9, <1>10, <1>11 DEF MsStepOf

\* Pointers are what their parts are.
LEMMA PtrTyped ==
  ASSUME NEW n \in MsNodes \cup {NoNode}, NEW c \in Nat
  PROVE  Ptr(n, c) \in MsPtrs
BY DEF Ptr, MsPtrs

\* Pointers that compare as equal are equal.
LEMMA PtrsSame ==
  ASSUME NEW p \in MsPtrs, NEW r \in MsPtrs, SamePtr(p, r)
  PROVE  p = r
BY DEF MsPtrs, SamePtr

\* A swap is done, or changes nothing.
LEMMA Swapped ==
  ASSUME NEW I, NEW T, NEW f \in [I -> T], NEW k \in I, NEW old, old = f[k], NEW x, NEW y,
         NEW z, z = Swap(old, x, y), NEW g, Updates(f, k, z, g)
  PROVE  /\ old = x => Updates(f, k, y, g)
         /\ old # x => g = f
<1>1. old = x => z = y
  BY DEF Swap
<1>2. old # x => z = f[k]
  BY DEF Swap
<1>3. z = f[k] => g = f
  BY DEF Updates
<1> QED
  BY <1>1, <1>2, <1>3

\* What a session's own step makes it know: enqueuing, ...
LEMMA EnqInitKeeps ==
  ASSUME QueuesInv, NEW s \in MsSessions, EnqInit(s)
  PROVE  MsTypeOK' /\ MsStepOf(s) /\ MsKnows(s)'
<1>1. MsTypeOK /\ OwnKnown(s)
  BY DEF QueuesInv, MsKnows
<1>2. PICK n \in MsNodes : n = msOwnedKey[s]
  BY <1>1 DEF MsTypeOK
<1>3. nodePtr[s].counter \in Nat
  BY <1>1, PtrTypes
<1>4. PICK new \in MsPtrs : new = Ptr(NoNode, nodePtr[s].counter)
  BY <1>3, PtrTyped
<1>5. nodePtrs' = [nodePtrs EXCEPT ![n] = new]
  BY <1>2, <1>4 DEF EnqInit
<1>6. MsTypeOK'
  <2>1. NoPtr \in MsPtrs
    BY PtrTyped DEF NoPtr
  <2>2. msRounds' \in 0..MsMaxRounds
    BY <1>1, QueueAssumption DEF EnqInit, MsTypeOK
  <2> QED
    BY <1>1, <1>5, <2>1, <2>2 DEF EnqInit, MsGoto, MsTypeOK, EnqueueStates
<1>7. MsOthersStay(s)
  BY <1>1 DEF MsOthersStay, MsLocalStays, EnqInit, MsGoto, MsTypeOK
<1>8. InitDone(s)
  BY <1>1, <1>2, <1>4, <1>5 DEF InitDone, EnqInit, MsGoto, MsTypeOK, Updates
<1>9. msState'[s] = "enqReadTail" /\ nodePtrs'[n].nextKeyId = NoNode /\ msOwnedKey'[s] = n
  BY <1>1, <1>2, <1>4, <1>5, PtrParts DEF EnqInit, MsGoto, MsTypeOK
<1> QED
  BY <1>6, <1>7, <1>8, <1>9 DEF MsStepOf, MsKnows, OwnKnown, TailKnown, HeadKnown

\* The tail is read, ...
LEMMA EnqReadTailKeeps ==
  ASSUME QueuesInv, NEW s \in MsSessions, EnqReadTail(s)
  PROVE  MsTypeOK' /\ MsStepOf(s) /\ MsKnows(s)'
<1>1. MsTypeOK /\ OwnKnown(s)
  BY DEF QueuesInv, MsKnows
<1>2. PICK q \in QueueIds : q = queueId[s]
  BY <1>1 DEF MsTypeOK
<1>3. tails[q].nextKeyId \in MsNodes /\ tails[q].counter \in Nat
  BY <1>1, TailIsOn, PtrTypes DEF TailNode
<1>4. MsTypeOK'
  BY <1>1 DEF EnqReadTail, MsGoto, MsTypeOK, EnqueueStates, msStore
<1>5. MsOthersStay(s)
  BY <1>1 DEF MsOthersStay, MsLocalStays, EnqReadTail, MsGoto, MsTypeOK
<1>6. /\ msState[s] = "enqReadTail" /\ msState'[s] = "enqReadLast"
      /\ tail'[s] = tails[q] /\ tails' = tails /\ nodePtrs' = nodePtrs /\ heads' = heads
      /\ queueId'[s] = q /\ msOwnedKey'[s] = msOwnedKey[s]
  BY <1>1, <1>2 DEF EnqReadTail, MsGoto, MsTypeOK, msStore
<1>7. StoreLeft(s)
  BY <1>2, <1>6 DEF StoreLeft, DequeueStates
<1>8. OwnKnown(s)'
  BY <1>1, <1>6 DEF OwnKnown, EnqueueStates
<1>9. TailKnown(s)'
  BY <1>3, <1>6 DEF TailKnown
<1>10. HeadKnown(s)'
  BY <1>6 DEF HeadKnown
<1> QED
  BY <1>4, <1>5, <1>7, <1>8, <1>9, <1>10 DEF MsStepOf, MsKnows

\* ... the pointer of the node that is there, ...
LEMMA EnqReadLastKeeps ==
  ASSUME QueuesInv, NEW s \in MsSessions, EnqReadLast(s)
  PROVE  MsTypeOK' /\ MsStepOf(s) /\ MsKnows(s)'
<1>1. MsTypeOK /\ OwnKnown(s) /\ TailKnown(s)
  BY DEF QueuesInv, MsKnows
<1>2. PICK q \in QueueIds : q = queueId[s]
  BY <1>1 DEF MsTypeOK
<1>3. /\ msState[s] = "enqReadLast" /\ msState'[s] = "enqReadTailAgain"
      /\ tail'[s] = tail[s] /\ tails' = tails /\ nodePtrs' = nodePtrs /\ heads' = heads
      /\ nodePtr'[s] = nodePtrs[tail[s].nextKeyId]
      /\ queueId'[s] = q /\ msOwnedKey'[s] = msOwnedKey[s]
  BY <1>1, <1>2 DEF EnqReadLast, MsGoto, MsTypeOK, msStore
<1>4. tail[s].nextKeyId \in MsNodes
  BY <1>1, <1>3 DEF TailKnown
<1>5. MsTypeOK'
  BY <1>1, <1>4 DEF EnqReadLast, MsGoto, MsTypeOK, EnqueueStates, msStore
<1>6. MsOthersStay(s)
  BY <1>1 DEF MsOthersStay, MsLocalStays, EnqReadLast, MsGoto, MsTypeOK
<1>7. StoreLeft(s)
  BY <1>2, <1>3 DEF StoreLeft, DequeueStates
<1>8. OwnKnown(s)'
  BY <1>1, <1>3 DEF OwnKnown, EnqueueStates
<1>9. TailKnown(s)'
  BY <1>1, <1>2, <1>3 DEF TailKnown
<1>10. HeadKnown(s)'
  BY <1>3 DEF HeadKnown
<1> QED
  BY <1>5, <1>6, <1>7, <1>8, <1>9, <1>10 DEF MsStepOf, MsKnows

\* ... and the tail again.
LEMMA EnqReadTailAgainKeeps ==
  ASSUME QueuesInv, NEW s \in MsSessions, EnqReadTailAgain(s)
  PROVE  MsTypeOK' /\ MsStepOf(s) /\ MsKnows(s)'
<1>1. MsTypeOK /\ OwnKnown(s) /\ TailKnown(s)
  BY DEF QueuesInv, MsKnows
<1>2. PICK q \in QueueIds : q = queueId[s]
  BY <1>1 DEF MsTypeOK
<1>3. PICK st : st = IF ~QueueIdsAgree(tail[s], tails[q]) THEN "enqAborted"
                     ELSE IF ~SamePtr(tail[s], tails[q]) THEN "enqReadTail"
                     ELSE IF nodePtr[s].nextKeyId = NoNode THEN "enqLink"
                     ELSE "enqAdvance"
  OBVIOUS
<1>4. /\ msState[s] = "enqReadTailAgain" /\ msState' = [msState EXCEPT ![s] = st]
      /\ UNCHANGED <<msStore, head, msOwnedKey, queueId, msRounds>>
      /\ IF msState'[s] \in {"enqLink", "enqAdvance"}
           THEN UNCHANGED <<tail, nodePtr>>
           ELSE /\ tail' = [tail EXCEPT ![s] = NoPtr]
                /\ nodePtr' = [nodePtr EXCEPT ![s] = NoPtr]
  BY <1>2, <1>3 DEF EnqReadTailAgain, MsGoto
<1>5. st \in {"enqAborted", "enqReadTail", "enqLink", "enqAdvance"} /\ msState'[s] = st
  BY <1>1, <1>3, <1>4 DEF MsTypeOK
<1>6. MsTypeOK'
  <2>1. NoPtr \in MsPtrs
    BY PtrTyped DEF NoPtr
  <2> QED
    BY <1>1, <1>4, <1>5, <2>1 DEF MsTypeOK, EnqueueStates, msStore
<1>7. MsOthersStay(s)
  BY <1>1, <1>4 DEF MsOthersStay, MsLocalStays, MsTypeOK
<1>8. /\ tails' = tails /\ nodePtrs' = nodePtrs /\ heads' = heads
      /\ queueId'[s] = q /\ msOwnedKey'[s] = msOwnedKey[s]
      /\ st \in {"enqLink", "enqAdvance"} => tail'[s] = tail[s] /\ nodePtr'[s] = nodePtr[s]
  BY <1>2, <1>4, <1>5 DEF msStore
<1>9. StoreLeft(s)
  BY <1>2, <1>4, <1>5, <1>8 DEF StoreLeft, DequeueStates
<1>10. OwnKnown(s)'
  BY <1>1, <1>4, <1>5, <1>8 DEF OwnKnown, EnqueueStates
<1>11. TailKnown(s)'
  <2>1. CASE st \in {"enqAborted", "enqReadTail"}
    BY <1>5, <2>1 DEF TailKnown
  <2>2. CASE st \in {"enqLink", "enqAdvance"}
    <3>1. SamePtr(tail[s], tails[q])
      BY <1>3, <2>2
    <3>2. tail[s] = tails[q]
      BY <1>1, <3>1, PtrsSame DEF MsTypeOK
    <3>3. PICK n \in MsNodes : n = tail[s].nextKeyId
      BY <1>1, <1>4 DEF TailKnown
    <3>4. \/ nodePtr[s] = nodePtrs[n]
          \/ nodePtr[s].nextKeyId = NoNode /\ nodePtr[s].counter < nodePtrs[n].counter
      BY <1>1, <1>2, <1>4, <3>2, <3>3 DEF TailKnown
    <3>5. nodePtr[s].counter \in Nat /\ nodePtrs[n].counter \in Nat /\ tail[s].counter \in Nat
      BY <1>1, PtrTypes
    <3>6. st = "enqLink" => nodePtr[s].nextKeyId = NoNode
      BY <1>3
    <3>7. st = "enqAdvance" => nodePtr[s].nextKeyId # NoNode
      BY <1>3
    <3>8. tail'[s] = tails'[q] /\ tail'[s].nextKeyId = n /\ nodePtr'[s] = nodePtr[s]
          /\ tail'[s].counter \in Nat
      BY <1>8, <2>2, <3>2, <3>3, <3>5
    <3> QED
      BY <1>5, <1>8, <2>2, <3>3, <3>4, <3>5, <3>6, <3>7, <3>8 DEF TailKnown
  <2> QED
    BY <1>5, <2>1, <2>2
<1>12. HeadKnown(s)'
  BY <1>5 DEF HeadKnown
<1> QED
  BY <1>6, <1>7, <1>9, <1>10, <1>11, <1>12 DEF MsStepOf, MsKnows

\* The node is linked, if the last one's pointer has not changed, ...
LEMMA EnqLinkKeeps ==
  ASSUME QueuesInv, NEW s \in MsSessions, EnqLink(s)
  PROVE  MsTypeOK' /\ MsStepOf(s) /\ MsKnows(s)'
<1>1. MsTypeOK /\ OwnKnown(s) /\ TailKnown(s)
  BY DEF QueuesInv, MsKnows
<1>2. PICK q \in QueueIds : q = queueId[s]
  BY <1>1 DEF MsTypeOK
<1>3. msState[s] = "enqLink"
  BY DEF EnqLink
<1>4. PICK n \in MsNodes : n = tail[s].nextKeyId
  BY <1>1, <1>3 DEF TailKnown
<1>5. PICK new \in MsPtrs : new = Ptr(msOwnedKey[s], nodePtr[s].counter + 1)
  <2>1. nodePtr[s].counter + 1 \in Nat /\ msOwnedKey[s] \in MsNodes
    BY <1>1, PtrTypes DEF MsTypeOK
  <2> QED
    BY <2>1, PtrTyped
<1>6. /\ nodePtrs' = [nodePtrs EXCEPT ![n] = Swap(@, nodePtr[s], new)]
      /\ msState' = [msState EXCEPT ![s] = IF nodePtrs[n] = nodePtr[s] THEN "enqSwing"
                                           ELSE "enqReadTail"]
      /\ tail' = [tail EXCEPT ![s] = IF nodePtrs[n] = nodePtr[s] THEN @ ELSE NoPtr]
      /\ nodePtr' = [nodePtr EXCEPT ![s] = NoPtr]
      /\ UNCHANGED <<heads, tails, leftover, head, msOwnedKey, queueId, msRounds>>
  BY <1>4, <1>5 DEF EnqLink, MsGoto
<1>7. /\ nodePtrs[n] = nodePtr[s] => Updates(nodePtrs, n, new, nodePtrs')
      /\ nodePtrs[n] # nodePtr[s] => nodePtrs' = nodePtrs
  <2>1. nodePtrs \in [MsNodes -> MsPtrs]
    BY <1>1 DEF MsTypeOK
  <2>2. PICK old : old = nodePtrs[n]
    OBVIOUS
  <2>3. PICK x : x = nodePtr[s]
    OBVIOUS
  <2>4. PICK z : z = Swap(old, x, new)
    OBVIOUS
  <2>5. Updates(nodePtrs, n, z, nodePtrs')
    BY <1>6, <2>2, <2>3, <2>4 DEF Updates
  <2>6. /\ old = x => Updates(nodePtrs, n, new, nodePtrs')
        /\ old # x => nodePtrs' = nodePtrs
    BY <2>1, <2>2, <2>4, <2>5, Swapped
  <2> QED
    BY <2>2, <2>3, <2>6
<1>8. NoPtr \in MsPtrs
  BY PtrTyped DEF NoPtr
<1>9. MsTypeOK'
  <2>1. nodePtrs' \in [MsNodes -> MsPtrs]
    BY <1>1, <1>7 DEF MsTypeOK, Updates
  <2> QED
    BY <1>1, <1>6, <1>8, <2>1 DEF MsTypeOK, EnqueueStates
<1>10. MsOthersStay(s)
  BY <1>1, <1>6 DEF MsOthersStay, MsLocalStays, MsTypeOK
<1>11. queueId'[s] = q /\ msOwnedKey'[s] = msOwnedKey[s] /\ UNCHANGED <<heads, tails>>
  BY <1>2, <1>6
<1>12. CASE nodePtrs[n] = nodePtr[s]
  <2>1. msState'[s] = "enqSwing" /\ tail'[s] = tail[s]
    BY <1>1, <1>6, <1>12 DEF MsTypeOK
  <2>2. LinkDone(s)
    BY <1>2, <1>3, <1>4, <1>5, <1>7, <1>11, <1>12, <2>1 DEF LinkDone
  <2>3. nodePtrs'[n].nextKeyId = msOwnedKey[s]
    BY <1>1, <1>5, <1>7, <1>12, PtrParts DEF MsTypeOK, Updates
  <2>4. OwnKnown(s)' /\ HeadKnown(s)'
    BY <2>1 DEF OwnKnown, HeadKnown, EnqueueStates
  <2>5. TailKnown(s)'
    BY <1>1, <1>2, <1>3, <1>4, <1>11, <2>1, <2>3 DEF TailKnown
  <2> QED
    BY <1>9, <1>10, <2>2, <2>4, <2>5 DEF MsStepOf, MsKnows
<1>13. CASE nodePtrs[n] # nodePtr[s]
  <2>1. msState'[s] = "enqReadTail" /\ nodePtrs' = nodePtrs
    BY <1>1, <1>6, <1>7, <1>13 DEF MsTypeOK
  <2>2. StoreLeft(s)
    BY <1>2, <1>3, <1>11, <2>1 DEF StoreLeft, DequeueStates
  <2>3. TailKnown(s)' /\ HeadKnown(s)'
    BY <2>1 DEF TailKnown, HeadKnown
  <2>4. OwnKnown(s)'
    BY <1>1, <1>3, <1>11, <2>1 DEF OwnKnown, EnqueueStates
  <2> QED
    BY <1>9, <1>10, <2>2, <2>3, <2>4 DEF MsStepOf, MsKnows
<1> QED
  BY <1>12, <1>13

\* ... the tail swung to it, if nobody else has done that, ...
LEMMA EnqSwingKeeps ==
  ASSUME QueuesInv, NEW s \in MsSessions, EnqSwing(s)
  PROVE  MsTypeOK' /\ MsStepOf(s) /\ MsKnows(s)'
<1>1. MsTypeOK
  BY DEF QueuesInv
<1>2. PICK q \in QueueIds : q = queueId[s]
  BY <1>1 DEF MsTypeOK
<1>3. msState[s] = "enqSwing"
  BY DEF EnqSwing
<1>4. NewTail(s) = msOwnedKey[s]
  BY <1>3 DEF NewTail
<1>5. PICK new \in MsPtrs : new = Ptr(NewTail(s), tail[s].counter + 1)
  <2>1. tail[s].counter + 1 \in Nat /\ msOwnedKey[s] \in MsNodes
    BY <1>1, PtrTypes DEF MsTypeOK
  <2> QED
    BY <1>4, <2>1, PtrTyped
<1>6. /\ tails' = [tails EXCEPT ![q] = Swap(@, tail[s], new)]
      /\ msState' = [msState EXCEPT ![s] = "deqReadHead"]
      /\ tail' = [tail EXCEPT ![s] = NoPtr]
      /\ UNCHANGED <<heads, nodePtrs, leftover, head, nodePtr, msOwnedKey, queueId, msRounds>>
  BY <1>2, <1>4, <1>5 DEF EnqSwing, SwapTail, MsGoto
<1>7. /\ tails[q] = tail[s] => Updates(tails, q, new, tails')
      /\ tails[q] # tail[s] => tails' = tails
  <2>1. tails \in [QueueIds -> MsPtrs]
    BY <1>1 DEF MsTypeOK
  <2>2. PICK old : old = tails[q]
    OBVIOUS
  <2>3. PICK x : x = tail[s]
    OBVIOUS
  <2>4. PICK z : z = Swap(old, x, new)
    OBVIOUS
  <2>5. Updates(tails, q, z, tails')
    BY <1>6, <2>2, <2>3, <2>4 DEF Updates
  <2>6. /\ old = x => Updates(tails, q, new, tails')
        /\ old # x => tails' = tails
    BY <2>1, <2>2, <2>4, <2>5, Swapped
  <2> QED
    BY <2>2, <2>3, <2>6
<1>8. MsTypeOK'
  <2>1. tails' \in [QueueIds -> MsPtrs]
    BY <1>1, <1>7 DEF MsTypeOK, Updates
  <2>2. NoPtr \in MsPtrs
    BY PtrTyped DEF NoPtr
  <2> QED
    BY <1>1, <1>6, <2>1, <2>2 DEF MsTypeOK, DequeueStates
<1>9. MsOthersStay(s)
  BY <1>1, <1>6 DEF MsOthersStay, MsLocalStays, MsTypeOK
<1>10. msState'[s] = "deqReadHead" /\ queueId'[s] = q /\ msOwnedKey'[s] = msOwnedKey[s]
       /\ UNCHANGED <<heads, nodePtrs>>
  BY <1>1, <1>2, <1>6 DEF MsTypeOK
<1>11. MsKnows(s)'
  BY <1>10 DEF MsKnows, OwnKnown, TailKnown, HeadKnown, EnqueueStates
<1>12. SwingDone(s) \/ StoreLeft(s)
  <2>1. CASE tails[q] = tail[s]
    BY <1>2, <1>3, <1>5, <1>7, <1>10, <2>1 DEF SwingDone
  <2>2. CASE tails[q] # tail[s]
    BY <1>2, <1>3, <1>7, <1>10, <2>2 DEF StoreLeft, DequeueStates
  <2> QED
    BY <2>1, <2>2
<1> QED
  BY <1>8, <1>9, <1>11, <1>12 DEF MsStepOf

\* ... or a tail that was left behind swung on for another session.
LEMMA EnqAdvanceKeeps ==
  ASSUME QueuesInv, NEW s \in MsSessions, EnqAdvance(s)
  PROVE  MsTypeOK' /\ MsStepOf(s) /\ MsKnows(s)'
<1>1. MsTypeOK /\ OwnKnown(s)
  BY DEF QueuesInv, MsKnows
<1>2. PICK q \in QueueIds : q = queueId[s]
  BY <1>1 DEF MsTypeOK
<1>3. msState[s] = "enqAdvance"
  BY DEF EnqAdvance
<1>4. NewTail(s) = nodePtr[s].nextKeyId
  BY <1>3 DEF NewTail
<1>5. PICK new \in MsPtrs : new = Ptr(NewTail(s), tail[s].counter + 1)
  <2>1. tail[s].counter + 1 \in Nat /\ nodePtr[s].nextKeyId \in MsNodes \cup {NoNode}
    BY <1>1, PtrTypes DEF MsTypeOK, MsPtrs
  <2> QED
    BY <1>4, <2>1, PtrTyped
<1>6. /\ tails' = [tails EXCEPT ![q] = Swap(@, tail[s], new)]
      /\ msState' = [msState EXCEPT ![s] = "enqReadTail"]
      /\ tail' = [tail EXCEPT ![s] = NoPtr]
      /\ nodePtr' = [nodePtr EXCEPT ![s] = NoPtr]
      /\ UNCHANGED <<heads, nodePtrs, leftover, head, msOwnedKey, queueId, msRounds>>
  BY <1>2, <1>4, <1>5 DEF EnqAdvance, SwapTail, MsGoto
<1>7. /\ tails[q] = tail[s] => Updates(tails, q, new, tails')
      /\ tails[q] # tail[s] => tails' = tails
  <2>1. tails \in [QueueIds -> MsPtrs]
    BY <1>1 DEF MsTypeOK
  <2>2. PICK old : old = tails[q]
    OBVIOUS
  <2>3. PICK x : x = tail[s]
    OBVIOUS
  <2>4. PICK z : z = Swap(old, x, new)
    OBVIOUS
  <2>5. Updates(tails, q, z, tails')
    BY <1>6, <2>2, <2>3, <2>4 DEF Updates
  <2>6. /\ old = x => Updates(tails, q, new, tails')
        /\ old # x => tails' = tails
    BY <2>1, <2>2, <2>4, <2>5, Swapped
  <2> QED
    BY <2>2, <2>3, <2>6
<1>8. MsTypeOK'
  <2>1. tails' \in [QueueIds -> MsPtrs]
    BY <1>1, <1>7 DEF MsTypeOK, Updates
  <2>2. NoPtr \in MsPtrs
    BY PtrTyped DEF NoPtr
  <2> QED
    BY <1>1, <1>6, <2>1, <2>2 DEF MsTypeOK, EnqueueStates
<1>9. MsOthersStay(s)
  BY <1>1, <1>6 DEF MsOthersStay, MsLocalStays, MsTypeOK
<1>10. msState'[s] = "enqReadTail" /\ queueId'[s] = q /\ msOwnedKey'[s] = msOwnedKey[s]
       /\ UNCHANGED <<heads, nodePtrs>>
  BY <1>1, <1>2, <1>6 DEF MsTypeOK
<1>11. MsKnows(s)'
  <2>1. OwnKnown(s)'
    BY <1>1, <1>3, <1>10 DEF OwnKnown, EnqueueStates
  <2> QED
    BY <1>10, <2>1 DEF MsKnows, TailKnown, HeadKnown
<1>12. SwingDone(s) \/ StoreLeft(s)
  <2>1. CASE tails[q] = tail[s]
    BY <1>2, <1>3, <1>5, <1>7, <1>10, <2>1 DEF SwingDone
  <2>2. CASE tails[q] # tail[s]
    BY <1>2, <1>3, <1>7, <1>10, <2>2 DEF StoreLeft, DequeueStates
  <2> QED
    BY <2>1, <2>2
<1> QED
  BY <1>8, <1>9, <1>11, <1>12 DEF MsStepOf

\* ... and dequeuing.
LEMMA DeqReadHeadKeeps ==
  ASSUME QueuesInv, NEW s \in MsSessions, DeqReadHead(s)
  PROVE  MsTypeOK' /\ MsStepOf(s) /\ MsKnows(s)'
<1>1. MsTypeOK /\ ChainsPlaced
  BY DEF QueuesInv
<1>2. PICK q \in QueueIds : q = queueId[s]
  BY <1>1 DEF MsTypeOK
<1>3. /\ msState[s] = "deqReadHead" /\ msState'[s] = "deqReadTail"
      /\ head'[s] = heads[q] /\ tails' = tails /\ nodePtrs' = nodePtrs /\ heads' = heads
      /\ queueId'[s] = q /\ msOwnedKey'[s] = msOwnedKey[s]
  BY <1>1, <1>2 DEF DeqReadHead, MsGoto, MsTypeOK, msStore
<1>4. heads[q].nextKeyId \in MsNodes /\ heads[q].counter \in Nat
  BY <1>1, ChainIsOn, PtrTypes DEF HeadNodes
<1>5. MsTypeOK'
  BY <1>1 DEF DeqReadHead, MsGoto, MsTypeOK, DequeueStates, msStore
<1>6. MsOthersStay(s)
  BY <1>1 DEF MsOthersStay, MsLocalStays, DeqReadHead, MsGoto, MsTypeOK
<1>7. StoreLeft(s)
  BY <1>2, <1>3 DEF StoreLeft, DequeueStates
<1>8. HeadKnown(s)'
  BY <1>3, <1>4 DEF HeadKnown
<1>9. OwnKnown(s)' /\ TailKnown(s)'
  BY <1>3 DEF OwnKnown, TailKnown, EnqueueStates
<1> QED
  BY <1>5, <1>6, <1>7, <1>8, <1>9 DEF MsStepOf, MsKnows

\* ... then the tail, ...
LEMMA DeqReadTailKeeps ==
  ASSUME QueuesInv, NEW s \in MsSessions, DeqReadTail(s)
  PROVE  MsTypeOK' /\ MsStepOf(s) /\ MsKnows(s)'
<1>1. MsTypeOK /\ HeadKnown(s)
  BY DEF QueuesInv, MsKnows
<1>2. PICK q \in QueueIds : q = queueId[s]
  BY <1>1 DEF MsTypeOK
<1>3. /\ msState[s] = "deqReadTail" /\ msState'[s] = "deqReadFirst"
      /\ tail'[s] = tails[q] /\ tails' = tails /\ nodePtrs' = nodePtrs /\ heads' = heads
      /\ queueId'[s] = q /\ msOwnedKey'[s] = msOwnedKey[s] /\ head'[s] = head[s]
  BY <1>1, <1>2 DEF DeqReadTail, MsGoto, MsTypeOK, msStore
<1>4. head[s] = heads[q] => tails[q].nextKeyId # head[s].nextKeyId
  <2>1. msState[s] \in DequeueStates
    BY <1>3 DEF DequeueStates
  <2> QED
    BY <1>2, <2>1, DequeuersAhead DEF TailNode, HeadNodes
<1>5. MsTypeOK'
  BY <1>1 DEF DeqReadTail, MsGoto, MsTypeOK, DequeueStates, msStore
<1>6. MsOthersStay(s)
  BY <1>1 DEF MsOthersStay, MsLocalStays, DeqReadTail, MsGoto, MsTypeOK
<1>7. StoreLeft(s)
  BY <1>2, <1>3 DEF StoreLeft, DequeueStates
<1>8. HeadKnown(s)'
  BY <1>1, <1>2, <1>3, <1>4 DEF HeadKnown
<1>9. OwnKnown(s)' /\ TailKnown(s)'
  BY <1>3 DEF OwnKnown, TailKnown, EnqueueStates
<1> QED
  BY <1>5, <1>6, <1>7, <1>8, <1>9 DEF MsStepOf, MsKnows

\* ... the pointer of the dummy, ...
LEMMA DeqReadFirstKeeps ==
  ASSUME QueuesInv, NEW s \in MsSessions, DeqReadFirst(s)
  PROVE  MsTypeOK' /\ MsStepOf(s) /\ MsKnows(s)'
<1>1. MsTypeOK /\ HeadKnown(s)
  BY DEF QueuesInv, MsKnows
<1>2. PICK q \in QueueIds : q = queueId[s]
  BY <1>1 DEF MsTypeOK
<1>3. /\ msState[s] = "deqReadFirst" /\ msState'[s] = "deqReadHeadAgain"
      /\ tail'[s] = tail[s] /\ tails' = tails /\ nodePtrs' = nodePtrs /\ heads' = heads
      /\ nodePtr'[s] = nodePtrs[head[s].nextKeyId]
      /\ queueId'[s] = q /\ msOwnedKey'[s] = msOwnedKey[s] /\ head'[s] = head[s]
  BY <1>1, <1>2 DEF DeqReadFirst, MsGoto, MsTypeOK, msStore
<1>4. PICK n \in MsNodes : n = head[s].nextKeyId
  BY <1>1, <1>3 DEF HeadKnown
<1>5. head[s] = heads[q] => nodePtrs[n].nextKeyId # NoNode
  <2>1. msState[s] \in DequeueStates
    BY <1>3 DEF DequeueStates
  <2>2. NextNodes[HeadNodes[q]] # NoNode
    BY <1>2, <2>1, DequeuersAhead
  <2> QED
    BY <1>4, <2>2 DEF NextNodes, HeadNodes
<1>6. MsTypeOK'
  BY <1>1, <1>4 DEF DeqReadFirst, MsGoto, MsTypeOK, DequeueStates, msStore
<1>7. MsOthersStay(s)
  BY <1>1 DEF MsOthersStay, MsLocalStays, DeqReadFirst, MsGoto, MsTypeOK
<1>8. StoreLeft(s)
  BY <1>2, <1>3 DEF StoreLeft, DequeueStates
<1>9. HeadKnown(s)'
  BY <1>1, <1>2, <1>3, <1>4, <1>5 DEF HeadKnown
<1>10. OwnKnown(s)' /\ TailKnown(s)'
  BY <1>3 DEF OwnKnown, TailKnown, EnqueueStates
<1> QED
  BY <1>6, <1>7, <1>8, <1>9, <1>10 DEF MsStepOf, MsKnows

\* ... and the head again.
LEMMA DeqReadHeadAgainKeeps ==
  ASSUME QueuesInv, NEW s \in MsSessions, DeqReadHeadAgain(s)
  PROVE  MsTypeOK' /\ MsStepOf(s) /\ MsKnows(s)'
<1>1. MsTypeOK /\ HeadKnown(s)
  BY DEF QueuesInv, MsKnows
<1>2. PICK q \in QueueIds : q = queueId[s]
  BY <1>1 DEF MsTypeOK
<1>3. PICK st : st = IF ~QueueIdsAgree(head[s], heads[q]) THEN "deqAborted"
                     ELSE IF ~SamePtr(head[s], heads[q]) THEN "deqReadHead"
                     ELSE IF TailIsBehind(s) THEN "deqAdvance" ELSE "deqCas"
  OBVIOUS
<1>4. /\ msState[s] = "deqReadHeadAgain" /\ msState' = [msState EXCEPT ![s] = st]
      /\ head' = [head EXCEPT ![s] = IF msState'[s] = "deqCas" THEN @ ELSE NoPtr]
      /\ tail' = [tail EXCEPT ![s] = NoPtr]
      /\ nodePtr' = [nodePtr EXCEPT ![s] = IF msState'[s] = "deqCas" THEN @ ELSE NoPtr]
      /\ UNCHANGED <<msStore, msOwnedKey, queueId, msRounds>>
  BY <1>2, <1>3 DEF DeqReadHeadAgain, MsGoto
<1>5. st \in {"deqAborted", "deqReadHead", "deqAdvance", "deqCas"} /\ msState'[s] = st
  BY <1>1, <1>3, <1>4 DEF MsTypeOK
<1>6. MsTypeOK'
  <2>1. NoPtr \in MsPtrs
    BY PtrTyped DEF NoPtr
  <2> QED
    BY <1>1, <1>4, <1>5, <2>1 DEF MsTypeOK, DequeueStates, msStore
<1>7. MsOthersStay(s)
  BY <1>1, <1>4 DEF MsOthersStay, MsLocalStays, MsTypeOK
<1>8. /\ tails' = tails /\ nodePtrs' = nodePtrs /\ heads' = heads
      /\ queueId'[s] = q /\ msOwnedKey'[s] = msOwnedKey[s]
      /\ st = "deqCas" => head'[s] = head[s] /\ nodePtr'[s] = nodePtr[s]
  BY <1>1, <1>2, <1>4, <1>5 DEF msStore, MsTypeOK
<1>9. StoreLeft(s)
  BY <1>2, <1>4, <1>5, <1>8 DEF StoreLeft, DequeueStates
<1>10. HeadKnown(s)'
  <2>1. CASE st \in {"deqAborted", "deqReadHead"}
    BY <1>5, <2>1 DEF HeadKnown
  <2>2. CASE st \in {"deqAdvance", "deqCas"}
    <3>1. SamePtr(head[s], heads[q])
      BY <1>3, <2>2
    <3>2. head[s] = heads[q]
      BY <1>1, <3>1, PtrsSame DEF MsTypeOK
    <3>3. ~TailIsBehind(s)
      BY <1>1, <1>2, <1>4, <3>2 DEF HeadKnown, TailIsBehind
    <3>4. st = "deqCas"
      BY <1>3, <2>2, <3>3
    <3> QED
      BY <1>1, <1>2, <1>4, <1>5, <1>8, <3>2, <3>4 DEF HeadKnown
  <2> QED
    BY <1>5, <2>1, <2>2
<1>11. OwnKnown(s)' /\ TailKnown(s)'
  BY <1>5 DEF OwnKnown, TailKnown, EnqueueStates
<1> QED
  BY <1>6, <1>7, <1>9, <1>10, <1>11 DEF MsStepOf, MsKnows

\* The head is swapped on to the node that was found.
LEMMA DeqCasKeeps ==
  ASSUME QueuesInv, NEW s \in MsSessions, DeqCas(s)
  PROVE  MsTypeOK' /\ MsStepOf(s) /\ MsKnows(s)'
<1>1. MsTypeOK /\ HeadKnown(s)
  BY DEF QueuesInv, MsKnows
<1>2. PICK q \in QueueIds : q = queueId[s]
  BY <1>1 DEF MsTypeOK
<1>3. msState[s] = "deqCas"
  BY DEF DeqCas
<1>4. PICK n \in MsNodes : n = head[s].nextKeyId
  BY <1>1, <1>3 DEF HeadKnown
<1>5. PICK new \in MsPtrs : new = Ptr(nodePtr[s].nextKeyId, head[s].counter + 1)
  <2>1. head[s].counter + 1 \in Nat /\ nodePtr[s].nextKeyId \in MsNodes \cup {NoNode}
    BY <1>1, PtrTypes DEF MsTypeOK, MsPtrs
  <2> QED
    BY <2>1, PtrTyped
<1>6. heads' = [heads EXCEPT ![q] = Swap(@, head[s], new)]
  BY <1>2, <1>5 DEF DeqCas
<1>7. /\ heads[q] = head[s] => Updates(heads, q, new, heads')
      /\ heads[q] # head[s] => heads' = heads
  <2>1. heads \in [QueueIds -> MsPtrs]
    BY <1>1 DEF MsTypeOK
  <2>2. PICK old : old = heads[q]
    OBVIOUS
  <2>3. PICK x : x = head[s]
    OBVIOUS
  <2>4. PICK z : z = Swap(old, x, new)
    OBVIOUS
  <2>5. Updates(heads, q, z, heads')
    BY <1>6, <2>2, <2>3, <2>4 DEF Updates
  <2>6. /\ old = x => Updates(heads, q, new, heads')
        /\ old # x => heads' = heads
    BY <2>1, <2>2, <2>4, <2>5, Swapped
  <2> QED
    BY <2>2, <2>3, <2>6
<1>8. NoPtr \in MsPtrs
  BY PtrTyped DEF NoPtr
<1>9. heads' \in [QueueIds -> MsPtrs]
  BY <1>1, <1>7 DEF MsTypeOK, Updates
<1>10. head' = [head EXCEPT ![s] = NoPtr] /\ UNCHANGED <<tails, nodePtrs, leftover, tail, msRounds>>
  BY DEF DeqCas
<1>11. CASE heads[q] = head[s]
  <2>1. PICK k \in QueueIds : queueId' = [queueId EXCEPT ![s] = k]
    BY <1>2, <1>11 DEF DeqCas
  <2>2. /\ msOwnedKey' = [msOwnedKey EXCEPT ![s] = n]
        /\ msState' = [msState EXCEPT ![s] = "enqInit"]
        /\ nodePtr' = nodePtr
    BY <1>2, <1>4, <1>11 DEF DeqCas, MsGoto
  <2>3. MsTypeOK'
    BY <1>1, <1>8, <1>9, <1>10, <2>1, <2>2 DEF MsTypeOK, EnqueueStates
  <2>4. MsOthersStay(s)
    BY <1>1, <1>10, <2>1, <2>2 DEF MsOthersStay, MsLocalStays, MsTypeOK
  <2>5. msState'[s] = "enqInit" /\ msOwnedKey'[s] = n /\ nodePtr'[s] = nodePtr[s]
    BY <1>1, <2>2 DEF MsTypeOK
  <2>6. DequeueDone(s)
    BY <1>2, <1>3, <1>4, <1>5, <1>7, <1>10, <1>11, <2>5 DEF DequeueDone
  <2>7. nodePtr[s] = nodePtrs[n]
    BY <1>1, <1>2, <1>3, <1>4, <1>11 DEF HeadKnown
  <2>8. OwnKnown(s)'
    BY <1>10, <2>5, <2>7 DEF OwnKnown
  <2>9. TailKnown(s)' /\ HeadKnown(s)'
    BY <2>5 DEF TailKnown, HeadKnown
  <2> QED
    BY <2>3, <2>4, <2>6, <2>8, <2>9 DEF MsStepOf, MsKnows
<1>12. CASE heads[q] # head[s]
  <2>1. /\ nodePtr' = [nodePtr EXCEPT ![s] = NoPtr]
        /\ msState' = [msState EXCEPT ![s] = "deqReadHead"]
        /\ UNCHANGED <<msOwnedKey, queueId>>
    BY <1>2, <1>12 DEF DeqCas, MsGoto
  <2>2. MsTypeOK'
    BY <1>1, <1>8, <1>9, <1>10, <2>1 DEF MsTypeOK, DequeueStates
  <2>3. MsOthersStay(s)
    BY <1>1, <1>10, <2>1 DEF MsOthersStay, MsLocalStays, MsTypeOK
  <2>4. msState'[s] = "deqReadHead"
    BY <1>1, <2>1 DEF MsTypeOK
  <2>5. StoreLeft(s)
    BY <1>3, <1>7, <1>10, <1>12, <2>1, <2>4 DEF StoreLeft, DequeueStates
  <2>6. MsKnows(s)'
    BY <2>4 DEF MsKnows, OwnKnown, TailKnown, HeadKnown, EnqueueStates
  <2> QED
    BY <2>2, <2>3, <2>5, <2>6 DEF MsStepOf
<1> QED
  BY <1>11, <1>12

\* Every step keeps what holds of the queues.
LEMMA SessionsStep ==
  ASSUME QueuesInv, NEW s \in MsSessions, MsEnqueues(s) \/ MsDequeues(s)
  PROVE  MsTypeOK' /\ MsStepOf(s) /\ MsKnows(s)'
BY EnqInitKeeps, EnqReadTailKeeps, EnqReadLastKeeps, EnqReadTailAgainKeeps, EnqLinkKeeps,
   EnqSwingKeeps, EnqAdvanceKeeps, DeqReadHeadKeeps, DeqReadTailKeeps, DeqReadFirstKeeps,
   DeqReadHeadAgainKeeps, DeqCasKeeps DEF MsEnqueues, MsDequeues

\* The invariant of the queues is kept.
LEMMA QueuesKept == QueuesInv /\ [MsNext]_msVars => QueuesInv'
<1> SUFFICES ASSUME QueuesInv, [MsNext]_msVars PROVE QueuesInv'
  OBVIOUS
<1>1. CASE MsNext
  <2>1. PICK s \in MsSessions : MsEnqueues(s) \/ MsDequeues(s)
    BY <1>1 DEF MsNext
  <2>2. MsTypeOK' /\ MsStepOf(s) /\ MsKnows(s)'
    BY <2>1, SessionsStep
  <2>3. PICK q \in QueueIds : q = queueId[s]
    BY DEF QueuesInv, MsTypeOK
  <2>4. ChainsPlaced'
    BY <2>2, <2>3, ChainsStep
  <2>5. \A k \in QueueIds : TailNear(k)'
    BY <2>2, StepNearMs
  <2>6. \A u \in MsSessions : MsKnows(u)'
    BY <2>2, OthersKnowMs
  <2> QED
    BY <2>2, <2>4, <2>5, <2>6, StepCountsMs DEF QueuesInv
<1>2. CASE UNCHANGED msVars
  <2>1. UNCHANGED <<heads, tails, nodePtrs, leftover, msState, head, tail, nodePtr,
                    msOwnedKey, queueId, msRounds>>
    BY <1>2 DEF msVars, msStore
  <2>2. NodesStay
    BY <2>1 DEF NodesStay, NextNodes, HeadNodes, MsHoldsNow, MsHolds
  <2>3. ChainsPlaced' /\ ChainsNow' = ChainsNow
    BY <2>2, ChainsLeft DEF QueuesInv
  <2>4. MsTypeOK'
    BY <2>1 DEF QueuesInv, MsTypeOK
  <2>5. ChainsCount'
    BY <2>1, <2>3 DEF QueuesInv, ChainsCount, LinkersOf
  <2>6. \A k \in QueueIds : TailNear(k)'
    BY <2>1, <2>3 DEF QueuesInv, TailNear, TailNode, LastNode
  <2>7. \A u \in MsSessions : MsKnows(u)'
    BY <2>1 DEF QueuesInv, MsKnows, OwnKnown, TailKnown, HeadKnown
  <2> QED
    BY <2>3, <2>4, <2>5, <2>6, <2>7 DEF QueuesInv
<1> QED
  BY <1>1, <1>2

\* Behind the dummy nodes come and go as they do on the chain.
LEMMA TailAppended ==
  ASSUME NEW S, NEW c \in Seq(S), c # <<>>, NEW n \in S
  PROVE  Tail(Append(c, n)) = Append(Tail(c), n)
<1>1. PICK m \in Nat : Len(c) = m + 1
  <2>1. Len(c) - 1 \in Nat /\ Len(c) = (Len(c) - 1) + 1
    OBVIOUS
  <2> QED
    BY <2>1
<1>2. PICK t : t = Tail(c)
  OBVIOUS
<1>2a. t \in Seq(S)
  BY <1>2
<1>3. Len(t) = m /\ \A i \in 1..m : t[i] = c[i + 1]
  BY <1>1, <1>2
<1>4. PICK a : a = Append(c, n)
  OBVIOUS
<1>4a. a \in Seq(S)
  BY <1>4
<1>5. Len(a) = m + 2 /\ a[m + 2] = n /\ \A i \in 1..(m + 1) : a[i] = c[i]
  BY <1>1, <1>4
<1>6. PICK x : x = Tail(a)
  OBVIOUS
<1>7. a # <<>>
  BY <1>5
<1>8. x \in Seq(S) /\ Len(x) = m + 1 /\ \A i \in 1..(m + 1) : x[i] = a[i + 1]
  BY <1>4a, <1>5, <1>6, <1>7
<1>9. PICK y : y = Append(t, n)
  OBVIOUS
<1>10. y \in Seq(S) /\ Len(y) = m + 1 /\ y[m + 1] = n /\ \A i \in 1..m : y[i] = t[i]
  BY <1>2a, <1>3, <1>9
<1>11. ASSUME NEW i \in 1..(m + 1) PROVE x[i] = y[i]
  <2>1. CASE i = m + 1
    <3>1. i + 1 = m + 2
      BY <2>1
    <3> QED
      BY <1>5, <1>8, <1>10, <2>1, <3>1
  <2>2. CASE i # m + 1
    <3>1. i \in 1..m /\ i + 1 \in 1..(m + 1)
      BY <2>2
    <3> QED
      BY <1>3, <1>5, <1>8, <1>10, <3>1
  <2> QED
    BY <2>1, <2>2
<1>12. x = y
  BY <1>8, <1>10, <1>11
<1> QED
  BY <1>2, <1>4, <1>6, <1>9, <1>12

\* The queues are empty to begin with, and every session has its node.
LEMMA QueuesInitial ==
  ASSUME MsInit
  PROVE  /\ QueuesInv /\ ChainsNow = [q \in QueueIds |-> <<Dummy(q)>>]
         /\ MsHoldsNow = [s \in MsSessions |-> OwnNode(s)]
         /\ HeadNodes = [q \in QueueIds |-> Dummy(q)]
<1>1. \A q \in QueueIds : Dummy(q) \in MsNodes
  BY DEF MsNodes
<1>2. \A s \in MsSessions : OwnNode(s) \in MsNodes
  BY DEF MsNodes
<1>3. /\ \A s, u \in MsSessions : OwnNode(s) = OwnNode(u) => s = u
      /\ \A q, k \in QueueIds : Dummy(q) = Dummy(k) => q = k
      /\ \A s \in MsSessions, q \in QueueIds : OwnNode(s) # Dummy(q)
  BY DEF OwnNode, Dummy
<1>4. PICK st : st = [q \in QueueIds |-> <<Dummy(q)>>]
  OBVIOUS
<1>5. MsHoldsNow = [s \in MsSessions |-> OwnNode(s)]
  BY DEF MsHoldsNow, MsHolds, MsInit, EnqueueStates
<1>6. HeadNodes = [q \in QueueIds |-> Dummy(q)]
  BY PtrParts DEF HeadNodes, MsInit
<1>7. NextNodes = [n \in MsNodes |-> NoNode]
  <2>1. ASSUME NEW n \in MsNodes PROVE nodePtrs[n].nextKeyId = NoNode
    BY PtrParts DEF MsInit
  <2> QED
    BY <2>1 DEF NextNodes
<1>8. ASSUME NEW q \in QueueIds
      PROVE  /\ st[q] \in Seq(MsNodes) /\ Len(st[q]) = 1 /\ st[q][1] = Dummy(q)
             /\ st[q] # <<>>
             /\ \A x : On(st[q], x) <=> x = Dummy(q)
  <2>1. st[q] = <<Dummy(q)>> /\ Dummy(q) \in MsNodes
    BY <1>1, <1>4
  <2>2. st[q] \in Seq(MsNodes) /\ Len(st[q]) = 1 /\ st[q][1] = Dummy(q)
    BY <2>1
  <2>3. ASSUME NEW x PROVE On(st[q], x) <=> x = Dummy(q)
    BY <2>2 DEF On
  <2> QED
    BY <2>2, <2>3
<1>9. Placed(MsSessions, MsNodes, NoNode, st, HeadNodes, NextNodes, MsHoldsNow)
  <2>1. st \in [MsSessions -> Seq(MsNodes)]
    BY <1>4, <1>8, MsNumbers
  <2>2. /\ HeadNodes \in [MsSessions -> MsNodes \cup {NoNode}] /\ DOMAIN NextNodes = MsNodes
        /\ MsHoldsNow \in [MsSessions -> MsNodes \cup {NoNode}]
    BY <1>1, <1>2, <1>5, <1>6, <1>7, MsNumbers
  <2>3. ASSUME NEW q \in MsSessions
        PROVE  IsChain(st[q], HeadNodes[q], NextNodes, NoNode) /\ IsSimple(st[q])
    <3>1. PICK c \in Seq(MsNodes) : c = st[q] /\ Len(c) = 1 /\ c[1] = Dummy(q)
      BY <1>8, MsNumbers
    <3>2. HeadNodes[q] = Dummy(q) /\ NextNodes[Dummy(q)] = NoNode
      BY <1>1, <1>6, <1>7, MsNumbers
    <3> QED
      BY <3>1, <3>2 DEF IsChain, IsSimple, NodeAt
  <2>4. \A q, k \in MsSessions : \A n \in MsNodes : On(st[q], n) /\ On(st[k], n) => q = k
    <3>1. ASSUME NEW q \in MsSessions, NEW k \in MsSessions, NEW n \in MsNodes,
                 On(st[q], n), On(st[k], n)
          PROVE  q = k
      <4>1. q \in QueueIds /\ k \in QueueIds
        BY MsNumbers
      <4>2. n = Dummy(q) /\ n = Dummy(k)
        BY <1>8, <3>1, <4>1
      <4> QED
        BY <1>3, <4>1, <4>2
    <3> QED
      BY <3>1
  <2>5. \A s, u \in MsSessions : MsHoldsNow[s] # NoNode /\ MsHoldsNow[s] = MsHoldsNow[u] => s = u
    BY <1>3, <1>5
  <2>6. \A s, q \in MsSessions : ~On(st[q], MsHoldsNow[s])
    BY <1>3, <1>5, <1>8, MsNumbers
  <2> QED
    BY <2>1, <2>2, <2>3, <2>4, <2>5, <2>6 DEF Placed
<1>10. ChainsNow = st
  BY <1>9, ChainsFound
<1>11. ChainsPlaced
  BY <1>8, <1>9, <1>10 DEF ChainsPlaced
<1>12. MsTypeOK
  <2>1. NoPtr \in MsPtrs
    BY PtrTyped DEF NoPtr
  <2>2. \A q \in QueueIds : Ptr(Dummy(q), 0) \in MsPtrs
    BY <1>1, PtrTyped
  <2>3. heads \in [QueueIds -> MsPtrs] /\ tails \in [QueueIds -> MsPtrs]
    BY <2>2 DEF MsInit
  <2>4. nodePtrs \in [MsNodes -> MsPtrs]
    <3>1. Ptr(NoNode, 0) \in MsPtrs /\ Ptr(NoNode, 1) \in MsPtrs
      BY PtrTyped
    <3> QED
      BY <3>1 DEF MsInit
  <2>5. msRounds \in 0..MsMaxRounds
    BY QueueAssumption DEF MsInit
  <2> QED
    BY <1>2, <2>1, <2>3, <2>4, <2>5 DEF MsInit, MsTypeOK, EnqueueStates, QueueIds
<1>13. ChainsCount
  <2>1. ASSUME NEW q \in QueueIds PROVE Len(ChainsNow[q]) = Cardinality(LinkersOf(q)) + 1
    <3>1. LinkersOf(q) = {}
      BY DEF LinkersOf, MsInit, DequeueStates
    <3>2. Cardinality(LinkersOf(q)) = 0
      BY <3>1, FS_EmptySet
    <3> QED
      BY <1>8, <1>10, <3>2
  <2> QED
    BY <2>1 DEF ChainsCount
<1>14. ASSUME NEW q \in QueueIds PROVE TailNear(q)
  <2>1. TailNode(q) = Dummy(q)
    BY PtrParts DEF MsInit, TailNode
  <2> QED
    BY <1>8, <1>10, <2>1 DEF TailNear, LastNode
<1>15. ASSUME NEW s \in MsSessions PROVE MsKnows(s)
  <2>1. msState[s] = "enqInit" /\ nodePtr[s].counter = 0 /\ msOwnedKey[s] = OwnNode(s)
    BY PtrParts DEF MsInit, NoPtr
  <2>2. nodePtrs[OwnNode(s)].counter = 0
    <3>1. nodePtrs[OwnNode(s)] = Ptr(NoNode, 0)
      BY <1>2, <1>3 DEF MsInit
    <3> QED
      BY <3>1, PtrParts
  <2> QED
    BY <2>1, <2>2 DEF MsKnows, OwnKnown, TailKnown, HeadKnown
<1> QED
  BY <1>4, <1>5, <1>6, <1>10, <1>11, <1>12, <1>13, <1>14, <1>15 DEF QueuesInv

\* A link is an enqueue, a swap of the head a dequeue, of the queues as they
\* were promised.
LEMMA QueueStepImplements ==
  ASSUME QueuesInv, [MsNext]_msVars
  PROVE  [AbstractQueues!Next]_(AbstractQueues!vars)
<1>1. CASE MsNext
  <2>1. PICK s \in MsSessions : MsEnqueues(s) \/ MsDequeues(s)
    BY <1>1 DEF MsNext
  <2>2. MsTypeOK' /\ MsStepOf(s) /\ MsOthersStay(s) /\ MsTypeOK /\ ChainsPlaced
    BY <2>1, SessionsStep DEF MsStepOf, QueuesInv
  <2>3. PICK q \in QueueIds : q = queueId[s]
    BY <2>2 DEF MsTypeOK
  <2>4. PICK c \in Seq(MsNodes) : c = ChainsNow[q] /\ c # <<>> /\ IsSimple(c)
    BY <2>2, ChainIsOn
  <2>5. PICK qs : qs = [k \in QueueIds |-> Tail(Chain(k))]
    OBVIOUS
  <2>6. /\ \A k \in QueueIds : ChainsNow[k] = Chain(k)
        /\ DOMAIN ChainsNow = QueueIds
    BY DEF ChainsNow
  <2>7. /\ \A k \in QueueIds : ChainsNow'[k] = Chain(k)'
        /\ DOMAIN ChainsNow' = QueueIds
    BY DEF ChainsNow
  <2>8. CASE LinkDone(s)
    <3>1. LinksLast(s, q)
      BY <2>2, <2>3, <2>8, LinkPlaces
    <3>2. PICK n \in MsNodes : n = MsHolds(s) /\ n # NoNode
      BY <2>2, <2>8, WhatIsHeld DEF LinkDone, EnqueueStates
    <3>3. Updates(ChainsNow, q, Append(c, n), ChainsNow')
      BY <2>2, <2>3, <2>4, <2>8, <3>2, ChainsStep
    <3>4. \A k \in QueueIds : Chain(k)' = IF k = q THEN Append(c, n) ELSE Chain(k)
      BY <2>6, <2>7, <3>3 DEF Updates
    <3>5. Tail(Append(c, n)) = Append(Tail(c), n) /\ Tail(c) = qs[q]
      BY <2>4, <2>5, <2>6, TailAppended
    <3>6. \A k \in QueueIds : Tail(Chain(k)') = IF k = q THEN Append(qs[q], n) ELSE qs[k]
      BY <2>5, <3>4, <3>5
    <3>7. [k \in QueueIds |-> Tail(Chain(k)')] = [qs EXCEPT ![q] = Append(qs[q], n)]
      BY <2>5, <3>6
    <3>8. /\ MsHoldsNow[s] # NoNode /\ MsHoldsNow[s] = n
          /\ MsHoldsNow' = [MsHoldsNow EXCEPT ![s] = NoNode]
          /\ HeadNodes' = HeadNodes
      BY <3>1, <3>2 DEF LinksLast, MsHoldsNow, Updates
    <3>9. AbstractQueues!Enqueue(s, q)
      BY <2>5, <3>7, <3>8 DEF AbstractQueues!Enqueue, MsHoldsNow, HeadNodes
    <3> QED
      BY <2>3, <3>9 DEF AbstractQueues!Next
  <2>9. CASE DequeueDone(s)
    <3>1. TakesDummy(s, q)
      BY <2>2, <2>3, <2>9, DequeuePlaces
    <3>2. Updates(ChainsNow, q, Tail(c), ChainsNow')
      BY <2>2, <2>3, <2>4, <2>9, ChainsStep
    <3>3. \A k \in QueueIds : Chain(k)' = IF k = q THEN Tail(c) ELSE Chain(k)
      BY <2>6, <2>7, <3>2 DEF Updates
    <3>4. Tail(c) = qs[q]
      BY <2>4, <2>5, <2>6
    <3>5. [k \in QueueIds |-> Tail(Chain(k)')] = [qs EXCEPT ![q] = Tail(qs[q])]
      <4>1. \A k \in QueueIds : Tail(Chain(k)') = IF k = q THEN Tail(qs[q]) ELSE qs[k]
        BY <2>5, <3>3, <3>4
      <4> QED
        BY <2>5, <4>1
    <3>6. NextNodes[HeadNodes[q]] = Head(qs[q]) /\ qs[q] # <<>>
      <4>1. PICK f : f = HeadNodes[q]
        OBVIOUS
      <4>2. IsChain(c, f, NextNodes, NoNode) /\ f # NoNode
        BY <2>2, <2>4, <4>1, ChainIsOn, MsNumbers
      <4>3. PICK r : r = Tail(c)
        OBVIOUS
      <4>4. PICK x : x = NextNodes[f] /\ x # NoNode
        BY <3>1, <4>1 DEF TakesDummy
      <4>5. IsChain(r, x, NextNodes, NoNode)
        BY <2>4, <4>2, <4>3, <4>4, MsNumbers, ChainPopped
      <4>6. r \in Seq(MsNodes)
        BY <2>4, <4>3, Shortened
      <4>7. r # <<>> /\ x = r[1]
        BY <4>4, <4>5, <4>6, MsNumbers, ChainStarts
      <4>8. Head(r) = r[1]
        BY <4>6, <4>7
      <4> QED
        BY <3>4, <4>1, <4>3, <4>4, <4>7, <4>8
    <3>7. /\ MsHoldsNow[s] = NoNode
          /\ MsHoldsNow' = [MsHoldsNow EXCEPT ![s] = HeadNodes[q]]
          /\ HeadNodes' = [HeadNodes EXCEPT ![q] = Head(qs[q])]
      BY <3>1, <3>6 DEF TakesDummy, MsHoldsNow, Updates
    <3>8. AbstractQueues!Dequeue(s, q)
      BY <2>5, <3>5, <3>6, <3>7 DEF AbstractQueues!Dequeue, MsHoldsNow, HeadNodes
    <3> QED
      BY <2>3, <3>8 DEF AbstractQueues!Next
  <2>10. CASE SwingDone(s) \/ InitDone(s) \/ StoreLeft(s)
    <3>1. ChainsNow' = ChainsNow
      BY <2>2, <2>3, <2>10, ChainsStep
    <3>2. NodesStay \/ ClearsOwn(s)
      BY <2>2, <2>3, <2>10, SwingPlaces, InitPlaces, ReadPlaces
    <3>3. MsHoldsNow' = MsHoldsNow /\ HeadNodes' = HeadNodes
      BY <3>2 DEF NodesStay, ClearsOwn
    <3>4. \A k \in QueueIds : Chain(k)' = Chain(k)
      BY <2>6, <2>7, <3>1
    <3>5. [k \in QueueIds |-> Tail(Chain(k)')] = [k \in QueueIds |-> Tail(Chain(k))]
      BY <3>4
    <3> QED
      BY <3>3, <3>5 DEF AbstractQueues!vars, MsHoldsNow, HeadNodes
  <2> QED
    BY <2>2, <2>8, <2>9, <2>10 DEF MsStepOf
<1>2. CASE UNCHANGED msVars
  <2>1. UNCHANGED <<heads, nodePtrs, msState, msOwnedKey>>
    BY <1>2 DEF msVars, msStore
  <2>2. \A k \in QueueIds : Chain(k)' = Chain(k)
    <3>1. NodesStay
      BY <2>1 DEF NodesStay, HeadNodes, NextNodes, MsHoldsNow, MsHolds
    <3>2. ChainsNow' = ChainsNow
      BY <3>1, ChainsLeft DEF QueuesInv
    <3> QED
      BY <3>2 DEF ChainsNow
  <2>3. [k \in QueueIds |-> Tail(Chain(k)')] = [k \in QueueIds |-> Tail(Chain(k))]
    BY <2>2
  <2>4. MsHoldsNow' = MsHoldsNow /\ HeadNodes' = HeadNodes
    BY <2>1 DEF MsHoldsNow, MsHolds, HeadNodes
  <2> QED
    BY <2>3, <2>4 DEF AbstractQueues!vars, MsHoldsNow, HeadNodes
<1> QED
  BY <1>1, <1>2

\* The queue is one of the clients' programs; the others leave it alone.
LEMMA QueueInitial == ClientsInit => MsInit
BY DEF ClientsInit

\* ... and it alone changes the queues.
LEMMA QueueStep == [ClientsNext]_clientsVars => [MsNext]_msVars
BY DEF ClientsNext, clientsVars, TreiberBlocks, TreiberDebugs, Treiber, Queue, List, TestCase,
   Consumer, otherVars

\* The invariant of the queues holds in every state of the clients.
THEOREM QueuesInvariance == ClientsSpec => []QueuesInv
<1>1. ClientsInit => QueuesInv
  BY QueueInitial, QueuesInitial
<1>2. QueuesInv /\ [ClientsNext]_clientsVars => QueuesInv'
  BY QueueStep, QueuesKept
<1> QED
  BY <1>1, <1>2, PTL DEF ClientsSpec

\* The queues change by whole enqueues and dequeues only, whatever a session
\* has read before its swaps and however late it swings a tail.
THEOREM QueuesImplemented == ClientsSpec => ImplementsQueues
<1>1. ClientsInit => AbstractQueues!Init
  <2> SUFFICES ASSUME ClientsInit PROVE AbstractQueues!Init
    OBVIOUS
  <2>1. /\ ChainsNow = [q \in QueueIds |-> <<Dummy(q)>>]
        /\ MsHoldsNow = [s \in MsSessions |-> OwnNode(s)]
        /\ HeadNodes = [q \in QueueIds |-> Dummy(q)]
    BY QueueInitial, QueuesInitial
  <2>2. ASSUME NEW q \in QueueIds PROVE Tail(Chain(q)) = <<>>
    <3>1. Chain(q) = <<Dummy(q)>>
      BY <2>1 DEF ChainsNow
    <3> QED
      BY <3>1
  <2> QED
    BY <2>1, <2>2 DEF AbstractQueues!Init, MsHoldsNow, HeadNodes
<1>2. QueuesInv /\ [ClientsNext]_clientsVars => [AbstractQueues!Next]_(AbstractQueues!vars)
  BY QueueStep, QueueStepImplements
<1> QED
  BY <1>1, <1>2, QueuesInvariance, PTL DEF ClientsSpec, ImplementsQueues, AbstractQueues!Spec

\* A dequeue finds a node, and the tail where or behind which it looks.
LEMMA DequeuersFind == QueuesInv => DequeueFindsNode
BY DEF QueuesInv, MsKnows, HeadKnown, DequeueFindsNode

\* The assertions of the clients on what they read hold.
THEOREM ClientsAsserted == ClientsSpec => []ClientsAssert
<1>1. StacksAssert /\ QueuesInv => ClientsAssert
  BY DequeuersFind DEF StacksAssert, ClientsAssert
<1> QED
  BY <1>1, StacksAsserted, QueuesInvariance, PTL

----------------------------------------------------------------------------
(* Types of the list client.                                               *)

HmKeys == {NoKey} \cup Heads \cup HmNodes
Purposes == {"ins", "del", "cl"}

HmLocalOK ==
  /\ hmState \in [HmSessions -> HmStates]
  /\ purpose \in [HmSessions -> Purposes]
  /\ prev \in [HmSessions -> HmKeys]
  /\ curr \in [HmSessions -> HmPtrs] /\ next \in [HmSessions -> HmPtrs]
  /\ waits \in [HmSessions -> 0..MaxWaitLoops]
  /\ listId \in [HmSessions -> Lists \cup {NoList}]
  /\ visited \in [HmSessions -> SUBSET Lists]
  /\ hmRounds \in 0..HmMaxRounds

HmStoreOK == ptrs \in [Heads \cup HmNodes -> HmPtrs]

\* A session that reads the pointer of a node has been led to one.
LedToNode(s) == hmState[s] = "readNext" => curr[s].nextKeyId # NoKey

HmInv == HmTypeOK /\ \A s \in HmSessions : LedToNode(s)

\* A step leaves what the other sessions know of their lists.
HmOthersLeft(s) ==
  \A u \in HmSessions \ {s} : hmState'[u] = hmState[u] /\ curr'[u] = curr[u]

\* The keys.
LEMMA HmKeysAre ==
  /\ HmNum \in Nat \ {0} /\ MaxWaitLoops \in Nat /\ HmMaxRounds \in Nat
  /\ HmNum <= HmMaxRounds
  /\ \A s \in HmSessions : MyNode(s) \in HmNodes /\ s \in Lists
  /\ \A l \in Lists : PreNode(l) \in HmNodes /\ HeadKey(l) \in Heads
  /\ \A n \in HmNodes : n # NoKey
BY ListAssumption DEF HmSessions, MyNode, HmNodes, Lists, PreNode, HeadKey, Heads, NoKey

\* The pointers.
LEMMA HmPtrTyped ==
  ASSUME NEW n \in {NoKey} \cup HmNodes, NEW c \in Nat, NEW m \in BOOLEAN,
         NEW l \in Lists \cup {NoList}
  PROVE  HmPtr(n, c, m, l) \in HmPtrs
BY DEF HmPtr, HmPtrs

\* ... and the one that stands for none.
LEMMA NoHmPtrTyped == NoHmPtr \in HmPtrs
BY HmPtrTyped DEF NoHmPtr

\* The fields of a pointer.
LEMMA HmFields ==
  ASSUME NEW p \in HmPtrs
  PROVE  /\ p.nextKeyId \in {NoKey} \cup HmNodes /\ p.counter \in Nat
         /\ p.marked \in BOOLEAN /\ p.listId \in Lists \cup {NoList}
BY DEF HmPtrs

\* The pointer that takes a node out of its list.
LEMMA UnlinkTyped ==
  ASSUME NEW p \in HmPtrs, NEW n \in {NoKey} \cup HmNodes
  PROVE  [p EXCEPT !.counter = @ + 1, !.nextKeyId = n] \in HmPtrs
<1>1. PICK k \in {NoKey} \cup HmNodes, c \in Nat, m \in BOOLEAN, l \in Lists \cup {NoList} :
        p = [nextKeyId |-> k, counter |-> c, marked |-> m, listId |-> l]
  BY DEF HmPtrs
<1>2. PICK x : x = [p EXCEPT !.counter = @ + 1, !.nextKeyId = n]
  OBVIOUS
<1>3. x = [nextKeyId |-> n, counter |-> c + 1, marked |-> m, listId |-> l]
  BY <1>1, <1>2
<1>4. x \in HmPtrs
  BY <1>3 DEF HmPtrs
<1> QED
  BY <1>2, <1>4

\* A swap puts a pointer in.
LEMMA SwapTyped ==
  ASSUME HmStoreOK, NEW k, NEW p, NEW x \in HmPtrs, SwapPtr(k, p, x)
  PROVE  HmStoreOK'
BY DEF HmStoreOK, SwapPtr

\* A search begins anew.
LEMMA SearchAgainTyped ==
  ASSUME HmLocalOK, NEW s \in HmSessions, NEW p \in Purposes, SearchAgain(s, p)
  PROVE  /\ hmState' \in [HmSessions -> HmStates] /\ purpose' \in [HmSessions -> Purposes]
         /\ prev' \in [HmSessions -> HmKeys] /\ curr' \in [HmSessions -> HmPtrs]
         /\ next' \in [HmSessions -> HmPtrs]
         /\ hmState'[s] = "readHead" /\ HmOthersLeft(s)
BY NoHmPtrTyped DEF HmLocalOK, SearchAgain, HmGoto, HmStates, HmKeys, HmOthersLeft

\* A delete is done.
LEMMA FinishDeleteTyped ==
  ASSUME HmLocalOK, NEW s \in HmSessions, FinishDelete(s),
         waits' \in [HmSessions -> 0..MaxWaitLoops]
  PROVE  HmLocalOK' /\ hmState'[s] = "readHead" /\ HmOthersLeft(s)
<1>1. /\ hmState' \in [HmSessions -> HmStates] /\ purpose' \in [HmSessions -> Purposes]
      /\ prev' \in [HmSessions -> HmKeys] /\ curr' \in [HmSessions -> HmPtrs]
      /\ next' \in [HmSessions -> HmPtrs]
      /\ hmState'[s] = "readHead" /\ HmOthersLeft(s)
  BY SearchAgainTyped DEF FinishDelete, Purposes
<1>2. /\ listId' \in [HmSessions -> Lists \cup {NoList}]
      /\ visited' \in [HmSessions -> SUBSET Lists]
      /\ hmRounds' \in 0..HmMaxRounds
  <2>1. CASE hmRounds < HmMaxRounds /\ NextLists(s) # {}
    <3>1. PICK l \in NextLists(s) : /\ listId' = [listId EXCEPT ![s] = l]
                                    /\ visited' = [visited EXCEPT ![s] = @ \cup {l}]
                                    /\ hmRounds' = hmRounds + 1
      BY <2>1 DEF FinishDelete
    <3>2. l \in Lists
      BY DEF NextLists
    <3>3. hmRounds + 1 \in 0..HmMaxRounds
      BY <2>1, HmKeysAre DEF HmLocalOK
    <3> QED
      BY <3>1, <3>2, <3>3 DEF HmLocalOK
  <2>2. CASE ~(hmRounds < HmMaxRounds /\ NextLists(s) # {})
    BY <2>2 DEF FinishDelete, HmLocalOK
  <2> QED
    BY <2>1, <2>2
<1> QED
  BY <1>1, <1>2 DEF HmLocalOK

\* A place is found; whoever cleans up is done with the delete.
LEMMA FoundTyped ==
  ASSUME HmLocalOK, NEW s \in HmSessions, Found(s),
         purpose[s] # "cl" =>
           /\ prev' \in [HmSessions -> HmKeys] /\ curr' \in [HmSessions -> HmPtrs]
           /\ next' \in [HmSessions -> HmPtrs]
           /\ \A u \in HmSessions \ {s} : curr'[u] = curr[u]
  PROVE  HmLocalOK' /\ hmState'[s] # "readNext" /\ HmOthersLeft(s)
<1>1. waits' \in [HmSessions -> 0..MaxWaitLoops]
  BY HmKeysAre DEF Found, HmLocalOK
<1>2. CASE purpose[s] = "cl"
  BY <1>1, <1>2, FinishDeleteTyped DEF Found
<1>3. CASE purpose[s] # "cl"
  <2>1. /\ hmState' \in [HmSessions -> HmStates] /\ hmState'[s] # "readNext"
        /\ \A u \in HmSessions \ {s} : hmState'[u] = hmState[u]
    BY <1>3 DEF Found, HmGoto, HmLocalOK, HmStates
  <2> QED
    BY <1>1, <1>3, <2>1 DEF Found, NotFinished, HmLocalOK, HmOthersLeft
<1> QED
  BY <1>2, <1>3

\* The search goes on from a pointer.
LEMMA GoOnTyped ==
  ASSUME HmLocalOK, NEW s \in HmSessions, NEW k \in HmKeys, NEW p \in HmPtrs, GoOnFrom(s, k, p)
  PROVE  HmLocalOK' /\ LedToNode(s)' /\ HmOthersLeft(s)
<1>1. CASE p.nextKeyId = NoKey /\ purpose[s] = "cl"
  <2>1. Found(s)
    BY <1>1 DEF GoOnFrom
  <2> QED
    BY <1>1, <2>1, FoundTyped DEF LedToNode
<1>2. CASE ~(p.nextKeyId = NoKey /\ purpose[s] = "cl")
  <2>1. /\ prev' = [prev EXCEPT ![s] = k] /\ curr' = [curr EXCEPT ![s] = p]
        /\ next' = [next EXCEPT ![s] = NoHmPtr]
    BY <1>2 DEF GoOnFrom
  <2>2. /\ prev' \in [HmSessions -> HmKeys] /\ curr' \in [HmSessions -> HmPtrs]
        /\ next' \in [HmSessions -> HmPtrs]
        /\ \A u \in HmSessions \ {s} : curr'[u] = curr[u]
        /\ curr'[s] = p
    BY <2>1, NoHmPtrTyped DEF HmLocalOK
  <2>3. CASE p.nextKeyId = NoKey
    <3>1. Found(s)
      BY <1>2, <2>3 DEF GoOnFrom
    <3> QED
      BY <2>2, <3>1, FoundTyped DEF LedToNode
  <2>4. CASE p.nextKeyId # NoKey
    <3>1. HmGoto(s, "readNext") /\ UNCHANGED <<purpose, waits>> /\ NotFinished
      BY <2>4 DEF GoOnFrom
    <3>2. /\ hmState' \in [HmSessions -> HmStates]
          /\ \A u \in HmSessions \ {s} : hmState'[u] = hmState[u]
      BY <3>1 DEF HmGoto, HmLocalOK, HmStates
    <3> QED
      BY <2>2, <2>4, <3>1, <3>2 DEF HmLocalOK, NotFinished, LedToNode, HmOthersLeft
  <2> QED
    BY <2>3, <2>4
<1> QED
  BY <1>1, <1>2

\* Steps that change no pointer.
LEMMA SearchesTyped ==
  ASSUME HmInv, NEW s \in HmSessions, ReadHead(s) \/ ReadNext(s) \/ ReadCurrAgain(s)
  PROVE  HmTypeOK' /\ LedToNode(s)' /\ HmOthersLeft(s)
<1>1. HmLocalOK /\ HmStoreOK /\ LedToNode(s)
  BY DEF HmInv, HmTypeOK, HmLocalOK, HmStoreOK, HmKeys, Purposes
<1>2. UNCHANGED ptrs
  BY DEF ReadHead, ReadNext, ReadCurrAgain
<1>3. HmLocalOK' /\ LedToNode(s)' /\ HmOthersLeft(s)
  <2>1. CASE ReadHead(s)
    <3>1. PICK k : k = HeadKey(listId[s])
      OBVIOUS
    <3>2. k \in Heads
      BY <1>1, <2>1, <3>1, HmKeysAre DEF ReadHead, HmLocalOK
    <3>3. k \in HmKeys /\ ptrs[k] \in HmPtrs
      BY <1>1, <3>2 DEF HmKeys, HmStoreOK
    <3>4. GoOnFrom(s, k, ptrs[k])
      BY <2>1, <3>1 DEF ReadHead
    <3> QED
      BY <1>1, <3>3, <3>4, GoOnTyped
  <2>2. CASE ReadNext(s)
    <3>1. curr[s].nextKeyId \in HmNodes
      BY <1>1, <2>2, HmFields DEF LedToNode, ReadNext, HmLocalOK
    <3>2. ptrs[curr[s].nextKeyId] \in HmPtrs
      BY <1>1, <3>1 DEF HmStoreOK
    <3> QED
      BY <1>1, <2>2, <3>2 DEF ReadNext, HmGoto, HmLocalOK, HmStates, LedToNode, HmOthersLeft
  <2>3. CASE ReadCurrAgain(s)
    <3>1. curr[s] \in HmPtrs /\ next[s] \in HmPtrs /\ purpose[s] \in Purposes
      BY <1>1 DEF HmLocalOK
    <3>2. CASE ~SameHmPtr(curr[s], ptrs[prev[s]])
      <4>1. SearchAgain(s, purpose[s]) /\ UNCHANGED waits /\ NotFinished
        BY <2>3, <3>2 DEF ReadCurrAgain
      <4> QED
        BY <1>1, <3>1, <4>1, SearchAgainTyped DEF HmLocalOK, NotFinished, LedToNode
    <3>3. CASE SameHmPtr(curr[s], ptrs[prev[s]]) /\ next[s].marked /\ MayHelp(s)
      <4>1. /\ HmGoto(s, "help") /\ waits' = [waits EXCEPT ![s] = 0]
            /\ UNCHANGED <<purpose, prev, curr, next>> /\ NotFinished
        BY <2>3, <3>3 DEF ReadCurrAgain
      <4> QED
        BY <1>1, <4>1, HmKeysAre DEF HmLocalOK, NotFinished, HmGoto, HmStates, LedToNode,
           HmOthersLeft
    <3>4. CASE SameHmPtr(curr[s], ptrs[prev[s]]) /\ next[s].marked /\ ~MayHelp(s)
      <4>1. /\ SearchAgain(s, purpose[s]) /\ waits' = [waits EXCEPT ![s] = @ + 1]
            /\ NotFinished
        BY <2>3, <3>4 DEF ReadCurrAgain
      <4>2. waits[s] + 1 \in 0..MaxWaitLoops
        BY <1>1, <3>4, HmKeysAre DEF MayHelp, HmLocalOK
      <4>3. waits' \in [HmSessions -> 0..MaxWaitLoops]
        BY <1>1, <4>1, <4>2 DEF HmLocalOK
      <4> QED
        BY <1>1, <3>1, <4>1, <4>3, SearchAgainTyped DEF HmLocalOK, NotFinished, LedToNode
    <3>5. CASE /\ SameHmPtr(curr[s], ptrs[prev[s]]) /\ ~next[s].marked
               /\ ~ComesBefore(s, curr[s].nextKeyId)
      <4>1. Found(s) /\ (purpose[s] # "cl" => UNCHANGED <<prev, curr, next>>)
        BY <2>3, <3>5 DEF ReadCurrAgain
      <4> QED
        BY <1>1, <4>1, FoundTyped DEF HmLocalOK, LedToNode
    <3>6. CASE /\ SameHmPtr(curr[s], ptrs[prev[s]]) /\ ~next[s].marked
               /\ ComesBefore(s, curr[s].nextKeyId)
      <4>1. GoOnFrom(s, curr[s].nextKeyId, next[s])
        BY <2>3, <3>6 DEF ReadCurrAgain
      <4>2. curr[s].nextKeyId \in HmKeys
        BY <3>1, HmFields DEF HmKeys
      <4> QED
        BY <1>1, <3>1, <4>1, <4>2, GoOnTyped
    <3> QED
      BY <3>2, <3>3, <3>4, <3>5, <3>6
  <2> QED
    BY <2>1, <2>2, <2>3
<1> QED
  BY <1>1, <1>2, <1>3 DEF HmTypeOK, HmLocalOK, HmStoreOK, HmKeys, Purposes

\* Steps that write or swap a pointer.
LEMMA SwapsTyped ==
  ASSUME HmInv, NEW s \in HmSessions, Help(s) \/ WriteNode(s) \/ Link(s) \/ Mark(s) \/ Unlink(s)
  PROVE  HmTypeOK' /\ LedToNode(s)' /\ HmOthersLeft(s)
<1>1. HmLocalOK /\ HmStoreOK /\ LedToNode(s)
  BY DEF HmInv, HmTypeOK, HmLocalOK, HmStoreOK, HmKeys, Purposes
<1>2. /\ curr[s] \in HmPtrs /\ next[s] \in HmPtrs /\ purpose[s] \in Purposes
      /\ listId[s] \in Lists \cup {NoList}
  BY <1>1 DEF HmLocalOK
<1>3. /\ curr[s].nextKeyId \in {NoKey} \cup HmNodes /\ curr[s].counter \in Nat
      /\ next[s].nextKeyId \in {NoKey} \cup HmNodes
  BY <1>2, HmFields
<1>4. [curr[s] EXCEPT !.counter = @ + 1, !.nextKeyId = next[s].nextKeyId] \in HmPtrs
  BY <1>2, <1>3, UnlinkTyped
<1>5. HmLocalOK' /\ HmStoreOK' /\ LedToNode(s)' /\ HmOthersLeft(s)
  <2>1. CASE Help(s)
    <3>1. HmStoreOK'
      BY <1>1, <1>4, <2>1, SwapTyped DEF Help
    <3>2. SearchAgain(s, purpose[s]) /\ UNCHANGED waits /\ NotFinished
      BY <2>1 DEF Help
    <3> QED
      BY <1>1, <1>2, <3>1, <3>2, SearchAgainTyped DEF HmLocalOK, NotFinished, LedToNode
  <2>2. CASE WriteNode(s)
    <3>1. HmPtr(curr[s].nextKeyId, 0, FALSE, listId[s]) \in HmPtrs
      BY <1>2, <1>3, HmPtrTyped
    <3>2. HmStoreOK'
      BY <1>1, <2>2, <3>1 DEF WriteNode, HmStoreOK
    <3>3. HmLocalOK' /\ HmOthersLeft(s) /\ hmState'[s] = "link"
      BY <1>1, <2>2, NoHmPtrTyped DEF WriteNode, HmGoto, HmLocalOK, HmStates, HmOthersLeft
    <3> QED
      BY <3>2, <3>3 DEF LedToNode
  <2>3. CASE Link(s)
    <3>1. HmPtr(MyNode(s), curr[s].counter + 1, FALSE, listId[s]) \in HmPtrs
      <4>1. MyNode(s) \in {NoKey} \cup HmNodes /\ curr[s].counter + 1 \in Nat
        BY <1>3, HmKeysAre
      <4> QED
        BY <1>2, <4>1, HmPtrTyped
    <3>2. HmStoreOK'
      BY <1>1, <2>3, <3>1, SwapTyped DEF Link
    <3>3. PICK p \in Purposes : SearchAgain(s, p) /\ UNCHANGED waits /\ NotFinished
      BY <2>3 DEF Link, Purposes
    <3> QED
      BY <1>1, <3>2, <3>3, SearchAgainTyped DEF HmLocalOK, NotFinished, LedToNode
  <2>4. CASE Mark(s)
    <3>1. HmPtr(next[s].nextKeyId, 0, TRUE, listId[s]) \in HmPtrs
      BY <1>2, <1>3, HmPtrTyped
    <3>2. HmStoreOK'
      BY <1>1, <2>4, <3>1, SwapTyped DEF Mark
    <3>3. UNCHANGED waits /\ NotFinished
      BY <2>4 DEF Mark
    <3>4. CASE HmGoto(s, "unlink") /\ UNCHANGED <<purpose, prev, curr, next>>
      <4>1. HmLocalOK' /\ HmOthersLeft(s) /\ hmState'[s] = "unlink"
        BY <1>1, <3>3, <3>4 DEF HmGoto, HmLocalOK, HmStates, NotFinished, HmOthersLeft
      <4> QED
        BY <3>2, <4>1 DEF LedToNode
    <3>5. CASE SearchAgain(s, "del")
      BY <1>1, <3>2, <3>3, <3>5, SearchAgainTyped DEF HmLocalOK, NotFinished, LedToNode, Purposes
    <3> QED
      BY <2>4, <3>4, <3>5 DEF Mark
  <2>5. CASE Unlink(s)
    <3>1. HmStoreOK'
      BY <1>1, <1>4, <2>5, SwapTyped DEF Unlink
    <3>2. UNCHANGED waits
      BY <2>5 DEF Unlink
    <3>3. CASE FinishDelete(s)
      BY <1>1, <3>1, <3>2, <3>3, FinishDeleteTyped DEF HmLocalOK, LedToNode
    <3>4. CASE SearchAgain(s, "cl") /\ NotFinished
      BY <1>1, <3>1, <3>2, <3>4, SearchAgainTyped DEF HmLocalOK, NotFinished, LedToNode, Purposes
    <3> QED
      BY <2>5, <3>3, <3>4 DEF Unlink
  <2> QED
    BY <2>1, <2>2, <2>3, <2>4, <2>5
<1> QED
  BY <1>5 DEF HmTypeOK, HmLocalOK, HmStoreOK, HmKeys, Purposes

\* The list client keeps its types.
LEMMA HmKept == HmInv /\ [HmNext]_hmVars => HmInv'
<1> SUFFICES ASSUME HmInv, [HmNext]_hmVars PROVE HmInv'
  OBVIOUS
<1>1. CASE HmNext
  <2>1. PICK s \in HmSessions : HmRuns(s)
    BY <1>1 DEF HmNext
  <2>2. HmTypeOK' /\ LedToNode(s)' /\ HmOthersLeft(s)
    BY <2>1, SearchesTyped, SwapsTyped DEF HmRuns
  <2>3. ASSUME NEW u \in HmSessions PROVE LedToNode(u)'
    BY <2>2 DEF HmInv, LedToNode, HmOthersLeft
  <2> QED
    BY <2>2, <2>3 DEF HmInv
<1>2. CASE UNCHANGED hmVars
  BY <1>2 DEF HmInv, HmTypeOK, LedToNode, hmVars, hmLocal
<1> QED
  BY <1>1, <1>2

\* The lists are set up.
LEMMA HmInitial == HmInit => HmInv
<1> SUFFICES ASSUME HmInit PROVE HmInv
  OBVIOUS
<1>1. ASSUME NEW k \in Heads \cup HmNodes PROVE ptrs[k] \in HmPtrs
  <2>1. CASE k \in Heads
    <3>1. k \in Lists /\ PreNode(k) \in {NoKey} \cup HmNodes
      BY <2>1, HmKeysAre DEF Heads, HeadKey
    <3>2. ptrs[k] = HmPtr(PreNode(k), 0, FALSE, k)
      BY <2>1 DEF HmInit
    <3> QED
      BY <3>1, <3>2, HmPtrTyped
  <2>2. CASE k \notin Heads
    <3>1. PICK l : l = IF k <= 2 * HmNum THEN k - HmNum ELSE NoList
      OBVIOUS
    <3>2. k \in HmNodes
      BY <2>2
    <3>3. l \in Lists \cup {NoList}
      BY <3>1, <3>2, HmKeysAre DEF HmNodes, Lists
    <3>4. ptrs[k] = HmPtr(NoKey, 0, FALSE, l)
      BY <2>2, <3>1 DEF HmInit
    <3> QED
      BY <3>3, <3>4, HmPtrTyped
  <2> QED
    BY <2>1, <2>2
<1>2. ptrs \in [Heads \cup HmNodes -> HmPtrs]
  BY <1>1 DEF HmInit
<1>3. hmRounds \in 0..HmMaxRounds /\ waits \in [HmSessions -> 0..MaxWaitLoops]
  BY HmKeysAre DEF HmInit
<1>4. /\ listId \in [HmSessions -> Lists \cup {NoList}]
      /\ visited \in [HmSessions -> SUBSET Lists]
  BY HmKeysAre DEF HmInit
<1>5. /\ hmState \in [HmSessions -> HmStates]
      /\ purpose \in [HmSessions -> {"ins", "del", "cl"}]
      /\ prev \in [HmSessions -> {NoKey} \cup Heads \cup HmNodes]
      /\ curr \in [HmSessions -> HmPtrs] /\ next \in [HmSessions -> HmPtrs]
  BY NoHmPtrTyped DEF HmInit, HmStates
<1>6. \A s \in HmSessions : LedToNode(s)
  BY DEF HmInit, LedToNode
<1> QED
  BY <1>2, <1>3, <1>4, <1>5, <1>6 DEF HmInv, HmTypeOK

----------------------------------------------------------------------------
(* Types of the clients with flags, as far as their invariant leaves them  *)
(* open.                                                                   *)

KeyValues(k) == IF k[1] = "flag" THEN {0, 1} ELSE Machines \cup {Nobody}
ValuesFit == \A k \in CircKeys : \A i \in 1..Len(written[k]) : written[k][i].value \in KeyValues(k)

FlagsBounded ==
  /\ turns \in 0..MaxTurns
  /\ \A m \in Machines : relNum[m] \in 0..PcMaxTurns
  /\ mode = "TEST_CASE" => ValuesFit

\* The values of flags and items.
LEMMA KeyValuesAre ==
  /\ \A m \in Machines : KeyValues(Flag(m)) = {0, 1} /\ Flag(m) \in CircKeys
  /\ \A i \in 1..RelaxedWrites :
       KeyValues(Item(i)) = Machines \cup {Nobody} /\ Item(i) \in CircKeys
  /\ \A m \in Machines : m \in Nat
BY MachineAssumption DEF KeyValues, Flag, Item, CircKeys, Machines

\* A write of a value that fits.
LEMMA PutFits ==
  ASSUME StoreOK(Keys), ValuesFit, NEW m \in Machines, NEW k \in Keys, NEW v \in Nat,
         v \in KeyValues(k), NEW view \in Views(Keys), ViewFits(view), Put(m, k, v, view)
  PROVE  ValuesFit'
<1> SUFFICES ASSUME NEW j \in CircKeys, NEW i \in 1..Len(written'[j])
             PROVE  written'[j][i].value \in KeyValues(j)
  BY DEF ValuesFit
<1>1. /\ StoreOK(Keys)' /\ Last(k)' = v
      /\ Len(written'[k]) = Len(written[k]) + 1
      /\ \A l \in 1..Len(written[k]) : written'[k][l] = written[k][l]
      /\ \A l \in Keys : l # k => written'[l] = written[l]
  BY PutStore
<1>2. CASE j # k
  BY <1>1, <1>2 DEF ValuesFit, Keys
<1>3. CASE j = k
  <2>1. Len(written[k]) \in Nat
    BY DEF StoreOK
  <2>2. written'[k][Len(written[k]) + 1].value = v
    BY <1>1 DEF Last
  <2>3. CASE i = Len(written[k]) + 1
    BY <1>3, <2>2, <2>3
  <2>4. CASE i # Len(written[k]) + 1
    <3>1. i \in 1..Len(written[k])
      BY <1>1, <1>3, <2>1, <2>4
    <3> QED
      BY <1>1, <1>3, <3>1 DEF ValuesFit
  <2> QED
    BY <2>3, <2>4
<1> QED
  BY <1>2, <1>3

\* The test client writes 0 and 1 to flags, and its machine to items.
LEMMA RingKeepsValues ==
  ASSUME StoreOK(Keys), CircInv, ValuesFit, turns \in 0..MaxTurns, CircNext
  PROVE  ValuesFit' /\ turns' \in 0..MaxTurns
<1>1. PICK m \in Machines : Kick(m) \/ AcquireFlag(m) \/ ReadItem(m) \/ WriteItem(m)
                              \/ ResetFlag(m) \/ ReleaseFlag(m)
  BY DEF CircNext
<1>2. index[m] \in 1..RelaxedWrites /\ m \in Nat /\ PrevMachine(m) \in Machines
  BY KeyValuesAre, Ring DEF CircInv, CircShape
<1>3. NoView \in Views(Keys) /\ ViewFits(NoView)
  BY NoViewFits
<1>4. CircKeys \subseteq Keys
  BY DEF Keys
<1>5. CASE Kick(m) \/ WriteItem(m)
  <2>1. PICK k : k = Item(index[m])
    OBVIOUS
  <2>2. k \in Keys /\ m \in KeyValues(k)
    BY <1>2, <1>4, <2>1, KeyValuesAre
  <2>3. Put(m, k, m, NoView) /\ turns' = turns
    BY <1>5, <2>1 DEF Kick, WriteItem, Write, Advance
  <2>4. ValuesFit'
    BY <1>2, <1>3, <2>2, <2>3, PutFits
  <2> QED
    BY <2>3, <2>4
<1>6. CASE ResetFlag(m)
  <2>1. PICK k : k = Flag(PrevMachine(m))
    OBVIOUS
  <2>2. k \in Keys /\ 0 \in KeyValues(k)
    BY <1>2, <1>4, <2>1, KeyValuesAre
  <2>3. Put(m, k, 0, NoView) /\ turns' = turns
    BY <1>6, <2>1 DEF ResetFlag, Write
  <2>4. ValuesFit'
    BY <1>3, <2>2, <2>3, PutFits
  <2> QED
    BY <2>3, <2>4
<1>7. CASE ReleaseFlag(m)
  <2>1. PICK k : k = Flag(m)
    OBVIOUS
  <2>2. k \in Keys /\ 1 \in KeyValues(k)
    BY <1>4, <2>1, KeyValuesAre
  <2>3. Put(m, k, 1, seen[m]) /\ turns < MaxTurns /\ turns' = turns + 1
    BY <1>7, <2>1 DEF ReleaseFlag, Release
  <2>4. seen[m] \in Views(Keys) /\ ViewFits(seen[m])
    BY OwnViewFits
  <2>5. ValuesFit'
    BY <2>2, <2>3, <2>4, PutFits
  <2>6. turns' \in 0..MaxTurns
    BY <2>3, CircularAssumption
  <2> QED
    BY <2>5, <2>6
<1>8. CASE AcquireFlag(m) \/ ReadItem(m)
  <2>1. written' = written /\ turns' = turns
    BY <1>8 DEF AcquireFlag, ReadItem, Acquire, ReadFrom, Advance
  <2> QED
    BY <2>1 DEF ValuesFit
<1> QED
  BY <1>1, <1>5, <1>6, <1>7, <1>8

\* The bounds are kept.
LEMMA FlagsStep ==
  ASSUME ClientsInv, FlagsBounded, [ClientsNext]_clientsVars
  PROVE  FlagsBounded'
<1>1. CASE TestCase /\ mode' = mode
  <2>1. mode = "TEST_CASE" /\ CircNext /\ UNCHANGED pcOwn
    BY <1>1 DEF TestCase
  <2>2. ValuesFit' /\ turns' \in 0..MaxTurns
    BY <2>1, RingKeepsValues DEF ClientsInv, FlagsBounded
  <2> QED
    BY <2>1, <2>2 DEF pcOwn, FlagsBounded
<1>2. CASE Consumer /\ mode' = mode
  <2>1. mode = "PRODUCER_CONSUMER" /\ PcNext /\ UNCHANGED circOwn /\ PcShape
    BY <1>2 DEF Consumer, ClientsInv, PcInv
  <2>2. ASSUME NEW n \in Machines PROVE relNum'[n] \in 0..PcMaxTurns
    <3>1. PICK m \in Machines : InitWrite(m) \/ PollFlag(m) \/ PcAcquire(m) \/ PcRead(m)
                                  \/ PcWrite(m) \/ PcRelease(m)
      BY <2>1 DEF PcNext
    <3>2. CASE PcRelease(m)
      <4>1. relNum[m] < PcMaxTurns /\ relNum' = [relNum EXCEPT ![m] = @ + 1]
        BY <3>2 DEF PcRelease
      <4> QED
        BY <2>1, <4>1, PcAssumption DEF PcShape, FlagsBounded
    <3>3. CASE InitWrite(m) \/ PollFlag(m) \/ PcAcquire(m) \/ PcRead(m) \/ PcWrite(m)
      BY <3>3 DEF InitWrite, PollFlag, PcAcquire, PcRead, PcWrite, FlagsBounded
    <3> QED
      BY <3>1, <3>2, <3>3
  <2> QED
    BY <1>2, <2>1, <2>2 DEF circOwn, FlagsBounded
<1>3. CASE UNCHANGED <<mode, rsVars, circOwn, pcOwn>>
  BY <1>3 DEF rsVars, circOwn, pcOwn, FlagsBounded, ValuesFit
<1> QED
  BY <1>1, <1>2, <1>3 DEF ClientsNext, clientsVars, TreiberBlocks, TreiberDebugs, Treiber,
     Queue, List, TestCase, Consumer, otherVars, rsVars, circOwn, pcOwn

\* The bounds to begin with.
LEMMA FlagsInitial == ClientsInit => FlagsBounded
<1> SUFFICES ASSUME ClientsInit PROVE FlagsBounded
  OBVIOUS
<1>1. turns \in 0..MaxTurns /\ \A m \in Machines : relNum[m] \in 0..PcMaxTurns
  BY CircularAssumption, PcAssumption DEF ClientsInit, CircOwnInit, PcOwnInit
<1>2. ASSUME NEW k \in CircKeys, NEW i \in 1..Len(written[k])
      PROVE  written[k][i].value \in KeyValues(k)
  <2>1. PICK f : f = FirstValues[k]
    OBVIOUS
  <2>2. PICK e : e = [value |-> f, view |-> NoView]
    OBVIOUS
  <2>3. written[k] = <<e>>
    BY <2>1, <2>2 DEF ClientsInit, RsInit, FirstValues
  <2>4. written[k][i] = e
    BY <2>3
  <2>5. f = IF k[1] = "flag" THEN 0 ELSE Nobody
    BY <2>1 DEF FirstValues, CircFirst
  <2> QED
    BY <2>2, <2>4, <2>5 DEF KeyValues
<1> QED
  BY <1>1, <1>2 DEF FlagsBounded, ValuesFit

\* The types of the two clients with flags.
LEMMA FlagsTyped ==
  ASSUME ClientsInv, FlagsBounded
  PROVE  /\ mode = "TEST_CASE" => CircTypeOK
         /\ mode = "PRODUCER_CONSUMER" => PcTypeOK
<1>1. /\ StoreOK(Keys) /\ CircKeys \subseteq Keys /\ PcKeys \subseteq Keys
  BY DEF ClientsInv, Keys
<1>2. ASSUME NEW k \in Keys
      PROVE  /\ DOMAIN written[k] = 1..Len(written[k])
             /\ \A i \in DOMAIN written[k] :
                  /\ written[k][i].value \in Nat
                  /\ \A j \in DOMAIN written[k][i].view :
                       written[k][i].view[j] \in DOMAIN written[j]
             /\ \A m \in Machines : seen[m][k] \in DOMAIN written[k]
  <2>1. \A j \in Keys : written[j] \in Seq(Entries(Keys)) /\ DOMAIN written[j] = 1..Len(written[j])
    BY <1>1 DEF StoreOK
  <2>2. \A m \in Machines : seen[m][k] \in DOMAIN written[k]
    BY <1>1, <2>1 DEF StoreOK
  <2>3. ASSUME NEW i \in DOMAIN written[k]
        PROVE  /\ written[k][i].value \in Nat
               /\ \A j \in DOMAIN written[k][i].view :
                    written[k][i].view[j] \in DOMAIN written[j]
    <3>1. PICK e \in Entries(Keys) : e = written[k][i]
      BY <2>1
    <3>2. e.value \in Nat /\ e.view \in Views(Keys)
      BY <3>1 DEF Entries
    <3>3. ViewFits(e.view)
      BY <1>1, <2>1, <3>1 DEF StoreOK
    <3>4. DOMAIN e.view \subseteq Keys
      BY <3>2 DEF Views, NoView
    <3> QED
      BY <2>1, <3>1, <3>2, <3>3, <3>4 DEF ViewFits
  <2> QED
    BY <2>1, <2>2, <2>3
<1>3. ASSUME mode = "TEST_CASE" PROVE CircTypeOK
  <2>1. ASSUME NEW k \in CircKeys, NEW i \in DOMAIN written[k]
        PROVE  written[k][i].value \in IF k[1] = "flag" THEN {0, 1} ELSE Machines \cup {Nobody}
    BY <1>1, <1>2, <1>3 DEF FlagsBounded, ValuesFit, KeyValues
  <2>2. /\ step \in [Machines -> {"kick", "acquire", "read", "write", "reset", "release"}]
        /\ index \in [Machines -> 1..RelaxedWrites]
    BY <1>3 DEF ClientsInv, CircInv, CircShape, CircSteps
  <2> QED
    BY <1>1, <1>2, <2>1, <2>2 DEF CircTypeOK, FlagsBounded
<1>4. ASSUME mode = "PRODUCER_CONSUMER" PROVE PcTypeOK
  <2>1. /\ pcStep \in [Machines -> {"initWrite", "poll", "acquire", "read", "write", "release"}]
        /\ pcIndex \in [Machines -> 1..PcWrites]
        /\ acqNum \in [Machines -> Nat] /\ relNum \in [Machines -> 0..PcMaxTurns]
        /\ timesWritten \in [Machines -> Nat]
    BY <1>4 DEF ClientsInv, PcInv, PcShape, PcSteps, FlagsBounded
  <2> QED
    BY <1>1, <1>2, <2>1 DEF PcTypeOK
<1> QED
  BY <1>3, <1>4

\* The types of what a client is compiled with, in every mode.
THEOREM ClientsTyped == ClientsSpec => []ClientsTypeOK
<1>1. ClientsInit => mode \in Modes /\ HmInv /\ FlagsBounded
  BY HmInitial, FlagsInitial DEF ClientsInit
<1>2. /\ mode \in Modes /\ HmInv /\ FlagsBounded /\ ClientsInv
      /\ [ClientsNext]_clientsVars
      => (mode \in Modes /\ HmInv /\ FlagsBounded)'
  <2>1. [ClientsNext]_clientsVars => [HmNext]_hmVars /\ mode' = mode
    BY DEF ClientsNext, clientsVars, TreiberBlocks, TreiberDebugs, Treiber, Queue, List,
       TestCase, Consumer, otherVars
  <2> QED
    BY <2>1, HmKept, FlagsStep
<1>3. /\ mode \in Modes /\ HmInv /\ FlagsBounded /\ ClientsInv /\ StacksInv /\ QueuesInv
      => ClientsTypeOK
  BY FlagsTyped DEF HmInv, StacksInv, QueuesInv, ClientsTypeOK
<1> QED
  BY <1>1, <1>2, <1>3, ClientsInvariance, StacksInvariance, QueuesInvariance, PTL
     DEF ClientsSpec
=============================================================================
