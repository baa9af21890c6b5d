-------------------------- MODULE SendQueueProofs --------------------------
(***************************************************************************)
(* That the worker never waits for the completion of a message that it has *)
(* not posted (PollAnswered of SendQueue), that what it posts is what it has*)
(* forged (ChainIsBroadcast), and that the card's send queue never holds more*)
(* than two periods of signals and part of a batch (QueueIsBounded), for any*)
(* number of machines, any batch of broadcasts and any MIN_SS_BATCH; and when*)
(* that is no more than its depth (SendQueueFits).                         *)
(***************************************************************************)
EXTENDS SendQueue, SumTheorems

\* The variables the argument counts with have their types.
CountersOK ==
  /\ sentTx \in 0..(SsBatch - 1)
  /\ toSend \in Nat
  /\ brI \in 0..MaxBcastBatch
  /\ pc \in {"idle", "forge", "poll", "post"}

\* Where the worker is says how far the batch and the period of signals are.
PhaseFits ==
  /\ pc = "forge" => brI < MaxBcastBatch /\ toSend > 0
  /\ pc = "poll" => sentTx = SsBatch - 1
  /\ pc = "idle" => brI = 0

\* A flag that is not posted was set in this batch: since then, as many
\* broadcasts have been forged as sent_tx counts.
FlagIsRecent == signaled => 1 <= sentTx /\ sentTx <= brI

\* From the signaled broadcast to the wait for it there is a signaled message,
\* in the send queue or in the list that is not posted.
SignalOnItsWay ==
  (1 <= sentTx /\ sentTx <= SsBatch - 2) \/ pc = "poll"
     => signaled \/ signals # {}

IInv == CountersOK /\ PhaseFits /\ FlagIsRecent /\ SignalOnItsWay

----------------------------------------------------------------------------

\* The period of signals outlasts a batch by two broadcasts.
LEMMA SsBatchLarge == SsBatch \in Nat /\ SsBatch >= MaxBcastBatch + 2
<1>1. MinSsBatch \div RemMachNum \in Int
  BY QueueAssumption
<1> QED
  BY <1>1, QueueAssumption DEF SsBatch

\* The invariant holds initially: nothing is flagged or forged.
LEMMA InitInv == Init => IInv
<1> SUFFICES ASSUME Init PROVE IInv
  OBVIOUS
<1>1. sentTx = 0 /\ toSend = 0 /\ brI = 0 /\ pc = "idle"
  BY DEF Init
<1>2. ~signaled
  BY DEF Init
<1>3. CountersOK
  BY <1>1, SsBatchLarge, QueueAssumption DEF CountersOK
<1>4. PhaseFits /\ FlagIsRecent /\ SignalOnItsWay
  BY <1>1, <1>2 DEF PhaseFits, FlagIsRecent, SignalOnItsWay
<1> QED
  BY <1>3, <1>4 DEF IInv

\* sent_tx modulo ss_batch after one more broadcast.
LEMMA NextTx ==
  ASSUME sentTx \in 0..(SsBatch - 1)
  PROVE  (sentTx + 1) % SsBatch = IF sentTx = SsBatch - 1 THEN 0 ELSE sentTx + 1
BY SsBatchLarge, QueueAssumption

\* It is only in mid-period, at no multiple of ss_batch, that sent_tx is not 0.
LEMMA ThisTx ==
  ASSUME sentTx \in 0..(SsBatch - 1)
  PROVE  sentTx % SsBatch = sentTx
BY SsBatchLarge, QueueAssumption

\* A step of the worker keeps the invariant.
LEMMA StepInv == IInv /\ [Next]_vars => IInv'
<1> SUFFICES ASSUME IInv, [Next]_vars PROVE IInv'
  OBVIOUS
<1> USE DEF IInv, CountersOK, PhaseFits, FlagIsRecent, SignalOnItsWay
<1>1. ASSUME NEW act \in SUBSET RmIds, Reconfigure(act) PROVE IInv'
  BY <1>1 DEF Reconfigure
<1>2. ASSUME NEW n \in 1..MaxMessages, SendBroadcasts(n) PROVE IInv'
  BY <1>2, QueueAssumption DEF SendBroadcasts
<1>3. CASE Forge
  <2>1. PollDue(sentTx + 1) <=> sentTx' = SsBatch - 1
    BY <1>3 DEF Forge, PollDue
  <2>2. sentTx' = IF sentTx = SsBatch - 1 THEN 0 ELSE sentTx + 1
    BY <1>3, NextTx DEF Forge
  <2>3. signaled' = (signaled \/ sentTx = 0)
    BY <1>3, ThisTx DEF Forge
  <2>4. brI' = brI + 1 /\ toSend' = toSend - 1 /\ signals' = signals
    BY <1>3 DEF Forge
  <2>5. pc' = IF sentTx' = SsBatch - 1 THEN "poll"
              ELSE IF brI' = MaxBcastBatch \/ toSend' = 0 THEN "post" ELSE "forge"
    BY <1>3, <2>1, <2>4 DEF Forge, AfterForge
  <2>6. brI < MaxBcastBatch /\ toSend > 0
    BY <1>3 DEF Forge
  <2>7. CountersOK'
    BY <2>2, <2>3, <2>4, <2>5, <2>6, SsBatchLarge, QueueAssumption
  <2>8. PhaseFits'
    BY <2>4, <2>5, <2>6, QueueAssumption
  <2>9. FlagIsRecent'
    <3>1. CASE sentTx = 0
      BY <2>2, <2>4, <3>1, SsBatchLarge, QueueAssumption
    <3>2. CASE signaled /\ sentTx # 0
      <4>1. 1 <= sentTx /\ sentTx <= brI /\ sentTx # SsBatch - 1
        BY <2>6, <3>2, SsBatchLarge, QueueAssumption
      <4> QED
        BY <2>2, <2>4, <4>1, SsBatchLarge, QueueAssumption
    <3>3. CASE ~signaled /\ sentTx # 0
      BY <2>3, <3>3
    <3> QED
      BY <3>1, <3>2, <3>3
  <2>10. SignalOnItsWay'
    <3>1. CASE sentTx = 0
      BY <2>3, <3>1
    <3>2. CASE sentTx = SsBatch - 1
      BY <2>2, <2>5, <3>2, SsBatchLarge, QueueAssumption
    <3>3. CASE sentTx \in 1..(SsBatch - 2)
      <4>1. signaled \/ signals # {}
        BY <3>3, SsBatchLarge
      <4> QED
        BY <2>3, <2>4, <4>1
    <3> QED
      BY <3>1, <3>2, <3>3, SsBatchLarge
  <2> QED
    BY <2>7, <2>8, <2>9, <2>10
<1>4. CASE Poll
  <2>1. pc' = IF brI = MaxBcastBatch \/ toSend = 0 THEN "post" ELSE "forge"
    BY <1>4 DEF Poll, AfterForge
  <2>2. sentTx = SsBatch - 1
    BY <1>4 DEF Poll
  <2>3. UNCHANGED <<sentTx, toSend, brI, signaled>>
    BY <1>4 DEF Poll
  <2>4. CountersOK'
    BY <2>1, <2>3
  <2>5. PhaseFits'
    BY <2>1, <2>3, QueueAssumption
  <2>6. FlagIsRecent'
    BY <2>3
  <2>7. SignalOnItsWay'
    BY <2>1, <2>2, <2>3, SsBatchLarge
  <2> QED
    BY <2>4, <2>5, <2>6, <2>7
<1>5. CASE Post
  <2>1. signaled => signals' # {}
    BY <1>5 DEF Post
  <2>2. ~signaled => signals' = signals
    BY <1>5 DEF Post
  <2>3. /\ ~signaled' /\ brI' = 0
        /\ pc' = IF toSend > 0 THEN "forge" ELSE "idle"
        /\ UNCHANGED <<sentTx, toSend>>
    BY <1>5 DEF Post
  <2>4. CountersOK'
    BY <2>3, QueueAssumption
  <2>5. PhaseFits' /\ FlagIsRecent'
    BY <2>3, QueueAssumption
  <2>6. SignalOnItsWay'
    BY <2>1, <2>2, <2>3
  <2> QED
    BY <2>4, <2>5, <2>6
<1>6. CASE UNCHANGED vars
  BY <1>6 DEF vars
<1> QED
  BY <1>1, <1>2, <1>3, <1>4, <1>5, <1>6 DEF Next

\* A worker that waits has flagged a message in an earlier batch, so that it
\* is posted: the batch is shorter than the period of signals.
LEMMA InvAnswersPoll == IInv => PollAnswered
BY SsBatchLarge, QueueAssumption
   DEF IInv, CountersOK, PhaseFits, FlagIsRecent, SignalOnItsWay, PollAnswered

\* The invariant holds in every state of every run.
THEOREM Invariance == Spec => []IInv
<1> QED
  BY InitInv, StepInv, PTL DEF Spec

\* form_bcast_links never waits for a message that it has yet to post: the
\* blocking poll_cq finds its signaled message in the send queue.
THEOREM PollsAreAnswered == Spec => []PollAnswered
<1> QED
  BY Invariance, InvAnswersPoll, PTL

----------------------------------------------------------------------------
(* What the card follows.                                                  *)

\* The machines of a set that come after i.
Later(act, i) == {k \in act : k > i}

\* An earlier broadcast comes first, and of one broadcast the lower machine.
Before(v, u) == v[1] < u[1] \/ (v[1] = u[1] /\ v[2] < u[2])

\* Within each broadcast the machines taken to be alive are linked in order,
\* whatever the others point to; the broadcasts that have been forged are
\* linked, but for the end of the last.
LinksInv ==
  /\ active \in SUBSET RmIds
  /\ next \in [Wrs -> Wrs \cup {NULL}]
  /\ \A j \in Batch, i \in active :
       Later(active, i) # {} => next[<<j, i>>] = <<j, Min(Later(active, i))>>
  /\ pc # "idle" => active # {}
  /\ \A j \in 1..(brI - 1) : next[<<j - 1, Last>>] = <<j, First>>
  /\ pc \in {"poll", "post"} => brI > 0

\* No work request is the end of the list.
LEMMA NullIsNone == NULL \notin Wrs
<1> SUFFICES ASSUME NULL \in Wrs PROVE FALSE
  OBVIOUS
<1>1. PICK j \in Batch, i \in RmIds : NULL = <<j, i>>
  BY DEF Wrs
<1>2. Len(<<j, i>>) = 2 /\ Len(NULL) = 0
  BY DEF NULL
<1> QED
  BY <1>1, <1>2

\* A bounded set of naturals has a greatest member, and Max finds it.
LEMMA MaxOfBounded ==
  ASSUME NEW n \in Nat, NEW S \in SUBSET (0..n), S # {}
  PROVE  Max(S) \in S /\ \A y \in S : y <= Max(S)
<1>1. PICK T \in SUBSET Nat : T = {n - x : x \in S}
  <2>1. {n - x : x \in S} \in SUBSET Nat
    OBVIOUS
  <2> QED
    BY <2>1
<1>2. T # {}
  BY <1>1
<1>3. PICK m \in T : \A y \in T : m <= y
  BY <1>2, MinOfNaturals
<1>4. PICK x \in S : m = n - x
  BY <1>1
<1>5. ASSUME NEW y \in S PROVE y <= x
  <2>1. n - y \in T /\ n - x <= n - y
    BY <1>1, <1>3, <1>4
  <2> QED
    BY <2>1
<1>6. \E z \in S : \A y \in S : z >= y
  BY <1>5
<1> QED
  BY <1>6 DEF Max

\* The first, the last and the next of the machines that are alive.
LEMMA ActiveEnds ==
  ASSUME active \in SUBSET RmIds, active # {}
  PROVE  /\ First \in active /\ Last \in active
         /\ \A i \in active : First <= i /\ i <= Last
         /\ \A i \in active : i # Last <=> Later(active, i) # {}
<1>1. PICK n \in Nat : n = RemMachNum - 1
  BY QueueAssumption
<1>2. active \in SUBSET (0..n) /\ active \in SUBSET Nat
  BY <1>1 DEF RmIds
<1>3. First \in active /\ \A i \in active : First <= i
  BY <1>2, MinOfNaturals DEF First
<1>4. Last \in active /\ \A i \in active : i <= Last
  BY <1>2, MaxOfBounded DEF Last
<1>5. ASSUME NEW i \in active PROVE i # Last <=> Later(active, i) # {}
  <2>1. PICK l \in Nat : l = Last
    BY <1>2, <1>4
  <2>2. \A k \in active : k \in Nat /\ k <= l
    BY <1>2, <1>4, <2>1
  <2>3. i # l => i < l
    BY <2>2
  <2>4. i < l => l \in Later(active, i)
    BY <1>4, <2>1 DEF Later
  <2>5. i = l => Later(active, i) = {}
    <3>1. \A k \in active : i = l => ~ (k > i)
      BY <2>2
    <3> QED
      BY <3>1 DEF Later
  <2> QED
    BY <2>1, <2>3, <2>4, <2>5
<1> QED
  BY <1>3, <1>4, <1>5

\* The next machine.
LEMMA ActiveNext ==
  ASSUME NEW act \in SUBSET RmIds, NEW i \in RmIds, Later(act, i) # {}
  PROVE  /\ Min(Later(act, i)) \in act /\ Min(Later(act, i)) > i
         /\ \A k \in act : k > i => Min(Later(act, i)) <= k
<1>1. Later(act, i) \in SUBSET Nat
  <2>1. RmIds \in SUBSET Nat
    BY QueueAssumption DEF RmIds
  <2> QED
    BY <2>1 DEF Later
<1>2. PICK S \in SUBSET Nat : S = Later(act, i)
  BY <1>1
<1>3. Min(S) \in S /\ \A y \in S : Min(S) <= y
  BY <1>2, MinOfNaturals
<1> QED
  BY <1>2, <1>3 DEF Later

\* A work request as a number.
Rank(v) == v[1] * RemMachNum + v[2]

\* It grows with the order, and there are not more than work requests.
LEMMA Ranks ==
  /\ \A v \in Wrs : Rank(v) \in Nat /\ Rank(v) < Cardinality(Wrs)
  /\ \A v, u \in Wrs : Before(v, u) => Rank(v) < Rank(u)
  /\ Cardinality(Wrs) \in Nat
<1>1. PICK b \in Nat, r \in Nat : b = MaxBcastBatch /\ r = RemMachNum /\ b > 0 /\ r > 0
  BY QueueAssumption
<1>2. Cardinality(Wrs) = b * r
  <2>1. IsFiniteSet(Batch) /\ Cardinality(Batch) = b
    <3>1. IsFiniteSet(0..(b - 1)) /\ Cardinality(0..(b - 1)) = b
      BY <1>1, FS_Interval
    <3> QED
      BY <1>1, <3>1 DEF Batch
  <2>2. IsFiniteSet(RmIds) /\ Cardinality(RmIds) = r
    <3>1. IsFiniteSet(0..(r - 1)) /\ Cardinality(0..(r - 1)) = r
      BY <1>1, FS_Interval
    <3> QED
      BY <1>1, <3>1 DEF RmIds
  <2> QED
    BY <2>1, <2>2, FS_Product DEF Wrs
<1>3. \A v \in Wrs : /\ v[1] \in Nat /\ v[1] < b /\ v[2] \in Nat /\ v[2] < r
  BY <1>1 DEF Wrs, Batch, RmIds
<1>4. \A j, k \in Nat : j < k => (j + 1) * r <= k * r
  <2> SUFFICES ASSUME NEW j \in Nat, NEW k \in Nat, j < k PROVE (j + 1) * r <= k * r
    OBVIOUS
  <2>1. PICK d \in Nat : d = k - (j + 1) /\ k = (j + 1) + d
    <3>1. k - (j + 1) \in Nat /\ k = (j + 1) + (k - (j + 1))
      OBVIOUS
    <3> QED
      BY <3>1
  <2>2. k * r = (j + 1) * r + d * r
    BY <2>1
  <2>3. d * r \in Nat /\ (j + 1) * r \in Nat
    OBVIOUS
  <2> QED
    BY <2>2, <2>3
<1>5. \A j \in Nat : j * r \in Nat /\ (j + 1) * r = j * r + r
  OBVIOUS
<1>6. ASSUME NEW v \in Wrs PROVE Rank(v) \in Nat /\ Rank(v) < Cardinality(Wrs)
  <2>1. PICK j \in Nat, i \in Nat : j = v[1] /\ i = v[2] /\ j < b /\ i < r
    BY <1>3
  <2>2. j * r \in Nat /\ (j + 1) * r = j * r + r /\ (j + 1) * r <= b * r /\ b * r \in Nat
    BY <1>4, <1>5, <2>1
  <2>3. Rank(v) = j * r + i
    BY <1>1, <2>1 DEF Rank
  <2> QED
    BY <1>2, <2>1, <2>2, <2>3
<1>7. ASSUME NEW v \in Wrs, NEW u \in Wrs, Before(v, u) PROVE Rank(v) < Rank(u)
  <2>1. PICK j \in Nat, i \in Nat : j = v[1] /\ i = v[2] /\ i < r
    BY <1>3
  <2>2. PICK k \in Nat, l \in Nat : k = u[1] /\ l = u[2]
    BY <1>3
  <2>3. Rank(v) = j * r + i /\ Rank(u) = k * r + l
    BY <1>1, <2>1, <2>2 DEF Rank
  <2>4. PICK x \in Nat, y \in Nat : x = j * r /\ y = k * r
    BY <1>5
  <2>5. j < k => x + r <= y
    BY <1>4, <1>5, <2>4
  <2>6. j < k \/ (j = k /\ i < l)
    BY <1>7, <2>1, <2>2 DEF Before
  <2>7. j = k => x = y
    BY <2>4
  <2>8. x + i < y + l
    BY <2>1, <2>5, <2>6, <2>7
  <2> QED
    BY <2>3, <2>4, <2>8
<1> QED
  BY <1>2, <1>6, <1>7

\* The order is one.
LEMMA BeforeIsTransitive ==
  ASSUME NEW v \in Wrs, NEW u \in Wrs, NEW w \in Wrs, Before(v, u), Before(u, w)
  PROVE  Before(v, w)
<1>1. \A x \in Wrs : x[1] \in Nat /\ x[2] \in Nat
  BY QueueAssumption DEF Wrs, Batch, RmIds
<1> QED
  BY <1>1 DEF Before

\* The list from first to last that a set of work requests is linked to.
Linked(links, D, first, last) ==
  /\ links \in [Wrs -> Wrs \cup {NULL}] /\ D \in SUBSET Wrs /\ first \in D /\ last \in D
  /\ \A u \in D : u = first \/ Before(first, u)
  /\ \A u \in D : ~ Before(last, u)
  /\ links[last] = NULL
  /\ \A v \in D : v # last =>
       /\ links[v] \in D /\ Before(v, links[v])
       /\ \A u \in D : Before(v, u) => u = links[v] \/ Before(links[v], u)

\* The first k work requests that the card finds.
Walk(links, first, wr, n) ==
  wr = [k \in 1..n |->
          IF k = 1 THEN first
          ELSE LET v == wr[k - 1] IN IF v = NULL THEN NULL ELSE links[v]]

\* There are such walks of all lengths.
LEMMA WalksExist ==
  ASSUME NEW links, NEW first, NEW last \in Nat
  PROVE  \E wr : Walk(links, first, wr, last)
<1> DEFINE N == {n \in Nat : \E wr : Walk(links, first, wr, n)}
<1>1. 0 \in N
  <2>1. PICK f : f = [k \in 1..0 |-> first]
    OBVIOUS
  <2>2. 1..0 = {}
    OBVIOUS
  <2>3. Walk(links, first, f, 0)
    BY <2>1, <2>2 DEF Walk
  <2> QED
    BY <2>3
<1>2. ASSUME NEW n \in N PROVE n + 1 \in N
  <2>1. PICK f : Walk(links, first, f, n)
    OBVIOUS
  <2>2. n \in Nat
    OBVIOUS
  <2> DEFINE Step(g, k) == IF k = 1 THEN first
                           ELSE LET v == g[k - 1] IN IF v = NULL THEN NULL ELSE links[v]
  <2>3. PICK g : g = [k \in 1..(n + 1) |-> IF k = n + 1 THEN Step(f, k) ELSE f[k]]
    OBVIOUS
  <2>4. ASSUME NEW k \in 1..(n + 1) PROVE g[k] = Step(g, k)
    <3>1. CASE k = n + 1
      <4>1. g[k] = Step(f, k)
        BY <2>3, <3>1
      <4>2. k # 1 => k - 1 \in 1..(n + 1) /\ k - 1 # n + 1
        BY <2>2, <3>1
      <4>3. k # 1 => g[k - 1] = f[k - 1]
        BY <2>3, <4>2
      <4> QED
        BY <4>1, <4>3
    <3>2. CASE k # n + 1
      <4>1. k \in 1..n /\ (k # 1 => k - 1 \in 1..(n + 1) /\ k - 1 # n + 1)
        BY <2>2, <3>2
      <4>2. g[k] = f[k] /\ (k # 1 => g[k - 1] = f[k - 1])
        BY <2>3, <3>2, <4>1
      <4>3. f[k] = Step(f, k)
        BY <2>1, <4>1 DEF Walk
      <4> QED
        BY <4>2, <4>3
    <3> QED
      BY <3>1, <3>2
  <2>5. PICK x : x = [k \in 1..(n + 1) |-> Step(g, k)]
    OBVIOUS
  <2>6. /\ DOMAIN g = 1..(n + 1) /\ DOMAIN x = 1..(n + 1)
        /\ g = [k \in 1..(n + 1) |-> g[k]] /\ x = [k \in 1..(n + 1) |-> x[k]]
    BY <2>3, <2>5
  <2>7. \A k \in 1..(n + 1) : g[k] = x[k]
    BY <2>4, <2>5
  <2>8. g = x
    BY <2>6, <2>7
  <2>9. Walk(links, first, g, n + 1)
    BY <2>5, <2>8 DEF Walk
  <2> QED
    BY <2>2, <2>9
<1>3. N = Nat
  <2> HIDE DEF N
  <2>1. N \in SUBSET Nat
    BY DEF N
  <2> QED
    BY <1>1, <1>2, <2>1, SetNatInduction
<1> QED
  BY <1>3

\* What has been found at the kth place: the work requests in order, so that
\* none is left out.
WalkOK(wr, D, k) ==
  /\ wr[k] = NULL \/ (wr[k] \in D /\ Rank(wr[k]) >= k - 1)
  /\ \A u \in D : (\E j \in 1..k : wr[j] = u) \/ (wr[k] # NULL /\ Before(wr[k], u))
  /\ wr[k] # NULL => \A j \in 1..(k - 1) : wr[j] \in D /\ Before(wr[j], wr[k])

\* One place further.
LEMMA WalkGoesOn ==
  ASSUME NEW links, NEW D, NEW first, NEW last, Linked(links, D, first, last),
         NEW wr, NEW n \in Nat, Walk(links, first, wr, n),
         NEW k \in 1..n, k + 1 <= n, WalkOK(wr, D, k)
  PROVE  WalkOK(wr, D, k + 1)
<1>1. k + 1 \in 1..n /\ k + 1 # 1 /\ (k + 1) - 1 = k /\ k \in 1..(k + 1)
  OBVIOUS
<1>2. wr[k + 1] = IF wr[k] = NULL THEN NULL ELSE links[wr[k]]
  BY <1>1 DEF Walk
<1>3. \A j \in 1..k : j \in 1..(k + 1)
  OBVIOUS
<1>4. CASE wr[k] = NULL
  <2>1. wr[k + 1] = NULL
    BY <1>2, <1>4
  <2>2. \A u \in D : \E j \in 1..(k + 1) : wr[j] = u
    BY <1>3, <1>4 DEF WalkOK
  <2> QED
    BY <2>1, <2>2 DEF WalkOK
<1>5. CASE wr[k] # NULL
  <2>1. PICK v \in D : v = wr[k] /\ Rank(v) >= k - 1 /\ v \in Wrs
    BY <1>5 DEF WalkOK, Linked
  <2>2. /\ wr[k + 1] = links[v]
        /\ \A u \in D : (\E j \in 1..k : wr[j] = u) \/ Before(v, u)
        /\ \A j \in 1..(k - 1) : wr[j] \in D /\ Before(wr[j], v)
    BY <1>2, <1>5, <2>1 DEF WalkOK
  <2>3. CASE v = last
    <3>1. wr[k + 1] = NULL
      BY <2>2, <2>3 DEF Linked
    <3>2. \A u \in D : ~ Before(v, u)
      BY <2>3 DEF Linked
    <3>3. \A u \in D : \E j \in 1..(k + 1) : wr[j] = u
      BY <1>3, <2>2, <3>2
    <3> QED
      BY <3>1, <3>3 DEF WalkOK
  <2>4. CASE v # last
    <3>1. PICK x \in D : /\ x = links[v] /\ x \in Wrs /\ Before(v, x)
                         /\ \A u \in D : Before(v, u) => u = x \/ Before(x, u)
      BY <2>4 DEF Linked
    <3>2. wr[k + 1] = x /\ x # NULL
      BY <2>2, <3>1, NullIsNone
    <3>3. Rank(x) >= (k + 1) - 1
      <4>1. Rank(v) \in Nat /\ Rank(x) \in Nat /\ Rank(v) < Rank(x)
        BY <2>1, <3>1, Ranks
      <4> QED
        BY <2>1, <4>1
    <3>4. ASSUME NEW u \in D
          PROVE  (\E j \in 1..(k + 1) : wr[j] = u) \/ Before(x, u)
      <4>1. k + 1 \in 1..(k + 1)
        OBVIOUS
      <4> QED
        BY <1>3, <2>2, <3>1, <3>2, <4>1
    <3>5. ASSUME NEW j \in 1..((k + 1) - 1)
          PROVE  wr[j] \in D /\ Before(wr[j], x)
      <4>1. j = k \/ j \in 1..(k - 1)
        OBVIOUS
      <4>2. CASE j = k
        BY <1>5, <2>1, <3>1, <4>2
      <4>3. CASE j \in 1..(k - 1)
        <5>1. wr[j] \in D /\ Before(wr[j], v)
          BY <2>2, <4>3
        <5>2. wr[j] \in Wrs
          BY <5>1 DEF Linked
        <5> QED
          BY <2>1, <3>1, <5>1, <5>2, BeforeIsTransitive
      <4> QED
        BY <4>1, <4>2, <4>3
    <3> QED
      BY <3>2, <3>3, <3>4, <3>5 DEF WalkOK
  <2> QED
    BY <2>3, <2>4
<1> QED
  BY <1>4, <1>5

\* What the card finds is the whole list, in order.
LEMMA ChainIsList ==
  ASSUME NEW links, NEW D, NEW first, NEW last, Linked(links, D, first, last)
  PROVE  /\ Range(Chain(links, first)) = D
         /\ \A k, l \in DOMAIN Chain(links, first) :
              k < l => Before(Chain(links, first)[k], Chain(links, first)[l])
         /\ \A k \in DOMAIN Chain(links, first) : Rank(Chain(links, first)[k]) >= k - 1
         /\ \E m \in Nat : Chain(links, first) \in [1..m -> D]
<1>1. PICK n \in Nat : n = Cardinality(Wrs) + 1 /\ n > 0
  BY Ranks
<1>2. PICK wr : wr = CHOOSE f : Walk(links, first, f, n)
  OBVIOUS
<1>3. Walk(links, first, wr, n)
  BY <1>2, WalksExist
<1>4. Chain(links, first) = [k \in {j \in DOMAIN wr : wr[j] # NULL} |-> wr[k]]
  BY <1>1, <1>2 DEF Chain, Walk, RestrictValues, Restrict
<1>5. DOMAIN wr = 1..n
  BY <1>3 DEF Walk
<1> DEFINE N == {k \in Nat : k \in 1..n => WalkOK(wr, D, k)}
<1>6. ASSUME NEW k \in N PROVE k + 1 \in N
  <2>1. SUFFICES ASSUME k + 1 \in 1..n PROVE WalkOK(wr, D, k + 1)
    OBVIOUS
  <2>2. k \in Nat /\ (k \in 1..n => WalkOK(wr, D, k))
    OBVIOUS
  <2>3. CASE k = 0
    <3>1. wr[1] = first /\ first \in D /\ first # NULL /\ first \in Wrs
      BY <1>1, <1>3, NullIsNone DEF Linked, Walk
    <3>2. Rank(first) >= 1 - 1
      <4>1. Rank(first) \in Nat
        BY <3>1, Ranks
      <4> QED
        BY <4>1
    <3>3. \A u \in D : u = first \/ Before(first, u)
      BY DEF Linked
    <3>4. 1..(1 - 1) = {} /\ 1 \in 1..1 /\ k + 1 = 1
      BY <2>3
    <3>5. WalkOK(wr, D, 1)
      BY <3>1, <3>2, <3>3, <3>4 DEF WalkOK
    <3> QED
      BY <3>4, <3>5
  <2>4. CASE k # 0
    <3>1. k \in 1..n /\ k + 1 <= n
      BY <2>1, <2>2, <2>4
    <3>2. WalkOK(wr, D, k)
      BY <2>2, <3>1
    <3> HIDE DEF N
    <3> QED
      BY <1>3, <3>1, <3>2, WalkGoesOn
  <2> QED
    BY <2>3, <2>4
<1>7. N = Nat
  <2>1. 0 \in N /\ N \in SUBSET Nat
    OBVIOUS
  <2> HIDE DEF N
  <2> QED
    BY <1>6, <2>1, SetNatInduction
<1>8. \A k \in 1..n : WalkOK(wr, D, k)
  BY <1>7
<1> HIDE DEF N
<1>9. wr[n] = NULL
  <2>1. SUFFICES ASSUME wr[n] # NULL PROVE FALSE
    OBVIOUS
  <2>2. n \in 1..n
    BY <1>1
  <2>3. wr[n] \in D /\ Rank(wr[n]) >= n - 1
    BY <1>8, <2>1, <2>2 DEF WalkOK
  <2>4. wr[n] \in Wrs
    BY <2>3 DEF Linked
  <2>5. Rank(wr[n]) \in Nat /\ Rank(wr[n]) < n - 1
    BY <1>1, <2>4, Ranks
  <2> QED
    BY <2>3, <2>5
<1>10. PICK chain : chain = Chain(links, first)
  OBVIOUS
<1>11. /\ DOMAIN chain = {j \in 1..n : wr[j] # NULL}
       /\ \A j \in DOMAIN chain : chain[j] = wr[j]
  BY <1>4, <1>5, <1>10
<1>12. Range(chain) = D
  <2>1. ASSUME NEW j \in DOMAIN chain PROVE chain[j] \in D
    BY <1>8, <1>11 DEF WalkOK
  <2>2. ASSUME NEW u \in D PROVE \E j \in DOMAIN chain : chain[j] = u
    <3>1. n \in 1..n
      BY <1>1
    <3>2. PICK j \in 1..n : wr[j] = u
      BY <1>8, <1>9, <3>1 DEF WalkOK
    <3>3. u # NULL
      BY NullIsNone DEF Linked
    <3> QED
      BY <1>11, <3>2, <3>3
  <2> QED
    BY <2>1, <2>2 DEF Range
<1>13. ASSUME NEW k \in DOMAIN chain, NEW l \in DOMAIN chain, k < l
       PROVE  Before(chain[k], chain[l])
  <2>1. k \in 1..n /\ l \in 1..n /\ wr[l] # NULL
    BY <1>11
  <2>2. k \in 1..(l - 1)
    BY <1>13, <2>1
  <2>3. WalkOK(wr, D, l)
    BY <1>8, <2>1
  <2>4. Before(wr[k], wr[l])
    BY <2>1, <2>2, <2>3 DEF WalkOK
  <2> QED
    BY <1>11, <2>4
<1>14. \A k \in DOMAIN chain : Rank(chain[k]) >= k - 1
  BY <1>8, <1>11 DEF WalkOK
<1>15. PICK m \in Nat : DOMAIN chain = 1..m
  <2>1. PICK S \in SUBSET Nat : S = {j \in 1..n : wr[j] = NULL}
    <3>1. {j \in 1..n : wr[j] = NULL} \in SUBSET Nat
      OBVIOUS
    <3> QED
      BY <3>1
  <2>2. n \in S
    BY <1>1, <1>9, <2>1
  <2>3. PICK e \in S : \A y \in S : e <= y
    BY <2>2, MinOfNaturals
  <2>4. e \in 1..n /\ wr[e] = NULL /\ e - 1 \in Nat
    BY <2>1, <2>3
  <2>5. ASSUME NEW j \in 1..n PROVE wr[j] # NULL <=> j \in 1..(e - 1)
    <3>1. CASE j < e
      <4>1. j \notin S
        BY <2>3, <2>4, <3>1
      <4> QED
        BY <2>1, <2>4, <3>1, <4>1
    <3>2. CASE j = e
      BY <2>4, <3>2
    <3>3. CASE j > e
      <4>1. e \in 1..(j - 1) /\ WalkOK(wr, D, j)
        BY <1>8, <2>4, <3>3
      <4>2. wr[j] # NULL => wr[e] \in D
        BY <4>1 DEF WalkOK
      <4>3. NULL \notin D
        BY NullIsNone DEF Linked
      <4> QED
        BY <2>4, <3>3, <4>2, <4>3
    <3> QED
      BY <2>4, <3>1, <3>2, <3>3
  <2>6. DOMAIN chain = 1..(e - 1)
    BY <1>11, <2>4, <2>5
  <2> QED
    BY <2>4, <2>6
<1>16. chain \in [1..m -> D]
  <2>1. chain = [k \in DOMAIN chain |-> chain[k]]
    BY <1>4, <1>10
  <2>2. \A k \in 1..m : chain[k] \in D
    BY <1>8, <1>11, <1>15 DEF WalkOK
  <2> QED
    BY <1>15, <2>1, <2>2
<1> QED
  BY <1>10, <1>12, <1>13, <1>14, <1>16

\* The work requests of a broadcast are in its row.
LEMMA Rows ==
  ASSUME active \in SUBSET RmIds, NEW j \in Batch, NEW i \in active
  PROVE  <<j, i>> \in Wrs
BY DEF Wrs

\* The links of init_ctx_send_wrs are those for all machines.
LEMMA LinksInit == Init => LinksInv
<1> SUFFICES ASSUME Init PROVE LinksInv
  OBVIOUS
<1>1. /\ active = RmIds /\ brI = 0 /\ pc = "idle"
      /\ next = [w \in Wrs |->
                   IF w[2] = RemMachNum - 1 THEN NULL ELSE <<w[1], w[2] + 1>>]
  BY DEF Init
<1>2. PICK n \in Nat : n = RemMachNum /\ n > 0 /\ RmIds = 0..(n - 1)
  BY QueueAssumption DEF RmIds
<1>3. ASSUME NEW w \in Wrs PROVE next[w] \in Wrs \cup {NULL}
  <2>1. PICK j \in Batch, i \in 0..(n - 1) : w = <<j, i>>
    BY <1>2 DEF Wrs
  <2>2. i # n - 1 => i + 1 \in 0..(n - 1)
    BY <1>2
  <2>3. i # n - 1 => <<j, i + 1>> \in Wrs
    BY <1>2, <2>2 DEF Wrs
  <2> QED
    BY <1>1, <1>2, <2>1, <2>3
<1>4. next \in [Wrs -> Wrs \cup {NULL}]
  BY <1>1, <1>3
<1>5. ASSUME NEW j \in Batch, NEW i \in active, Later(active, i) # {}
      PROVE  next[<<j, i>>] = <<j, Min(Later(active, i))>>
  <2>1. PICK m : m = Min(Later(active, i))
    OBVIOUS
  <2>2. active \in SUBSET RmIds /\ i \in RmIds
    BY <1>1
  <2>3. m \in active /\ m > i /\ \A k \in active : k > i => m <= k
    BY <1>5, <2>1, <2>2, ActiveNext
  <2>4. i \in 0..(n - 1) /\ m \in 0..(n - 1) /\ i # n - 1
    BY <1>1, <1>2, <2>3
  <2>5. i + 1 \in active /\ i + 1 > i
    BY <1>1, <1>2, <2>4
  <2>6. m = i + 1
    BY <2>3, <2>4, <2>5
  <2>7. <<j, i>> \in Wrs
    BY <2>2, Rows
  <2> QED
    BY <1>1, <1>2, <2>1, <2>4, <2>6, <2>7
<1>6. 1..(brI - 1) = {}
  BY <1>1
<1> QED
  BY <1>1, <1>4, <1>5, <1>6 DEF LinksInv

\* update_bcast_wr_links makes the links of each broadcast anew.
LEMMA LinksReconfigured ==
  ASSUME IInv, LinksInv, NEW act \in SUBSET RmIds, Reconfigure(act)
  PROVE  LinksInv'
<1>1. /\ pc = "idle" /\ active' = act /\ next' = Links(act)
      /\ brI' = brI /\ pc' = pc /\ brI = 0
  BY DEF Reconfigure, IInv, PhaseFits
<1>2. ASSUME NEW w \in Wrs PROVE Links(act)[w] \in Wrs \cup {NULL}
  <2>1. PICK j \in Batch, i \in RmIds : w = <<j, i>>
    BY DEF Wrs
  <2>2. Later(act, i) # {} => <<j, Min(Later(act, i))>> \in Wrs
    BY ActiveNext DEF Wrs
  <2>3. next[w] \in Wrs \cup {NULL}
    BY DEF LinksInv
  <2>4. Links(act)[w] = IF i \in act /\ Later(act, i) # {} THEN <<j, Min(Later(act, i))>>
                        ELSE IF j = 0 THEN NULL ELSE next[w]
    BY <2>1 DEF Links, Later
  <2> QED
    BY <2>2, <2>3, <2>4
<1>3. Links(act) \in [Wrs -> Wrs \cup {NULL}]
  BY <1>2 DEF Links
<1>4. ASSUME NEW j \in Batch, NEW i \in act, Later(act, i) # {}
      PROVE  Links(act)[<<j, i>>] = <<j, Min(Later(act, i))>>
  <2>1. <<j, i>> \in Wrs
    BY DEF Wrs
  <2> QED
    BY <1>4, <2>1 DEF Links, Later
<1>5. 1..(brI' - 1) = {}
  BY <1>1
<1> QED
  BY <1>1, <1>3, <1>4, <1>5 DEF LinksInv

\* The end of the last broadcast may point to anything.
EndsWith(links, j, x) == links = [next EXCEPT ![<<j, Last>>] = x]

StillLinked(links, j, x) ==
  /\ links \in [Wrs -> Wrs \cup {NULL}]
  /\ links[<<j, Last>>] = x
  /\ \A k \in Batch, i \in active :
       Later(active, i) # {} => links[<<k, i>>] = <<k, Min(Later(active, i))>>
  /\ \A k \in Batch : k # j => links[<<k, Last>>] = next[<<k, Last>>]

LEMMA LinksOfEnd ==
  ASSUME LinksInv, active # {}, NEW j \in Batch, NEW x \in Wrs \cup {NULL},
         NEW links, EndsWith(links, j, x)
  PROVE  StillLinked(links, j, x)
<1>1. /\ active \in SUBSET RmIds /\ next \in [Wrs -> Wrs \cup {NULL}]
      /\ \A k \in Batch, i \in active :
           Later(active, i) # {} => next[<<k, i>>] = <<k, Min(Later(active, i))>>
  BY DEF LinksInv
<1>2. Last \in active /\ \A i \in active : i # Last <=> Later(active, i) # {}
  BY <1>1, ActiveEnds
<1>3. \A k \in Batch, i \in active : <<k, i>> \in Wrs
  BY <1>1, Rows
<1>4. PICK w \in Wrs : w = <<j, Last>>
  BY <1>2, <1>3
<1>5. links = [next EXCEPT ![w] = x]
  BY <1>4 DEF EndsWith
<1>6. links \in [Wrs -> Wrs \cup {NULL}] /\ links[w] = x
  BY <1>1, <1>5
<1>7. ASSUME NEW k \in Batch, NEW i \in active, <<k, i>> # <<j, Last>>
      PROVE  links[<<k, i>>] = next[<<k, i>>]
  BY <1>1, <1>3, <1>4, <1>5, <1>7
<1>8. \A k \in Batch, i \in active : i # Last \/ k # j => <<k, i>> # <<j, Last>>
  OBVIOUS
<1> QED
  BY <1>1, <1>2, <1>4, <1>6, <1>7, <1>8 DEF StillLinked

\* form_bcast_links.
LEMMA LinksForged ==
  ASSUME IInv, LinksInv, Forge
  PROVE  LinksInv'
<1>1. /\ pc = "forge" /\ next' = Link(brI) /\ brI' = brI + 1
      /\ pc' \in {"poll", "post", "forge"} /\ active' = active
  BY DEF Forge, AfterForge
<1>2. active # {} /\ active \in SUBSET RmIds
  BY <1>1 DEF LinksInv
<1>3. PICK b \in Nat : b = brI /\ b < MaxBcastBatch
  BY <1>1, QueueAssumption DEF IInv, CountersOK, PhaseFits
<1>4. First \in active /\ Last \in active
  BY <1>2, ActiveEnds
<1>5. Last' = Last /\ First' = First
  BY <1>1 DEF Last, First
<1>6. brI' > 0
  BY <1>1, <1>3
<1>7. CASE b = 0
  <2>1. next' = next
    BY <1>1, <1>3, <1>7 DEF Link
  <2>2. 1..(brI' - 1) = {}
    BY <1>1, <1>3, <1>7
  <2> QED
    BY <1>1, <1>2, <1>6, <2>1, <2>2 DEF LinksInv
<1>8. CASE b # 0
  <2>1. PICK a \in Batch, c \in Batch : a = b - 1 /\ c = b
    <3>1. b - 1 \in Batch /\ b \in Batch
      BY <1>3, <1>8, QueueAssumption DEF Batch
    <3> QED
      BY <3>1
  <2>2. <<c, First>> \in Wrs
    BY <1>2, <1>4, Rows
  <2>3. next' = [next EXCEPT ![<<a, Last>>] = <<c, First>>]
    BY <1>1, <1>3, <1>8, <2>1 DEF Link
  <2>4. PICK links : links = next'
    OBVIOUS
  <2>5. /\ links \in [Wrs -> Wrs \cup {NULL}]
        /\ links[<<a, Last>>] = <<c, First>>
        /\ \A k \in Batch, i \in active :
             Later(active, i) # {} => links[<<k, i>>] = <<k, Min(Later(active, i))>>
        /\ \A k \in Batch : k # a => links[<<k, Last>>] = next[<<k, Last>>]
    <3>1. EndsWith(links, a, <<c, First>>)
      BY <2>3, <2>4 DEF EndsWith
    <3>2. StillLinked(links, a, <<c, First>>)
      BY <1>2, <2>2, <3>1, LinksOfEnd
    <3> QED
      BY <3>2 DEF StillLinked
  <2>6. ASSUME NEW j \in 1..b PROVE links[<<j - 1, Last>>] = <<j, First>>
    <3>1. CASE j = b
      BY <2>1, <2>5, <3>1
    <3>2. CASE j # b
      <4>1. j \in 1..(b - 1) /\ j - 1 # a /\ j - 1 \in Batch
        BY <1>3, <2>1, <3>2, QueueAssumption DEF Batch
      <4>2. next[<<j - 1, Last>>] = <<j, First>>
        BY <1>3, <4>1 DEF LinksInv
      <4> QED
        BY <2>5, <4>1, <4>2
    <3> QED
      BY <3>1, <3>2
  <2>7. brI' - 1 = b
    BY <1>1, <1>3
  <2> QED
    BY <1>1, <1>2, <1>5, <1>6, <2>4, <2>5, <2>6, <2>7 DEF LinksInv
<1> QED
  BY <1>7, <1>8

\* The list that is posted, once its end has been cut off, is the broadcasts
\* of the batch.
LEMMA PostedIsLinked ==
  ASSUME IInv, LinksInv, pc = "post"
  PROVE  Linked(End(brI), (0..(brI - 1)) \X active, <<0, First>>, <<brI - 1, Last>>)
<1>1. active # {} /\ active \in SUBSET RmIds
  BY DEF LinksInv
<1>2. PICK b \in Nat : b = brI /\ b > 0 /\ b <= MaxBcastBatch
  BY QueueAssumption DEF IInv, CountersOK, LinksInv
<1>3. /\ First \in active /\ Last \in active
      /\ \A i \in active : First <= i /\ i <= Last
      /\ \A i \in active : i # Last <=> Later(active, i) # {}
  BY <1>1, ActiveEnds
<1>4. PICK B \in SUBSET Batch : B = 0..(b - 1) /\ 0 \in B /\ b - 1 \in B
  <2>1. 0..(b - 1) \in SUBSET Batch /\ 0 \in 0..(b - 1) /\ b - 1 \in 0..(b - 1)
    BY <1>2, QueueAssumption DEF Batch
  <2> QED
    BY <2>1
<1>5. PICK links : links = [next EXCEPT ![<<b - 1, Last>>] = NULL]
  OBVIOUS
<1>6. /\ links \in [Wrs -> Wrs \cup {NULL}]
      /\ links[<<b - 1, Last>>] = NULL
      /\ \A k \in Batch, i \in active :
           Later(active, i) # {} => links[<<k, i>>] = <<k, Min(Later(active, i))>>
      /\ \A k \in Batch : k # b - 1 => links[<<k, Last>>] = next[<<k, Last>>]
  <2>1. b - 1 \in Batch /\ NULL \in Wrs \cup {NULL}
    BY <1>4
  <2>2. EndsWith(links, b - 1, NULL)
    BY <1>5 DEF EndsWith
  <2>3. StillLinked(links, b - 1, NULL)
    BY <1>1, <2>1, <2>2, LinksOfEnd
  <2> QED
    BY <2>3 DEF StillLinked
<1>7. PICK D \in SUBSET Wrs : D = B \X active
  <2>1. B \X active \in SUBSET Wrs
    BY <1>1 DEF Wrs
  <2> QED
    BY <2>1
<1>8. <<0, First>> \in D /\ <<b - 1, Last>> \in D
  BY <1>3, <1>4, <1>7
<1>9. \A u \in D : \E j \in B, i \in active : u = <<j, i>> /\ u[1] = j /\ u[2] = i
  BY <1>7
<1>10. B \in SUBSET Nat /\ active \in SUBSET Nat
  BY <1>1, <1>4, QueueAssumption DEF RmIds
<1>11. ASSUME NEW u \in D PROVE u = <<0, First>> \/ Before(<<0, First>>, u)
  <2>1. PICK j \in B, i \in active : u = <<j, i>> /\ u[1] = j /\ u[2] = i
    BY <1>9
  <2>2. j \in Nat /\ i \in Nat /\ First \in Nat /\ First <= i
    BY <1>3, <1>10
  <2> QED
    BY <2>1, <2>2 DEF Before
<1>12. ASSUME NEW u \in D PROVE ~ Before(<<b - 1, Last>>, u)
  <2>1. PICK j \in B, i \in active : u = <<j, i>> /\ u[1] = j /\ u[2] = i
    BY <1>9
  <2>2. j \in Nat /\ i \in Nat /\ Last \in Nat /\ i <= Last /\ j <= b - 1
    BY <1>3, <1>4, <1>10
  <2> QED
    BY <1>2, <2>1, <2>2 DEF Before
<1>13. ASSUME NEW v \in D, v # <<b - 1, Last>>
       PROVE  /\ links[v] \in D /\ Before(v, links[v])
              /\ \A u \in D : Before(v, u) => u = links[v] \/ Before(links[v], u)
  <2>1. PICK j \in B, i \in active : v = <<j, i>>
    BY <1>9
  <2>2. j \in Nat /\ i \in Nat /\ j <= b - 1 /\ j \in Batch /\ i \in RmIds
    BY <1>1, <1>4, <1>10
  <2>3. CASE i # Last
    <3>1. PICK m \in active : m = Min(Later(active, i)) /\ m > i
                              /\ \A k \in active : k > i => m <= k
      <4>1. PICK m : m = Min(Later(active, i))
        OBVIOUS
      <4>2. m \in active /\ m > i /\ \A k \in active : k > i => m <= k
        BY <1>1, <1>3, <2>2, <2>3, <4>1, ActiveNext
      <4> QED
        BY <4>1, <4>2
    <3>2. links[v] = <<j, m>>
      BY <1>3, <1>6, <2>1, <2>2, <2>3, <3>1
    <3>3. m \in Nat
      BY <1>10
    <3>4. <<j, m>> \in D /\ Before(v, <<j, m>>)
      BY <1>7, <2>1, <2>2, <3>1 DEF Before
    <3>5. ASSUME NEW u \in D, Before(v, u)
          PROVE  u = <<j, m>> \/ Before(<<j, m>>, u)
      <4>1. PICK k \in B, l \in active : u = <<k, l>> /\ u[1] = k /\ u[2] = l
        BY <1>9
      <4>2. k \in Nat /\ l \in Nat /\ (l > i => m <= l)
        BY <1>10, <3>1
      <4>3. j < k \/ (j = k /\ i < l)
        BY <2>1, <3>5, <4>1 DEF Before
      <4> QED
        BY <2>2, <3>3, <4>1, <4>2, <4>3 DEF Before
    <3> QED
      BY <3>2, <3>4, <3>5
  <2>4. CASE i = Last
    <3>1. j # b - 1
      BY <1>13, <2>1, <2>4
    <3>2. j + 1 \in B /\ j + 1 \in 1..(b - 1) /\ (j + 1) - 1 = j
      BY <1>2, <1>4, <2>2, <3>1
    <3>3. links[v] = <<j + 1, First>>
      <4>1. next[<<(j + 1) - 1, Last>>] = <<j + 1, First>>
        BY <1>2, <3>2 DEF LinksInv
      <4> QED
        BY <1>6, <2>1, <2>2, <2>4, <3>1, <3>2, <4>1
    <3>4. <<j + 1, First>> \in D /\ Before(v, <<j + 1, First>>)
      BY <1>3, <1>7, <2>1, <2>2, <3>2 DEF Before
    <3>5. ASSUME NEW u \in D, Before(v, u)
          PROVE  u = <<j + 1, First>> \/ Before(<<j + 1, First>>, u)
      <4>1. PICK k \in B, l \in active : u = <<k, l>> /\ u[1] = k /\ u[2] = l
        BY <1>9
      <4>2. k \in Nat /\ l \in Nat /\ l <= i /\ First \in Nat /\ First <= l
        BY <1>3, <1>10, <2>4
      <4>3. j < k
        BY <2>1, <2>2, <3>5, <4>1, <4>2 DEF Before
      <4> QED
        BY <2>2, <4>1, <4>2, <4>3 DEF Before
    <3> QED
      BY <3>3, <3>4, <3>5
  <2> QED
    BY <2>3, <2>4
<1>14. Linked(links, D, <<0, First>>, <<b - 1, Last>>)
  BY <1>6, <1>8, <1>11, <1>12, <1>13 DEF Linked
<1>15. End(brI) = links
  BY <1>2, <1>5 DEF End
<1> QED
  BY <1>2, <1>4, <1>7, <1>14, <1>15

\* Every step keeps the links.
LEMMA LinksStep ==
  ASSUME IInv, LinksInv, [Next]_vars
  PROVE  LinksInv'
<1>1. ASSUME NEW act \in SUBSET RmIds, Reconfigure(act) PROVE LinksInv'
  BY <1>1, LinksReconfigured
<1>2. ASSUME NEW n \in 1..MaxMessages, SendBroadcasts(n) PROVE LinksInv'
  <2>1. /\ active' = active /\ next' = next /\ brI' = 0 /\ pc' = "forge"
        /\ Cardinality(active) >= RemoteQuorum
    BY <1>2 DEF SendBroadcasts
  <2>2. active # {}
    BY <2>1, FS_EmptySet, QueueAssumption
  <2>3. 1..(brI' - 1) = {}
    BY <2>1
  <2> QED
    BY <2>1, <2>2, <2>3 DEF LinksInv
<1>3. CASE Forge
  BY <1>3, LinksForged
<1>4. CASE Poll
  BY <1>4 DEF Poll, AfterForge, LinksInv, Last, First
<1>5. CASE Post
  <2>1. /\ pc = "post" /\ next' = End(brI) /\ brI' = 0 /\ pc' \in {"forge", "idle"}
        /\ active' = active
    BY <1>5 DEF Post
  <2>2. active # {} /\ active \in SUBSET RmIds
    BY <2>1 DEF LinksInv
  <2>3. PICK j \in Batch : j = brI - 1
    <3>1. brI > 0 /\ brI \in 0..MaxBcastBatch
      BY <2>1 DEF LinksInv, IInv, CountersOK
    <3>2. brI - 1 \in Batch
      BY <3>1, QueueAssumption DEF Batch
    <3> QED
      BY <3>2
  <2>4. PICK links : links = next'
    OBVIOUS
  <2>5. /\ links \in [Wrs -> Wrs \cup {NULL}]
        /\ \A k \in Batch, i \in active :
             Later(active, i) # {} => links[<<k, i>>] = <<k, Min(Later(active, i))>>
    <3>1. EndsWith(links, j, NULL) /\ NULL \in Wrs \cup {NULL}
      BY <2>1, <2>3, <2>4 DEF End, EndsWith
    <3>2. StillLinked(links, j, NULL)
      BY <2>2, <3>1, LinksOfEnd
    <3> QED
      BY <3>2 DEF StillLinked
  <2>6. 1..(brI' - 1) = {}
    BY <2>1
  <2> QED
    BY <2>1, <2>2, <2>4, <2>5, <2>6 DEF LinksInv
<1>6. CASE UNCHANGED vars
  BY <1>6 DEF vars, LinksInv, Last, First
<1> QED
  BY <1>1, <1>2, <1>3, <1>4, <1>5, <1>6 DEF Next

\* A list is posted as the broadcasts that were forged.
LEMMA StepPosts ==
  ASSUME IInv, LinksInv, [Next]_vars, posted' # posted
  PROVE  /\ Range(posted'.chain) = (0..(brI - 1)) \X active
         /\ \A k, l \in DOMAIN posted'.chain :
              k < l => Before(posted'.chain[k], posted'.chain[l])
<1>1. Post
  BY DEF Next, Reconfigure, SendBroadcasts, Forge, Poll, vars
<1>2. pc = "post" /\ posted'.chain = Chain(End(brI), <<0, First>>)
  BY <1>1 DEF Post
<1>3. PICK D, last : D = (0..(brI - 1)) \X active /\ Linked(End(brI), D, <<0, First>>, last)
  BY <1>2, PostedIsLinked
<1>4. PICK links, first : links = End(brI) /\ first = <<0, First>>
  OBVIOUS
<1>5. Linked(links, D, first, last)
  BY <1>3, <1>4
<1>6. PICK chain : chain = Chain(links, first)
  OBVIOUS
<1>7. Range(chain) = D /\ \A k, l \in DOMAIN chain : k < l => Before(chain[k], chain[l])
  BY <1>5, <1>6, ChainIsList
<1>8. posted'.chain = chain
  BY <1>2, <1>4, <1>6
<1> QED
  BY <1>3, <1>7, <1>8

\* What post_quorum_broadasts_and_recvs hands to the card is each broadcast of
\* the batch, once to every machine taken to be alive and in order, whatever
\* machines were left out or taken back before.
THEOREM ListsAreBroadcasts == Spec => ChainIsBroadcast
<1>1. Init => IInv /\ LinksInv
  BY InitInv, LinksInit
<1>2. IInv /\ LinksInv /\ [Next]_vars => IInv' /\ LinksInv'
  BY StepInv, LinksStep
<1>3. IInv /\ LinksInv /\ [Next]_vars =>
        [posted' # posted =>
           LET chain == posted'.chain
           IN  /\ Range(chain) = (0..(brI - 1)) \X active
               /\ \A k, l \in DOMAIN chain :
                    k < l => \/ chain[k][1] < chain[l][1]
                             \/ chain[k][1] = chain[l][1] /\ chain[k][2] < chain[l][2]
        ]_vars
  BY StepPosts DEF Before
<1> QED
  BY <1>1, <1>2, <1>3, PTL DEF Spec, ChainIsBroadcast

----------------------------------------------------------------------------
(* The depth of the send queue.                                            *)

\* At most one signal is on its way.  Behind it are the broadcasts forged since
\* it was asked for and those before it in its batch; before it is what the
\* wait for the signal before has left.  Broadcasts not posted are counted as
\* if posted, at a message for every machine.
Due == queued + brI * RemMachNum

Room(broadcasts) == broadcasts * RemMachNum - 1

QueueInv ==
  /\ queued \in Nat
  /\ signaled => signals = {} /\ brI <= sentTx + MaxBcastBatch - 1
  /\ signals # {} =>
       \E s \in 1..queued :
         signals = {s} /\ Due - s <= Room(sentTx + MaxBcastBatch - 1)
  /\ sentTx = 0 =>
       signals = {} /\ ~signaled /\ Due <= Room(SsBatch + MaxBcastBatch - 1)
  /\ signaled \/ signals # {} =>
       Due <= Room(SsBatch + MaxBcastBatch - 1 + sentTx)
  /\ sentTx = SsBatch - 1 /\ pc # "poll" =>
       signals = {} /\ Due <= Room(SsBatch + MaxBcastBatch - 2)

\* A list is as long as there are messages, at most one for each machine.
LEMMA PostedLength ==
  ASSUME IInv, LinksInv, Post
  PROVE  \E m \in Nat : Len(posted'.chain) = m /\ 0 < m /\ m <= brI * RemMachNum
<1>1. pc = "post" /\ posted'.chain = Chain(End(brI), <<0, First>>)
  BY DEF Post
<1>2. PICK D, last : D = (0..(brI - 1)) \X active /\ Linked(End(brI), D, <<0, First>>, last)
  BY <1>1, PostedIsLinked
<1>3. PICK links, first : links = End(brI) /\ first = <<0, First>>
  OBVIOUS
<1>4. Linked(links, D, first, last)
  BY <1>2, <1>3
<1>5. PICK chain : chain = Chain(links, first)
  OBVIOUS
<1>6. /\ Range(chain) = D /\ \A k \in DOMAIN chain : Rank(chain[k]) >= k - 1
      /\ \E m \in Nat : chain \in [1..m -> D]
  BY <1>4, <1>5, ChainIsList
<1>7. PICK m \in Nat : chain \in [1..m -> D]
  BY <1>6
<1>8. chain \in Seq(D) /\ Len(chain) = m
  BY <1>7
<1>9. m > 0
  <2>1. first \in Range(chain)
    BY <1>4, <1>6 DEF Linked
  <2>2. DOMAIN chain # {}
    BY <2>1 DEF Range
  <2> QED
    BY <1>7, <2>2
<1>10. PICK b \in Nat, r \in Nat : b = brI /\ b > 0 /\ r = RemMachNum
  BY <1>1, QueueAssumption DEF IInv, CountersOK, LinksInv
<1>11. m <= b * r
  <2>1. m \in DOMAIN chain /\ chain[m] \in D
    BY <1>7, <1>9
  <2>2. Rank(chain[m]) >= m - 1
    BY <1>6, <2>1
  <2>3. PICK j \in 0..(b - 1), i \in active : chain[m] = <<j, i>>
    BY <1>2, <1>10, <2>1
  <2>4. j \in Nat /\ j + 1 <= b /\ i \in Nat /\ i < r
    BY <1>10, <2>3, QueueAssumption DEF LinksInv, RmIds
  <2>5. Rank(chain[m]) = j * r + i
    BY <1>10, <2>3 DEF Rank
  <2>6. (j + 1) * r <= b * r /\ (j + 1) * r = j * r + r /\ j * r \in Nat /\ b * r \in Nat
    <3>1. PICK d \in Nat : b = (j + 1) + d
      <4>1. b - (j + 1) \in Nat /\ b = (j + 1) + (b - (j + 1))
        BY <2>4
      <4> QED
        BY <4>1
    <3>2. b * r = (j + 1) * r + d * r
      BY <2>4, <3>1
    <3>3. d * r \in Nat /\ (j + 1) * r \in Nat /\ j * r \in Nat /\ (j + 1) * r = j * r + r
      BY <2>4
    <3> QED
      BY <3>2, <3>3
  <2> QED
    BY <2>2, <2>4, <2>5, <2>6
<1> QED
  BY <1>1, <1>3, <1>5, <1>8, <1>9, <1>10, <1>11

\* The numbers of the argument, and what they are times the machines: all of
\* it is then addition.
QueueNumbers(r, b, s, t, e, q, br, sr, tr, er) ==
  /\ r = RemMachNum /\ b = MaxBcastBatch /\ s = SsBatch
  /\ t = sentTx /\ e = brI /\ q = queued
  /\ br = b * r /\ sr = s * r /\ tr = t * r /\ er = e * r
  /\ r > 0 /\ b > 0 /\ s >= b + 2 /\ t <= s - 1 /\ e <= b
  /\ sr >= br + 2 * r /\ br >= r
  /\ t = s - 1 => tr = sr - r
  /\ t <= s - 2 => tr <= sr - 2 * r
  /\ e > 0 => er >= r
  /\ e <= t + b - 1 => er <= tr + br - r
  /\ Due = q + er
  /\ Room(t + b - 1) = tr + br - r - 1
  /\ Room(s + b - 1) = sr + br - r - 1
  /\ Room(s + b - 2) = sr + br - 2 * r - 1
  /\ Room(s + b - 1 + t) = sr + br - r + tr - 1

\* Products by a natural number keep the order.
LEMMA TimesKeepsOrder ==
  ASSUME NEW r \in Nat, NEW x \in Int, NEW y \in Int, x <= y
  PROVE  x * r <= y * r
<1>1. PICK d \in Nat : y = x + d
  <2>1. y - x \in Nat /\ y = x + (y - x)
    OBVIOUS
  <2> QED
    BY <2>1
<1>2. y * r = x * r + d * r
  BY <1>1
<1>3. d * r \in Nat /\ x * r \in Int
  OBVIOUS
<1> QED
  BY <1>2, <1>3

LEMMA QueueNumbersAre ==
  ASSUME IInv, QueueInv
  PROVE  \E r, b, s, t, e, q, br, sr, tr, er \in Nat :
           QueueNumbers(r, b, s, t, e, q, br, sr, tr, er)
<1>1. PICK r \in Nat, b \in Nat, s \in Nat, t \in Nat, e \in Nat, q \in Nat :
        /\ r = RemMachNum /\ b = MaxBcastBatch /\ s = SsBatch
        /\ t = sentTx /\ e = brI /\ q = queued
        /\ r > 0 /\ b > 0 /\ s >= b + 2 /\ t <= s - 1 /\ e <= b
  <2>1. RemMachNum \in Nat /\ RemMachNum > 0 /\ MaxBcastBatch \in Nat /\ MaxBcastBatch > 0
    BY QueueAssumption
  <2>2. SsBatch \in Nat /\ SsBatch >= MaxBcastBatch + 2
    BY SsBatchLarge
  <2>3. sentTx \in Nat /\ sentTx <= SsBatch - 1 /\ brI \in Nat /\ brI <= MaxBcastBatch
    BY <2>1, <2>2 DEF IInv, CountersOK
  <2>4. queued \in Nat
    BY DEF QueueInv
  <2> QED
    BY <2>1, <2>2, <2>3, <2>4
<1>2. PICK br \in Nat, sr \in Nat, tr \in Nat, er \in Nat :
        br = b * r /\ sr = s * r /\ tr = t * r /\ er = e * r
  OBVIOUS
<1>3. sr >= br + 2 * r
  <2>1. (b + 2) * r <= s * r
    BY <1>1, TimesKeepsOrder
  <2>2. (b + 2) * r = b * r + 2 * r
    OBVIOUS
  <2> QED
    BY <1>2, <2>1, <2>2
<1>4. br >= r
  <2>1. 1 * r <= b * r /\ 1 * r = r
    BY <1>1, TimesKeepsOrder
  <2> QED
    BY <1>2, <2>1
<1>5. t = s - 1 => tr = sr - r
  <2>1. (s - 1) * r = s * r - r
    OBVIOUS
  <2> QED
    BY <1>2, <2>1
<1>6. t <= s - 2 => tr <= sr - 2 * r
  <2>1. t <= s - 2 => t * r <= (s - 2) * r
    BY TimesKeepsOrder
  <2>2. (s - 2) * r = s * r - 2 * r
    OBVIOUS
  <2> QED
    BY <1>2, <2>1, <2>2
<1>7. e > 0 => er >= r
  <2>1. e > 0 => 1 * r <= e * r
    BY TimesKeepsOrder
  <2> QED
    BY <1>2, <2>1
<1>8. (t + b - 1) * r = tr + br - r
  BY <1>2
<1>9. e <= t + b - 1 => er <= tr + br - r
  <2>1. e <= t + b - 1 => e * r <= (t + b - 1) * r
    BY TimesKeepsOrder
  <2> QED
    BY <1>2, <1>8, <2>1
<1>10. /\ (s + b - 1) * r = sr + br - r
       /\ (s + b - 2) * r = sr + br - 2 * r
       /\ (s + b - 1 + t) * r = sr + br - r + tr
  <2>1. (s + b - 1) * r = s * r + b * r - r
    OBVIOUS
  <2>2. (s + b - 2) * r = s * r + b * r - 2 * r
    OBVIOUS
  <2>3. (s + b - 1 + t) * r = s * r + b * r - r + t * r
    OBVIOUS
  <2> QED
    BY <1>2, <2>1, <2>2, <2>3
<1>11. Due = q + er
  BY <1>1, <1>2 DEF Due
<1>12. QueueNumbers(r, b, s, t, e, q, br, sr, tr, er)
  BY <1>1, <1>2, <1>3, <1>4, <1>5, <1>6, <1>7, <1>8, <1>9, <1>10, <1>11
     DEF QueueNumbers, Room
<1> QED
  BY <1>12


\* A broadcast is forged.
LEMMA ForgeQueues ==
  ASSUME IInv, QueueInv, Forge
  PROVE  QueueInv'
<1>1. PICK r \in Nat, b \in Nat, s \in Nat, t \in Nat, e \in Nat, q \in Nat,
           br \in Nat, sr \in Nat, tr \in Nat, er \in Nat :
        QueueNumbers(r, b, s, t, e, q, br, sr, tr, er)
  BY QueueNumbersAre
<1>2. /\ t = sentTx /\ s = SsBatch /\ b = MaxBcastBatch /\ e = brI /\ q = queued
      /\ r > 0 /\ b > 0 /\ s >= b + 2 /\ t <= s - 1
      /\ Due = q + er
      /\ Room(t + b - 1) = tr + br - r - 1
      /\ Room(s + b - 1) = sr + br - r - 1
      /\ Room(s + b - 2) = sr + br - 2 * r - 1
      /\ Room(s + b - 1 + t) = sr + br - r + tr - 1
  BY <1>1 DEF QueueNumbers
<1>3. /\ pc = "forge" /\ e < b
      /\ signaled' = (signaled \/ t = 0)
      /\ sentTx' = (IF t = s - 1 THEN 0 ELSE t + 1)
      /\ brI' = e + 1 /\ queued' = q /\ signals' = signals
      /\ t + 1 = s - 1 => pc' = "poll"
  <2>1. /\ (sentTx + 1) % SsBatch = IF sentTx = SsBatch - 1 THEN 0 ELSE sentTx + 1
        /\ sentTx % SsBatch = sentTx
    BY NextTx, ThisTx DEF IInv, CountersOK
  <2>2. t + 1 = s - 1 => PollDue(sentTx + 1)
    <3>1. t + 1 = s - 1 => (t + 1) % s = s - 1
      BY <1>2
    <3> QED
      BY <1>2, <3>1 DEF PollDue
  <2>3. e < b
    BY <1>2 DEF Forge, IInv, PhaseFits
  <2> QED
    BY <1>2, <2>1, <2>2, <2>3 DEF Forge
<1>4. /\ Due' = q + er + r
      /\ Room(t + b) = tr + br - 1
      /\ Room(s + b) = sr + br - 1
      /\ Room(s + b + t) = sr + br + tr - 1
  <2>1. /\ r = RemMachNum /\ br = b * r /\ sr = s * r /\ tr = t * r /\ er = e * r
        /\ r \in Nat /\ e \in Nat /\ b \in Nat /\ s \in Nat /\ t \in Nat
    BY <1>1 DEF QueueNumbers
  <2>2. Due' = q + (e + 1) * r
    BY <1>3, <2>1 DEF Due
  <2>3. (e + 1) * r = e * r + r
    OBVIOUS
  <2>4. (t + b) * r = t * r + b * r
    OBVIOUS
  <2>5. (s + b) * r = s * r + b * r
    OBVIOUS
  <2>6. (s + b + t) * r = s * r + b * r + t * r
    OBVIOUS
  <2>7. Due' = q + er + r
    BY <2>1, <2>2, <2>3
  <2>8. /\ Room(t + b) = (t + b) * r - 1
        /\ Room(s + b) = (s + b) * r - 1
        /\ Room(s + b + t) = (s + b + t) * r - 1
    BY <2>1 DEF Room
  <2> QED
    BY <2>1, <2>4, <2>5, <2>6, <2>7, <2>8
<1>5. SsBatch' = SsBatch /\ MaxBcastBatch' = MaxBcastBatch
  BY DEF SsBatch
<1>6. CASE t = 0
  <2>1. signals = {} /\ ~signaled /\ q + er <= sr + br - r - 1
    BY <1>2, <1>6 DEF QueueInv
  <2>2. signaled' /\ signals' = {}
    BY <1>3, <1>6, <2>1
  <2>5. 1 # s - 1 /\ 0 # s - 1 /\ e + 1 <= b
    BY <1>2, <1>3
  <2>6. sentTx' = 1 /\ brI' <= b
    BY <1>3, <1>6, <2>5
  <2>3. brI' <= 1 + b - 1
    BY <2>6
  <2>4. Due' <= Room(s + b - 1 + 1)
    <3>1. s + b - 1 + 1 = s + b
      BY <1>2
    <3>2. q + er + r <= sr + br - 1
      BY <2>1
    <3> QED
      BY <1>4, <3>1, <3>2
  <2> QED
    BY <1>2, <1>3, <1>5, <2>2, <2>3, <2>4, <2>5, <2>6 DEF QueueInv
<1>7. CASE t = s - 1
  <2>1. signals = {} /\ q + er <= sr + br - 2 * r - 1
    BY <1>2, <1>3, <1>7 DEF QueueInv
  <2>2. ~signaled
    <3>1. signaled => t <= e
      BY <1>2 DEF IInv, FlagIsRecent
    <3> QED
      BY <1>2, <1>3, <1>7, <3>1
  <2>3. 0 # s - 1 /\ t # 0
    BY <1>2, <1>7
  <2>5. sentTx' = 0 /\ signals' = {}
    BY <1>3, <1>7, <2>1
  <2>6. ~signaled'
    BY <1>3, <2>2, <2>3
  <2>4. Due' <= Room(s + b - 1)
    BY <1>2, <1>4, <2>1
  <2> QED
    BY <1>2, <1>3, <1>5, <2>3, <2>4, <2>5, <2>6 DEF QueueInv
<1>8. CASE t # 0 /\ t # s - 1
  <2>1. sentTx' = t + 1 /\ t + 1 # 0
    BY <1>3, <1>8
  <2>6. signaled' <=> signaled
    BY <1>3, <1>8
  <2>2. /\ (t + 1) + b - 1 = t + b /\ s + b - 1 + (t + 1) = s + b + t
    BY <1>2
  <2>3. signaled => signals = {} /\ e + 1 <= (t + 1) + b - 1
    <3>1. signaled => signals = {} /\ e <= t + b - 1
      BY <1>2 DEF QueueInv
    <3> QED
      BY <3>1
  <2>4. ASSUME signals # {}
        PROVE  \E x \in 1..q : signals = {x} /\ Due' - x <= Room(t + b)
    <3>1. PICK x \in 1..q : signals = {x} /\ Due - x <= Room(t + b - 1)
      BY <1>2, <2>4 DEF QueueInv
    <3>2. q + er + r - x <= tr + br - 1
      BY <1>2, <3>1
    <3> QED
      BY <1>4, <3>1, <3>2
  <2>5. signaled \/ signals # {} => Due' <= Room(s + b + t)
    <3>1. signaled \/ signals # {} => q + er <= sr + br - r + tr - 1
      BY <1>2 DEF QueueInv
    <3> QED
      BY <1>4, <3>1
  <2> QED
    BY <1>2, <1>3, <1>5, <2>1, <2>2, <2>3, <2>4, <2>5, <2>6 DEF QueueInv
<1> QED
  BY <1>6, <1>7, <1>8

\* A batch is posted.
LEMMA PostQueues ==
  ASSUME IInv, LinksInv, QueueInv, Post
  PROVE  QueueInv'
<1>1. PICK r \in Nat, b \in Nat, s \in Nat, t \in Nat, e \in Nat, q \in Nat,
           br \in Nat, sr \in Nat, tr \in Nat, er \in Nat :
        QueueNumbers(r, b, s, t, e, q, br, sr, tr, er)
  BY QueueNumbersAre
<1>2. /\ t = sentTx /\ s = SsBatch /\ b = MaxBcastBatch /\ e = brI /\ q = queued
      /\ r > 0 /\ b > 0 /\ er = e * RemMachNum
      /\ e <= t + b - 1 => er <= tr + br - r
      /\ Due = q + er
      /\ Room(t + b - 1) = tr + br - r - 1
  BY <1>1 DEF QueueNumbers
<1>3. PICK m \in Nat : Len(posted'.chain) = m /\ 0 < m /\ m <= er
  BY <1>2, PostedLength
<1>4. /\ pc = "post" /\ pc' # "poll" /\ sentTx' = t /\ brI' = 0 /\ ~signaled'
      /\ queued' = q + m
      /\ signals' = IF signaled THEN signals \cup {q + 1} ELSE signals
  BY <1>2, <1>3 DEF Post
<1>5. Due' = q + m /\ Due' <= Due
  <2>1. queued' \in Nat
    BY <1>4
  <2>2. Due' = queued'
    <3>1. Due' = queued' + 0 * RemMachNum
      BY <1>4 DEF Due
    <3>2. 0 * RemMachNum = 0
      BY QueueAssumption
    <3> QED
      BY <2>1, <3>1, <3>2
  <2> QED
    BY <1>2, <1>3, <1>4, <2>2
<1>6. q + m \in Nat /\ Due \in Int
  BY <1>2
<1>7. CASE signaled
  <2>1. signals = {} /\ e <= t + b - 1 /\ t # 0 /\ Due <= Room(s + b - 1 + t)
    BY <1>2, <1>7 DEF QueueInv
  <2>2. t # s - 1
    <3>1. t <= e /\ s >= b + 2 /\ e <= b
      BY <1>1, <1>2, <1>7 DEF IInv, FlagIsRecent, QueueNumbers
    <3> QED
      BY <3>1
  <2>3. signals' = {q + 1} /\ q + 1 \in 1..queued'
    BY <1>3, <1>4, <1>7, <2>1
  <2>4. Due' - (q + 1) <= Room(t + b - 1)
    <3>1. er <= tr + br - r
      BY <1>2, <2>1
    <3>2. q + m - (q + 1) <= tr + br - r - 1
      BY <1>3, <3>1
    <3> QED
      BY <1>2, <1>5, <3>2
  <2>5. Due' <= Room(s + b - 1 + t)
    <3>1. Room(s + b - 1 + t) \in Int
      BY <1>1 DEF QueueNumbers
    <3> QED
      BY <1>5, <1>6, <2>1, <3>1
  <2> QED
    BY <1>2, <1>4, <1>6, <2>1, <2>2, <2>3, <2>4, <2>5 DEF QueueInv
<1>8. CASE ~signaled
  <2>1. signals' = signals
    BY <1>4, <1>8
  <2>2. /\ Room(s + b - 1 + t) \in Int /\ Room(s + b - 1) \in Int
        /\ Room(s + b - 2) \in Int /\ Room(t + b - 1) \in Int
    BY <1>1 DEF QueueNumbers
  <2>3. ASSUME signals # {}
        PROVE  \E x \in 1..queued' : signals = {x} /\ Due' - x <= Room(t + b - 1)
    <3>1. PICK x \in 1..q : signals = {x} /\ Due - x <= Room(t + b - 1)
      BY <1>2, <2>3 DEF QueueInv
    <3>2. x \in 1..queued' /\ Due' - x <= Room(t + b - 1)
      BY <1>4, <1>5, <1>6, <2>2, <3>1
    <3> QED
      BY <3>1, <3>2
  <2>4. t = 0 => signals = {} /\ Due' <= Room(s + b - 1)
    <3>1. t = 0 => signals = {} /\ Due <= Room(s + b - 1)
      BY <1>2 DEF QueueInv
    <3> QED
      BY <1>5, <1>6, <2>2, <3>1
  <2>5. signals # {} => Due' <= Room(s + b - 1 + t)
    <3>1. signals # {} => Due <= Room(s + b - 1 + t)
      BY <1>2 DEF QueueInv
    <3> QED
      BY <1>5, <1>6, <2>2, <3>1
  <2>6. t = s - 1 => signals = {} /\ Due' <= Room(s + b - 2)
    <3>1. t = s - 1 => signals = {} /\ Due <= Room(s + b - 2)
      BY <1>2, <1>4 DEF QueueInv
    <3> QED
      BY <1>5, <1>6, <2>2, <3>1
  <2> QED
    BY <1>2, <1>4, <1>6, <2>1, <2>3, <2>4, <2>5, <2>6 DEF QueueInv
<1> QED
  BY <1>7, <1>8

\* The completion is there.
LEMMA PollQueues ==
  ASSUME IInv, QueueInv, Poll
  PROVE  QueueInv'
<1>1. PICK r \in Nat, b \in Nat, s \in Nat, t \in Nat, e \in Nat, q \in Nat,
           br \in Nat, sr \in Nat, tr \in Nat, er \in Nat :
        QueueNumbers(r, b, s, t, e, q, br, sr, tr, er)
  BY QueueNumbersAre
<1>2. /\ t = sentTx /\ s = SsBatch /\ b = MaxBcastBatch /\ e = brI /\ q = queued
      /\ r > 0 /\ b > 0 /\ s >= b + 2
      /\ t = s - 1 => tr = sr - r
      /\ Due = q + er
      /\ Room(t + b - 1) = tr + br - r - 1
      /\ Room(s + b - 2) = sr + br - 2 * r - 1
  BY <1>1 DEF QueueNumbers
<1>3. pc = "poll" /\ signals # {} /\ t = s - 1 /\ t # 0
  BY <1>2 DEF Poll, IInv, PhaseFits
<1>4. PICK x \in 1..q : signals = {x} /\ Due - x <= Room(t + b - 1)
  BY <1>2, <1>3 DEF QueueInv
<1>5. Min({x}) = x
  BY DEF Min
<1>6. ~signaled
  BY <1>3 DEF QueueInv
<1>7. /\ queued' = q - x /\ signals' = {} /\ ~signaled' /\ sentTx' = t /\ brI' = e
      /\ pc' # "poll"
  <2>1. {y - x : y \in signals \ {x}} = {}
    BY <1>4
  <2> QED
    BY <1>2, <1>4, <1>5, <1>6, <2>1 DEF Poll, AfterForge
<1>8. queued' \in Nat
  BY <1>4, <1>7
<1>9. Due' = q - x + er
  <2>1. Due' = queued' + er
    <3>1. er = e * RemMachNum
      BY <1>1 DEF QueueNumbers
    <3> QED
      BY <1>7, <3>1 DEF Due
  <2> QED
    BY <1>7, <2>1
<1>10. Due' <= Room(s + b - 2)
  <2>1. q + er - x <= sr - r + br - r - 1
    BY <1>2, <1>3, <1>4
  <2> QED
    BY <1>2, <1>9, <2>1
<1> QED
  BY <1>2, <1>3, <1>7, <1>8, <1>10 DEF QueueInv

\* Every step keeps the bounds.
LEMMA QueueStep ==
  ASSUME IInv, LinksInv, QueueInv, [Next]_vars
  PROVE  QueueInv'
<1>1. ASSUME UNCHANGED <<queued, signaled, signals, sentTx>>, brI' = brI,
             pc' # pc => pc # "poll" /\ pc' # "poll"
      PROVE  QueueInv'
  <2>1. Due' = Due
    BY <1>1 DEF Due
  <2> QED
    BY <1>1, <2>1 DEF QueueInv
<1>2. ASSUME NEW act \in SUBSET RmIds, Reconfigure(act) PROVE QueueInv'
  BY <1>1, <1>2 DEF Reconfigure
<1>3. ASSUME NEW n \in 1..MaxMessages, SendBroadcasts(n) PROVE QueueInv'
  <2>1. brI = 0
    BY <1>3 DEF SendBroadcasts, IInv, PhaseFits
  <2> QED
    BY <1>1, <1>3, <2>1 DEF SendBroadcasts
<1>4. CASE Forge
  BY <1>4, ForgeQueues
<1>5. CASE Poll
  BY <1>5, PollQueues
<1>6. CASE Post
  BY <1>6, PostQueues
<1>7. CASE UNCHANGED vars
  BY <1>1, <1>7 DEF vars
<1> QED
  BY <1>2, <1>3, <1>4, <1>5, <1>6, <1>7 DEF Next

\* Nothing is queued at first.
LEMMA QueueInit == Init => QueueInv
<1> SUFFICES ASSUME Init PROVE QueueInv
  OBVIOUS
<1>1. queued = 0 /\ ~signaled /\ signals = {} /\ sentTx = 0 /\ brI = 0 /\ pc = "idle"
  BY DEF Init
<1>2. PICK r \in Nat, s \in Nat, b \in Nat :
        r = RemMachNum /\ s = SsBatch /\ b = MaxBcastBatch /\ r > 0 /\ s >= b + 2 /\ b > 0
  BY SsBatchLarge, QueueAssumption
<1>3. Due = 0
  BY <1>1, <1>2 DEF Due
<1>4. 1 * r <= (s + b - 1) * r /\ 1 * r <= (s + b - 2) * r
  BY <1>2, TimesKeepsOrder
<1>5. Due <= Room(s + b - 1)
  <2>1. (s + b - 1) * r \in Int
    OBVIOUS
  <2> QED
    BY <1>2, <1>3, <1>4, <2>1 DEF Room
<1>6. 0 # SsBatch - 1
  BY <1>2
<1> QED
  BY <1>1, <1>2, <1>5, <1>6 DEF QueueInv

\* What the send queue may hold: two periods and a batch, less three
\* broadcasts and one message.
QueueBound == (2 * SsBatch + MaxBcastBatch - 3) * RemMachNum - 1

LEMMA InvBoundsQueue ==
  ASSUME IInv, LinksInv, QueueInv
  PROVE  queued <= QueueBound
<1>1. PICK r \in Nat, b \in Nat, s \in Nat, t \in Nat, e \in Nat, q \in Nat,
           br \in Nat, sr \in Nat, tr \in Nat, er \in Nat :
        QueueNumbers(r, b, s, t, e, q, br, sr, tr, er)
  BY QueueNumbersAre
<1>2. /\ t = sentTx /\ s = SsBatch /\ b = MaxBcastBatch /\ e = brI /\ q = queued
      /\ r = RemMachNum /\ br = b * r /\ sr = s * r
      /\ r > 0 /\ b > 0 /\ s >= b + 2 /\ t <= s - 1
      /\ sr >= br + 2 * r /\ br >= r
      /\ t = s - 1 => tr = sr - r
      /\ t <= s - 2 => tr <= sr - 2 * r
      /\ e > 0 => er >= r
      /\ Due = q + er
      /\ Room(s + b - 1) = sr + br - r - 1
      /\ Room(s + b - 2) = sr + br - 2 * r - 1
      /\ Room(s + b - 1 + t) = sr + br - r + tr - 1
  BY <1>1 DEF QueueNumbers
<1>3. QueueBound = 2 * sr + br - 3 * r - 1
  <2>1. (2 * s + b - 3) * r = 2 * (s * r) + b * r - 3 * r
    OBVIOUS
  <2> QED
    BY <1>2, <2>1 DEF QueueBound
<1>4. CASE t = 0
  <2>1. q + er <= sr + br - r - 1
    BY <1>2, <1>4 DEF QueueInv
  <2> QED
    BY <1>2, <1>3, <2>1
<1>5. CASE t \in 1..(s - 2)
  <2>1. signaled \/ signals # {}
    BY <1>2, <1>5 DEF IInv, SignalOnItsWay
  <2>2. q + er <= sr + br - r + tr - 1
    BY <1>2, <2>1 DEF QueueInv
  <2>3. tr <= sr - 2 * r
    BY <1>2, <1>5
  <2> QED
    BY <1>2, <1>3, <2>2, <2>3
<1>6. CASE t = s - 1 /\ pc # "poll"
  <2>1. q + er <= sr + br - 2 * r - 1
    BY <1>2, <1>6 DEF QueueInv
  <2> QED
    BY <1>2, <1>3, <2>1
<1>7. CASE t = s - 1 /\ pc = "poll"
  <2>1. signals # {}
    BY <1>7, InvAnswersPoll DEF PollAnswered
  <2>2. q + er <= sr + br - r + tr - 1
    BY <1>2, <2>1 DEF QueueInv
  <2>3. e > 0
    BY <1>2, <1>7 DEF LinksInv
  <2> QED
    BY <1>2, <1>3, <1>7, <2>2, <2>3
<1> QED
  BY <1>2, <1>4, <1>5, <1>6, <1>7

\* The send queue never holds more than two periods of signals and a batch,
\* less three broadcasts and one message, for any number of machines.
THEOREM QueueIsBounded == Spec => [](queued <= QueueBound)
<1>1. Init => IInv /\ LinksInv /\ QueueInv
  BY InitInv, LinksInit, QueueInit
<1>2. IInv /\ LinksInv /\ QueueInv /\ [Next]_vars => IInv' /\ LinksInv' /\ QueueInv'
  BY StepInv, LinksStep, QueueStep
<1>3. IInv /\ LinksInv /\ QueueInv => queued <= QueueBound
  BY InvBoundsQueue
<1> QED
  BY <1>1, <1>2, <1>3, PTL DEF Spec

\* The depth that od_init_qp_meta.c gives the send queue is enough, as long as
\* the ten entries that it adds make up for the broadcasts of a batch beyond
\* the third: with the defaults of the code, up to eleven remote machines.
THEOREM QueueHolds ==
  ASSUME (MaxBcastBatch - 3) * RemMachNum <= 11
  PROVE  Spec => []SendQueueFits
<1>1. PICK r \in Nat, b \in Nat, s \in Nat :
        r = RemMachNum /\ b = MaxBcastBatch /\ s = SsBatch
  BY SsBatchLarge, QueueAssumption
<1>2. QueueBound = (2 * s + b - 3) * r - 1 /\ SendQDepth = 2 * s * r + 10
  BY <1>1 DEF QueueBound, SendQDepth
<1>3. (2 * s + b - 3) * r = 2 * s * r + (b - 3) * r
  OBVIOUS
<1>4. (b - 3) * r <= 11 /\ (b - 3) * r \in Int /\ 2 * s * r \in Int
  BY <1>1
<1>5. QueueBound <= SendQDepth /\ QueueBound \in Int /\ SendQDepth \in Int
  BY <1>2, <1>3, <1>4
<1>6. Spec => [](queued <= QueueBound)
  BY QueueIsBounded
<1>7. Spec => [](queued \in Nat)
  <2>1. Init => IInv /\ LinksInv /\ QueueInv
    BY InitInv, LinksInit, QueueInit
  <2>2. IInv /\ LinksInv /\ QueueInv /\ [Next]_vars => IInv' /\ LinksInv' /\ QueueInv'
    BY StepInv, LinksStep, QueueStep
  <2>3. QueueInv => queued \in Nat
    BY DEF QueueInv
  <2> QED
    BY <2>1, <2>2, <2>3, PTL DEF Spec
<1>8. queued \in Nat /\ queued <= QueueBound => SendQueueFits
  BY <1>5 DEF SendQueueFits
<1> QED
  BY <1>6, <1>7, <1>8, PTL
=============================================================================
