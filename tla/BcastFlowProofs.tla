-------------------------- MODULE BcastFlowProofs --------------------------
(***************************************************************************)
(* The safety of the credits and of the quorums of BcastFlow, for any      *)
(* number of senders, receivers, credits, operations and losses.           *)
(***************************************************************************)
EXTENDS BcastFlow, SumTheorems, SequenceTheorems

----------------------------------------------------------------------------
(* The inductive invariant.                                                *)

\* The id after the last operation of a message or an ack.
End(mes) == mes.lid + mes.num

Mes == [lid : Nat, num : 1..MaxCoalesce]
Ack == [lid : Nat, num : Nat, credits : Nat]

\* The types that a step keeps by itself.  The counts are integers here:
\* that they are in range follows from the conjuncts below.
Shape ==
  /\ nextLid \in [Senders -> 0..MaxOps]
  /\ pullLid \in [Senders -> Nat]
  /\ acked \in [Senders -> [Lids -> SUBSET Receivers]]
  /\ pending \in [Senders -> Seq(Mes)]
  /\ credits \in [Senders -> [Receivers -> Nat]]
  /\ active \in [Senders -> SUBSET Receivers]
  /\ timeOutCnt \in [Senders -> 0..(CreditTimeout - 1)]
  /\ ackRecvs \in [Senders -> Int]
  /\ mesRecvs \in [Receivers -> Int]
  /\ ackToSend \in [Receivers -> [Senders -> Ack]]
  /\ received \in [Receivers -> [Senders -> SUBSET Nat]]
  /\ mesNet \in [Senders -> [Receivers -> Seq(Mes)]]
  /\ ackNet \in [Receivers -> [Senders -> Seq(Ack)]]
  /\ lost \in [Senders -> [Receivers -> Nat]]

\* A receive is posted for every message that an ack being gathered does not
\* speak of: the receives of those are posted again as the ack goes out.
MesRecvsLeft ==
  \A r \in Receivers :
    mesRecvs[r] + SumFunction([s \in Senders |-> ackToSend[r][s].credits])
      = MesRecvNum

\* No more receives are posted for acks than there is room for.
AckRecvsFit == \A s \in Senders : ackRecvs[s] <= AckRecvNum

\* A sender has a receive posted for every credit that it has given away.
AckRecvsLeft ==
  \A s \in Senders :
    SumFunction([r \in Receivers |-> MaxCredits - credits[s][r]]) <= ackRecvs[s]

\* An ack on its way speaks of an operation and returns a credit at the least;
\* one that is not begun does neither.
AcksReturnCredits ==
  \A r \in Receivers, s \in Senders :
    /\ ackToSend[r][s].num > 0 <=> ackToSend[r][s].credits > 0
    /\ ackToSend[r][s].num = 0 => ackToSend[r][s].lid = 0
    /\ \A i \in 1..Len(ackNet[r][s]) :
         ackNet[r][s][i].num >= 1 /\ ackNet[r][s][i].credits >= 1

\* The messages of q follow one another, and end before lid.
Increasing(q, lid) ==
  /\ \A i \in 1..Len(q) : End(q[i]) <= lid
  /\ \A i, j \in 1..Len(q) : i < j => End(q[i]) <= q[j].lid

\* Everything that speaks of s's operations does so in the order of their ids:
\* what has retired and what is pending, and between the two, for a receiver,
\* the acks of r, the one it gathers and the messages on their way to it.
SenderInOrder(s) ==
  pullLid[s] <= nextLid[s] /\ Increasing(pending[s], nextLid[s])

ChannelInOrder(s, r) ==
  /\ Increasing(mesNet[s][r], nextLid[s])
  /\ \A i \in 1..Len(mesNet[s][r]), j \in 1..Len(pending[s]) :
       End(mesNet[s][r][i]) <= pending[s][j].lid
  /\ \A i \in 1..Len(mesNet[s][r]) : End(ackToSend[r][s]) <= mesNet[s][r][i].lid
  /\ \A j \in 1..Len(pending[s]) : End(ackToSend[r][s]) <= pending[s][j].lid
  /\ End(ackToSend[r][s]) <= nextLid[s]
  /\ \A i \in 1..Len(ackNet[r][s]) : End(ackNet[r][s][i]) <= nextLid[s]

InOrder ==
  \A s \in Senders :
    SenderInOrder(s) /\ \A r \in Receivers : ChannelInOrder(s, r)

\* received is never ahead of the sender.
ReceivedWereSent ==
  \A r \in Receivers, s \in Senders : \A l \in received[r][s] : l < nextLid[s]

IInv ==
  Shape /\ CreditsAccounted /\ MesRecvsLeft /\ AckRecvsLeft /\ AckRecvsFit
    /\ AcksReturnCredits /\ InOrder /\ ReceivedWereSent

\* With assertions on, an ack speaks only of operations that were received.
SpeaksOf(ack) == ack.lid..(ack.lid + ack.num - 1)

AcksSpeakTrue ==
  \A r \in Receivers, s \in Senders :
    /\ SpeaksOf(ackToSend[r][s]) \subseteq received[r][s]
    /\ \A i \in 1..Len(ackNet[r][s]) : SpeaksOf(ackNet[r][s][i]) \subseteq received[r][s]

HonestInv == AcksSpeakTrue /\ AcksAreHonest /\ RetiredByQuorum

----------------------------------------------------------------------------
(* Lemmas about the operators of the model.                                *)

\* What the numbers of receives are.
LEMMA RecvNums ==
  /\ MesRecvNum \in Nat /\ AckRecvNum \in Nat /\ MaxCredits \in Nat
  /\ Cardinality(Senders) \in Nat /\ Cardinality(Receivers) \in Nat
BY FlowAssumption, FS_CardinalityType DEF MesRecvNum, AckRecvNum

\* The credits of a sequence of acks, as a sum over its positions.
LEMMA CreditsOfIsSum ==
  ASSUME NEW q \in Seq(Ack)
  PROVE  /\ Len(q) \in Nat /\ DOMAIN q = 1..Len(q) /\ IsFiniteSet(1..Len(q))
         /\ CreditsOf(q)
              = SumFunctionOnSet([i \in 1..Len(q) |-> q[i].credits], 1..Len(q))
         /\ \A i \in 1..Len(q) : q[i] \in Ack /\ q[i].credits \in Nat
<1>1. /\ Len(q) \in Nat /\ DOMAIN q = 1..Len(q)
      /\ \A i \in 1..Len(q) : q[i] \in Ack
  BY LenProperties, ElementOfSeq
<1>2. IsFiniteSet(1..Len(q))
  BY <1>1, FS_Interval
<1> QED
  BY <1>1, <1>2 DEF CreditsOf, SumFunction, Ack

\* They are no fewer than those of each ack, and no fewer than the acks if each
\* returns one.
LEMMA CreditsOfBounds ==
  ASSUME NEW q \in Seq(Ack)
  PROVE  /\ CreditsOf(q) \in Nat
         /\ \A i \in 1..Len(q) : q[i].credits <= CreditsOf(q)
         /\ (\A i \in 1..Len(q) : q[i].credits >= 1) => Len(q) <= CreditsOf(q)
<1> DEFINE f == [i \in 1..Len(q) |-> q[i].credits]
           g == [i \in 1..Len(q) |-> 1]
           D == 1..Len(q)
<1>1. /\ CreditsOf(q) = SumFunctionOnSet(f, D)
      /\ \A i \in D : f[i] = q[i].credits /\ f[i] \in Nat
      /\ IsFiniteSet(D) /\ Len(q) \in Nat
      /\ \A i \in D : g[i] = 1
  BY CreditsOfIsSum
<1>2. Cardinality(D) = Len(q)
  BY <1>1, FS_Interval
<1> HIDE DEF f, g, D
<1>3. /\ SumFunctionOnSet(f, D) \in Nat
      /\ \A i \in D : f[i] <= SumFunctionOnSet(f, D)
  BY <1>1, SumNat
<1>4. SumFunctionOnSet(g, D) = 1 * Cardinality(D)
  BY <1>1, SumConstant
<1>5. ASSUME \A i \in D : f[i] >= 1 PROVE Len(q) <= CreditsOf(q)
  <2>1. \A i \in D : g[i] \in Int /\ f[i] \in Int /\ g[i] <= f[i]
    BY <1>1, <1>5
  <2>2. SumFunctionOnSet(g, D) <= SumFunctionOnSet(f, D)
    BY <1>1, <2>1, SumMonotonic
  <2> QED
    BY <1>1, <1>2, <1>4, <2>2
<1> QED
  BY <1>1, <1>3, <1>5 DEF D

\* One more ack adds its credits.
LEMMA CreditsOfAppend ==
  ASSUME NEW q \in Seq(Ack), NEW ack \in Ack
  PROVE  CreditsOf(Append(q, ack)) = CreditsOf(q) + ack.credits
<1> DEFINE n == Len(q)
           f == [i \in 1..n |-> q[i].credits]
           g == [i \in 1..(n + 1) |-> Append(q, ack)[i].credits]
<1>1. /\ n \in Nat /\ CreditsOf(q) = SumFunctionOnSet(f, 1..n)
      /\ \A i \in 1..n : q[i].credits \in Nat
      /\ IsFiniteSet(1..n)
  BY CreditsOfIsSum
<1>2. /\ Append(q, ack) \in Seq(Ack) /\ Len(Append(q, ack)) = n + 1
      /\ \A i \in 1..n : Append(q, ack)[i] = q[i]
      /\ Append(q, ack)[n + 1] = ack
  OBVIOUS
<1>3. CreditsOf(Append(q, ack)) = SumFunctionOnSet(g, 1..(n + 1))
  BY <1>2, CreditsOfIsSum
<1>4. \A i \in 1..n : f[i] \in Int /\ g[i] = f[i]
  BY <1>1, <1>2
<1>5. g[n + 1] = ack.credits /\ ack.credits \in Nat
  BY <1>1, <1>2 DEF Ack
<1>6. \A i \in 1..(n + 1) : g[i] \in Int
  BY <1>1, <1>4, <1>5
<1> HIDE DEF f, g, n
<1>7. /\ SumFunctionOnSet(g, 1..(n + 1)) = g[n + 1] + SumFunctionOnSet(g, 1..n)
      /\ SumFunctionOnSet(g, 1..n) \in Int
  BY <1>1, <1>6, SumLast
<1>8. SumFunctionOnSet(g, 1..n) = SumFunctionOnSet(f, 1..n)
  BY <1>1, <1>4, SumCongruent
<1> QED
  BY <1>1, <1>3, <1>5, <1>7, <1>8

\* Taking the first ack takes its credits.
LEMMA CreditsOfTail ==
  ASSUME NEW q \in Seq(Ack), q # <<>>
  PROVE  /\ CreditsOf(q) = Head(q).credits + CreditsOf(Tail(q))
         /\ Head(q).credits \in Nat /\ CreditsOf(Tail(q)) \in Nat
<1> DEFINE n == Len(q) - 1
           f == [i \in 1..Len(q) |-> q[i].credits]
           g == [i \in 1..n |-> Tail(q)[i].credits]
<1>1. /\ Tail(q) \in Seq(Ack) /\ Len(Tail(q)) = n
      /\ \A i \in 1..n : Tail(q)[i] = q[i + 1]
      /\ Head(q) = q[1] /\ n \in Nat /\ n + 1 = Len(q)
  BY HeadTailProperties, EmptySeq
<1>2. CreditsOf(q) = SumFunctionOnSet(f, 1..(n + 1))
  BY <1>1, CreditsOfIsSum
<1>3. CreditsOf(Tail(q)) = SumFunctionOnSet(g, 1..n)
  BY <1>1, CreditsOfIsSum
<1>4. \A i \in 1..Len(q) : f[i] \in Int
  <2>1. \A i \in 1..Len(q) : q[i].credits \in Nat
    BY CreditsOfIsSum
  <2> QED
    BY <2>1
<1>5. \A i \in 1..n : g[i] = f[i + 1]
  BY <1>1
<1>6. f[1] = Head(q).credits
  BY <1>1
<1> HIDE DEF f, g, n
<1>7. SumFunctionOnSet(f, 1..(n + 1)) = f[1] + SumFunctionOnSet(g, 1..n)
  BY <1>1, <1>4, <1>5, SumShift
<1>8. CreditsOf(Tail(q)) \in Nat
  BY <1>1, CreditsOfBounds
<1>9. Head(q).credits \in Nat
  <2>1. Head(q) \in Ack
    BY HeadTailProperties
  <2> QED
    BY <2>1 DEF Ack
<1> QED
  BY <1>2, <1>3, <1>6, <1>7, <1>8, <1>9

\* A sequence belongs to the sequences over what its elements belong to.
LEMMA SeqOfElements ==
  ASSUME NEW S, NEW T, NEW q \in Seq(S), \A i \in 1..Len(q) : q[i] \in T
  PROVE  q \in Seq(T)
<1>1. Len(q) \in Nat /\ q \in [1..Len(q) -> S]
  BY LenProperties
<1>2. q \in [1..Len(q) -> T]
  BY <1>1
<1> QED
  BY <1>1, <1>2, SeqDef

\* What Shape says of one sender and one receiver.
LEMMA Typed ==
  ASSUME Shape, NEW s \in Senders, NEW r \in Receivers
  PROVE  /\ nextLid[s] \in 0..MaxOps /\ pullLid[s] \in Nat
         /\ pending[s] \in Seq(Mes) /\ Len(pending[s]) \in Nat
         /\ mesNet[s][r] \in Seq(Mes) /\ Len(mesNet[s][r]) \in Nat
         /\ ackNet[r][s] \in Seq(Ack) /\ Len(ackNet[r][s]) \in Nat
         /\ ackToSend[r][s] \in Ack /\ ackToSend[r][s].lid \in Nat
         /\ ackToSend[r][s].num \in Nat /\ ackToSend[r][s].credits \in Nat
         /\ credits[s][r] \in Nat /\ lost[s][r] \in Nat
         /\ ackRecvs[s] \in Int /\ mesRecvs[r] \in Int
         /\ received[r][s] \in SUBSET Nat
<1>1. /\ pending[s] \in Seq(Mes) /\ mesNet[s][r] \in Seq(Mes)
      /\ ackNet[r][s] \in Seq(Ack) /\ ackToSend[r][s] \in Ack
  BY DEF Shape
<1>2. /\ Len(pending[s]) \in Nat /\ Len(mesNet[s][r]) \in Nat
      /\ Len(ackNet[r][s]) \in Nat
  BY <1>1, LenProperties
<1>3. /\ ackToSend[r][s].lid \in Nat /\ ackToSend[r][s].num \in Nat
      /\ ackToSend[r][s].credits \in Nat
  BY <1>1 DEF Ack
<1> QED
  BY <1>1, <1>2, <1>3 DEF Shape

\* The machines that are revived were missing, and are receivers.
LEMMA AliveAreReceivers ==
  ASSUME Shape, NEW s \in Senders
  PROVE  Alive(s) \in SUBSET Receivers
BY DEF Alive, Revived, Shape

\* The ack being gathered, once it speaks of mes too.
Merged(ack, mes) ==
  [lid |-> IF ack.num = 0 THEN mes.lid ELSE ack.lid,
   num |-> IF ack.num = 0 THEN mes.num ELSE ack.num + mes.num,
   credits |-> IF ack.num = 0 THEN 1 ELSE ack.credits + 1]

\* What ctx_ack_insert does to the ack.
LEMMA AckInsertMerges ==
  ASSUME Shape, NEW r \in Receivers, NEW s \in Senders, PollMessage(r, s)
  PROVE  /\ Head(mesNet[s][r]) \in Mes
         /\ Merged(ackToSend[r][s], Head(mesNet[s][r])) \in Ack
         /\ ackToSend' = [ackToSend EXCEPT
              ![r][s] = Merged(ackToSend[r][s], Head(mesNet[s][r]))]
         /\ \A p \in Receivers, z \in Senders :
              ackToSend'[p][z] = IF p = r /\ z = s
                                   THEN Merged(ackToSend[r][s], Head(mesNet[s][r]))
                                   ELSE ackToSend[p][z]
         /\ \A p \in Receivers \ {r} : ackToSend'[p] = ackToSend[p]
<1> DEFINE mes == Head(mesNet[s][r])
           ack == ackToSend[r][s]
<1>1. mes \in Mes
  BY HeadTailProperties DEF PollMessage, Shape
<1>2. ack \in Ack
  BY Typed
<1>3. AckInsert(r, s, mes)
  BY DEF PollMessage
<1>4. ackToSend' = [ackToSend EXCEPT ![r][s] =
        IF ack.num = 0 THEN [lid |-> mes.lid, num |-> mes.num, credits |-> 1]
        ELSE [lid |-> ack.lid, num |-> ack.num + mes.num,
              credits |-> ack.credits + 1]]
  BY <1>3 DEF AckInsert
<1> HIDE DEF mes, ack
<1>5. Merged(ack, mes) =
        IF ack.num = 0 THEN [lid |-> mes.lid, num |-> mes.num, credits |-> 1]
        ELSE [lid |-> ack.lid, num |-> ack.num + mes.num,
              credits |-> ack.credits + 1]
  BY DEF Merged
<1>6. Merged(ack, mes) \in Ack
  BY <1>1, <1>2 DEF Merged, Ack, Mes
<1>7. ackToSend' = [ackToSend EXCEPT ![r][s] = Merged(ack, mes)]
  BY <1>4, <1>5
<1>8. /\ \A p \in Receivers, z \in Senders :
           ackToSend'[p][z] = IF p = r /\ z = s THEN Merged(ack, mes)
                                                ELSE ackToSend[p][z]
      /\ \A p \in Receivers \ {r} : ackToSend'[p] = ackToSend[p]
  BY <1>7 DEF Shape
<1> QED
  BY <1>1, <1>6, <1>7, <1>8 DEF mes, ack

\* The broadcast of the first n pending messages of s to the machines alive.
Broadcast(s, alive, n) ==
  /\ pending' = [pending EXCEPT ![s] = SubSeq(pending[s], n + 1, Len(pending[s]))]
  /\ credits' = [credits EXCEPT ![s] = [r \in Receivers |->
                   IF r \in alive THEN credits[s][r] - n ELSE credits[s][r]]]
  /\ mesNet' = [mesNet EXCEPT ![s] = [r \in Receivers |->
                  IF r \in alive THEN mesNet[s][r] \o SubSeq(pending[s], 1, n)
                                 ELSE mesNet[s][r]]]
  /\ ackRecvs' = [ackRecvs EXCEPT ![s] = AckRecvNum]

\* What SendBroadcasts does: it sends to a quorum or not at all, and only what
\* all of those have credits for.
LEMMA SendBroadcastsSends ==
  ASSUME Shape, NEW s \in Senders, SendBroadcasts(s)
  PROVE  \/ UNCHANGED <<pending, credits, mesNet, ackRecvs>>
         \/ \E alive \in SUBSET Receivers, n \in 0..Len(pending[s]) :
              /\ \A r \in alive : n <= credits[s][r]
              /\ Broadcast(s, alive, n)
<1> DEFINE alive == Alive(s)
           have == {credits[s][r] : r \in alive}
           n == Min({Len(pending[s]), Available(s, alive)})
<1>1. alive \in SUBSET Receivers
  BY AliveAreReceivers
<1>2. CASE Cardinality(alive) < RemoteQuorum
  BY <1>2 DEF SendBroadcasts
<1>3. CASE ~(Cardinality(alive) < RemoteQuorum)
  <2>1. alive # {}
    <3>1. RemoteQuorum >= 1 /\ RemoteQuorum \in Int
      BY FlowAssumption, RecvNums
    <3> QED
      BY <1>3, <3>1, FS_EmptySet
  <2>2. have \in SUBSET Nat /\ have # {}
    BY <1>1, <2>1 DEF Shape
  <2>3. /\ Available(s, alive) \in Nat
        /\ \A r \in alive : Available(s, alive) <= credits[s][r]
    <3>1. Available(s, alive) = Min(have)
      BY DEF Available
    <3> HIDE DEF have
    <3>2. Min(have) \in have /\ \A y \in have : Min(have) <= y
      BY <2>2, MinOfNaturals
    <3> QED
      BY <2>2, <3>1, <3>2 DEF have
  <2>4. Len(pending[s]) \in Nat
    BY LenProperties DEF Shape
  <2>5. n \in 0..Len(pending[s]) /\ n <= Available(s, alive)
    BY <2>3, <2>4, MinOfTwo
  <2>6. \A r \in alive : n <= credits[s][r]
    <3>1. \A r \in alive : credits[s][r] \in Nat
      BY <1>1 DEF Shape
    <3> HIDE DEF alive, n
    <3> QED
      BY <2>3, <2>5, <3>1
  <2>7. Broadcast(s, alive, n)
    BY <1>3 DEF SendBroadcasts, DecreaseCredits, Broadcast, Shape
  <2> HIDE DEF alive, n
  <2> QED
    BY <1>1, <2>5, <2>6, <2>7
<1> QED
  BY <1>2, <1>3

----------------------------------------------------------------------------
(* The invariant holds initially.                                          *)

\* Nothing has been sent: every credit is with its sender.
LEMMA InitInv == Init => IInv
<1> SUFFICES ASSUME Init PROVE IInv
  OBVIOUS
<1> USE RecvNums
<1>1. Shape
  BY FlowAssumption DEF Init, Shape, NoAck, Ack, Lids
<1>2. CreditsAccounted
  <2>1. CreditsOf(<<>>) = 0
    <3>1. DOMAIN [i \in DOMAIN <<>> |-> <<>>[i].credits] = {}
      OBVIOUS
    <3> QED
      BY <3>1, SumOfEmpty DEF CreditsOf, SumFunction
  <2> QED
    BY <2>1 DEF Init, CreditsAccounted, NoAck
<1>3. MesRecvsLeft
  <2> SUFFICES ASSUME NEW r \in Receivers
               PROVE  mesRecvs[r]
                        + SumFunction([s \in Senders |-> ackToSend[r][s].credits])
                        = MesRecvNum
    BY DEF MesRecvsLeft
  <2> DEFINE f == [s \in Senders |-> ackToSend[r][s].credits]
  <2>1. DOMAIN f = Senders /\ \A s \in Senders : f[s] = 0
    BY DEF Init, NoAck
  <2> HIDE DEF f
  <2>2. SumFunction(f) = 0 * Cardinality(Senders)
    BY <2>1, FlowAssumption, SumConstant DEF SumFunction
  <2>3. mesRecvs[r] = MesRecvNum
    BY DEF Init
  <2> QED
    BY <2>2, <2>3 DEF f
<1>4. AckRecvsLeft
  <2> SUFFICES ASSUME NEW s \in Senders
               PROVE  SumFunction([r \in Receivers |-> MaxCredits - credits[s][r]])
                        <= ackRecvs[s]
    BY DEF AckRecvsLeft
  <2> DEFINE f == [r \in Receivers |-> MaxCredits - credits[s][r]]
  <2>1. DOMAIN f = Receivers /\ \A r \in Receivers : f[r] = 0
    BY DEF Init
  <2> HIDE DEF f
  <2>2. SumFunction(f) = 0 * Cardinality(Receivers)
    <3>1. IsFiniteSet(Receivers) /\ 0 \in Int
      BY FlowAssumption
    <3> QED
      BY <2>1, <3>1, SumConstant DEF SumFunction
  <2>3. ackRecvs[s] = AckRecvNum
    BY DEF Init
  <2> QED
    BY <2>2, <2>3 DEF f
<1>5. AcksReturnCredits
  BY DEF Init, AcksReturnCredits, NoAck
<1>6. InOrder
  BY DEF Init, InOrder, SenderInOrder, ChannelInOrder, Increasing, End, NoAck
<1>7. ReceivedWereSent
  BY DEF Init, ReceivedWereSent
<1>8. AckRecvsFit
  BY DEF Init, AckRecvsFit
<1> QED
  BY <1>1, <1>2, <1>3, <1>4, <1>5, <1>6, <1>7, <1>8 DEF IInv

----------------------------------------------------------------------------
(* Every step keeps the types.                                             *)

\* Every step leaves the state of its shape.
LEMMA ShapeStep == Shape /\ Next => Shape'
<1> SUFFICES ASSUME Shape, Next PROVE Shape'
  OBVIOUS
<1>1. ASSUME NEW s \in Senders, NEW n \in 1..MaxCoalesce, Insert(s, n)
      PROVE  Shape'
  <2>1. [lid |-> nextLid[s], num |-> n] \in Mes
    BY DEF Shape, Mes
  <2>2. Append(pending[s], [lid |-> nextLid[s], num |-> n]) \in Seq(Mes)
    BY <2>1 DEF Shape
  <2>3. nextLid[s] + n \in 0..MaxOps
    BY <1>1, FlowAssumption DEF Insert, Shape
  <2> QED
    BY <1>1, <2>2, <2>3 DEF Insert, Shape, receiverVars, netVars
<1>2. ASSUME NEW s \in Senders, AwaitCredits(s) PROVE Shape'
  <2>1. active' \in [Senders -> SUBSET Receivers]
    <3>1. active \in [Senders -> SUBSET Receivers]
      BY DEF Shape
    <3>2. UNCHANGED active \/ UpdateQInfo(s)
      BY <1>2 DEF AwaitCredits
    <3> QED
      BY <3>1, <3>2 DEF UpdateQInfo
  <2>2. timeOutCnt' \in [Senders -> 0..(CreditTimeout - 1)]
    <3>1. CreditTimeout \in Nat \ {0} /\ timeOutCnt[s] \in 0..(CreditTimeout - 1)
      BY FlowAssumption DEF Shape
    <3>2. CASE timeOutCnt[s] + 1 = CreditTimeout
      <4>1. timeOutCnt' = [timeOutCnt EXCEPT ![s] = 0]
        BY <1>2, <3>2 DEF AwaitCredits
      <4>2. 0 \in 0..(CreditTimeout - 1)
        BY <3>1
      <4> QED
        BY <4>1, <4>2 DEF Shape
    <3>3. CASE timeOutCnt[s] + 1 # CreditTimeout
      <4>1. timeOutCnt' = [timeOutCnt EXCEPT ![s] = timeOutCnt[s] + 1]
        BY <1>2, <3>3 DEF AwaitCredits
      <4>2. timeOutCnt[s] + 1 \in 0..(CreditTimeout - 1)
        BY <3>1, <3>3
      <4> QED
        BY <4>1, <4>2 DEF Shape
    <3> QED
      BY <3>2, <3>3
  <2> QED
    BY <1>2, <2>1, <2>2 DEF AwaitCredits, Shape, receiverVars, netVars
<1>3. ASSUME NEW s \in Senders, SendBroadcasts(s) PROVE Shape'
  <2>1. /\ active' \in [Senders -> SUBSET Receivers]
        /\ timeOutCnt' \in [Senders -> 0..(CreditTimeout - 1)]
    <3>1. /\ active' = [active EXCEPT ![s] = Alive(s)]
          /\ timeOutCnt' = [timeOutCnt EXCEPT ![s] = 0]
      BY <1>3 DEF SendBroadcasts
    <3>2. Alive(s) \in SUBSET Receivers /\ 0 \in 0..(CreditTimeout - 1)
      BY AliveAreReceivers, FlowAssumption
    <3> QED
      BY <3>1, <3>2 DEF Shape
  <2>2. /\ pending' \in [Senders -> Seq(Mes)]
        /\ credits' \in [Senders -> [Receivers -> Nat]]
        /\ mesNet' \in [Senders -> [Receivers -> Seq(Mes)]]
        /\ ackRecvs' \in [Senders -> Int]
    <3>1. CASE UNCHANGED <<pending, credits, mesNet, ackRecvs>>
      BY <3>1 DEF Shape
    <3>2. ASSUME NEW alive \in SUBSET Receivers, NEW n \in 0..Len(pending[s]),
                 \A r \in alive : n <= credits[s][r],
                 Broadcast(s, alive, n)
          PROVE  <2>2!1 /\ <2>2!2 /\ <2>2!3 /\ <2>2!4
      <4>1. pending[s] \in Seq(Mes) /\ Len(pending[s]) \in Nat
        BY LenProperties DEF Shape
      <4>2. /\ SubSeq(pending[s], n + 1, Len(pending[s])) \in Seq(Mes)
            /\ SubSeq(pending[s], 1, n) \in Seq(Mes)
        BY <4>1, ElementOfSeq, SubSeqProperties
      <4>3. \A r \in Receivers :
              mesNet[s][r] \o SubSeq(pending[s], 1, n) \in Seq(Mes)
        BY <4>2, ConcatProperties DEF Shape
      <4>4. \A r \in alive : credits[s][r] - n \in Nat
        BY <3>2 DEF Shape
      <4>5. pending' \in [Senders -> Seq(Mes)]
        BY <3>2, <4>2 DEF Broadcast, Shape
      <4>6. credits' \in [Senders -> [Receivers -> Nat]]
        BY <3>2, <4>4 DEF Broadcast, Shape
      <4>7. mesNet' \in [Senders -> [Receivers -> Seq(Mes)]]
        BY <3>2, <4>3 DEF Broadcast, Shape
      <4>8. ackRecvs' \in [Senders -> Int]
        BY <3>2, RecvNums DEF Broadcast, Shape
      <4> QED
        BY <4>5, <4>6, <4>7, <4>8
    <3> QED
      BY <1>3, <3>1, <3>2, SendBroadcastsSends
  <2> QED
    BY <1>3, <2>1, <2>2 DEF SendBroadcasts, Shape, receiverVars
<1>4. ASSUME NEW s \in Senders, NEW r \in Receivers, PollAck(s, r)
      PROVE  Shape'
  <2>1. Head(ackNet[r][s]) \in Ack /\ Tail(ackNet[r][s]) \in Seq(Ack)
    BY <1>4, HeadTailProperties DEF PollAck, Shape
  <2>2. CreditsBack(s, r, Head(ackNet[r][s])) \in Nat
    <3>1. /\ credits[s][r] + Head(ackNet[r][s]).credits \in Nat
          /\ MaxCredits \in Nat
      <4>1. Head(ackNet[r][s]).credits \in Nat
        BY <2>1 DEF Ack
      <4>2. credits[s][r] \in Nat
        BY Typed
      <4> QED
        BY <4>1, <4>2, RecvNums
    <3> QED
      BY <3>1, MinOfTwo DEF CreditsBack
  <2>3. credits' \in [Senders -> [Receivers -> Nat]]
    BY <1>4, <2>2 DEF PollAck, Shape
  <2>4. acked' \in [Senders -> [Lids -> SUBSET Receivers]]
    <3> DEFINE counted == AckedOps(s, Head(ackNet[r][s]))
    <3>1. acked' = [acked EXCEPT ![s] = [l \in Lids |->
                      IF l \in counted THEN acked[s][l] \cup {r} ELSE acked[s][l]]]
      BY <1>4 DEF PollAck
    <3> HIDE DEF counted
    <3>2. acked \in [Senders -> [Lids -> SUBSET Receivers]]
      BY DEF Shape
    <3> QED
      BY <3>1, <3>2
  <2>5. ackNet' \in [Receivers -> [Senders -> Seq(Ack)]]
    BY <1>4, <2>1 DEF PollAck, Shape
  <2>6. ackRecvs' \in [Senders -> Int]
    BY <1>4 DEF PollAck, Shape
  <2> QED
    BY <1>4, <2>3, <2>4, <2>5, <2>6 DEF PollAck, Shape, receiverVars
<1>5. ASSUME NEW s \in Senders, Retire(s) PROVE Shape'
  BY <1>5 DEF Retire, Shape, receiverVars, netVars
<1>6. ASSUME NEW r \in Receivers, NEW s \in Senders, PollMessage(r, s)
      PROVE  Shape'
  <2>1. Head(mesNet[s][r]) \in Mes /\ Tail(mesNet[s][r]) \in Seq(Mes)
    BY <1>6, HeadTailProperties DEF PollMessage, Shape
  <2>2. ackToSend' \in [Receivers -> [Senders -> Ack]]
    <3> DEFINE new == Merged(ackToSend[r][s], Head(mesNet[s][r]))
    <3>1. new \in Ack /\ ackToSend' = [ackToSend EXCEPT ![r][s] = new]
      BY <1>6, AckInsertMerges
    <3> HIDE DEF new
    <3> QED
      BY <3>1 DEF Shape
  <2>3. received' \in [Receivers -> [Senders -> SUBSET Nat]]
    <3>1. Head(mesNet[s][r]).lid..(Head(mesNet[s][r]).lid
            + Head(mesNet[s][r]).num - 1) \in SUBSET Nat
      BY <2>1 DEF Mes
    <3> QED
      BY <1>6, <3>1 DEF PollMessage, Shape
  <2>4. mesNet' \in [Senders -> [Receivers -> Seq(Mes)]]
    BY <1>6, <2>1 DEF PollMessage, Shape
  <2>5. mesRecvs' \in [Receivers -> Int]
    BY <1>6 DEF PollMessage, Shape
  <2> QED
    BY <1>6, <2>2, <2>3, <2>4, <2>5 DEF PollMessage, Shape, senderVars
<1>7. ASSUME NEW r \in Receivers, SendAcks(r) PROVE Shape'
  <2>1. \A s \in Senders : Append(ackNet[r][s], ackToSend[r][s]) \in Seq(Ack)
    BY DEF Shape
  <2>2. ackNet' \in [Receivers -> [Senders -> Seq(Ack)]]
    BY <1>7, <2>1 DEF SendAcks, Shape
  <2>3. ackToSend' \in [Receivers -> [Senders -> Ack]]
    BY <1>7 DEF SendAcks, Shape, NoAck, Ack
  <2>4. mesRecvs' \in [Receivers -> Int]
    BY <1>7, RecvNums DEF SendAcks, RefillRecvs, Shape
  <2> QED
    BY <1>7, <2>2, <2>3, <2>4 DEF SendAcks, Shape, senderVars
<1>8. ASSUME NEW s \in Senders, NEW r \in Receivers, LoseMessage(s, r)
      PROVE  Shape'
  <2>1. Tail(mesNet[s][r]) \in Seq(Mes)
    BY <1>8, HeadTailProperties DEF LoseMessage, Shape
  <2>2. mesNet' \in [Senders -> [Receivers -> Seq(Mes)]]
    BY <1>8, <2>1 DEF LoseMessage, Shape
  <2>3. lost' \in [Senders -> [Receivers -> Nat]]
    BY <1>8 DEF LoseMessage, Shape
  <2> QED
    BY <1>8, <2>2, <2>3 DEF LoseMessage, Shape, senderVars, receiverVars
<1>9. ASSUME NEW r \in Receivers, NEW s \in Senders, LoseAck(r, s)
      PROVE  Shape'
  <2>1. Head(ackNet[r][s]) \in Ack /\ Tail(ackNet[r][s]) \in Seq(Ack)
    BY <1>9, HeadTailProperties DEF LoseAck, Shape
  <2>2. lost[s][r] + Head(ackNet[r][s]).credits \in Nat
    <3>1. Head(ackNet[r][s]).credits \in Nat
      BY <2>1 DEF Ack
    <3>2. lost[s][r] \in Nat
      BY Typed
    <3> QED
      BY <3>1, <3>2
  <2>3. ackNet' \in [Receivers -> [Senders -> Seq(Ack)]]
    BY <1>9, <2>1 DEF LoseAck, Shape
  <2>4. lost' \in [Senders -> [Receivers -> Nat]]
    BY <1>9, <2>2 DEF LoseAck, Shape
  <2> QED
    BY <1>9, <2>3, <2>4 DEF LoseAck, Shape, senderVars, receiverVars
<1> QED
  BY <1>1, <1>2, <1>3, <1>4, <1>5, <1>6, <1>7, <1>8, <1>9
     DEF Next, SenderRuns, Loss

----------------------------------------------------------------------------
(* Every step keeps the credits accounted for.                             *)

\* Where the credits of s for r are.
Ledger(s, r) ==
  credits[s][r] + Len(mesNet[s][r]) + ackToSend[r][s].credits
    + CreditsOf(ackNet[r][s]) + lost[s][r]

\* The cap of ctx_increase_credits_on_polling_ack does not bear: the credits of
\* an ack fit in with those that are there.
LEMMA CreditsBackUncapped ==
  ASSUME Shape, CreditsAccounted, NEW s \in Senders, NEW r \in Receivers,
         PollAck(s, r)
  PROVE  credits' = [credits EXCEPT
           ![s][r] = credits[s][r] + Head(ackNet[r][s]).credits]
<1> DEFINE q == ackNet[r][s]
<1>1. q \in Seq(Ack) /\ q # <<>>
  BY Typed DEF PollAck
<1>2. Head(q) \in Ack /\ Tail(q) \in Seq(Ack)
  BY <1>1, HeadTailProperties
<1>3. CreditsOf(q) = Head(q).credits + CreditsOf(Tail(q))
  BY <1>1, CreditsOfTail
<1>4. CreditsOf(Tail(q)) \in Nat /\ Head(q).credits \in Nat
  BY <1>2, CreditsOfBounds DEF Ack
<1>5. credits[s][r] + Len(mesNet[s][r]) + ackToSend[r][s].credits + CreditsOf(q)
        + lost[s][r] = MaxCredits
  BY DEF CreditsAccounted
<1>6. credits[s][r] + Head(q).credits <= MaxCredits
  <2> HIDE DEF q
  <2>1. PICK c \in Nat, m \in Nat, a \in Nat, h \in Nat, t \in Nat, l \in Nat :
          /\ c = credits[s][r] /\ m = Len(mesNet[s][r])
          /\ a = ackToSend[r][s].credits /\ h = Head(q).credits
          /\ t = CreditsOf(Tail(q)) /\ l = lost[s][r]
    <3>1. /\ credits[s][r] \in Nat /\ Len(mesNet[s][r]) \in Nat
          /\ ackToSend[r][s].credits \in Nat /\ lost[s][r] \in Nat
      BY Typed
    <3> QED
      BY <1>4, <3>1
  <2>2. c + m + a + (h + t) + l = MaxCredits
    BY <1>3, <1>5, <2>1
  <2>3. c + h <= MaxCredits
    BY <2>2, RecvNums
  <2> QED
    BY <2>1, <2>3
<1>7. CreditsBack(s, r, Head(q)) = credits[s][r] + Head(q).credits
  BY <1>4, <1>6, Typed, RecvNums, MinOfTwo DEF CreditsBack
<1> QED
  BY <1>7 DEF PollAck

\* Every step leaves the credits accounted for.
LEMMA CreditsStep ==
  Shape /\ CreditsAccounted /\ AcksReturnCredits /\ Next => CreditsAccounted'
<1> SUFFICES ASSUME Shape, CreditsAccounted, AcksReturnCredits, Next,
                    NEW s \in Senders, NEW r \in Receivers
             PROVE  Ledger(s, r)' = Ledger(s, r)
  BY DEF CreditsAccounted, Ledger
<1>0. PICK c \in Nat, m \in Nat, k \in Nat, a \in Nat, l \in Nat :
        /\ credits[s][r] = c /\ Len(mesNet[s][r]) = m
        /\ ackToSend[r][s].credits = k /\ CreditsOf(ackNet[r][s]) = a
        /\ lost[s][r] = l
  BY Typed, CreditsOfBounds
<1>b. Ledger(s, r) = c + m + k + a + l
  BY <1>0 DEF Ledger
<1>a. ASSUME UNCHANGED <<credits[s][r], mesNet[s][r], ackToSend[r][s],
                         ackNet[r][s], lost[s][r]>>
      PROVE  Ledger(s, r)' = Ledger(s, r)
  BY <1>a DEF Ledger, CreditsOf
<1>1. ASSUME NEW z \in Senders, NEW n \in 1..MaxCoalesce, Insert(z, n)
      PROVE  Ledger(s, r)' = Ledger(s, r)
  BY <1>1, <1>a DEF Insert, receiverVars, netVars
<1>2. ASSUME NEW z \in Senders, AwaitCredits(z)
      PROVE  Ledger(s, r)' = Ledger(s, r)
  BY <1>2, <1>a DEF AwaitCredits, receiverVars, netVars
<1>3. ASSUME NEW z \in Senders, SendBroadcasts(z)
      PROVE  Ledger(s, r)' = Ledger(s, r)
  <2>1. UNCHANGED <<ackToSend, ackNet, lost>>
    BY <1>3 DEF SendBroadcasts, receiverVars
  <2>2. CASE UNCHANGED <<pending, credits, mesNet, ackRecvs>>
    BY <2>1, <2>2, <1>a
  <2>3. ASSUME NEW alive \in SUBSET Receivers, NEW n \in 0..Len(pending[z]),
               \A q \in alive : n <= credits[z][q],
               Broadcast(z, alive, n)
        PROVE  Ledger(s, r)' = Ledger(s, r)
    <3>1. CASE s = z /\ r \in alive
      <4>1. Len(SubSeq(pending[s], 1, n)) = n /\ SubSeq(pending[s], 1, n) \in Seq(Mes)
        <5>1. pending[s] \in Seq(Mes) /\ Len(pending[s]) \in Nat
          BY Typed
        <5> QED
          BY <5>1, <2>3, <3>1, ElementOfSeq, SubSeqProperties
      <4>2. mesNet'[s][r] = mesNet[s][r] \o SubSeq(pending[s], 1, n)
        BY <2>3, <3>1 DEF Broadcast, Shape
      <4>3. credits'[s][r] = credits[s][r] - n
        BY <2>3, <3>1 DEF Broadcast, Shape
      <4>4. Len(mesNet'[s][r]) = Len(mesNet[s][r]) + n
        <5>1. mesNet[s][r] \in Seq(Mes)
          BY Typed
        <5>2. \A p \in Seq(Mes) :
                Len(mesNet[s][r] \o p) = Len(mesNet[s][r]) + Len(p)
          BY <5>1, ConcatProperties
        <5> QED
          BY <4>1, <4>2, <5>2
      <4>5. /\ ackToSend'[r][s].credits = ackToSend[r][s].credits
            /\ CreditsOf(ackNet[r][s])' = CreditsOf(ackNet[r][s])
            /\ lost'[s][r] = lost[s][r]
        BY <2>1 DEF CreditsOf
      <4>6. n \in Int
        BY <2>3, Typed
      <4>7. Ledger(s, r)' = (c - n) + (m + n) + k + a + l
        BY <4>3, <4>4, <4>5, <1>0 DEF Ledger
      <4> QED
        BY <4>6, <4>7, <1>b
    <3>2. CASE ~(s = z /\ r \in alive)
      <4>1. mesNet'[s][r] = mesNet[s][r] /\ credits'[s][r] = credits[s][r]
        BY <2>3, <3>2 DEF Broadcast, Shape
      <4> QED
        BY <2>1, <4>1, <1>a
    <3> QED
      BY <3>1, <3>2
  <2> QED
    BY <1>3, <2>2, <2>3, SendBroadcastsSends
<1>4. ASSUME NEW z \in Senders, NEW q \in Receivers, PollAck(z, q)
      PROVE  Ledger(s, r)' = Ledger(s, r)
  <2>1. UNCHANGED <<ackToSend, mesNet, lost>>
    BY <1>4 DEF PollAck, receiverVars
  <2>2. /\ credits' = [credits EXCEPT ![z][q]
                        = credits[z][q] + Head(ackNet[q][z]).credits]
        /\ ackNet' = [ackNet EXCEPT ![q][z] = Tail(ackNet[q][z])]
        /\ ackNet[q][z] # <<>>
    BY <1>4, CreditsBackUncapped DEF PollAck
  <2>3. CASE s = z /\ r = q
    <3>1. /\ credits'[s][r] = credits[s][r] + Head(ackNet[r][s]).credits
          /\ ackNet'[r][s] = Tail(ackNet[r][s])
      BY <2>2, <2>3 DEF Shape
    <3>2. CreditsOf(ackNet[r][s])
            = Head(ackNet[r][s]).credits + CreditsOf(Tail(ackNet[r][s]))
      BY <2>2, <2>3, Typed, CreditsOfTail
    <3>3. /\ Head(ackNet[r][s]).credits \in Nat
          /\ CreditsOf(Tail(ackNet[r][s])) \in Nat
      BY <2>2, <2>3, Typed, CreditsOfTail
    <3>4. CreditsOf(ackNet[r][s])' = CreditsOf(Tail(ackNet[r][s]))
      BY <3>1 DEF CreditsOf
    <3>5. lost'[s][r] = lost[s][r] /\ ackToSend'[r][s].credits = ackToSend[r][s].credits
          /\ Len(mesNet'[s][r]) = Len(mesNet[s][r])
      BY <2>1
    <3>6. PICK h \in Nat, d \in Nat :
            h = Head(ackNet[r][s]).credits /\ d = CreditsOf(Tail(ackNet[r][s]))
      BY <3>3
    <3>7. Ledger(s, r)' = (c + h) + m + k + d + l
      BY <3>1, <3>4, <3>5, <3>6, <1>0 DEF Ledger
    <3>8. a = h + d
      BY <3>2, <3>6, <1>0
    <3> QED
      BY <3>7, <3>8, <1>b
  <2>4. CASE ~(s = z /\ r = q)
    <3>1. ackNet'[r][s] = ackNet[r][s] /\ credits'[s][r] = credits[s][r]
      BY <2>2, <2>4 DEF Shape
    <3> QED
      BY <2>1, <3>1, <1>a
  <2> QED
    BY <2>3, <2>4
<1>5. ASSUME NEW z \in Senders, Retire(z)
      PROVE  Ledger(s, r)' = Ledger(s, r)
  BY <1>5, <1>a DEF Retire, receiverVars, netVars
<1>6. ASSUME NEW q \in Receivers, NEW z \in Senders, PollMessage(q, z)
      PROVE  Ledger(s, r)' = Ledger(s, r)
  <2>1. UNCHANGED <<credits, ackNet, lost>>
    BY <1>6 DEF PollMessage, senderVars
  <2>2. /\ mesNet' = [mesNet EXCEPT ![z][q] = Tail(mesNet[z][q])]
        /\ ackToSend' = [ackToSend EXCEPT
             ![q][z] = Merged(ackToSend[q][z], Head(mesNet[z][q]))]
        /\ mesNet[z][q] # <<>>
    BY <1>6, AckInsertMerges DEF PollMessage
  <2>3. CASE s = z /\ r = q
    <3>1. /\ mesNet'[s][r] = Tail(mesNet[s][r])
          /\ ackToSend'[r][s] = Merged(ackToSend[r][s], Head(mesNet[s][r]))
      BY <2>2, <2>3 DEF Shape
    <3>2. Len(mesNet'[s][r]) = Len(mesNet[s][r]) - 1
      BY <2>2, <2>3, <3>1, Typed, HeadTailProperties
    <3>3. ackToSend'[r][s].credits = ackToSend[r][s].credits + 1
      <4>1. ackToSend[r][s].num = 0 => ackToSend[r][s].credits = 0
        BY Typed DEF AcksReturnCredits
      <4> QED
        BY <3>1, <4>1, Typed DEF Merged
    <3>4. /\ CreditsOf(ackNet[r][s])' = CreditsOf(ackNet[r][s])
          /\ credits'[s][r] = credits[s][r] /\ lost'[s][r] = lost[s][r]
      BY <2>1 DEF CreditsOf
    <3>5. Ledger(s, r)' = c + (m - 1) + (k + 1) + a + l
      BY <3>2, <3>3, <3>4, <1>0 DEF Ledger
    <3> QED
      BY <3>5, <1>b
  <2>4. CASE ~(s = z /\ r = q)
    <3>1. mesNet'[s][r] = mesNet[s][r] /\ ackToSend'[r][s] = ackToSend[r][s]
      BY <2>2, <2>4 DEF Shape
    <3> QED
      BY <2>1, <3>1, <1>a
  <2> QED
    BY <2>3, <2>4
<1>7. ASSUME NEW q \in Receivers, SendAcks(q)
      PROVE  Ledger(s, r)' = Ledger(s, r)
  <2>1. UNCHANGED <<credits, mesNet, lost>>
    BY <1>7 DEF SendAcks, senderVars
  <2>2. CASE r = q /\ ackToSend[r][s].num > 0
    <3>1. /\ ackNet'[r][s] = Append(ackNet[r][s], ackToSend[r][s])
          /\ ackToSend'[r][s] = NoAck
      BY <1>7, <2>2 DEF SendAcks, Shape
    <3>2. CreditsOf(ackNet[r][s])' = CreditsOf(ackNet[r][s]) + ackToSend[r][s].credits
      <4>1. CreditsOf(ackNet[r][s])' = CreditsOf(Append(ackNet[r][s], ackToSend[r][s]))
        BY <3>1 DEF CreditsOf
      <4> QED
        BY <4>1, Typed, CreditsOfAppend
    <3>3. ackToSend'[r][s].credits = 0
      BY <3>1 DEF NoAck
    <3>4. /\ credits'[s][r] = credits[s][r] /\ lost'[s][r] = lost[s][r]
          /\ Len(mesNet'[s][r]) = Len(mesNet[s][r])
      BY <2>1
    <3>5. Ledger(s, r)' = c + m + 0 + (a + k) + l
      BY <3>2, <3>3, <3>4, <1>0 DEF Ledger
    <3> QED
      BY <3>5, <1>b
  <2>3. CASE r = q /\ ~(ackToSend[r][s].num > 0)
    <3>1. ackNet'[r][s] = ackNet[r][s] /\ ackToSend'[r][s] = NoAck
      BY <1>7, <2>3 DEF SendAcks, Shape
    <3>2. ackToSend'[r][s].credits = 0 /\ ackToSend[r][s].credits = 0
      BY <2>3, <3>1, Typed DEF NoAck, AcksReturnCredits
    <3>3. /\ credits'[s][r] = credits[s][r] /\ lost'[s][r] = lost[s][r]
          /\ Len(mesNet'[s][r]) = Len(mesNet[s][r])
          /\ CreditsOf(ackNet[r][s])' = CreditsOf(ackNet[r][s])
      BY <2>1, <3>1 DEF CreditsOf
    <3> QED
      BY <3>2, <3>3 DEF Ledger
  <2>4. CASE r # q
    <3>1. ackNet'[r][s] = ackNet[r][s] /\ ackToSend'[r][s] = ackToSend[r][s]
      BY <1>7, <2>4 DEF SendAcks, Shape
    <3> QED
      BY <2>1, <3>1, <1>a
  <2> QED
    BY <2>2, <2>3, <2>4
<1>8. ASSUME NEW z \in Senders, NEW q \in Receivers, LoseMessage(z, q)
      PROVE  Ledger(s, r)' = Ledger(s, r)
  <2>1. UNCHANGED <<credits, ackToSend, ackNet>>
    BY <1>8 DEF LoseMessage, senderVars, receiverVars
  <2>2. CASE s = z /\ r = q
    <3>1. /\ mesNet'[s][r] = Tail(mesNet[s][r]) /\ mesNet[s][r] # <<>>
          /\ lost'[s][r] = lost[s][r] + 1
      BY <1>8, <2>2 DEF LoseMessage, Shape
    <3>2. Len(mesNet'[s][r]) = Len(mesNet[s][r]) - 1
      BY <3>1, Typed, HeadTailProperties
    <3>3. /\ CreditsOf(ackNet[r][s])' = CreditsOf(ackNet[r][s])
          /\ credits'[s][r] = credits[s][r]
          /\ ackToSend'[r][s].credits = ackToSend[r][s].credits
      BY <2>1 DEF CreditsOf
    <3>4. Ledger(s, r)' = c + (m - 1) + k + a + (l + 1)
      BY <3>1, <3>2, <3>3, <1>0 DEF Ledger
    <3> QED
      BY <3>4, <1>b
  <2>3. CASE ~(s = z /\ r = q)
    <3>1. mesNet'[s][r] = mesNet[s][r] /\ lost'[s][r] = lost[s][r]
      BY <1>8, <2>3 DEF LoseMessage, Shape
    <3> QED
      BY <2>1, <3>1, <1>a
  <2> QED
    BY <2>2, <2>3
<1>9. ASSUME NEW q \in Receivers, NEW z \in Senders, LoseAck(q, z)
      PROVE  Ledger(s, r)' = Ledger(s, r)
  <2>1. UNCHANGED <<credits, ackToSend, mesNet>>
    BY <1>9 DEF LoseAck, senderVars, receiverVars
  <2>2. CASE s = z /\ r = q
    <3>1. /\ ackNet'[r][s] = Tail(ackNet[r][s]) /\ ackNet[r][s] # <<>>
          /\ lost'[s][r] = lost[s][r] + Head(ackNet[r][s]).credits
      BY <1>9, <2>2 DEF LoseAck, Shape
    <3>2. /\ CreditsOf(ackNet[r][s])
               = Head(ackNet[r][s]).credits + CreditsOf(Tail(ackNet[r][s]))
          /\ Head(ackNet[r][s]).credits \in Nat
          /\ CreditsOf(Tail(ackNet[r][s])) \in Nat
      BY <3>1, Typed, CreditsOfTail
    <3>3. /\ CreditsOf(ackNet[r][s])' = CreditsOf(Tail(ackNet[r][s]))
          /\ credits'[s][r] = credits[s][r]
          /\ ackToSend'[r][s].credits = ackToSend[r][s].credits
          /\ Len(mesNet'[s][r]) = Len(mesNet[s][r])
      BY <2>1, <3>1 DEF CreditsOf
    <3>4. PICK h \in Nat, d \in Nat :
            h = Head(ackNet[r][s]).credits /\ d = CreditsOf(Tail(ackNet[r][s]))
      BY <3>2
    <3>5. Ledger(s, r)' = c + m + k + d + (l + h)
      BY <3>1, <3>3, <3>4, <1>0 DEF Ledger
    <3>6. a = h + d
      BY <3>2, <3>4, <1>0
    <3> QED
      BY <3>5, <3>6, <1>b
  <2>3. CASE ~(s = z /\ r = q)
    <3>1. ackNet'[r][s] = ackNet[r][s] /\ lost'[s][r] = lost[s][r]
      BY <1>9, <2>3 DEF LoseAck, Shape
    <3> QED
      BY <2>1, <3>1, <1>a
  <2> QED
    BY <2>2, <2>3
<1> QED
  BY <1>1, <1>2, <1>3, <1>4, <1>5, <1>6, <1>7, <1>8, <1>9
     DEF Next, SenderRuns, Loss

----------------------------------------------------------------------------
(* Every step keeps the acks worth a credit.                               *)

\* Every step leaves the acks with the credits that they return.
LEMMA ReturnStep == Shape /\ AcksReturnCredits /\ Next => AcksReturnCredits'
<1> DEFINE Worth(r, s) == /\ ackToSend[r][s].num > 0 <=> ackToSend[r][s].credits > 0
                          /\ ackToSend[r][s].num = 0 => ackToSend[r][s].lid = 0
                          /\ \A i \in 1..Len(ackNet[r][s]) :
                               ackNet[r][s][i].num >= 1 /\ ackNet[r][s][i].credits >= 1
<1> SUFFICES ASSUME Shape, AcksReturnCredits, Next,
                    NEW r \in Receivers, NEW s \in Senders
             PROVE  Worth(r, s)'
  BY DEF AcksReturnCredits
<1>2. Worth(r, s)
  BY DEF AcksReturnCredits
<1>3. ASSUME UNCHANGED <<ackToSend[r][s], ackNet[r][s]>> PROVE Worth(r, s)'
  BY <1>2, <1>3
<1>4. ASSUME NEW z \in Senders, NEW q \in Receivers, PollAck(z, q)
      PROVE  Worth(r, s)'
  <2>1. CASE r = q /\ s = z
    <3>1. ackNet'[r][s] = Tail(ackNet[r][s]) /\ ackNet[r][s] # <<>>
      BY <1>4, <2>1 DEF PollAck, Shape
    <3>2. ackToSend'[r][s] = ackToSend[r][s]
      BY <1>4 DEF PollAck, receiverVars
    <3>3. \A i \in 1..Len(ackNet'[r][s]) :
            ackNet'[r][s][i] = ackNet[r][s][i + 1] /\ i + 1 \in 1..Len(ackNet[r][s])
      BY <3>1, Typed, HeadTailProperties
    <3> QED
      BY <1>2, <3>2, <3>3
  <2>2. CASE ~(r = q /\ s = z)
    <3>1. ackNet'[r][s] = ackNet[r][s] /\ ackToSend'[r][s] = ackToSend[r][s]
      BY <1>4, <2>2 DEF PollAck, receiverVars, Shape
    <3> QED
      BY <3>1, <1>3
  <2> QED
    BY <2>1, <2>2
<1>5. ASSUME NEW q \in Receivers, NEW z \in Senders, LoseAck(q, z)
      PROVE  Worth(r, s)'
  <2>1. CASE r = q /\ s = z
    <3>1. ackNet'[r][s] = Tail(ackNet[r][s]) /\ ackNet[r][s] # <<>>
      BY <1>5, <2>1 DEF LoseAck, Shape
    <3>2. ackToSend'[r][s] = ackToSend[r][s]
      BY <1>5 DEF LoseAck, receiverVars
    <3>3. \A i \in 1..Len(ackNet'[r][s]) :
            ackNet'[r][s][i] = ackNet[r][s][i + 1] /\ i + 1 \in 1..Len(ackNet[r][s])
      BY <3>1, Typed, HeadTailProperties
    <3> QED
      BY <1>2, <3>2, <3>3
  <2>2. CASE ~(r = q /\ s = z)
    <3>1. ackNet'[r][s] = ackNet[r][s] /\ ackToSend'[r][s] = ackToSend[r][s]
      BY <1>5, <2>2 DEF LoseAck, receiverVars, Shape
    <3> QED
      BY <3>1, <1>3
  <2> QED
    BY <2>1, <2>2
<1>6. ASSUME NEW q \in Receivers, NEW z \in Senders, PollMessage(q, z)
      PROVE  Worth(r, s)'
  <2>1. ackNet'[r][s] = ackNet[r][s]
    BY <1>6 DEF PollMessage
  <2>2. CASE r = q /\ s = z
    <3> DEFINE mes == Head(mesNet[s][r])
               ack == ackToSend[r][s]
    <3>1. /\ mes \in Mes /\ ackToSend'[r][s] = Merged(ack, mes)
      BY <1>6, <2>2, AckInsertMerges
    <3>2. mes.num \in Nat /\ mes.num > 0 /\ ack.num \in Nat /\ ack.credits \in Nat
      BY <3>1, Typed DEF Mes
    <3> HIDE DEF mes, ack
    <3>3. /\ ackToSend'[r][s].num > 0 /\ ackToSend'[r][s].num # 0
          /\ ackToSend'[r][s].credits > 0
      BY <3>1, <3>2 DEF Merged
    <3> QED
      BY <1>2, <2>1, <3>3
  <2>3. CASE ~(r = q /\ s = z)
    <3>1. ackToSend'[r][s] = ackToSend[r][s]
      BY <1>6, <2>3, AckInsertMerges
    <3> QED
      BY <2>1, <3>1, <1>3
  <2> QED
    BY <2>2, <2>3
<1>7. ASSUME NEW q \in Receivers, SendAcks(q) PROVE Worth(r, s)'
  <2>1. CASE r = q /\ ackToSend[r][s].num > 0
    <3>1. /\ ackNet'[r][s] = Append(ackNet[r][s], ackToSend[r][s])
          /\ ackToSend'[r][s] = NoAck
      BY <1>7, <2>1 DEF SendAcks, Shape
    <3>2. ackToSend[r][s].num >= 1 /\ ackToSend[r][s].credits >= 1
      BY <1>2, <2>1, Typed
    <3>3. \A i \in 1..Len(ackNet'[r][s]) :
            \/ i \in 1..Len(ackNet[r][s]) /\ ackNet'[r][s][i] = ackNet[r][s][i]
            \/ ackNet'[r][s][i] = ackToSend[r][s]
      BY <3>1, Typed
    <3>4. \A i \in 1..Len(ackNet'[r][s]) :
            ackNet'[r][s][i].num >= 1 /\ ackNet'[r][s][i].credits >= 1
      BY <1>2, <3>2, <3>3
    <3>5. ackToSend'[r][s].num = 0 /\ ackToSend'[r][s].lid = 0 /\ ackToSend'[r][s].credits = 0
      BY <3>1 DEF NoAck
    <3> QED
      BY <3>4, <3>5
  <2>2. CASE r = q /\ ~(ackToSend[r][s].num > 0)
    <3>1. ackNet'[r][s] = ackNet[r][s] /\ ackToSend'[r][s] = NoAck
      BY <1>7, <2>2 DEF SendAcks, Shape
    <3>2. ackToSend'[r][s].num = 0 /\ ackToSend'[r][s].lid = 0 /\ ackToSend'[r][s].credits = 0
      BY <3>1 DEF NoAck
    <3> QED
      BY <1>2, <3>1, <3>2
  <2>3. CASE r # q
    <3>1. ackNet'[r][s] = ackNet[r][s] /\ ackToSend'[r][s] = ackToSend[r][s]
      BY <1>7, <2>3 DEF SendAcks, Shape
    <3> QED
      BY <3>1, <1>3
  <2> QED
    BY <2>1, <2>2, <2>3
<1>8. ASSUME UNCHANGED <<ackToSend, ackNet>> PROVE Worth(r, s)'
  BY <1>8, <1>3
<1>9. \/ UNCHANGED <<ackToSend, ackNet>>
      \/ \E z \in Senders, q \in Receivers :
           PollAck(z, q) \/ LoseAck(q, z) \/ PollMessage(q, z) \/ SendAcks(q)
  BY DEF Next, SenderRuns, Loss, Insert, AwaitCredits, SendBroadcasts, Retire,
         LoseMessage, receiverVars, netVars
<1> QED
  BY <1>4, <1>5, <1>6, <1>7, <1>8, <1>9

----------------------------------------------------------------------------
(* Every step keeps the receives in step with the credits.                 *)

\* A message takes a receive as the ack gets its credit; the acks that go out
\* have all the receives posted again.
LEMMA MesRecvsStep == Shape /\ AcksReturnCredits /\ MesRecvsLeft /\ Next => MesRecvsLeft'
<1> DEFINE f(r) == [s \in Senders |-> ackToSend[r][s].credits]
<1>1. \A r \in Receivers : DOMAIN f(r) = Senders /\ DOMAIN f(r)' = Senders
  OBVIOUS
<1> SUFFICES ASSUME Shape, AcksReturnCredits, MesRecvsLeft, Next,
                    NEW r \in Receivers
             PROVE  mesRecvs'[r] + SumFunctionOnSet(f(r)', Senders) = MesRecvNum
  BY <1>1 DEF MesRecvsLeft, SumFunction
<1>2. mesRecvs[r] + SumFunctionOnSet(f(r), Senders) = MesRecvNum
  BY <1>1 DEF MesRecvsLeft, SumFunction
<1>3. IsFiniteSet(Senders) /\ MesRecvNum \in Nat /\ mesRecvs[r] \in Int
  BY FlowAssumption, RecvNums DEF Shape
<1>4. \A s \in Senders : f(r)[s] \in Int
  BY Typed
<1>5. SumFunctionOnSet(f(r), Senders) \in Int
  <2> HIDE DEF f
  <2> QED
    BY <1>3, <1>4, SumInt
<1>6. ASSUME NEW z \in Senders, PollMessage(r, z)
      PROVE  mesRecvs'[r] + SumFunctionOnSet(f(r)', Senders) = MesRecvNum
  <2>1. mesRecvs'[r] = mesRecvs[r] - 1
    BY <1>6 DEF PollMessage, Shape
  <2>2. \A s \in Senders : f(r)'[s] = IF s = z THEN f(r)[s] + 1 ELSE f(r)[s]
    <3>1. ackToSend'[r][z] = Merged(ackToSend[r][z], Head(mesNet[z][r]))
      BY <1>6, AckInsertMerges
    <3>2. ackToSend[r][z].num = 0 => ackToSend[r][z].credits = 0
      BY Typed DEF AcksReturnCredits
    <3>3. ackToSend'[r][z].credits = ackToSend[r][z].credits + 1
      BY <3>1, <3>2, Typed DEF Merged
    <3>4. \A s \in Senders \ {z} : ackToSend'[r][s] = ackToSend[r][s]
      BY <1>6, AckInsertMerges
    <3> QED
      BY <3>3, <3>4
  <2>3. SumFunctionOnSet(f(r)', Senders) = SumFunctionOnSet(f(r), Senders) + 1
    <3> HIDE DEF f
    <3> QED
      BY <1>3, <1>4, <2>2, SumUpdate
  <2> HIDE DEF f
  <2> QED
    BY <1>2, <1>3, <1>5, <2>1, <2>3
<1>7. CASE SendAcks(r)
  <2>1. mesRecvs'[r] = MesRecvNum
    BY <1>7 DEF SendAcks, RefillRecvs, Shape
  <2>2. \A s \in Senders : f(r)'[s] = 0
    BY <1>7 DEF SendAcks, Shape, NoAck
  <2>3. SumFunctionOnSet(f(r)', Senders) = 0
    <3> HIDE DEF f
    <3>1. SumFunctionOnSet(f(r)', Senders) = 0 * Cardinality(Senders)
      BY <1>3, <2>2, SumConstant
    <3> QED
      BY <3>1, RecvNums
  <2> QED
    BY <1>3, <2>1, <2>3
<1>8. ASSUME mesRecvs'[r] = mesRecvs[r], ackToSend'[r] = ackToSend[r]
      PROVE  mesRecvs'[r] + SumFunctionOnSet(f(r)', Senders) = MesRecvNum
  BY <1>2, <1>8
<1>9. ASSUME NEW q \in Receivers \ {r}, NEW z \in Senders,
             PollMessage(q, z) \/ SendAcks(q)
      PROVE  mesRecvs'[r] = mesRecvs[r] /\ ackToSend'[r] = ackToSend[r]
  <2>1. CASE PollMessage(q, z)
    <3>1. mesRecvs' = [mesRecvs EXCEPT ![q] = mesRecvs[q] - 1]
      BY <2>1 DEF PollMessage
    <3> QED
      BY <2>1, <3>1, AckInsertMerges DEF Shape
  <2>2. CASE SendAcks(q)
    BY <2>2 DEF SendAcks, RefillRecvs, Shape
  <2> QED
    BY <1>9, <2>1, <2>2
<1>10. \/ UNCHANGED <<mesRecvs, ackToSend>>
       \/ \E q \in Receivers, z \in Senders : PollMessage(q, z) \/ SendAcks(q)
  BY DEF Next, SenderRuns, Loss, Insert, AwaitCredits, SendBroadcasts, Retire,
         PollAck, LoseMessage, LoseAck, receiverVars, netVars, SendAcks
<1> QED
  BY <1>6, <1>7, <1>8, <1>9, <1>10

\* A broadcast refills the ack receives as it gives credits away; an ack takes
\* one receive, and returns one credit or more.
LEMMA AckRecvsStep ==
  Shape /\ CreditsAccounted /\ AcksReturnCredits /\ AckRecvsLeft /\ Next
    => AckRecvsLeft'
<1> DEFINE f(s) == [r \in Receivers |-> MaxCredits - credits[s][r]]
<1>1. \A s \in Senders : DOMAIN f(s) = Receivers /\ DOMAIN f(s)' = Receivers
  OBVIOUS
<1> SUFFICES ASSUME Shape, CreditsAccounted, AcksReturnCredits, AckRecvsLeft,
                    Next, NEW s \in Senders
             PROVE  SumFunctionOnSet(f(s)', Receivers) <= ackRecvs'[s]
  BY <1>1 DEF AckRecvsLeft, SumFunction
<1>2. SumFunctionOnSet(f(s), Receivers) <= ackRecvs[s]
  BY <1>1 DEF AckRecvsLeft, SumFunction
<1>3. /\ IsFiniteSet(Receivers) /\ AckRecvNum \in Nat /\ MaxCredits \in Nat
      /\ ackRecvs[s] \in Int
  BY FlowAssumption, RecvNums DEF Shape
<1>4. \A r \in Receivers : f(s)[r] \in Int
  BY Typed, RecvNums
<1>5. SumFunctionOnSet(f(s), Receivers) \in Int
  <2> HIDE DEF f
  <2> QED
    BY <1>3, <1>4, SumInt
<1>6. ASSUME NEW alive \in SUBSET Receivers, NEW n \in 0..Len(pending[s]),
             \A r \in alive : n <= credits[s][r], Broadcast(s, alive, n)
      PROVE  SumFunctionOnSet(f(s)', Receivers) <= ackRecvs'[s]
  <2> DEFINE g == [r \in Receivers |-> MaxCredits]
  <2>1. ackRecvs'[s] = AckRecvNum
    BY <1>6 DEF Broadcast, Shape
  <2>2. \A r \in Receivers :
          credits'[s][r] \in Nat
    <3>1. \A r \in Receivers : credits'[s][r] =
            IF r \in alive THEN credits[s][r] - n ELSE credits[s][r]
      BY <1>6 DEF Broadcast, Shape
    <3>2. n \in Int /\ \A r \in Receivers : credits[s][r] \in Nat
      BY Typed DEF Shape
    <3> QED
      BY <1>6, <3>1, <3>2
  <2>3. \A r \in Receivers : f(s)'[r] \in Int /\ g[r] \in Int /\ f(s)'[r] <= g[r]
    BY <1>3, <2>2
  <2>4. \A r \in Receivers : g[r] = MaxCredits
    OBVIOUS
  <2> HIDE DEF f, g
  <2>5. SumFunctionOnSet(f(s)', Receivers) <= SumFunctionOnSet(g, Receivers)
    BY <1>3, <2>3, SumMonotonic
  <2>6. SumFunctionOnSet(g, Receivers) = AckRecvNum
    BY <1>3, <2>4, SumConstant DEF AckRecvNum
  <2> QED
    BY <2>1, <2>5, <2>6
<1>7. ASSUME NEW q \in Receivers, PollAck(s, q)
      PROVE  SumFunctionOnSet(f(s)', Receivers) <= ackRecvs'[s]
  <2> DEFINE d == Head(ackNet[q][s]).credits
  <2>1. ackRecvs'[s] = ackRecvs[s] - 1
    BY <1>7 DEF PollAck, Shape
  <2>2. d \in Nat /\ d >= 1
    <3>1. ackNet[q][s] \in Seq(Ack) /\ ackNet[q][s] # <<>>
      BY <1>7, Typed DEF PollAck
    <3>2. 1 \in DOMAIN ackNet[q][s] /\ Head(ackNet[q][s]) = ackNet[q][s][1]
      BY <3>1, LenProperties, EmptySeq
    <3>3. d \in Nat
      BY <3>1, CreditsOfTail
    <3> QED
      BY <3>2, <3>3 DEF AcksReturnCredits
  <2>3. \A r \in Receivers :
          f(s)'[r] = IF r = q THEN f(s)[r] + (0 - d) ELSE f(s)[r]
    <3>1. credits' = [credits EXCEPT ![s][q] = credits[s][q] + d]
      BY <1>7, CreditsBackUncapped
    <3> HIDE DEF d
    <3>2. \A r \in Receivers : credits[s][r] \in Nat
      BY DEF Shape
    <3>3. \A r \in Receivers :
            credits'[s][r] = IF r = q THEN credits[s][r] + d ELSE credits[s][r]
      BY <3>1 DEF Shape
    <3> QED
      BY <2>2, <1>3, <3>2, <3>3
  <2> HIDE DEF f, d
  <2>4. SumFunctionOnSet(f(s)', Receivers)
          = SumFunctionOnSet(f(s), Receivers) + (0 - d)
    <3>1. 0 - d \in Int
      BY <2>2
    <3> QED
      BY <1>3, <1>4, <2>3, <3>1, SumUpdate
  <2> QED
    BY <1>2, <1>3, <1>5, <2>1, <2>2, <2>4
<1>8. ASSUME ackRecvs'[s] = ackRecvs[s], credits'[s] = credits[s]
      PROVE  SumFunctionOnSet(f(s)', Receivers) <= ackRecvs'[s]
  BY <1>2, <1>8
<1>9. ASSUME NEW z \in Senders \ {s}, NEW q \in Receivers,
             \/ PollAck(z, q)
             \/ \E alive \in SUBSET Receivers, n \in 0..Len(pending[z]) :
                  Broadcast(z, alive, n)
      PROVE  ackRecvs'[s] = ackRecvs[s] /\ credits'[s] = credits[s]
  BY <1>9 DEF PollAck, Broadcast, Shape
<1>10. \/ UNCHANGED <<credits, ackRecvs>>
       \/ \E z \in Senders, q \in Receivers : PollAck(z, q)
       \/ \E z \in Senders : SendBroadcasts(z)
  BY DEF Next, SenderRuns, Loss, Insert, AwaitCredits, Retire, PollMessage,
         SendAcks, LoseMessage, LoseAck, senderVars
<1>11. ASSUME NEW z \in Senders, SendBroadcasts(z)
       PROVE  SumFunctionOnSet(f(s)', Receivers) <= ackRecvs'[s]
  <2> HIDE DEF f
  <2>1. CASE UNCHANGED <<pending, credits, mesNet, ackRecvs>>
    BY <2>1, <1>8
  <2>2. CASE \E alive \in SUBSET Receivers, n \in 0..Len(pending[z]) :
               /\ \A r \in alive : n <= credits[z][r]
               /\ Broadcast(z, alive, n)
    <3>1. CASE z = s
      BY <2>2, <3>1, <1>6
    <3>2. CASE z # s
      <4>1. ackRecvs'[s] = ackRecvs[s] /\ credits'[s] = credits[s]
        BY <2>2, <3>2 DEF Broadcast, Shape
      <4> QED
        BY <4>1, <1>8
    <3> QED
      BY <3>1, <3>2
  <2> QED
    BY <1>11, <2>1, <2>2, SendBroadcastsSends
<1>12. ASSUME NEW z \in Senders, NEW q \in Receivers, PollAck(z, q)
       PROVE  SumFunctionOnSet(f(s)', Receivers) <= ackRecvs'[s]
  <2> HIDE DEF f
  <2>1. CASE z = s
    BY <1>12, <2>1, <1>7
  <2>2. CASE z # s
    BY <1>12, <2>2, <1>8, <1>9
  <2> QED
    BY <2>1, <2>2
<1> QED
  BY <1>8, <1>10, <1>11, <1>12

----------------------------------------------------------------------------
(* Every step keeps the order of the operations' ids.                      *)

\* What the type of messages says of a sequence of them.
LEMMA MesOfSeq ==
  ASSUME NEW q \in Seq(Mes)
  PROVE  /\ Len(q) \in Nat
         /\ \A i \in 1..Len(q) :
              /\ q[i] \in Mes /\ q[i].lid \in Nat /\ q[i].num \in Nat
              /\ q[i].num >= 1 /\ End(q[i]) \in Nat
<1>1. Len(q) \in Nat /\ \A i \in 1..Len(q) : q[i] \in Mes
  BY LenProperties, ElementOfSeq
<1> QED
  BY <1>1 DEF Mes, End

\* A tail of an increasing sequence is increasing.
LEMMA IncreasingTail ==
  ASSUME NEW q \in Seq(Mes), q # <<>>, NEW lid \in Nat, Increasing(q, lid)
  PROVE  /\ Increasing(Tail(q), lid)
         /\ Head(q) = q[1] /\ 1 \in 1..Len(q) /\ End(Head(q)) <= lid
         /\ Tail(q) \in Seq(Mes) /\ Len(Tail(q)) = Len(q) - 1
         /\ \A i \in 1..Len(Tail(q)) :
              /\ Tail(q)[i] = q[i + 1] /\ i + 1 \in 1..Len(q)
              /\ End(Head(q)) <= Tail(q)[i].lid
<1>1. /\ Tail(q) \in Seq(Mes) /\ Len(Tail(q)) = Len(q) - 1
      /\ \A i \in 1..Len(Tail(q)) : Tail(q)[i] = q[i + 1]
      /\ Head(q) = q[1] /\ Len(q) \in Nat \ {0}
  BY HeadTailProperties, EmptySeq
<1>2. 1 \in 1..Len(q) /\ \A i \in 1..Len(Tail(q)) : i + 1 \in 1..Len(q) /\ 1 < i + 1
  BY <1>1
<1>3. \A i \in 1..Len(Tail(q)) :
        End(Tail(q)[i]) <= lid /\ End(q[1]) <= Tail(q)[i].lid
  BY <1>1, <1>2 DEF Increasing
<1>4. \A i, j \in 1..Len(Tail(q)) : i < j => End(Tail(q)[i]) <= Tail(q)[j].lid
  BY <1>1, <1>2 DEF Increasing
<1> QED
  BY <1>1, <1>2, <1>3, <1>4 DEF Increasing

\* An increasing sequence grows by a greater number.
LEMMA IncreasingAppend ==
  ASSUME NEW q \in Seq(Mes), NEW mes \in Mes, Increasing(q, mes.lid)
  PROVE  /\ Increasing(Append(q, mes), End(mes))
         /\ Len(Append(q, mes)) = Len(q) + 1 /\ Append(q, mes)[Len(q) + 1] = mes
         /\ \A i \in 1..Len(q) : Append(q, mes)[i] = q[i]
<1> DEFINE p == Append(q, mes)
<1>1. /\ Len(p) = Len(q) + 1 /\ p[Len(q) + 1] = mes /\ Len(q) \in Nat
      /\ \A i \in 1..Len(q) : p[i] = q[i]
  BY MesOfSeq
<1>2. mes.lid \in Nat /\ End(mes) \in Nat /\ mes.lid <= End(mes)
  BY DEF Mes, End
<1>3. \A i \in 1..Len(q) : End(q[i]) \in Nat /\ End(q[i]) <= mes.lid
  BY MesOfSeq DEF Increasing
<1> HIDE DEF p
<1>4. \A i \in 1..Len(p) : End(p[i]) <= End(mes)
  <2> SUFFICES ASSUME NEW i \in 1..Len(p) PROVE End(p[i]) <= End(mes)
    OBVIOUS
  <2>1. CASE i = Len(q) + 1
    BY <2>1, <1>1, <1>2
  <2>2. CASE i # Len(q) + 1
    BY <2>2, <1>1, <1>2, <1>3
  <2> QED
    BY <2>1, <2>2
<1>5. \A i, j \in 1..Len(p) : i < j => End(p[i]) <= p[j].lid
  <2> SUFFICES ASSUME NEW i \in 1..Len(p), NEW j \in 1..Len(p), i < j
               PROVE  End(p[i]) <= p[j].lid
    OBVIOUS
  <2>1. i \in 1..Len(q) /\ p[i] = q[i]
    BY <1>1
  <2>2. CASE j = Len(q) + 1
    BY <2>1, <2>2, <1>1, <1>3
  <2>3. CASE j # Len(q) + 1
    <3>1. j \in 1..Len(q) /\ p[j] = q[j]
      BY <2>3, <1>1
    <3> QED
      BY <2>1, <3>1 DEF Increasing
  <2> QED
    BY <2>2, <2>3
<1> QED
  BY <1>1, <1>4, <1>5 DEF Increasing, p

\* a and b are q cut in two; c is q and then p.
Cut(q, n, a, b) == a = SubSeq(q, 1, n) /\ b = SubSeq(q, n + 1, Len(q))
Joined(q, p, c) == c = q \o p

\* All of q comes before all of p; all of c is in one of them.
Before(q, p) == \A i \in 1..Len(q), j \in 1..Len(p) : End(q[i]) <= p[j].lid
FromEither(q, p, c) ==
  \A i \in 1..Len(c) : \/ i \in 1..Len(q) /\ c[i] = q[i]
                       \/ \E j \in 1..Len(p) : c[i] = p[j]

\* A sequence cut in two.
LEMMA IncreasingCut ==
  ASSUME NEW q \in Seq(Mes), NEW lid \in Nat, Increasing(q, lid),
         NEW n \in 0..Len(q), NEW a, NEW b, Cut(q, n, a, b)
  PROVE  /\ a \in Seq(Mes) /\ Len(a) = n /\ Increasing(a, lid)
         /\ b \in Seq(Mes) /\ Len(b) = Len(q) - n /\ Increasing(b, lid)
         /\ \A i \in 1..Len(a) : i \in 1..Len(q) /\ a[i] = q[i]
         /\ \A j \in 1..Len(b) : n + j \in 1..Len(q) /\ b[j] = q[n + j]
         /\ \A i \in 1..Len(a), j \in 1..Len(b) : End(a[i]) <= b[j].lid
<1>1. Len(q) \in Nat /\ n \in Nat /\ \A i \in 1..Len(q) : q[i] \in Mes
  BY MesOfSeq
<1>2. a \in Seq(Mes) /\ Len(a) = n /\ \A i \in 1..n : a[i] = q[i]
  BY <1>1, SubSeqProperties DEF Cut
<1>3. /\ b \in Seq(Mes) /\ Len(b) = Len(q) - n
      /\ \A j \in 1..(Len(q) - n) : b[j] = q[n + j]
  <2>1. \A j \in (n + 1)..Len(q) : q[j] \in Mes
    BY <1>1
  <2>2. /\ SubSeq(q, n + 1, Len(q)) \in Seq(Mes)
        /\ Len(SubSeq(q, n + 1, Len(q)))
             = IF n + 1 <= Len(q) THEN Len(q) - (n + 1) + 1 ELSE 0
        /\ \A j \in 1..(Len(q) - (n + 1) + 1) :
             SubSeq(q, n + 1, Len(q))[j] = q[(n + 1) + j - 1]
    BY <1>1, <2>1, SubSeqProperties
  <2> QED
    BY <1>1, <2>2 DEF Cut
<1>4. /\ \A i \in 1..Len(a) : i \in 1..Len(q)
      /\ \A j \in 1..Len(b) : n + j \in 1..Len(q)
  BY <1>1, <1>2, <1>3
<1>5. /\ \A i \in 1..Len(a) : a[i] = q[i]
      /\ \A j \in 1..Len(b) : b[j] = q[n + j]
  BY <1>2, <1>3
<1>6. Increasing(a, lid)
  BY <1>4, <1>5 DEF Increasing
<1>7. Increasing(b, lid)
  <2>1. \A i, j \in 1..Len(b) : i < j => n + i < n + j
    BY <1>1, <1>3
  <2> QED
    BY <1>4, <1>5, <2>1 DEF Increasing
<1>8. \A i \in 1..Len(a), j \in 1..Len(b) : End(a[i]) <= b[j].lid
  <2>1. \A i \in 1..Len(a), j \in 1..Len(b) : i < n + j
    BY <1>1, <1>2, <1>3
  <2> QED
    BY <1>4, <1>5, <2>1 DEF Increasing
<1> QED
  BY <1>2, <1>3, <1>4, <1>5, <1>6, <1>7, <1>8

\* One sequence after another.
LEMMA IncreasingConcat ==
  ASSUME NEW q \in Seq(Mes), NEW p \in Seq(Mes), NEW lid \in Nat,
         Increasing(q, lid), Increasing(p, lid),
         Before(q, p), NEW c, Joined(q, p, c)
  PROVE  Increasing(c, lid) /\ FromEither(q, p, c)
<1>1. /\ Len(c) = Len(q) + Len(p) /\ Len(q) \in Nat /\ Len(p) \in Nat
      /\ \A i \in 1..(Len(q) + Len(p)) :
           c[i] = IF i <= Len(q) THEN q[i] ELSE p[i - Len(q)]
  BY ConcatProperties, MesOfSeq DEF Joined
<1>2. \A i \in 1..Len(c) : \/ i \in 1..Len(q) /\ c[i] = q[i]
                          \/ /\ i > Len(q) /\ i - Len(q) \in 1..Len(p)
                             /\ c[i] = p[i - Len(q)]
  BY <1>1
<1>3. \A i \in 1..Len(c) : End(c[i]) <= lid
  BY <1>2 DEF Increasing
<1>4. ASSUME NEW i \in 1..Len(c), NEW j \in 1..Len(c), i < j
      PROVE  End(c[i]) <= c[j].lid
  <2>1. CASE i \in 1..Len(q) /\ j \in 1..Len(q)
    BY <2>1, <1>1, <1>4 DEF Increasing
  <2>2. CASE i \in 1..Len(q) /\ j \notin 1..Len(q)
    BY <2>2, <1>2 DEF Before
  <2>3. CASE i \notin 1..Len(q) /\ j \notin 1..Len(q)
    <3>1. i - Len(q) < j - Len(q)
      BY <1>1, <1>4
    <3> QED
      BY <2>3, <3>1, <1>2 DEF Increasing
  <2>4. CASE i \notin 1..Len(q) /\ j \in 1..Len(q)
    BY <2>4, <1>1, <1>4
  <2> QED
    BY <2>1, <2>2, <2>3, <2>4
<1> QED
  BY <1>2, <1>3, <1>4 DEF Increasing, FromEither

\* The types that the order is about, for one sender and one receiver.
LEMMA OrderTypes ==
  ASSUME Shape, NEW s \in Senders, NEW r \in Receivers
  PROVE  /\ nextLid[s] \in Nat
         /\ \A j \in 1..Len(pending[s]) :
              pending[s][j].lid \in Nat /\ End(pending[s][j]) \in Nat
         /\ \A i \in 1..Len(mesNet[s][r]) :
              mesNet[s][r][i].lid \in Nat /\ End(mesNet[s][r][i]) \in Nat
         /\ \A i \in 1..Len(ackNet[r][s]) : End(ackNet[r][s][i]) \in Nat
         /\ End(ackToSend[r][s]) \in Nat
<1>1. nextLid[s] \in Nat
  BY FlowAssumption DEF Shape
<1>2. pending[s] \in Seq(Mes) /\ mesNet[s][r] \in Seq(Mes) /\ ackNet[r][s] \in Seq(Ack)
  BY Typed
<1>3. \A j \in 1..Len(pending[s]) :
        pending[s][j].lid \in Nat /\ End(pending[s][j]) \in Nat
  BY <1>2, MesOfSeq
<1>4. \A i \in 1..Len(mesNet[s][r]) :
        mesNet[s][r][i].lid \in Nat /\ End(mesNet[s][r][i]) \in Nat
  BY <1>2, MesOfSeq
<1>5. \A ack \in Ack : End(ack) \in Nat
  BY DEF End, Ack
<1>6. \A i \in 1..Len(ackNet[r][s]) : ackNet[r][s][i] \in Ack
  BY <1>2, ElementOfSeq
<1>7. ackToSend[r][s] \in Ack
  BY Typed
<1> QED
  BY <1>1, <1>3, <1>4, <1>5, <1>6, <1>7

\* A sender's own operations.
LEMMA SenderOrderStep ==
  ASSUME Shape, InOrder, Next, NEW s \in Senders
  PROVE  SenderInOrder(s)' /\ nextLid[s] <= nextLid'[s]
<1>1. SenderInOrder(s)
  BY DEF InOrder
<1>0. /\ pending[s] \in Seq(Mes) /\ nextLid[s] \in Nat /\ pullLid[s] \in Nat
  BY FlowAssumption DEF Shape
<1>2. ASSUME UNCHANGED <<nextLid[s], pullLid[s], pending[s]>>
      PROVE  SenderInOrder(s)' /\ nextLid[s] <= nextLid'[s]
  BY <1>0, <1>1, <1>2 DEF SenderInOrder, Increasing
<1>3. ASSUME NEW z \in Senders, NEW n \in 1..MaxCoalesce, Insert(z, n)
      PROVE  SenderInOrder(s)' /\ nextLid[s] <= nextLid'[s]
  <2>1. CASE z = s
    <3> DEFINE mes == [lid |-> nextLid[s], num |-> n]
    <3>1. /\ pending'[s] = Append(pending[s], mes) /\ nextLid'[s] = nextLid[s] + n
          /\ pullLid'[s] = pullLid[s]
      BY <1>3, <2>1 DEF Insert, Shape
    <3>2. mes \in Mes /\ End(mes) = nextLid[s] + n /\ mes.lid = nextLid[s]
      BY <1>0 DEF Mes, End
    <3> HIDE DEF mes
    <3>3. Increasing(Append(pending[s], mes), End(mes))
      BY <1>0, <1>1, <3>2, IncreasingAppend DEF SenderInOrder
    <3>4. Increasing(pending'[s], nextLid'[s])
      BY <3>1, <3>2, <3>3
    <3> QED
      BY <1>0, <1>1, <3>1, <3>4 DEF SenderInOrder, Increasing
  <2>2. CASE z # s
    BY <1>2, <1>3, <2>2 DEF Insert, Shape
  <2> QED
    BY <2>1, <2>2
<1>4. ASSUME NEW z \in Senders, SendBroadcasts(z)
      PROVE  SenderInOrder(s)' /\ nextLid[s] <= nextLid'[s]
  <2>1. UNCHANGED <<nextLid, pullLid>>
    BY <1>4 DEF SendBroadcasts
  <2>2. CASE UNCHANGED pending
    BY <1>2, <2>1, <2>2
  <2>3. ASSUME NEW alive \in SUBSET Receivers, NEW n \in 0..Len(pending[z]),
               Broadcast(z, alive, n)
        PROVE  SenderInOrder(s)' /\ nextLid[s] <= nextLid'[s]
    <3>1. CASE z = s
      <4>1. pending'[s] = SubSeq(pending[s], n + 1, Len(pending[s]))
        BY <2>3, <3>1 DEF Broadcast, Shape
      <4>2. Increasing(pending'[s], nextLid[s])
        <5>1. PICK a : Cut(pending[s], n, a, pending'[s])
          BY <4>1 DEF Cut
        <5>2. Increasing(pending[s], nextLid[s]) /\ n \in 0..Len(pending[s])
          BY <1>1, <3>1 DEF SenderInOrder
        <5> QED
          BY <1>0, <5>1, <5>2, IncreasingCut
      <4> QED
        BY <1>0, <1>1, <2>1, <4>2 DEF SenderInOrder, Increasing
    <3>2. CASE z # s
      <4>1. pending'[s] = pending[s]
        BY <2>3, <3>2 DEF Broadcast, Shape
      <4> QED
        BY <1>2, <2>1, <4>1
    <3> QED
      BY <3>1, <3>2
  <2> QED
    BY <1>4, <2>2, <2>3, SendBroadcastsSends
<1>5. ASSUME NEW z \in Senders, Retire(z)
      PROVE  SenderInOrder(s)' /\ nextLid[s] <= nextLid'[s]
  <2>1. UNCHANGED <<nextLid, pending>>
    BY <1>5 DEF Retire
  <2>2. pullLid'[s] <= nextLid[s]
    BY <1>0, <1>1, <1>5, FlowAssumption DEF Retire, SenderInOrder, Shape
  <2> QED
    BY <1>0, <1>1, <2>1, <2>2 DEF SenderInOrder, Increasing
<1>6. \/ UNCHANGED <<nextLid, pullLid, pending>>
      \/ \E z \in Senders : \/ \E n \in 1..MaxCoalesce : Insert(z, n)
                           \/ SendBroadcasts(z) \/ Retire(z)
  BY DEF Next, SenderRuns, Loss, AwaitCredits, PollAck, PollMessage, SendAcks,
         LoseMessage, LoseAck, senderVars
<1> QED
  BY <1>2, <1>3, <1>4, <1>5, <1>6

\* What is between a sender and a receiver.
LEMMA ChannelOrderStep ==
  ASSUME Shape, InOrder, Next, NEW s \in Senders, NEW r \in Receivers
  PROVE  ChannelInOrder(s, r)'
<1>1. SenderInOrder(s) /\ ChannelInOrder(s, r)
  BY DEF InOrder
<1>0. /\ pending[s] \in Seq(Mes) /\ mesNet[s][r] \in Seq(Mes)
      /\ ackNet[r][s] \in Seq(Ack) /\ ackToSend[r][s] \in Ack
      /\ nextLid[s] \in Nat
  BY Typed, OrderTypes
<1>2. ASSUME UNCHANGED <<nextLid[s], pending[s], mesNet[s][r], ackToSend[r][s],
                         ackNet[r][s]>>
      PROVE  ChannelInOrder(s, r)'
  BY <1>1, <1>2 DEF ChannelInOrder, Increasing, End
<1>3. ASSUME NEW z \in Senders, NEW n \in 1..MaxCoalesce, Insert(z, n)
      PROVE  ChannelInOrder(s, r)'
  <2>0. UNCHANGED <<mesNet, ackToSend, ackNet>>
    BY <1>3 DEF Insert, receiverVars, netVars
  <2>1. CASE z = s
    <3> DEFINE mes == [lid |-> nextLid[s], num |-> n]
    <3>1. pending'[s] = Append(pending[s], mes) /\ nextLid'[s] = nextLid[s] + n
      BY <1>3, <2>1 DEF Insert, Shape
    <3>2. mes \in Mes /\ mes.lid = nextLid[s]
      BY <1>0 DEF Mes
    <3> HIDE DEF mes
    <3>3. /\ Len(pending'[s]) = Len(pending[s]) + 1
          /\ pending'[s][Len(pending[s]) + 1] = mes
          /\ \A i \in 1..Len(pending[s]) : pending'[s][i] = pending[s][i]
          /\ Len(pending[s]) \in Nat
      BY <1>0, <1>1, <3>1, <3>2, IncreasingAppend, MesOfSeq DEF SenderInOrder
    <3>4. \A j \in 1..Len(pending'[s]) :
            \/ j \in 1..Len(pending[s]) /\ pending'[s][j] = pending[s][j]
            \/ pending'[s][j].lid = nextLid[s]
      BY <3>2, <3>3
    <3>5. \A e \in Nat : e <= nextLid[s] => e <= nextLid'[s]
      BY <1>0, <3>1
    <3>6. Increasing(mesNet[s][r], nextLid[s] + n)
      BY <1>1, <3>1, <3>5, OrderTypes DEF ChannelInOrder, Increasing
    <3>7. \A i \in 1..Len(ackNet[r][s]) : End(ackNet[r][s][i]) <= nextLid[s] + n
      BY <1>1, <3>1, <3>5, OrderTypes DEF ChannelInOrder
    <3>8. End(ackToSend[r][s]) <= nextLid[s] + n
      BY <1>1, <3>1, <3>5, OrderTypes DEF ChannelInOrder
    <3>9. /\ \A i \in 1..Len(mesNet[s][r]), j \in 1..Len(pending'[s]) :
               End(mesNet[s][r][i]) <= pending'[s][j].lid
          /\ \A j \in 1..Len(pending'[s]) : End(ackToSend[r][s]) <= pending'[s][j].lid
      BY <1>1, <3>4 DEF ChannelInOrder, Increasing
    <3> QED
      BY <1>1, <2>0, <3>1, <3>6, <3>7, <3>8, <3>9 DEF ChannelInOrder, Increasing, End
  <2>2. CASE z # s
    BY <1>2, <1>3, <2>0, <2>2 DEF Insert, Shape
  <2> QED
    BY <2>1, <2>2
<1>4. ASSUME NEW z \in Senders, SendBroadcasts(z)
      PROVE  ChannelInOrder(s, r)'
  <2>0. UNCHANGED <<nextLid, ackToSend, ackNet>>
    BY <1>4 DEF SendBroadcasts, receiverVars
  <2>1. CASE UNCHANGED <<pending, mesNet>>
    BY <1>2, <2>0, <2>1
  <2>2. ASSUME NEW alive \in SUBSET Receivers, NEW n \in 0..Len(pending[z]),
               Broadcast(z, alive, n)
        PROVE  ChannelInOrder(s, r)'
    <3>1. CASE z # s
      <4>1. pending'[s] = pending[s] /\ mesNet'[s] = mesNet[s]
        BY <2>2, <3>1 DEF Broadcast, Shape
      <4> QED
        BY <1>2, <2>0, <4>1
    <3>2. CASE z = s
      <4>0. PICK a, b : /\ a = SubSeq(pending[s], 1, n)
                        /\ b = SubSeq(pending[s], n + 1, Len(pending[s]))
        OBVIOUS
      <4>1. /\ pending'[s] = b
            /\ mesNet'[s][r] = IF r \in alive THEN mesNet[s][r] \o a ELSE mesNet[s][r]
        BY <2>2, <3>2, <4>0 DEF Broadcast, Shape
      <4>2. /\ a \in Seq(Mes) /\ Increasing(a, nextLid[s])
            /\ \A i \in 1..Len(a) : i \in 1..Len(pending[s]) /\ a[i] = pending[s][i]
            /\ \A j \in 1..Len(b) : n + j \in 1..Len(pending[s])
                                  /\ b[j] = pending[s][n + j]
            /\ \A i \in 1..Len(a), j \in 1..Len(b) : End(a[i]) <= b[j].lid
        <5>1. Increasing(pending[s], nextLid[s]) /\ n \in 0..Len(pending[s])
          BY <1>1, <2>2, <3>2 DEF SenderInOrder
        <5>3. PICK q \in Seq(Mes), lid \in Nat : q = pending[s] /\ lid = nextLid[s]
          BY <1>0
        <5>4. /\ Increasing(q, lid) /\ n \in 0..Len(q)
              /\ Cut(q, n, a, b)
          BY <4>0, <5>1, <5>3 DEF Cut
        <5>5. /\ a \in Seq(Mes) /\ Len(a) = n /\ Increasing(a, lid)
              /\ b \in Seq(Mes) /\ Len(b) = Len(q) - n /\ Increasing(b, lid)
              /\ \A i \in 1..Len(a) : i \in 1..Len(q) /\ a[i] = q[i]
              /\ \A j \in 1..Len(b) : n + j \in 1..Len(q) /\ b[j] = q[n + j]
              /\ \A i \in 1..Len(a), j \in 1..Len(b) : End(a[i]) <= b[j].lid
          BY <5>4, IncreasingCut
        <5> QED
          BY <5>3, <5>5
      <4>3. \A j \in 1..Len(b) : End(ackToSend[r][s]) <= b[j].lid
        BY <1>1, <4>2 DEF ChannelInOrder
      <4>4. \A i \in 1..Len(mesNet[s][r]), j \in 1..Len(b) :
              End(mesNet[s][r][i]) <= b[j].lid
        BY <1>1, <4>2 DEF ChannelInOrder
      <4>5. CASE r \notin alive
        <5>1. mesNet'[s][r] = mesNet[s][r]
          BY <4>1, <4>5
        <5> QED
          BY <1>1, <2>0, <4>1, <4>3, <4>4, <5>1 DEF ChannelInOrder, Increasing, End
      <4>6. CASE r \in alive
        <5>0. PICK c : c = mesNet[s][r] \o a
          OBVIOUS
        <5>1. \A i \in 1..Len(mesNet[s][r]), j \in 1..Len(a) :
                End(mesNet[s][r][i]) <= a[j].lid
          BY <1>1, <4>2 DEF ChannelInOrder
        <5>2. /\ Increasing(c, nextLid[s])
              /\ \A i \in 1..Len(c) :
                   \/ i \in 1..Len(mesNet[s][r]) /\ c[i] = mesNet[s][r][i]
                   \/ \E j \in 1..Len(a) : c[i] = a[j]
          <6>1. Increasing(mesNet[s][r], nextLid[s])
            BY <1>1 DEF ChannelInOrder
          <6>3. PICK q \in Seq(Mes), lid \in Nat, p \in Seq(Mes) :
                  q = mesNet[s][r] /\ lid = nextLid[s] /\ p = a
            BY <1>0, <4>2
          <6>4. /\ Increasing(q, lid) /\ Increasing(p, lid) /\ Joined(q, p, c)
                /\ Before(q, p)
            BY <4>2, <5>1, <5>0, <6>1, <6>3 DEF Joined, Before
          <6>5. Increasing(c, lid) /\ FromEither(q, p, c)
            BY <6>4, IncreasingConcat
          <6> QED
            BY <6>3, <6>5 DEF FromEither
        <5>3. mesNet'[s][r] = c
          BY <4>1, <4>6, <5>0
        <5>4. \A i \in 1..Len(c), j \in 1..Len(b) : End(c[i]) <= b[j].lid
          BY <4>2, <4>4, <5>2
        <5>5. \A i \in 1..Len(c) : End(ackToSend[r][s]) <= c[i].lid
          BY <1>1, <4>2, <5>2 DEF ChannelInOrder
        <5> QED
          BY <1>1, <2>0, <4>1, <4>3, <5>2, <5>3, <5>4, <5>5
             DEF ChannelInOrder, Increasing, End
      <4> QED
        BY <4>5, <4>6
    <3> QED
      BY <3>1, <3>2
  <2> QED
    BY <1>4, <2>1, <2>2, SendBroadcastsSends
<1>5. ASSUME NEW z \in Senders, NEW q \in Receivers, PollAck(z, q) \/ LoseAck(q, z)
      PROVE  ChannelInOrder(s, r)'
  <2>0. UNCHANGED <<nextLid, pending, mesNet, ackToSend>>
    BY <1>5 DEF PollAck, LoseAck, receiverVars, senderVars
  <2>3. /\ ackNet' = [ackNet EXCEPT ![q][z] = Tail(ackNet[q][z])]
        /\ ackNet[q][z] # <<>>
    <3>1. CASE PollAck(z, q)
      BY <3>1 DEF PollAck, Shape
    <3>2. CASE LoseAck(q, z)
      BY <3>2 DEF LoseAck, Shape
    <3> QED
      BY <1>5, <3>1, <3>2
  <2>1. CASE z = s /\ q = r
    <3>1. ackNet'[r][s] = Tail(ackNet[r][s]) /\ ackNet[r][s] # <<>>
      BY <2>1, <2>3 DEF Shape
    <3>2. \A i \in 1..Len(ackNet'[r][s]) :
            /\ ackNet'[r][s][i] = ackNet[r][s][i + 1]
            /\ i + 1 \in 1..Len(ackNet[r][s])
      BY <1>0, <3>1, HeadTailProperties, LenProperties
    <3>3. \A i \in 1..Len(ackNet'[r][s]) : End(ackNet'[r][s][i]) <= nextLid[s]
      BY <1>1, <3>2 DEF ChannelInOrder
    <3> QED
      BY <1>1, <2>0, <3>3 DEF ChannelInOrder, Increasing, End
  <2>2. CASE ~(z = s /\ q = r)
    <3>1. ackNet'[r][s] = ackNet[r][s]
      BY <2>2, <2>3 DEF Shape
    <3> QED
      BY <1>2, <2>0, <3>1
  <2> QED
    BY <2>1, <2>2
<1>6. ASSUME NEW q \in Receivers, NEW z \in Senders,
             PollMessage(q, z) \/ LoseMessage(z, q)
      PROVE  ChannelInOrder(s, r)'
  <2>0. UNCHANGED <<nextLid, pending, ackNet>>
    BY <1>6 DEF PollMessage, LoseMessage, senderVars
  <2>3. /\ mesNet' = [mesNet EXCEPT ![z][q] = Tail(mesNet[z][q])]
        /\ mesNet[z][q] # <<>>
    <3>1. CASE PollMessage(q, z)
      BY <3>1 DEF PollMessage, Shape
    <3>2. CASE LoseMessage(z, q)
      BY <3>2 DEF LoseMessage, Shape
    <3> QED
      BY <1>6, <3>1, <3>2
  <2>1. CASE z = s /\ q = r
    <3> DEFINE mes == Head(mesNet[s][r])
               rest == Tail(mesNet[s][r])
               ack == ackToSend[r][s]
    <3>1. mesNet'[s][r] = rest /\ mesNet[s][r] # <<>>
      BY <2>1, <2>3 DEF Shape
    <3>2. /\ Increasing(rest, nextLid[s])
          /\ mes = mesNet[s][r][1] /\ 1 \in 1..Len(mesNet[s][r])
          /\ End(mes) <= nextLid[s]
          /\ \A i \in 1..Len(rest) :
               /\ rest[i] = mesNet[s][r][i + 1] /\ i + 1 \in 1..Len(mesNet[s][r])
               /\ End(mes) <= rest[i].lid
      BY <1>0, <1>1, <3>1, IncreasingTail DEF ChannelInOrder
    <3>3. \/ ackToSend'[r][s] = ack
          \/ ackToSend'[r][s] = Merged(ack, mes)
      BY <1>6, <2>1, AckInsertMerges DEF LoseMessage, receiverVars
    <3>4. mes \in Mes /\ ack \in Ack /\ End(ack) <= mes.lid
      BY <1>0, <1>1, <3>2, MesOfSeq DEF ChannelInOrder
    <3>5. /\ \A i \in 1..Len(rest), j \in 1..Len(pending[s]) :
               End(rest[i]) <= pending[s][j].lid
          /\ \A j \in 1..Len(pending[s]) : End(mes) <= pending[s][j].lid
          /\ \A i \in 1..Len(rest) : End(ack) <= rest[i].lid
          /\ \A j \in 1..Len(pending[s]) : End(ack) <= pending[s][j].lid
          /\ End(ack) <= nextLid[s]
      BY <1>1, <3>2 DEF ChannelInOrder
    <3> HIDE DEF mes, rest, ack
    <3>6. End(ackToSend'[r][s]) = End(ack) \/ End(ackToSend'[r][s]) <= End(mes)
      BY <3>3, <3>4 DEF Merged, End, Mes, Ack
    <3>7. End(ackToSend'[r][s]) \in Nat /\ End(mes) \in Nat
      BY <3>3, <3>4 DEF Merged, End, Mes, Ack
    <3>8. /\ \A i \in 1..Len(rest) : rest[i].lid \in Nat
          /\ \A j \in 1..Len(pending[s]) : pending[s][j].lid \in Nat
      BY <3>2, OrderTypes
    <3>9. /\ \A i \in 1..Len(rest) : End(ackToSend'[r][s]) <= rest[i].lid
          /\ \A j \in 1..Len(pending[s]) : End(ackToSend'[r][s]) <= pending[s][j].lid
          /\ End(ackToSend'[r][s]) <= nextLid[s]
      BY <1>0, <3>2, <3>5, <3>6, <3>7, <3>8
    <3> QED
      BY <1>1, <2>0, <3>1, <3>2, <3>5, <3>9 DEF ChannelInOrder, Increasing, End
  <2>2. CASE ~(z = s /\ q = r)
    <3>1. mesNet'[s][r] = mesNet[s][r]
      BY <2>2, <2>3 DEF Shape
    <3>2. ackToSend'[r][s] = ackToSend[r][s]
      BY <1>6, <2>2, AckInsertMerges DEF LoseMessage, receiverVars
    <3> QED
      BY <1>2, <2>0, <3>1, <3>2
  <2> QED
    BY <2>1, <2>2
<1>7. ASSUME NEW q \in Receivers, SendAcks(q) PROVE ChannelInOrder(s, r)'
  <2>0. UNCHANGED <<nextLid, pending, mesNet>>
    BY <1>7 DEF SendAcks, senderVars
  <2>1. CASE q = r
    <3>1. /\ ackToSend'[r][s] = NoAck
          /\ \/ ackNet'[r][s] = ackNet[r][s]
             \/ ackNet'[r][s] = Append(ackNet[r][s], ackToSend[r][s])
      BY <1>7, <2>1 DEF SendAcks, Shape
    <3>2. \A i \in 1..Len(ackNet'[r][s]) :
            \/ i \in 1..Len(ackNet[r][s]) /\ ackNet'[r][s][i] = ackNet[r][s][i]
            \/ ackNet'[r][s][i] = ackToSend[r][s]
      <4>1. Len(ackNet[r][s]) \in Nat
        BY <1>0, LenProperties
      <4>2. CASE ackNet'[r][s] = ackNet[r][s]
        BY <4>2
      <4>3. CASE ackNet'[r][s] = Append(ackNet[r][s], ackToSend[r][s])
        <5>1. /\ Len(ackNet'[r][s]) = Len(ackNet[r][s]) + 1
              /\ ackNet'[r][s][Len(ackNet[r][s]) + 1] = ackToSend[r][s]
              /\ \A i \in 1..Len(ackNet[r][s]) : ackNet'[r][s][i] = ackNet[r][s][i]
          BY <1>0, <4>3, AppendProperties
        <5> QED
          BY <4>1, <5>1
      <4> QED
        BY <3>1, <4>2, <4>3
    <3>3. \A i \in 1..Len(ackNet'[r][s]) : End(ackNet'[r][s][i]) <= nextLid[s]
      BY <1>1, <3>2 DEF ChannelInOrder
    <3>4. End(ackToSend'[r][s]) = 0
      BY <3>1 DEF End, NoAck
    <3>5. /\ \A i \in 1..Len(mesNet[s][r]) : 0 <= mesNet[s][r][i].lid
          /\ \A j \in 1..Len(pending[s]) : 0 <= pending[s][j].lid
          /\ 0 <= nextLid[s]
      BY OrderTypes
    <3> QED
      BY <1>1, <2>0, <3>3, <3>4, <3>5 DEF ChannelInOrder, Increasing, End
  <2>2. CASE q # r
    <3>1. ackNet'[r][s] = ackNet[r][s] /\ ackToSend'[r][s] = ackToSend[r][s]
      BY <1>7, <2>2 DEF SendAcks, Shape
    <3> QED
      BY <1>2, <2>0, <3>1
  <2> QED
    BY <2>1, <2>2
<1>8. \/ UNCHANGED <<nextLid, pending, mesNet, ackToSend, ackNet>>
      \/ \E z \in Senders : SendBroadcasts(z) \/ \E n \in 1..MaxCoalesce : Insert(z, n)
      \/ \E z \in Senders, q \in Receivers :
           \/ PollAck(z, q) \/ LoseAck(q, z) \/ PollMessage(q, z)
           \/ LoseMessage(z, q) \/ SendAcks(q)
  BY DEF Next, SenderRuns, Loss, AwaitCredits, Retire, receiverVars, netVars
<1> QED
  BY <1>2, <1>3, <1>4, <1>5, <1>6, <1>7, <1>8

\* No step takes the order away.
LEMMA OrderStep == Shape /\ InOrder /\ Next => InOrder'
<1> SUFFICES ASSUME Shape, InOrder, Next,
                    NEW s \in Senders
             PROVE  SenderInOrder(s)' /\ \A r \in Receivers : ChannelInOrder(s, r)'
  BY DEF InOrder
<1>1. SenderInOrder(s)'
  BY SenderOrderStep
<1>2. \A r \in Receivers : ChannelInOrder(s, r)'
  BY ChannelOrderStep
<1> QED
  BY <1>1, <1>2

\* A message that is polled was sent, so its operations were inserted.
LEMMA ReceivedStep ==
  Shape /\ InOrder /\ ReceivedWereSent /\ Next => ReceivedWereSent'
<1> SUFFICES ASSUME Shape, InOrder, ReceivedWereSent, Next,
                    NEW r \in Receivers, NEW s \in Senders, NEW l \in received'[r][s]
             PROVE  l < nextLid'[s]
  BY DEF ReceivedWereSent
<1>1. nextLid[s] \in Nat /\ nextLid'[s] \in Nat /\ nextLid[s] <= nextLid'[s]
  <2>1. Shape'
    BY ShapeStep
  <2>2. nextLid[s] \in 0..MaxOps /\ nextLid'[s] \in 0..MaxOps
    BY <2>1 DEF Shape
  <2>3. nextLid[s] <= nextLid'[s]
    BY SenderOrderStep
  <2> QED
    BY <2>2, <2>3, FlowAssumption
<1>2. \A k \in received[r][s] : k \in Nat /\ k < nextLid[s]
  BY Typed DEF ReceivedWereSent
<1>3. CASE l \in received[r][s]
  BY <1>1, <1>2, <1>3
<1>4. ASSUME NEW q \in Receivers, NEW z \in Senders, PollMessage(q, z),
             l \notin received[r][s]
      PROVE  l < nextLid'[s]
  <2> DEFINE mes == Head(mesNet[s][r])
  <2>1. q = r /\ z = s
    BY <1>4 DEF PollMessage, Shape
  <2>2. l \in mes.lid..(mes.lid + mes.num - 1) /\ mesNet[s][r] # <<>>
    BY <1>4, <2>1 DEF PollMessage, Shape
  <2>3. mes \in Mes /\ End(mes) <= nextLid[s]
    <3>1. mesNet[s][r] \in Seq(Mes) /\ Increasing(mesNet[s][r], nextLid[s])
      BY Typed DEF InOrder, ChannelInOrder
    <3>2. End(mes) <= nextLid[s]
      BY <1>1, <2>2, <3>1, IncreasingTail
    <3> QED
      BY <2>2, <3>1, <3>2, HeadTailProperties
  <2> HIDE DEF mes
  <2> QED
    BY <1>1, <2>2, <2>3 DEF Mes, End
<1>5. \/ UNCHANGED received
      \/ \E q \in Receivers, z \in Senders : PollMessage(q, z)
  BY DEF Next, SenderRuns, Loss, Insert, AwaitCredits, SendBroadcasts, PollAck,
         Retire, SendAcks, LoseMessage, LoseAck, receiverVars
<1> QED
  BY <1>3, <1>4, <1>5

\* The receives for acks are posted anew up to their number, and taken.
LEMMA AckRecvsFitStep == Shape /\ AckRecvsFit /\ Next => AckRecvsFit'
<1> SUFFICES ASSUME Shape, AckRecvsFit, Next, NEW s \in Senders
             PROVE  ackRecvs'[s] <= AckRecvNum
  BY DEF AckRecvsFit
<1>1. ackRecvs[s] \in Int /\ ackRecvs[s] <= AckRecvNum /\ AckRecvNum \in Nat
  BY RecvNums DEF Shape, AckRecvsFit
<1>2. ASSUME NEW z \in Senders, SendBroadcasts(z)
      PROVE  ackRecvs'[s] <= AckRecvNum
  <2>1. ackRecvs' = ackRecvs \/ ackRecvs' = [ackRecvs EXCEPT ![z] = AckRecvNum]
    BY <1>2 DEF SendBroadcasts
  <2>2. ackRecvs'[s] = ackRecvs[s] \/ ackRecvs'[s] = AckRecvNum
    BY <2>1 DEF Shape
  <2> QED
    BY <1>1, <2>2
<1>3. ASSUME NEW z \in Senders, NEW r \in Receivers, PollAck(z, r)
      PROVE  ackRecvs'[s] <= AckRecvNum
  <2>1. ackRecvs' = [ackRecvs EXCEPT ![z] = ackRecvs[z] - 1]
    BY <1>3 DEF PollAck
  <2>2. ackRecvs'[s] = ackRecvs[s] \/ ackRecvs'[s] = ackRecvs[s] - 1
    BY <2>1 DEF Shape
  <2> QED
    BY <1>1, <2>2
<1>4. \/ UNCHANGED ackRecvs
      \/ \E z \in Senders : \/ SendBroadcasts(z)
                           \/ \E r \in Receivers : PollAck(z, r)
  BY DEF Next, SenderRuns, Loss, Insert, AwaitCredits, Retire, PollMessage,
         SendAcks, LoseMessage, LoseAck, senderVars
<1> QED
  BY <1>1, <1>2, <1>3, <1>4

----------------------------------------------------------------------------
(* What follows for every state that is reached.                           *)

\* A step that changes nothing keeps the invariant.
LEMMA InvStutter == IInv /\ UNCHANGED vars => IInv'
BY DEF vars, senderVars, receiverVars, netVars, IInv, Shape, CreditsAccounted,
       MesRecvsLeft, AckRecvsLeft, AckRecvsFit, AcksReturnCredits, InOrder,
       SenderInOrder, ChannelInOrder, Increasing, ReceivedWereSent, CreditsOf,
       End

\* Every step keeps the invariant.
LEMMA InvStep == IInv /\ [Next]_vars => IInv'
<1>1. CASE UNCHANGED vars
  BY <1>1, InvStutter
<1>2. CASE IInv /\ Next
  <2>1. /\ Shape /\ CreditsAccounted /\ MesRecvsLeft /\ AckRecvsLeft
        /\ AckRecvsFit /\ AcksReturnCredits /\ InOrder /\ ReceivedWereSent
    BY <1>2 DEF IInv
  <2>2. Shape' /\ CreditsAccounted' /\ MesRecvsLeft'
    BY <1>2, <2>1, ShapeStep, CreditsStep, MesRecvsStep
  <2>3. AckRecvsLeft' /\ AckRecvsFit' /\ AcksReturnCredits'
    BY <1>2, <2>1, AckRecvsStep, AckRecvsFitStep, ReturnStep
  <2>4. InOrder' /\ ReceivedWereSent'
    BY <1>2, <2>1, OrderStep, ReceivedStep
  <2> QED
    BY <2>2, <2>3, <2>4 DEF IInv
<1> QED
  BY <1>1, <1>2

\* The invariant holds in every state that is reached.
THEOREM Inv == Spec => []IInv
BY InitInv, InvStep, PTL DEF Spec

\* Every credit is accounted for, so the cap on the credits that an ack returns
\* never takes one away (ctx_increase_credits_on_polling_ack).
THEOREM CreditsSafe == Spec => []CreditsAccounted
<1>1. IInv => CreditsAccounted
  BY DEF IInv
<1> QED
  BY <1>1, Inv, PTL

\* What is on its way between a sender and a receiver is covered by credits.
LEMMA OnTheWay ==
  ASSUME IInv, NEW s \in Senders, NEW r \in Receivers
  PROVE  /\ Len(mesNet[s][r]) \in Nat /\ Len(ackNet[r][s]) \in Nat
         /\ credits[s][r] \in Nat /\ ackToSend[r][s].credits \in Nat
         /\ Len(mesNet[s][r]) + ackToSend[r][s].credits <= MaxCredits
         /\ Len(ackNet[r][s]) <= MaxCredits - credits[s][r]
         /\ CreditsOf(ackNet[r][s]) <= MaxCredits /\ credits[s][r] <= MaxCredits
         /\ ackToSend[r][s].credits <= MaxCredits
<1>1. Shape /\ CreditsAccounted /\ AcksReturnCredits
  BY DEF IInv
<1>2. PICK c \in Nat, m \in Nat, k \in Nat, a \in Nat, l \in Nat, n \in Nat :
        /\ credits[s][r] = c /\ Len(mesNet[s][r]) = m
        /\ ackToSend[r][s].credits = k /\ CreditsOf(ackNet[r][s]) = a
        /\ lost[s][r] = l /\ Len(ackNet[r][s]) = n
  BY <1>1, Typed, CreditsOfBounds
<1>3. c + m + k + a + l = MaxCredits
  BY <1>1, <1>2 DEF CreditsAccounted
<1>4. n <= a
  BY <1>1, <1>2, Typed, CreditsOfBounds DEF AcksReturnCredits
<1>5. m + k <= MaxCredits /\ n <= MaxCredits - c /\ a <= MaxCredits
      /\ c <= MaxCredits /\ k <= MaxCredits
  BY <1>3, <1>4, RecvNums
<1> QED
  BY <1>2, <1>5

\* Every message and every ack on its way has a receive posted for it.
LEMMA RecvsFollow == IInv => ReceivesSuffice
<1> SUFFICES ASSUME IInv PROVE ReceivesSuffice
  OBVIOUS
<1>1. ASSUME NEW r \in Receivers
      PROVE  SumFunction([s \in Senders |-> Len(mesNet[s][r])]) <= mesRecvs[r]
  <2> DEFINE f == [s \in Senders |-> Len(mesNet[s][r])]
             g == [s \in Senders |-> ackToSend[r][s].credits]
             h == [s \in Senders |-> f[s] + g[s]]
             k == [s \in Senders |-> MaxCredits]
  <2>1. /\ DOMAIN f = Senders /\ DOMAIN g = Senders
        /\ \A s \in Senders : /\ f[s] \in Int /\ g[s] \in Int /\ h[s] = f[s] + g[s]
                             /\ k[s] = MaxCredits /\ h[s] <= k[s]
                             /\ h[s] \in Int /\ k[s] \in Int
    BY OnTheWay, RecvNums
  <2>2. mesRecvs[r] \in Int /\ mesRecvs[r] + SumFunction(g) = MesRecvNum
    BY DEF IInv, Shape, MesRecvsLeft
  <2>3. IsFiniteSet(Senders) /\ MaxCredits \in Int
    BY FlowAssumption
  <2> HIDE DEF f, g, h, k
  <2>4. SumFunctionOnSet(h, Senders)
          = SumFunctionOnSet(f, Senders) + SumFunctionOnSet(g, Senders)
    BY <2>1, <2>3, SumPlus
  <2>5. SumFunctionOnSet(h, Senders) <= SumFunctionOnSet(k, Senders)
    BY <2>1, <2>3, SumMonotonic
  <2>6. SumFunctionOnSet(k, Senders) = MesRecvNum
    BY <2>1, <2>3, SumConstant DEF MesRecvNum
  <2>7. SumFunctionOnSet(f, Senders) \in Int /\ SumFunctionOnSet(g, Senders) \in Int
    BY <2>1, <2>3, SumInt
  <2>8. SumFunctionOnSet(f, Senders) <= mesRecvs[r]
    BY <2>1, <2>2, <2>4, <2>5, <2>6, <2>7, RecvNums DEF SumFunction
  <2>9. SumFunction(f) <= mesRecvs[r]
    BY <2>1, <2>8 DEF SumFunction
  <2> QED
    BY <2>9 DEF f
<1>2. ASSUME NEW s \in Senders
      PROVE  SumFunction([r \in Receivers |-> Len(ackNet[r][s])]) <= ackRecvs[s]
  <2> DEFINE f == [r \in Receivers |-> Len(ackNet[r][s])]
             g == [r \in Receivers |-> MaxCredits - credits[s][r]]
  <2>1. /\ DOMAIN f = Receivers /\ DOMAIN g = Receivers
        /\ \A r \in Receivers : f[r] \in Int /\ g[r] \in Int /\ f[r] <= g[r]
    BY OnTheWay, RecvNums
  <2>2. ackRecvs[s] \in Int /\ SumFunction(g) <= ackRecvs[s]
    BY DEF IInv, Shape, AckRecvsLeft
  <2>3. IsFiniteSet(Receivers)
    BY FlowAssumption
  <2> HIDE DEF f, g
  <2>4. SumFunctionOnSet(f, Receivers) <= SumFunctionOnSet(g, Receivers)
    BY <2>1, <2>3, SumMonotonic
  <2>5. SumFunctionOnSet(f, Receivers) \in Int /\ SumFunctionOnSet(g, Receivers) \in Int
    BY <2>1, <2>3, SumInt
  <2>6. SumFunction(f) <= ackRecvs[s]
    BY <2>1, <2>2, <2>4, <2>5 DEF SumFunction
  <2> QED
    BY <2>6 DEF f
<1> QED
  BY <1>1, <1>2 DEF ReceivesSuffice

\* No message and no ack arrives at a queue pair without a receive, whatever is
\* lost, timed out or revived (od_refill_recvs_if_needed and the refills with
\* the sends).
THEOREM ReceivesSafe == Spec => []ReceivesSuffice
BY Inv, RecvsFollow, PTL

\* The types, with the range of every count.
LEMMA TypesFollow == IInv => TypeOK
<1> SUFFICES ASSUME IInv PROVE TypeOK
  OBVIOUS
<1>0. /\ Shape /\ CreditsAccounted /\ MesRecvsLeft /\ AckRecvsLeft /\ AckRecvsFit
      /\ AcksReturnCredits /\ InOrder /\ ReceivedWereSent
  BY DEF IInv
<1>a. MaxOps \in Nat /\ MaxOps >= 1 /\ \A s \in Senders : nextLid[s] \in 0..MaxOps
  BY <1>0, FlowAssumption DEF Shape
<1>b. \A n \in Nat, s \in Senders : n < nextLid[s] => n \in Lids
  BY <1>a DEF Lids
<1>c. ASSUME NEW mes \in Mes, NEW s \in Senders, End(mes) <= nextLid[s]
      PROVE  mes \in Messages
  <2>1. mes.lid \in Nat /\ mes.num \in Nat /\ mes.num >= 1 /\ mes.lid + mes.num <= nextLid[s]
    BY <1>c DEF Mes, End
  <2>2. mes.lid \in Lids
    BY <1>a, <1>b, <2>1
  <2> QED
    BY <2>2 DEF Mes, Messages
<1>d. ASSUME NEW ack \in Ack, NEW s \in Senders, End(ack) <= nextLid[s],
             ack.num >= 1, ack.credits <= MaxCredits
      PROVE  ack \in Acks
  <2>1. /\ ack.lid \in Nat /\ ack.num \in Nat /\ ack.credits \in Nat
        /\ ack.lid + ack.num <= nextLid[s]
    BY <1>d DEF Ack, End
  <2>2. ack.lid \in Lids /\ ack.num \in 0..MaxOps /\ ack.credits \in 0..MaxCredits
    BY <1>a, <1>b, <1>d, <2>1, RecvNums
  <2> QED
    BY <2>2 DEF Ack, Acks
<1>1. nextLid \in [Senders -> 0..MaxOps]
  BY <1>0 DEF Shape
<1>2. pullLid \in [Senders -> 0..MaxOps]
  <2>1. \A s \in Senders : pullLid[s] \in 0..MaxOps
    BY <1>0, <1>a DEF Shape, InOrder, SenderInOrder
  <2> QED
    BY <1>0, <2>1 DEF Shape
<1>3. \A s \in Senders : pending[s] \in Seq(Messages)
  <2> TAKE s \in Senders
  <2>1. pending[s] \in Seq(Mes) /\ Increasing(pending[s], nextLid[s])
    BY <1>0 DEF Shape, InOrder, SenderInOrder
  <2>2. \A i \in 1..Len(pending[s]) : pending[s][i] \in Messages
    BY <1>c, <2>1, MesOfSeq DEF Increasing
  <2> QED
    BY <2>1, <2>2, SeqOfElements
<1>4. credits \in [Senders -> [Receivers -> 0..MaxCredits]]
  <2>1. \A s \in Senders, r \in Receivers : credits[s][r] \in 0..MaxCredits
    BY OnTheWay, RecvNums
  <2> QED
    BY <1>0, <2>1 DEF Shape
<1>5. ackRecvs \in [Senders -> 0..AckRecvNum]
  <2>1. ASSUME NEW s \in Senders PROVE ackRecvs[s] \in 0..AckRecvNum
    <3> DEFINE g == [r \in Receivers |-> MaxCredits - credits[s][r]]
    <3>1. DOMAIN g = Receivers /\ \A r \in Receivers : g[r] \in Nat
      BY OnTheWay, RecvNums
    <3>2. /\ ackRecvs[s] \in Int /\ SumFunction(g) <= ackRecvs[s]
          /\ ackRecvs[s] <= AckRecvNum
      BY <1>0 DEF Shape, AckRecvsLeft, AckRecvsFit
    <3> HIDE DEF g
    <3>3. SumFunctionOnSet(g, Receivers) \in Nat
      BY <3>1, FlowAssumption, SumNat
    <3> QED
      BY <3>1, <3>2, <3>3, RecvNums DEF SumFunction
  <2> QED
    BY <1>0, <2>1 DEF Shape
<1>6. mesRecvs \in [Receivers -> 0..MesRecvNum]
  <2>1. ASSUME NEW r \in Receivers PROVE mesRecvs[r] \in 0..MesRecvNum
    <3> DEFINE g == [s \in Senders |-> ackToSend[r][s].credits]
               k == [s \in Senders |-> MaxCredits]
    <3>1. /\ DOMAIN g = Senders
          /\ \A s \in Senders : /\ g[s] \in Nat /\ g[s] \in Int
                               /\ k[s] = MaxCredits /\ k[s] \in Int /\ g[s] <= k[s]
      BY OnTheWay, RecvNums
    <3>2. mesRecvs[r] \in Int /\ mesRecvs[r] + SumFunction(g) = MesRecvNum
      BY <1>0 DEF Shape, MesRecvsLeft
    <3>3. IsFiniteSet(Senders) /\ MaxCredits \in Int
      BY FlowAssumption
    <3> HIDE DEF g, k
    <3>4. SumFunctionOnSet(g, Senders) \in Nat
      BY <3>1, <3>3, SumNat
    <3>5. SumFunctionOnSet(g, Senders) <= SumFunctionOnSet(k, Senders)
      BY <3>1, <3>3, SumMonotonic
    <3>6. SumFunctionOnSet(k, Senders) = MesRecvNum
      BY <3>1, <3>3, SumConstant DEF MesRecvNum
    <3> QED
      BY <3>1, <3>2, <3>4, <3>5, <3>6, RecvNums DEF SumFunction
  <2> QED
    BY <1>0, <2>1 DEF Shape
<1>7. ackToSend \in [Receivers -> [Senders -> Acks]]
  <2>1. ASSUME NEW r \in Receivers, NEW s \in Senders PROVE ackToSend[r][s] \in Acks
    <3>1. /\ ackToSend[r][s] \in Ack /\ End(ackToSend[r][s]) <= nextLid[s]
          /\ ackToSend[r][s].credits <= MaxCredits
      BY <1>0, OnTheWay, Typed DEF InOrder, ChannelInOrder
    <3>2. CASE ackToSend[r][s].num >= 1
      BY <1>d, <3>1, <3>2
    <3>3. CASE ~(ackToSend[r][s].num >= 1)
      <4>1. ackToSend[r][s].num = 0 /\ ackToSend[r][s].lid = 0
        BY <1>0, <3>1, <3>3 DEF Ack, AcksReturnCredits
      <4>2. 0 \in Lids /\ 0 \in 0..MaxOps
        BY <1>a DEF Lids
      <4>3. ackToSend[r][s].credits \in 0..MaxCredits
        BY <3>1, RecvNums DEF Ack
      <4> QED
        BY <3>1, <4>1, <4>2, <4>3 DEF Ack, Acks
    <3> QED
      BY <3>2, <3>3
  <2> QED
    BY <1>0, <2>1 DEF Shape
<1>8. received \in [Receivers -> [Senders -> SUBSET Lids]]
  <2>1. \A r \in Receivers, s \in Senders : received[r][s] \in SUBSET Lids
    BY <1>0, <1>b, Typed DEF ReceivedWereSent
  <2> QED
    BY <1>0, <2>1 DEF Shape
<1>9. ASSUME NEW s \in Senders, NEW r \in Receivers
      PROVE  mesNet[s][r] \in Seq(Messages) /\ ackNet[r][s] \in Seq(Acks)
  <2>1. /\ mesNet[s][r] \in Seq(Mes) /\ Increasing(mesNet[s][r], nextLid[s])
        /\ ackNet[r][s] \in Seq(Ack)
        /\ \A i \in 1..Len(ackNet[r][s]) : End(ackNet[r][s][i]) <= nextLid[s]
    BY <1>0, Typed DEF InOrder, ChannelInOrder
  <2>2. \A i \in 1..Len(mesNet[s][r]) : mesNet[s][r][i] \in Messages
    BY <1>c, <2>1, MesOfSeq DEF Increasing
  <2>3. ASSUME NEW i \in 1..Len(ackNet[r][s]) PROVE ackNet[r][s][i] \in Acks
    <3>1. ackNet[r][s][i] \in Ack /\ ackNet[r][s][i].credits \in Nat
      BY <2>1, CreditsOfIsSum
    <3>2. ackNet[r][s][i].credits <= CreditsOf(ackNet[r][s])
      BY <2>1, CreditsOfBounds
    <3>3. CreditsOf(ackNet[r][s]) <= MaxCredits /\ CreditsOf(ackNet[r][s]) \in Nat
      BY <2>1, OnTheWay, CreditsOfBounds
    <3>4. ackNet[r][s][i].credits <= MaxCredits
      BY <3>1, <3>2, <3>3, RecvNums
    <3>5. ackNet[r][s][i].num >= 1
      BY <1>0 DEF AcksReturnCredits
    <3> QED
      BY <1>d, <2>1, <3>1, <3>4, <3>5
  <2>4. mesNet[s][r] \in Seq(Messages)
    BY <2>1, <2>2, SeqOfElements
  <2>5. ackNet[r][s] \in Seq(Acks)
    BY <2>1, <2>3, SeqOfElements
  <2> QED
    BY <2>4, <2>5
<1> QED
  BY <1>0, <1>1, <1>2, <1>3, <1>4, <1>5, <1>6, <1>7, <1>8, <1>9 DEF TypeOK, Shape

\* Every variable keeps its type; no count of credits or of receives, unsigned
\* in the code, goes below zero or above its limit.
THEOREM Types == Spec => []TypeOK
BY Inv, TypesFollow, PTL

----------------------------------------------------------------------------
(* With assertions an ack never speaks of an operation that was lost.      *)

\* What has been received stays received.
LEMMA ReceivedGrows ==
  ASSUME Shape, Next, NEW r \in Receivers, NEW s \in Senders
  PROVE  received[r][s] \subseteq received'[r][s]
<1>1. ASSUME NEW q \in Receivers, NEW z \in Senders, PollMessage(q, z)
      PROVE  received[r][s] \subseteq received'[r][s]
  BY <1>1 DEF PollMessage, Shape
<1>2. \/ UNCHANGED received
      \/ \E q \in Receivers, z \in Senders : PollMessage(q, z)
  BY DEF Next, SenderRuns, Loss, Insert, AwaitCredits, SendBroadcasts, PollAck,
         Retire, SendAcks, LoseMessage, LoseAck, receiverVars
<1> QED
  BY <1>1, <1>2

\* An ack on its way was on its way before, or was being gathered.
LEMMA AcksComeFrom ==
  ASSUME Shape, Next, NEW r \in Receivers, NEW s \in Senders,
         NEW i \in 1..Len(ackNet'[r][s])
  PROVE  \/ \E j \in 1..Len(ackNet[r][s]) : ackNet'[r][s][i] = ackNet[r][s][j]
         \/ ackNet'[r][s][i] = ackToSend[r][s]
<1>1. ackNet[r][s] \in Seq(Ack) /\ Len(ackNet[r][s]) \in Nat
  BY Typed
<1>2. \/ ackNet'[r][s] = ackNet[r][s]
      \/ ackNet'[r][s] = Tail(ackNet[r][s]) /\ ackNet[r][s] # <<>>
      \/ ackNet'[r][s] = Append(ackNet[r][s], ackToSend[r][s])
  <2>1. ASSUME NEW q \in Receivers, NEW z \in Senders, PollAck(z, q) \/ LoseAck(q, z)
        PROVE  \/ ackNet'[r][s] = ackNet[r][s]
               \/ ackNet'[r][s] = Tail(ackNet[r][s]) /\ ackNet[r][s] # <<>>
    <3>1. /\ ackNet' = [ackNet EXCEPT ![q][z] = Tail(ackNet[q][z])]
          /\ ackNet[q][z] # <<>>
      <4>1. CASE PollAck(z, q)
        BY <4>1 DEF PollAck, Shape
      <4>2. CASE LoseAck(q, z)
        BY <4>2 DEF LoseAck, Shape
      <4> QED
        BY <2>1, <4>1, <4>2
    <3> QED
      BY <3>1 DEF Shape
  <2>2. ASSUME NEW q \in Receivers, SendAcks(q)
        PROVE  \/ ackNet'[r][s] = ackNet[r][s]
               \/ ackNet'[r][s] = Append(ackNet[r][s], ackToSend[r][s])
    BY <2>2 DEF SendAcks, Shape
  <2>3. \/ UNCHANGED ackNet
        \/ \E q \in Receivers, z \in Senders :
             PollAck(z, q) \/ LoseAck(q, z) \/ SendAcks(q)
    BY DEF Next, SenderRuns, Loss, Insert, AwaitCredits, SendBroadcasts, Retire,
           PollMessage, LoseMessage, netVars
  <2> QED
    BY <2>1, <2>2, <2>3
<1>3. CASE ackNet'[r][s] = ackNet[r][s]
  BY <1>3
<1>4. CASE ackNet'[r][s] = Tail(ackNet[r][s]) /\ ackNet[r][s] # <<>>
  <2>1. ackNet'[r][s][i] = ackNet[r][s][i + 1] /\ i + 1 \in 1..Len(ackNet[r][s])
    BY <1>1, <1>4, HeadTailProperties
  <2> QED
    BY <2>1
<1>5. CASE ackNet'[r][s] = Append(ackNet[r][s], ackToSend[r][s])
  <2>1. /\ Len(ackNet'[r][s]) = Len(ackNet[r][s]) + 1
        /\ ackNet'[r][s][Len(ackNet[r][s]) + 1] = ackToSend[r][s]
        /\ \A j \in 1..Len(ackNet[r][s]) : ackNet'[r][s][j] = ackNet[r][s][j]
    BY <1>1, <1>5, Typed, AppendProperties
  <2>2. Len(ackNet[r][s]) \in Nat
    BY Typed
  <2>3. i \in 1..Len(ackNet[r][s]) \/ i = Len(ackNet[r][s]) + 1
    BY <2>1, <2>2
  <2> QED
    BY <2>1, <2>3
<1> QED
  BY <1>2, <1>3, <1>4, <1>5

\* The ack being gathered grows by a message only if it follows, so that it
\* speaks of what was received and of nothing in between.
LEMMA GatheredSpeaksTrue ==
  ASSUME EnableAssertions, Shape, AcksSpeakTrue, Next,
         NEW r \in Receivers, NEW s \in Senders
  PROVE  SpeaksOf(ackToSend[r][s])' \subseteq received'[r][s]
<1>1. /\ SpeaksOf(ackToSend[r][s]) \subseteq received[r][s]
      /\ received[r][s] \subseteq received'[r][s]
  BY ReceivedGrows DEF AcksSpeakTrue
<1>2. CASE ackToSend'[r][s] = ackToSend[r][s]
  BY <1>1, <1>2 DEF SpeaksOf
<1>3. ASSUME NEW q \in Receivers, NEW z \in Senders, PollMessage(q, z)
      PROVE  SpeaksOf(ackToSend[r][s])' \subseteq received'[r][s]
  <2>1. CASE q = r /\ z = s
    <3> DEFINE mes == Head(mesNet[s][r])
               ack == ackToSend[r][s]
    <3>1. mes \in Mes /\ ackToSend'[r][s] = Merged(ack, mes) /\ ack \in Ack
      BY <1>3, <2>1, AckInsertMerges, Typed
    <3>2. mes.lid..(mes.lid + mes.num - 1) \subseteq received'[r][s]
      BY <1>3, <2>1 DEF PollMessage, Shape
    <3>3. ack.num > 0 => ack.lid + ack.num = mes.lid
      BY <1>3, <2>1 DEF PollMessage, Refused
    <3>4. SpeaksOf(ack) \subseteq received'[r][s]
      BY <1>1
    <3> HIDE DEF mes, ack
    <3>5. /\ mes.lid \in Nat /\ mes.num \in Nat /\ ack.lid \in Nat /\ ack.num \in Nat
      BY <3>1 DEF Mes, Ack
    <3>6. CASE ack.num = 0
      <4>1. /\ ackToSend'[r][s].lid = mes.lid /\ ackToSend'[r][s].num = mes.num
        BY <3>1, <3>6 DEF Merged
      <4>2. SpeaksOf(ackToSend[r][s])' = mes.lid..(mes.lid + mes.num - 1)
        BY <4>1 DEF SpeaksOf
      <4> QED
        BY <3>2, <4>2
    <3>7. CASE ack.num # 0
      <4>1. /\ ackToSend'[r][s].lid = ack.lid
            /\ ackToSend'[r][s].num = ack.num + mes.num
        BY <3>1, <3>7 DEF Merged
      <4>2. ack.lid + ack.num = mes.lid
        BY <3>3, <3>5, <3>7
      <4>3. ack.lid..(ack.lid + ack.num + mes.num - 1)
              \subseteq (ack.lid..(ack.lid + ack.num - 1))
                        \cup (mes.lid..(mes.lid + mes.num - 1))
        BY <3>5, <4>2
      <4>4. ack.lid..(ack.lid + ack.num - 1) \subseteq received'[r][s]
        <5>1. SpeaksOf(ack) = ack.lid..(ack.lid + ack.num - 1)
          BY DEF SpeaksOf
        <5> QED
          BY <3>4, <5>1
      <4>5. SpeaksOf(ackToSend[r][s])' = ack.lid..(ack.lid + ack.num + mes.num - 1)
        BY <3>5, <4>1 DEF SpeaksOf
      <4> QED
        BY <3>2, <4>3, <4>4, <4>5
    <3> QED
      BY <3>6, <3>7
  <2>2. CASE ~(q = r /\ z = s)
    <3>1. ackToSend'[r][s] = ackToSend[r][s]
      BY <1>3, <2>2, AckInsertMerges
    <3> QED
      BY <3>1, <1>2
  <2> QED
    BY <2>1, <2>2
<1>4. ASSUME NEW q \in Receivers, SendAcks(q)
      PROVE  SpeaksOf(ackToSend[r][s])' \subseteq received'[r][s]
  <2>1. CASE q = r
    <3>1. ackToSend'[r][s] = NoAck
      BY <1>4, <2>1 DEF SendAcks, Shape
    <3>2. SpeaksOf(ackToSend[r][s])' = 0..(0 + 0 - 1)
      BY <3>1 DEF SpeaksOf, NoAck
    <3> QED
      BY <3>2
  <2>2. CASE q # r
    <3>1. ackToSend'[r][s] = ackToSend[r][s]
      BY <1>4, <2>2 DEF SendAcks, Shape
    <3> QED
      BY <3>1, <1>2
  <2> QED
    BY <2>1, <2>2
<1>5. \/ UNCHANGED ackToSend
      \/ \E q \in Receivers, z \in Senders : PollMessage(q, z) \/ SendAcks(q)
  BY DEF Next, SenderRuns, Loss, Insert, AwaitCredits, SendBroadcasts, PollAck,
         Retire, LoseMessage, LoseAck, receiverVars
<1> QED
  BY <1>2, <1>3, <1>4, <1>5

\* So do the acks on their way.
LEMMA SpeakTrueStep ==
  EnableAssertions /\ Shape /\ AcksSpeakTrue /\ Next => AcksSpeakTrue'
<1> SUFFICES ASSUME EnableAssertions, Shape, AcksSpeakTrue, Next,
                    NEW r \in Receivers, NEW s \in Senders
             PROVE  /\ SpeaksOf(ackToSend[r][s])' \subseteq received'[r][s]
                    /\ \A i \in 1..Len(ackNet'[r][s]) :
                         SpeaksOf(ackNet'[r][s][i]) \subseteq received'[r][s]
  BY DEF AcksSpeakTrue, SpeaksOf
<1>1. received[r][s] \subseteq received'[r][s]
  BY ReceivedGrows
<1>2. ASSUME NEW i \in 1..Len(ackNet'[r][s])
      PROVE  SpeaksOf(ackNet'[r][s][i]) \subseteq received'[r][s]
  <2>1. SpeaksOf(ackNet'[r][s][i]) \subseteq received[r][s]
    BY AcksComeFrom DEF AcksSpeakTrue
  <2> QED
    BY <1>1, <2>1
<1> QED
  BY <1>2, GatheredSpeaksTrue

\* An ack counts only for operations that it speaks of.
LEMMA AckedAreSpokenOf ==
  ASSUME Shape, NEW s \in Senders, NEW ack \in Ack
  PROVE  AckedOps(s, ack) \subseteq SpeaksOf(ack)
<1>1. pullLid[s] \in Nat /\ ack.lid \in Nat /\ ack.num \in Nat
  BY DEF Shape, Ack
<1>2. PICK first \in Nat : first = Max({ack.lid, pullLid[s]}) /\ first >= ack.lid
  BY <1>1, MaxOfTwo
<1>3. first..(first + (ack.num - (first - ack.lid)) - 1)
        \subseteq ack.lid..(ack.lid + ack.num - 1)
  BY <1>1, <1>2
<1>4. SpeaksOf(ack) = ack.lid..(ack.lid + ack.num - 1)
  BY DEF SpeaksOf
<1>5. \/ AckedOps(s, ack) = {}
      \/ AckedOps(s, ack) = first..(first + (ack.num - (first - ack.lid)) - 1)
  BY <1>2 DEF AckedOps
<1> QED
  BY <1>3, <1>4, <1>5

\* So no operation is counted as held by a machine that never received it.
LEMMA HonestStep ==
  Shape /\ AcksSpeakTrue /\ AcksAreHonest /\ Next => AcksAreHonest'
<1> SUFFICES ASSUME Shape, AcksSpeakTrue, AcksAreHonest, Next,
                    NEW s \in Senders, NEW l \in Lids, NEW r \in acked'[s][l]
             PROVE  l \in received'[r][s]
  BY DEF AcksAreHonest, Lids
<1>1. Shape'
  BY ShapeStep
<1>2. r \in Receivers
  BY <1>1 DEF Shape
<1>3. received[r][s] \subseteq received'[r][s]
  BY <1>2, ReceivedGrows
<1>4. CASE r \in acked[s][l]
  BY <1>3, <1>4 DEF AcksAreHonest
<1>5. ASSUME NEW z \in Senders, NEW q \in Receivers, PollAck(z, q),
             r \notin acked[s][l]
      PROVE  l \in received'[r][s]
  <2> DEFINE ack == Head(ackNet[r][s])
  <2>1. z = s /\ q = r /\ l \in AckedOps(s, ack) /\ ackNet[r][s] # <<>>
    BY <1>5 DEF PollAck, Shape
  <2>2. ackNet[r][s] \in Seq(Ack)
    BY <1>2, Typed
  <2>3. ack = ackNet[r][s][1] /\ 1 \in 1..Len(ackNet[r][s]) /\ ack \in Ack
    BY <2>1, <2>2, HeadTailProperties, EmptySeq
  <2>4. SpeaksOf(ack) \subseteq received[r][s]
    BY <1>2, <2>3 DEF AcksSpeakTrue
  <2> HIDE DEF ack
  <2> QED
    BY <1>3, <2>1, <2>3, <2>4, AckedAreSpokenOf
<1>6. \/ UNCHANGED acked
      \/ \E z \in Senders, q \in Receivers : PollAck(z, q)
  BY DEF Next, SenderRuns, Loss, Insert, AwaitCredits, SendBroadcasts,
         PollMessage, Retire, SendAcks, LoseMessage, LoseAck, senderVars
<1> QED
  BY <1>4, <1>5, <1>6

\* The machines that hold an operation.
HoldersOf(s, l) == {r \in Receivers : l \in received[r][s]}

\* They only become more.
LEMMA HoldersGrow ==
  ASSUME Shape, Next, NEW s \in Senders, NEW l
  PROVE  /\ Cardinality(HoldersOf(s, l)) \in Nat
         /\ Cardinality(HoldersOf(s, l)') \in Nat
         /\ Cardinality(HoldersOf(s, l)) <= Cardinality(HoldersOf(s, l)')
<1>1. HoldersOf(s, l) \subseteq HoldersOf(s, l)'
  BY ReceivedGrows DEF HoldersOf
<1>2. HoldersOf(s, l)' \subseteq Receivers /\ HoldersOf(s, l) \subseteq Receivers
  BY DEF HoldersOf
<1>3. IsFiniteSet(Receivers)
  BY FlowAssumption
<1>4. IsFiniteSet(HoldersOf(s, l)') /\ IsFiniteSet(HoldersOf(s, l))
  BY <1>2, <1>3, FS_Subset
<1> QED
  BY <1>1, <1>4, FS_Subset, FS_CardinalityType

\* And what retires is held by a quorum.
LEMMA RetiredStep ==
  Shape /\ InOrder /\ AcksAreHonest /\ RetiredByQuorum /\ Next => RetiredByQuorum'
<1> SUFFICES ASSUME Shape, InOrder, AcksAreHonest, RetiredByQuorum, Next,
                    NEW s \in Senders, NEW l \in 0..(pullLid'[s] - 1)
             PROVE  Cardinality(HoldersOf(s, l)') >= RemoteQuorum
  BY DEF RetiredByQuorum, HoldersOf
<1>1. pullLid[s] \in Nat /\ RemoteQuorum \in Nat
  BY FlowAssumption, RecvNums DEF Shape
<1>2. ASSUME Cardinality(HoldersOf(s, l)) >= RemoteQuorum
      PROVE  Cardinality(HoldersOf(s, l)') >= RemoteQuorum
  BY <1>1, <1>2, HoldersGrow
<1>3. CASE l \in 0..(pullLid[s] - 1)
  <2>1. Cardinality(HoldersOf(s, l)) >= RemoteQuorum
    BY <1>3 DEF RetiredByQuorum, HoldersOf
  <2> QED
    BY <1>2, <2>1
<1>4. ASSUME NEW z \in Senders, Retire(z), l \notin 0..(pullLid[s] - 1)
      PROVE  Cardinality(HoldersOf(s, l)') >= RemoteQuorum
  <2>1. z = s /\ l = pullLid[s] /\ pullLid[s] < nextLid[s]
    <3>1. pullLid' = [pullLid EXCEPT ![z] = pullLid[z] + 1] /\ pullLid[z] < nextLid[z]
      BY <1>4 DEF Retire
    <3>2. z = s
      BY <1>4, <3>1 DEF Shape
    <3>3. pullLid'[s] = pullLid[s] + 1
      BY <3>1, <3>2 DEF Shape
    <3> QED
      BY <1>1, <1>4, <3>1, <3>2, <3>3
  <2>2. l \in Lids
    BY <1>1, <2>1, FlowAssumption DEF Lids, Shape
  <2>3. acked[s][l] \subseteq HoldersOf(s, l)
    BY <2>2 DEF AcksAreHonest, HoldersOf, Shape
  <2>4. IsFiniteSet(HoldersOf(s, l))
    BY FlowAssumption, FS_Subset DEF HoldersOf
  <2>5. /\ Cardinality(acked[s][l]) <= Cardinality(HoldersOf(s, l))
        /\ Cardinality(acked[s][l]) \in Nat /\ Cardinality(HoldersOf(s, l)) \in Nat
    BY <2>3, <2>4, FS_Subset, FS_CardinalityType
  <2>6. Cardinality(acked[s][l]) >= RemoteQuorum
    BY <1>4, <2>1 DEF Retire
  <2> QED
    BY <1>1, <1>2, <2>5, <2>6
<1>5. UNCHANGED pullLid \/ \E z \in Senders : Retire(z)
  BY DEF Next, SenderRuns, Loss, Insert, AwaitCredits, SendBroadcasts, PollAck,
         PollMessage, SendAcks, LoseMessage, LoseAck, senderVars
<1> QED
  BY <1>3, <1>4, <1>5

\* Nothing is acked or retired initially.
LEMMA InitHonest == Init => HonestInv
<1> SUFFICES ASSUME Init PROVE HonestInv
  OBVIOUS
<1>1. AcksSpeakTrue
  BY DEF Init, AcksSpeakTrue, SpeaksOf, NoAck
<1>2. AcksAreHonest
  BY DEF Init, AcksAreHonest
<1>3. RetiredByQuorum
  BY DEF Init, RetiredByQuorum
<1> QED
  BY <1>1, <1>2, <1>3 DEF HonestInv

\* A step that changes nothing keeps them.
LEMMA HonestStutter == HonestInv /\ UNCHANGED vars => HonestInv'
BY DEF vars, senderVars, receiverVars, netVars, HonestInv, AcksSpeakTrue,
       SpeaksOf, AcksAreHonest, RetiredByQuorum, Lids

\* In a build with assertions, acks and retirements are true to what was
\* received, in every state that is reached.
THEOREM HonestInvHolds ==
  ASSUME EnableAssertions PROVE Spec => []HonestInv
<1>1. IInv /\ HonestInv /\ [Next]_vars => HonestInv'
  <2>1. CASE UNCHANGED vars
    BY <2>1, HonestStutter
  <2>2. CASE IInv /\ HonestInv /\ Next
    <3>1. Shape /\ InOrder /\ AcksSpeakTrue /\ AcksAreHonest /\ RetiredByQuorum
      BY <2>2 DEF IInv, HonestInv
    <3>2. AcksSpeakTrue' /\ AcksAreHonest' /\ RetiredByQuorum'
      BY <2>2, <3>1, SpeakTrueStep, HonestStep, RetiredStep
    <3> QED
      BY <3>2 DEF HonestInv
  <2> QED
    BY <2>1, <2>2
<1> QED
  BY <1>1, InitHonest, Inv, PTL DEF Spec

\* With assertions no operation is counted as held by a machine that never
\* received it (the check in ctx_ack_insert).
THEOREM HonestAcks ==
  ASSUME EnableAssertions PROVE Spec => []AcksAreHonest
<1>1. HonestInv => AcksAreHonest
  BY DEF HonestInv
<1> QED
  BY <1>1, HonestInvHolds, PTL

\* With assertions an operation retires only when a quorum of machines holds
\* it, across losses, timeouts and revivals.
THEOREM QuorumRetires ==
  ASSUME EnableAssertions PROVE Spec => []RetiredByQuorum
<1>1. HonestInv => RetiredByQuorum
  BY DEF HonestInv
<1> QED
  BY <1>1, HonestInvHolds, PTL
============================================================================
