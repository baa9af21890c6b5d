--------------------------- MODULE UnicastsProofs ---------------------------
(***************************************************************************)
(* The safety of a send fifo and of the unicasts that leave from it, for   *)
(* any sizes of the fifo, of its slots and of the requests.                *)
(***************************************************************************)
EXTENDS Unicasts, SumTheorems, SequenceTheorems

----------------------------------------------------------------------------
(* The invariant of the fifo.                                              *)

SlotContent ==
  [coalesceNum : Nat, byteSize : Nat, respSize : Nat, reqs : Seq(Requests)]

FifoShape ==
  /\ slots \in [Slot -> SlotContent]
  /\ pushPtr \in Slot /\ pullPtr \in Slot
  /\ capacity \in 0..MaxSize /\ netCapacity \in Nat /\ inserted \in Nat
  /\ message \in Seq(Requests)

\* Of a message that waits: its count is right, and it fits.  What
\* get_send_fifo_ptr has charged for the replies is enough for all but the
\* first of them, so that the check against the MTU is made for those.
SlotFits(slot) ==
  /\ slot.coalesceNum = Len(slot.reqs) /\ slot.coalesceNum > 0
  /\ slot.byteSize <= SlotSize
  /\ ReplyBytes(slot.reqs) - slot.reqs[1].resp <= Mtu
  /\ ReplyBytes(slot.reqs) - slot.reqs[1].resp <= slot.respSize

WaitingFit == \A k \in 1..capacity : SlotFits(WaitingSlots[k])

FifoInv == FifoShape /\ CountsAgree /\ WaitingFit

----------------------------------------------------------------------------
(* Places on the ring.                                                     *)

\* The place k slots after p.
Place(p, k) == IF p + k < MaxSize THEN p + k ELSE p + k - MaxSize

\* What the remainder computes on the ring.
LEMMA RingPlace ==
  ASSUME NEW p \in Slot, NEW k \in 0..MaxSize
  PROVE  (p + k) % MaxSize = Place(p, k) /\ Place(p, k) \in Slot
BY FifoAssumption DEF Slot, Place

\* The slots that wait, by their places.
LEMMA WaitingPlaces ==
  ASSUME FifoShape
  PROVE  /\ capacity \in Nat /\ DOMAIN WaitingSlots = 1..capacity
         /\ \A k \in 1..capacity : /\ WaitingSlots[k] = slots[Place(pullPtr, k - 1)]
                                   /\ Place(pullPtr, k - 1) \in Slot
                                   /\ WaitingSlots[k] \in SlotContent
         /\ capacity > 0 => (pullPtr + capacity - 1) % MaxSize = Place(pullPtr, capacity - 1)
<1>1. /\ capacity \in Nat /\ capacity <= MaxSize /\ MaxSize \in Nat /\ pullPtr \in Slot
      /\ pullPtr \in Nat
  BY FifoAssumption DEF FifoShape, Slot
<1>2. ASSUME NEW k \in 1..capacity
      PROVE  /\ (pullPtr + k - 1) % MaxSize = Place(pullPtr, k - 1)
             /\ Place(pullPtr, k - 1) \in Slot
  <2>1. k - 1 \in 0..MaxSize /\ pullPtr + k - 1 = pullPtr + (k - 1)
    BY <1>1
  <2> QED
    BY <1>1, <2>1, RingPlace
<1>3. \A k \in 1..capacity : WaitingSlots[k] = slots[Place(pullPtr, k - 1)]
  BY <1>2 DEF WaitingSlots
<1>4. \A k \in 1..capacity : WaitingSlots[k] \in SlotContent
  BY <1>2, <1>3 DEF FifoShape
<1>5. capacity > 0 => capacity \in 1..capacity
  BY <1>1
<1>6. DOMAIN WaitingSlots = 1..capacity
  BY DEF WaitingSlots
<1> QED
  BY <1>1, <1>2, <1>3, <1>4, <1>5, <1>6

\* What a request may ask for: it fits a message of its own.
LEMMA RequestFits ==
  ASSUME NEW r \in Requests
  PROVE  /\ r.size \in Nat /\ MesHeader + r.size <= SlotSize
         /\ r.resp \in Nat /\ r.resp <= Mtu
<1>1. r.size \in Sizes /\ r.resp \in RespSizes
  BY DEF Requests
<1>2. r.size \in 1..(SlotSize - MesHeader) /\ r.resp \in 0..Mtu
  BY <1>1, FifoAssumption
<1> QED
  BY <1>2, FifoAssumption

\* The replies to a message of one request, and to one request more.
LEMMA ReplyBytesOne ==
  ASSUME NEW r \in Requests
  PROVE  ReplyBytes(<<r>>) = r.resp
<1> DEFINE f == [k \in 1..1 |-> r.resp]
<1>1. ReplyBytes(<<r>>) = SumFunctionOnSet(f, 1..1)
  <2>1. DOMAIN <<r>> = 1..1 /\ [k \in DOMAIN <<r>> |-> <<r>>[k].resp] = f
    OBVIOUS
  <2>2. DOMAIN f = 1..1
    OBVIOUS
  <2> QED
    BY <2>1, <2>2 DEF ReplyBytes, SumFunction
<1>2. r.resp \in Int
  BY RequestFits
<1>3. IsFiniteSet(1..1) /\ Cardinality(1..1) = 1
  <2>1. 1..1 = {1}
    OBVIOUS
  <2> QED
    BY <2>1, FS_Singleton
<1>a. \A k \in 1..1 : f[k] = r.resp
  OBVIOUS
<1> HIDE DEF f
<1>4. SumFunctionOnSet(f, 1..1) = r.resp * Cardinality(1..1)
  BY <1>2, <1>3, <1>a, SumConstant
<1> QED
  BY <1>1, <1>2, <1>3, <1>4

\* Each request adds its reply.
LEMMA ReplyBytesAppend ==
  ASSUME NEW q \in Seq(Requests), NEW r \in Requests
  PROVE  /\ ReplyBytes(q) \in Nat /\ r.resp \in Nat
         /\ ReplyBytes(Append(q, r)) = ReplyBytes(q) + r.resp
<1> DEFINE n == Len(q)
           f == [k \in 1..n |-> q[k].resp]
           g == [k \in 1..(n + 1) |-> Append(q, r)[k].resp]
<1>0. \A s \in Requests : s.resp \in Nat
  BY RequestFits
<1>1. n \in Nat /\ DOMAIN q = 1..n /\ \A k \in 1..n : q[k] \in Requests
  BY LenProperties, ElementOfSeq
<1>2. /\ Append(q, r) \in Seq(Requests) /\ Len(Append(q, r)) = n + 1
      /\ \A k \in 1..n : Append(q, r)[k] = q[k]
      /\ Append(q, r)[n + 1] = r
  OBVIOUS
<1>3. DOMAIN Append(q, r) = 1..(n + 1)
  BY <1>2, LenProperties
<1>4. /\ ReplyBytes(q) = SumFunctionOnSet(f, 1..n)
      /\ ReplyBytes(Append(q, r)) = SumFunctionOnSet(g, 1..(n + 1))
  BY <1>1, <1>3 DEF ReplyBytes, SumFunction
<1>5. \A k \in 1..n : f[k] \in Nat /\ f[k] \in Int /\ g[k] = f[k]
  BY <1>0, <1>1, <1>2
<1>6. g[n + 1] = r.resp /\ r.resp \in Nat
  BY <1>0, <1>1, <1>2
<1>7. \A k \in 1..(n + 1) : g[k] \in Int
  <2> HIDE DEF f, g
  <2>1. \A k \in 1..(n + 1) : k \in 1..n \/ k = n + 1
    BY <1>1
  <2> QED
    BY <1>5, <1>6, <2>1
<1>8. IsFiniteSet(1..n)
  BY <1>1, FS_Interval
<1> HIDE DEF f, g, n
<1>9. /\ SumFunctionOnSet(g, 1..(n + 1)) = g[n + 1] + SumFunctionOnSet(g, 1..n)
      /\ SumFunctionOnSet(g, 1..n) \in Int
  BY <1>1, <1>7, SumLast
<1>10. SumFunctionOnSet(g, 1..n) = SumFunctionOnSet(f, 1..n)
  BY <1>5, <1>8, SumCongruent
<1>11. SumFunctionOnSet(f, 1..n) \in Nat
  BY <1>5, <1>8, SumNat
<1> QED
  BY <1>4, <1>6, <1>9, <1>10, <1>11

----------------------------------------------------------------------------
(* The steps of the fifo.                                                  *)

\* A message of one request, a message that one more has joined, and one
\* that has been charged for a reply that went elsewhere.
One(r, resp) ==
  [coalesceNum |-> 1, byteSize |-> MesHeader + r.size, respSize |-> resp,
   reqs |-> <<r>>]

JoinedBy(slot, r) ==
  [coalesceNum |-> slot.coalesceNum + 1, byteSize |-> slot.byteSize + r.size,
   respSize |-> slot.respSize + r.resp, reqs |-> Append(slot.reqs, r)]

Charged(slot, r) ==
  [coalesceNum |-> slot.coalesceNum, byteSize |-> slot.byteSize,
   respSize |-> slot.respSize + r.resp, reqs |-> slot.reqs]

\* The three ways of an insertion: into an empty fifo, into the message that
\* is open, and into a message of its own behind it.
IntoEmpty(r) ==
  /\ capacity = 0 /\ capacity' = 1 /\ pushPtr' = pushPtr
  /\ slots' = [slots EXCEPT ![pushPtr] = One(r, r.resp)]

IntoOpen(r) ==
  /\ capacity > 0 /\ capacity' = capacity /\ pushPtr' = pushPtr
  /\ slots[pushPtr].respSize + r.resp <= Mtu
  /\ slots[pushPtr].byteSize + r.size <= SlotSize
  /\ slots' = [slots EXCEPT ![pushPtr] = JoinedBy(slots[pushPtr], r)]

IntoNew(r) ==
  /\ capacity > 0 /\ capacity < MaxSize /\ capacity' = capacity + 1
  /\ pushPtr' = ModIncr(pushPtr)
  /\ slots' = [slots EXCEPT ![pushPtr] = Charged(slots[pushPtr], r),
                            ![ModIncr(pushPtr)] = One(r, 0)]

\* What that makes of the n messages v that wait: the m messages w.
AfterInsert(v, n, w, m, r) ==
  \/ n = 0 /\ m = 1 /\ w[1] = One(r, r.resp)
  \/ /\ n > 0 /\ m = n /\ w[n] = JoinedBy(v[n], r)
     /\ \A k \in 1..(n - 1) : w[k] = v[k]
  \/ /\ n > 0 /\ m = n + 1 /\ w[n] = Charged(v[n], r) /\ w[n + 1] = One(r, 0)
     /\ \A k \in 1..(n - 1) : w[k] = v[k]

\* The open message is the last one that waits.
LEMMA OpenIsLast ==
  ASSUME FifoInv
  PROVE  /\ slots[pushPtr] \in SlotContent /\ pushPtr \in Slot
         /\ capacity > 0 => /\ capacity \in 1..capacity
                            /\ pushPtr = Place(pullPtr, capacity - 1)
                            /\ slots[pushPtr] = WaitingSlots[capacity]
                            /\ SlotFits(slots[pushPtr])
         /\ capacity = 0 => pushPtr = pullPtr /\ slots[pushPtr] = FreshSlot
<1>1. FifoShape /\ CountsAgree /\ WaitingFit
  BY DEF FifoInv
<1>2. slots[pushPtr] \in SlotContent /\ pushPtr \in Slot
  BY <1>1 DEF FifoShape
<1>3. capacity = 0 => pushPtr = pullPtr /\ slots[pushPtr] = FreshSlot
  BY <1>1 DEF CountsAgree
<1>4. ASSUME capacity > 0
      PROVE  /\ capacity \in 1..capacity
             /\ pushPtr = Place(pullPtr, capacity - 1)
             /\ slots[pushPtr] = WaitingSlots[capacity]
  <2>1. capacity \in 1..capacity
    BY <1>1, <1>4, WaitingPlaces
  <2>2. pushPtr = (pullPtr + capacity - 1) % MaxSize
    BY <1>1, <1>4, WaitingPlaces DEF CountsAgree
  <2> QED
    BY <1>1, <1>4, <2>1, <2>2, WaitingPlaces
<1>5. capacity > 0 => SlotFits(slots[pushPtr])
  BY <1>1, <1>4 DEF WaitingFit
<1> QED
  BY <1>2, <1>3, <1>4, <1>5

\* What AddTo leaves.
LEMMA AddToIs ==
  ASSUME NEW s \in SlotContent, NEW r
  PROVE  AddTo(s, r) = [coalesceNum |-> s.coalesceNum + 1,
                        byteSize |-> s.byteSize + r.size,
                        respSize |-> s.respSize, reqs |-> Append(s.reqs, r)]
<1>1. PICK x, y, z : /\ s.coalesceNum + 1 = x /\ s.byteSize + r.size = y
                     /\ Append(s.reqs, r) = z
  OBVIOUS
<1>2. AddTo(s, r) = [s EXCEPT !.coalesceNum = x, !.byteSize = y, !.reqs = z]
  BY <1>1 DEF AddTo
<1> QED
  BY <1>1, <1>2 DEF SlotContent

\* A message begun is a message of one request.
LEMMA AddToFresh ==
  ASSUME NEW r
  PROVE  AddTo(FreshSlot, r) = One(r, 0)
<1>1. PICK s : s = FreshSlot
  OBVIOUS
<1>2. /\ s \in SlotContent
      /\ s.coalesceNum = 0 /\ s.byteSize = MesHeader /\ s.respSize = 0
      /\ s.reqs = <<>>
  BY <1>1, FifoAssumption DEF FreshSlot, SlotContent
<1>3. /\ s.coalesceNum + 1 = 1 /\ s.byteSize + r.size = MesHeader + r.size
      /\ Append(s.reqs, r) = <<r>>
  BY <1>2
<1>4. AddTo(s, r) = [coalesceNum |-> s.coalesceNum + 1,
                     byteSize |-> s.byteSize + r.size,
                     respSize |-> s.respSize, reqs |-> Append(s.reqs, r)]
  BY <1>2, AddToIs
<1>5. AddTo(s, r) = One(r, 0)
  BY <1>2, <1>3, <1>4 DEF One
<1> QED
  BY <1>1, <1>5

\* An insertion goes one of the three ways.
LEMMA InsertWays ==
  ASSUME FifoInv, NEW r \in Requests, NEW breakMessage \in BOOLEAN,
         InsertMes(r, breakMessage)
  PROVE  /\ IntoEmpty(r) \/ IntoOpen(r) \/ IntoNew(r)
         /\ netCapacity' = netCapacity + 1 /\ inserted' = inserted + 1
         /\ r.id = inserted'
         /\ UNCHANGED <<pullPtr, message>>
<1> DEFINE slot == slots[pushPtr]
           charged == [slots[pushPtr] EXCEPT !.respSize = @ + r.resp]
           isNew == NewMessage(slots[pushPtr], r, breakMessage)
           push == IF isNew THEN ModIncr(pushPtr) ELSE pushPtr
           target == AddTo(IF isNew THEN FreshSlot ELSE charged, r)
           messages == IF target.coalesceNum = 1 THEN capacity + 1 ELSE capacity
<1>1. /\ messages <= MaxSize
      /\ slots' = [slots EXCEPT ![pushPtr] = charged, ![push] = target]
      /\ pushPtr' = push /\ capacity' = messages
      /\ netCapacity' = netCapacity + 1 /\ inserted' = inserted + 1
      /\ r.id = inserted'
      /\ UNCHANGED <<pullPtr, message>>
  BY DEF InsertMes
<1>2. /\ slot \in SlotContent /\ pushPtr \in Slot /\ capacity \in Nat
      /\ slots \in [Slot -> SlotContent]
  BY OpenIsLast, FifoAssumption DEF FifoInv, FifoShape
<1>3. charged = Charged(slot, r)
  BY <1>2 DEF SlotContent, Charged
<1>4. isNew => target = One(r, 0)
  <2> HIDE DEF isNew
  <2> QED
    BY AddToFresh
<1>5. ~isNew => target = JoinedBy(slot, r)
  <2>1. Charged(slot, r) \in SlotContent
    BY <1>2, RequestFits DEF Charged, SlotContent
  <2>2. AddTo(Charged(slot, r), r) = JoinedBy(slot, r)
    BY <2>1, AddToIs DEF Charged, JoinedBy
  <2> HIDE DEF isNew
  <2> QED
    BY <1>3, <2>2
<1>6. CASE capacity = 0
  <2>1. slot = FreshSlot
    BY <1>6, OpenIsLast
  <2>2. ~isNew
    BY <2>1, RequestFits, FifoAssumption DEF NewMessage, FreshSlot
  <2>3. target = One(r, r.resp)
    BY <1>5, <2>1, <2>2, RequestFits DEF JoinedBy, FreshSlot, One
  <2>4. capacity' = 1 /\ push = pushPtr
    BY <1>1, <1>6, <2>2, <2>3 DEF One
  <2>5. slots' = [slots EXCEPT ![pushPtr] = target]
    BY <1>1, <1>2, <2>4
  <2> QED
    BY <1>1, <1>6, <2>3, <2>4, <2>5 DEF IntoEmpty
<1>7. CASE capacity # 0 /\ ~isNew
  <2>1. capacity > 0 /\ slot.coalesceNum > 0
    BY <1>2, <1>7, OpenIsLast DEF SlotFits
  <2>2. /\ slot.respSize + r.resp <= Mtu /\ slot.byteSize + r.size <= SlotSize
    <3>1. PICK a \in Nat, b \in Nat, c \in Nat, d \in Nat :
            a = slot.respSize /\ b = r.resp /\ c = slot.byteSize /\ d = r.size
      BY <1>2, RequestFits DEF SlotContent
    <3>2. ~ (a + b > Mtu) /\ ~ (c + d > SlotSize)
      BY <1>7, <3>1 DEF NewMessage
    <3>3. a + b <= Mtu /\ c + d <= SlotSize
      BY <3>2, FifoAssumption
    <3> QED
      BY <3>1, <3>3
  <2>3. capacity' = capacity /\ push = pushPtr
    BY <1>1, <1>2, <1>5, <1>7, <2>1 DEF JoinedBy, SlotContent
  <2>4. slots' = [slots EXCEPT ![pushPtr] = target]
    BY <1>1, <1>2, <2>3
  <2> QED
    BY <1>1, <1>5, <1>7, <2>1, <2>2, <2>3, <2>4 DEF IntoOpen
<1>8. CASE capacity # 0 /\ isNew
  <2>1. messages = capacity + 1 /\ capacity > 0
    BY <1>2, <1>4, <1>8 DEF One
  <2>2. capacity' = capacity + 1 /\ capacity < MaxSize
    BY <1>1, <1>2, <2>1, FifoAssumption
  <2>3. slots' = [slots EXCEPT ![pushPtr] = Charged(slot, r),
                              ![ModIncr(pushPtr)] = One(r, 0)]
    BY <1>1, <1>3, <1>4, <1>8
  <2> QED
    BY <1>1, <1>8, <2>1, <2>2, <2>3 DEF IntoNew
<1> QED
  BY <1>1, <1>6, <1>7, <1>8

\* What they hold, counted over the first n of the messages w.
NumOf(w, n) == SumFunctionOnSet([k \in 1..n |-> w[k].coalesceNum], 1..n)

\* It depends on the counts only, and grows with the last of them.
LEMMA NumOfSame ==
  ASSUME NEW n \in Nat, NEW v, NEW w,
         \A k \in 1..n : v[k].coalesceNum \in Nat /\ w[k].coalesceNum = v[k].coalesceNum
  PROVE  NumOf(w, n) = NumOf(v, n) /\ NumOf(v, n) \in Nat
<1> DEFINE f == [k \in 1..n |-> v[k].coalesceNum]
           g == [k \in 1..n |-> w[k].coalesceNum]
<1>1. \A k \in 1..n : f[k] \in Nat /\ f[k] \in Int /\ g[k] = f[k]
  OBVIOUS
<1>0. 1 \in Int /\ n \in Int
  OBVIOUS
<1>2. IsFiniteSet(1..n)
  BY <1>0, FS_Interval
<1> HIDE DEF f, g
<1>3. SumFunctionOnSet(g, 1..n) = SumFunctionOnSet(f, 1..n)
  BY <1>1, <1>2, SumCongruent
<1>4. SumFunctionOnSet(f, 1..n) \in Nat
  BY <1>1, <1>2, SumNat
<1> QED
  BY <1>3, <1>4 DEF NumOf, f, g

\* The last of them adds its own.
LEMMA NumOfLast ==
  ASSUME NEW n \in Nat, NEW w, \A k \in 1..(n + 1) : w[k].coalesceNum \in Nat
  PROVE  /\ NumOf(w, n + 1) = w[n + 1].coalesceNum + NumOf(w, n)
         /\ NumOf(w, n) \in Nat
<1> DEFINE f == [k \in 1..n |-> w[k].coalesceNum]
           g == [k \in 1..(n + 1) |-> w[k].coalesceNum]
<1>1. \A k \in 1..(n + 1) : g[k] = w[k].coalesceNum
  OBVIOUS
<1>2. \A k \in 1..n : k \in 1..(n + 1)
  OBVIOUS
<1>3. \A k \in 1..n : f[k] = w[k].coalesceNum
  OBVIOUS
<1>4. IsFiniteSet(1..n) /\ n + 1 \in 1..(n + 1)
  BY FS_Interval
<1> HIDE DEF f, g
<1>5. \A k \in 1..(n + 1) : g[k] \in Int
  BY <1>1
<1>6. \A k \in 1..n : f[k] \in Int /\ f[k] \in Nat /\ g[k] = f[k]
  BY <1>1, <1>2, <1>3
<1>7. SumFunctionOnSet(g, 1..(n + 1)) = g[n + 1] + SumFunctionOnSet(g, 1..n)
  BY <1>5, SumLast
<1>8. SumFunctionOnSet(g, 1..n) = SumFunctionOnSet(f, 1..n)
  BY <1>4, <1>6, SumCongruent
<1>9. SumFunctionOnSet(f, 1..n) \in Nat
  BY <1>4, <1>6, SumNat
<1> QED
  BY <1>1, <1>4, <1>7, <1>8, <1>9 DEF NumOf, f, g

\* Without the first message it is less by what that holds.
LEMMA NumOfShift ==
  ASSUME NEW n \in Nat, NEW v, NEW w,
         \A k \in 1..(n + 1) : v[k].coalesceNum \in Nat,
         \A k \in 1..n : w[k] = v[k + 1]
  PROVE  NumOf(v, n + 1) = v[1].coalesceNum + NumOf(w, n) /\ NumOf(w, n) \in Nat
<1> DEFINE f == [k \in 1..(n + 1) |-> v[k].coalesceNum]
           g == [k \in 1..n |-> w[k].coalesceNum]
<1>1. \A k \in 1..(n + 1) : f[k] = v[k].coalesceNum
  OBVIOUS
<1>2. \A k \in 1..n : k + 1 \in 1..(n + 1) /\ 1 \in 1..(n + 1)
  OBVIOUS
<1>3. \A k \in 1..n : g[k] = w[k].coalesceNum
  OBVIOUS
<1>4. IsFiniteSet(1..n) /\ 1 \in 1..(n + 1)
  BY FS_Interval
<1> HIDE DEF f, g
<1>5. \A k \in 1..(n + 1) : f[k] \in Int
  BY <1>1
<1>6. \A k \in 1..n : g[k] = f[k + 1] /\ g[k] \in Nat
  BY <1>1, <1>2, <1>3
<1>7. SumFunctionOnSet(f, 1..(n + 1)) = f[1] + SumFunctionOnSet(g, 1..n)
  BY <1>5, <1>6, SumShift
<1>8. SumFunctionOnSet(g, 1..n) \in Nat
  BY <1>4, <1>6, SumNat
<1> QED
  BY <1>1, <1>4, <1>7, <1>8 DEF NumOf, f, g

\* CountsAgree, in these terms.
LEMMA CountsAre ==
  CountsAgree <=>
    /\ \A k \in 1..capacity : WaitingSlots[k].coalesceNum > 0
    /\ netCapacity = NumOf(WaitingSlots, capacity)
    /\ IF capacity = 0 THEN pushPtr = pullPtr /\ slots[pushPtr] = FreshSlot
       ELSE pushPtr = (pullPtr + capacity - 1) % MaxSize
<1>1. DOMAIN [k \in 1..capacity |-> WaitingSlots[k].coalesceNum] = 1..capacity
  OBVIOUS
<1> QED
  BY <1>1 DEF CountsAgree, NumOf, SumFunction

----------------------------------------------------------------------------
(* The messages that wait after a step.                                    *)

\* Different places on the ring are different slots.
LEMMA PlacesDiffer ==
  ASSUME NEW p \in Slot, NEW j \in 0..(MaxSize - 1), NEW k \in 0..(MaxSize - 1),
         Place(p, j) = Place(p, k)
  PROVE  j = k
BY FifoAssumption DEF Slot, Place

\* The place after the kth.
LEMMA PlaceAfter ==
  ASSUME NEW p \in Slot, NEW k \in 0..(MaxSize - 1)
  PROVE  /\ ModIncr(Place(p, k)) = Place(p, k + 1)
         /\ ModIncr(p) = Place(p, 1) /\ ModIncr(p) \in Slot
         /\ Place(ModIncr(p), k) = Place(p, k + 1)
         /\ Place(p, 0) = p
<1>1. /\ MaxSize \in Nat /\ MaxSize > 0 /\ p \in Nat /\ p < MaxSize
      /\ k \in Nat /\ k < MaxSize
  BY FifoAssumption DEF Slot
<1>2. \A q \in Nat : q < MaxSize =>
        (q + 1) % MaxSize = IF q + 1 < MaxSize THEN q + 1 ELSE 0
  BY <1>1
<1>3. Place(p, k) \in Nat /\ Place(p, k) < MaxSize
  BY <1>1 DEF Place
<1>4. ModIncr(p) = IF p + 1 < MaxSize THEN p + 1 ELSE 0
  BY <1>1, <1>2 DEF ModIncr
<1>5. ModIncr(Place(p, k)) = IF Place(p, k) + 1 < MaxSize THEN Place(p, k) + 1 ELSE 0
  BY <1>2, <1>3 DEF ModIncr
<1>6. ModIncr(p) = Place(p, 1) /\ ModIncr(p) \in Slot
  BY <1>1, <1>4 DEF Place, Slot
<1>7. ModIncr(Place(p, k)) = Place(p, k + 1)
  BY <1>1, <1>5 DEF Place
<1>8. Place(ModIncr(p), k) = Place(p, k + 1)
  BY <1>1, <1>4 DEF Place
<1> QED
  BY <1>1, <1>6, <1>7, <1>8 DEF Place

\* The messages that wait after a step, by their places.
LEMMA NextPlaces ==
  ASSUME NEW p \in Slot, pullPtr' = p, NEW c \in 0..MaxSize, capacity' = c
  PROVE  /\ \A k \in 1..c : WaitingSlots'[k] = slots'[Place(p, k - 1)]
         /\ c > 0 => (p + c - 1) % MaxSize = Place(p, c - 1)
<1>1. c \in Nat /\ c <= MaxSize /\ MaxSize \in Nat /\ p \in Nat
  BY FifoAssumption DEF Slot
<1>2. ASSUME NEW k \in 1..c
      PROVE  (p + k - 1) % MaxSize = Place(p, k - 1)
  <2>1. k - 1 \in 0..MaxSize /\ p + k - 1 = p + (k - 1)
    BY <1>1
  <2> QED
    BY <2>1, RingPlace
<1>3. \A k \in 1..c : WaitingSlots'[k] = slots'[(p + k - 1) % MaxSize]
  BY DEF WaitingSlots
<1>4. c > 0 => c \in 1..c
  BY <1>1
<1> QED
  BY <1>2, <1>3, <1>4

\* CountsAgree after a step.
LEMMA CountsAreNext ==
  ASSUME NEW c, capacity' = c
  PROVE  CountsAgree' <=>
           /\ \A k \in 1..c : WaitingSlots'[k].coalesceNum > 0
           /\ netCapacity' = NumOf(WaitingSlots', c)
           /\ IF c = 0 THEN pushPtr' = pullPtr' /\ slots'[pushPtr'] = FreshSlot
              ELSE pushPtr' = (pullPtr' + c - 1) % MaxSize
<1>1. DOMAIN [k \in 1..c |-> WaitingSlots'[k].coalesceNum] = 1..c
  OBVIOUS
<1> QED
  BY <1>1 DEF CountsAgree, NumOf, SumFunction

----------------------------------------------------------------------------
(* What fits.                                                              *)

\* A message of one request fits.
LEMMA OneFits ==
  ASSUME NEW r \in Requests, NEW x \in Nat
  PROVE  One(r, x) \in SlotContent /\ SlotFits(One(r, x))
<1>1. /\ r.size \in Nat /\ MesHeader + r.size <= SlotSize
      /\ r.resp \in Nat /\ ReplyBytes(<<r>>) = r.resp
  BY RequestFits, ReplyBytesOne
<1>2. <<r>> \in Seq(Requests) /\ Len(<<r>>) = 1 /\ <<r>>[1] = r
  OBVIOUS
<1>3. One(r, x) \in SlotContent
  BY <1>1, <1>2, FifoAssumption DEF One, SlotContent
<1> QED
  BY <1>1, <1>2, <1>3, FifoAssumption DEF One, SlotFits

\* A message that was let grow fits.
LEMMA JoinedFits ==
  ASSUME NEW r \in Requests, NEW s \in SlotContent, SlotFits(s),
         s.respSize + r.resp <= Mtu, s.byteSize + r.size <= SlotSize
  PROVE  JoinedBy(s, r) \in SlotContent /\ SlotFits(JoinedBy(s, r))
<1>1. /\ r.size \in Nat /\ r.resp \in Nat
      /\ s.coalesceNum \in Nat /\ s.byteSize \in Nat /\ s.respSize \in Nat
      /\ s.reqs \in Seq(Requests)
  BY RequestFits DEF SlotContent
<1>2. /\ ReplyBytes(s.reqs) \in Nat
      /\ ReplyBytes(Append(s.reqs, r)) = ReplyBytes(s.reqs) + r.resp
  BY <1>1, ReplyBytesAppend
<1>3. Len(s.reqs) \in Nat /\ Len(s.reqs) > 0 /\ s.coalesceNum = Len(s.reqs)
  BY <1>1 DEF SlotFits
<1>4. /\ Append(s.reqs, r) \in Seq(Requests)
      /\ Len(Append(s.reqs, r)) = Len(s.reqs) + 1
      /\ Append(s.reqs, r)[1] = s.reqs[1] /\ s.reqs[1] \in Requests
  BY <1>1, <1>3
<1>5. s.reqs[1].resp \in Nat
  BY <1>4, RequestFits
<1>6. PICK j : j = JoinedBy(s, r)
  OBVIOUS
<1>7. /\ j.coalesceNum = s.coalesceNum + 1 /\ j.byteSize = s.byteSize + r.size
      /\ j.respSize = s.respSize + r.resp /\ j.reqs = Append(s.reqs, r)
  BY <1>6 DEF JoinedBy
<1>8. j \in SlotContent
  BY <1>1, <1>4, <1>6 DEF JoinedBy, SlotContent
<1>9. ReplyBytes(s.reqs) - s.reqs[1].resp <= s.respSize
  BY DEF SlotFits
<1>10. /\ ReplyBytes(j.reqs) - j.reqs[1].resp <= Mtu
       /\ ReplyBytes(j.reqs) - j.reqs[1].resp <= j.respSize
  <2>1. PICK R \in Nat, f \in Nat, q \in Nat, c \in Nat :
          /\ R = ReplyBytes(s.reqs) /\ f = s.reqs[1].resp /\ q = r.resp
          /\ c = s.respSize
    BY <1>1, <1>2, <1>5
  <2>2. ReplyBytes(j.reqs) = R + q /\ j.reqs[1].resp = f /\ j.respSize = c + q
    BY <1>2, <1>4, <1>7, <2>1
  <2>3. R - f <= c /\ c + q <= Mtu /\ Mtu \in Nat
    BY <1>9, <2>1, FifoAssumption
  <2>4. (R + q) - f <= Mtu /\ (R + q) - f <= c + q
    BY <2>3
  <2> QED
    BY <2>2, <2>4
<1>11. SlotFits(j)
  BY <1>3, <1>4, <1>7, <1>10 DEF SlotFits
<1> QED
  BY <1>6, <1>8, <1>11

\* A charge for a reply takes nothing from what fits.
LEMMA ChargedFits ==
  ASSUME NEW r \in Requests, NEW s \in SlotContent, SlotFits(s)
  PROVE  /\ Charged(s, r) \in SlotContent /\ SlotFits(Charged(s, r))
         /\ Charged(s, r).coalesceNum = s.coalesceNum
<1>1. /\ r.resp \in Nat
      /\ s.coalesceNum \in Nat /\ s.byteSize \in Nat /\ s.respSize \in Nat
      /\ s.reqs \in Seq(Requests)
  BY RequestFits DEF SlotContent
<1>2. Len(s.reqs) \in Nat /\ Len(s.reqs) > 0
  BY <1>1 DEF SlotFits
<1>3. s.reqs[1] \in Requests /\ s.reqs = Append(SubSeq(s.reqs, 1, Len(s.reqs) - 1), s.reqs[Len(s.reqs)])
  BY <1>1, <1>2
<1>4. ReplyBytes(s.reqs) \in Nat /\ s.reqs[1].resp \in Nat
  BY <1>1, <1>3, ReplyBytesAppend, RequestFits
<1>5. PICK c : c = Charged(s, r)
  OBVIOUS
<1>6. /\ c.coalesceNum = s.coalesceNum /\ c.byteSize = s.byteSize
      /\ c.respSize = s.respSize + r.resp /\ c.reqs = s.reqs
  BY <1>5 DEF Charged
<1>7. c \in SlotContent
  BY <1>1, <1>5 DEF Charged, SlotContent
<1>8. ReplyBytes(c.reqs) - c.reqs[1].resp <= c.respSize
  BY <1>1, <1>4, <1>6 DEF SlotFits
<1>9. SlotFits(c)
  BY <1>6, <1>8 DEF SlotFits
<1> QED
  BY <1>5, <1>6, <1>7, <1>9

----------------------------------------------------------------------------
(* An insertion keeps the invariant.                                       *)

\* What the three ways have in common: the places of the messages.
LEMMA WhereTheyAre ==
  ASSUME FifoInv
  PROVE  /\ capacity \in Nat /\ capacity <= MaxSize /\ MaxSize \in Nat
         /\ MaxSize > 0 /\ netCapacity \in Nat
         /\ pullPtr \in Slot /\ pushPtr \in Slot
         /\ slots \in [Slot -> SlotContent]
         /\ \A k \in 1..capacity :
              /\ WaitingSlots[k] = slots[Place(pullPtr, k - 1)]
              /\ WaitingSlots[k] \in SlotContent /\ SlotFits(WaitingSlots[k])
              /\ WaitingSlots[k].coalesceNum \in Nat
              /\ WaitingSlots[k].coalesceNum > 0
              /\ Place(pullPtr, k - 1) \in Slot
              /\ k - 1 \in 0..(MaxSize - 1)
         /\ netCapacity = NumOf(WaitingSlots, capacity)
<1>1. FifoShape /\ CountsAgree /\ WaitingFit
  BY DEF FifoInv
<1>2. /\ capacity \in Nat /\ capacity <= MaxSize /\ MaxSize \in Nat
      /\ MaxSize > 0 /\ netCapacity \in Nat
      /\ pullPtr \in Slot /\ pushPtr \in Slot
      /\ slots \in [Slot -> SlotContent]
  BY <1>1, FifoAssumption DEF FifoShape
<1>3. \A k \in 1..capacity :
        /\ WaitingSlots[k] = slots[Place(pullPtr, k - 1)]
        /\ WaitingSlots[k] \in SlotContent /\ SlotFits(WaitingSlots[k])
        /\ WaitingSlots[k].coalesceNum > 0
        /\ Place(pullPtr, k - 1) \in Slot
  BY <1>1, WaitingPlaces, CountsAre DEF WaitingFit
<1>4. \A k \in 1..capacity : WaitingSlots[k].coalesceNum \in Nat
  BY <1>3 DEF SlotContent
<1>5. \A k \in 1..capacity : k - 1 \in 0..(MaxSize - 1)
  BY <1>2
<1> QED
  BY <1>1, <1>2, <1>3, <1>4, <1>5, CountsAre

\* Into an empty fifo.
LEMMA EmptyKeeps ==
  ASSUME FifoInv, NEW r \in Requests, IntoEmpty(r), pullPtr' = pullPtr,
         netCapacity' = netCapacity + 1
  PROVE  /\ CountsAgree' /\ WaitingFit' /\ slots' \in [Slot -> SlotContent]
         /\ AfterInsert(WaitingSlots, capacity, WaitingSlots', capacity', r)
<1>1. pushPtr = pullPtr /\ pullPtr \in Slot /\ slots \in [Slot -> SlotContent]
  BY OpenIsLast, WhereTheyAre DEF IntoEmpty
<1>2. r.resp \in Nat
  BY RequestFits
<1>3. One(r, r.resp) \in SlotContent /\ SlotFits(One(r, r.resp))
  BY <1>2, OneFits
<1>4. slots' \in [Slot -> SlotContent] /\ slots'[pullPtr] = One(r, r.resp)
  BY <1>1, <1>3 DEF IntoEmpty
<1>5. 1 \in 0..MaxSize /\ 1..1 = {1} /\ capacity' = 1
  BY WhereTheyAre DEF IntoEmpty
<1>6. /\ WaitingSlots'[1] = slots'[Place(pullPtr, 1 - 1)]
      /\ (pullPtr + 1 - 1) % MaxSize = Place(pullPtr, 1 - 1)
  BY <1>1, <1>5, NextPlaces
<1>7. Place(pullPtr, 1 - 1) = pullPtr
  <2>1. 0 \in 0..(MaxSize - 1) /\ 1 - 1 = 0
    BY WhereTheyAre
  <2> QED
    BY <1>1, <2>1, PlaceAfter
<1>8. WaitingSlots'[1] = One(r, r.resp) /\ WaitingSlots'[1].coalesceNum = 1
  BY <1>4, <1>6, <1>7 DEF One
<1>9. netCapacity' = 1
  <2>1. netCapacity = NumOf(WaitingSlots, 0)
    BY WhereTheyAre DEF IntoEmpty
  <2>2. 1..0 = {}
    OBVIOUS
  <2>3. NumOf(WaitingSlots, 0) = 0
    BY <2>2, SumOfEmpty DEF NumOf
  <2> QED
    BY <2>1, <2>3
<1>10. NumOf(WaitingSlots', 1) = 1
  <2>1. PICK w : w = WaitingSlots'
    OBVIOUS
  <2>2. w[1].coalesceNum = 1 /\ \A k \in 1..(0 + 1) : w[k].coalesceNum \in Nat
    BY <1>5, <1>8, <2>1
  <2>3. NumOf(w, 0 + 1) = w[0 + 1].coalesceNum + NumOf(w, 0)
    BY <2>2, NumOfLast
  <2>4. 1..0 = {}
    OBVIOUS
  <2>5. NumOf(w, 0) = 0
    BY <2>4, SumOfEmpty DEF NumOf
  <2> QED
    BY <2>1, <2>2, <2>3, <2>5
<1>11. CountsAgree'
  <2>1. pushPtr' = (pullPtr' + 1 - 1) % MaxSize
    BY <1>1, <1>6, <1>7 DEF IntoEmpty
  <2>2. \A k \in 1..1 : WaitingSlots'[k].coalesceNum > 0
    BY <1>5, <1>8
  <2> QED
    BY <1>5, <1>9, <1>10, <2>1, <2>2, CountsAreNext
<1>12. WaitingFit'
  BY <1>3, <1>5, <1>8 DEF WaitingFit
<1>13. AfterInsert(WaitingSlots, capacity, WaitingSlots', capacity', r)
  BY <1>5, <1>8 DEF AfterInsert, IntoEmpty
<1> QED
  BY <1>4, <1>11, <1>12, <1>13

\* Into the open message.
LEMMA OpenKeeps ==
  ASSUME FifoInv, NEW r \in Requests, IntoOpen(r), pullPtr' = pullPtr,
         netCapacity' = netCapacity + 1
  PROVE  /\ CountsAgree' /\ WaitingFit' /\ slots' \in [Slot -> SlotContent]
         /\ AfterInsert(WaitingSlots, capacity, WaitingSlots', capacity', r)
<1> DEFINE p == pullPtr
<1>1. PICK n \in Nat : capacity = n + 1
  <2>1. capacity > 0 /\ capacity \in Nat
    BY WhereTheyAre DEF IntoOpen
  <2>2. capacity - 1 \in Nat /\ capacity = (capacity - 1) + 1
    BY <2>1
  <2> QED
    BY <2>2
<1>2. /\ slots[pushPtr] \in SlotContent /\ SlotFits(slots[pushPtr])
      /\ pushPtr = Place(p, n) /\ slots[pushPtr] = WaitingSlots[n + 1]
  <2>1. capacity > 0 /\ capacity - 1 = n
    BY <1>1
  <2> QED
    BY <1>1, <2>1, OpenIsLast
<1>3. PICK j : j = JoinedBy(slots[pushPtr], r)
  OBVIOUS
<1>4. j \in SlotContent /\ SlotFits(j)
  BY <1>2, <1>3, JoinedFits DEF IntoOpen
<1>5. j.coalesceNum = WaitingSlots[n + 1].coalesceNum + 1
  BY <1>2, <1>3 DEF JoinedBy
<1>6. /\ slots' \in [Slot -> SlotContent] /\ slots'[Place(p, n)] = j
      /\ \A i \in Slot : i # Place(p, n) => slots'[i] = slots[i]
  BY <1>2, <1>3, <1>4, WhereTheyAre DEF IntoOpen
<1>7. /\ p \in Slot /\ n + 1 \in 0..MaxSize /\ capacity' = n + 1
      /\ n \in 0..(MaxSize - 1)
  BY <1>1, WhereTheyAre DEF IntoOpen
<1>8. /\ \A k \in 1..(n + 1) : WaitingSlots'[k] = slots'[Place(p, k - 1)]
      /\ (p + (n + 1) - 1) % MaxSize = Place(p, (n + 1) - 1)
  BY <1>7, NextPlaces
<1>9. WaitingSlots'[n + 1] = j
  BY <1>6, <1>8
<1>10. \A k \in 1..n : WaitingSlots'[k] = WaitingSlots[k]
  <2>1. SUFFICES ASSUME NEW k \in 1..n PROVE WaitingSlots'[k] = WaitingSlots[k]
    OBVIOUS
  <2>2. k \in 1..(n + 1) /\ k - 1 # n
    OBVIOUS
  <2>3. /\ k - 1 \in 0..(MaxSize - 1) /\ Place(p, k - 1) \in Slot
        /\ WaitingSlots[k] = slots[Place(p, k - 1)]
    BY <1>1, <2>2, WhereTheyAre
  <2>4. Place(p, k - 1) # Place(p, n)
    BY <1>7, <2>2, <2>3, PlacesDiffer
  <2> QED
    BY <1>6, <1>8, <2>2, <2>3, <2>4
<1>11. \A k \in 1..(n + 1) : k \in 1..n \/ k = n + 1
  OBVIOUS
<1>12. \A k \in 1..(n + 1) : /\ SlotFits(WaitingSlots'[k])
                              /\ WaitingSlots'[k].coalesceNum \in Nat
                              /\ WaitingSlots'[k].coalesceNum > 0
  <2>1. \A k \in 1..n : k \in 1..(n + 1)
    OBVIOUS
  <2>2. WaitingSlots[n + 1].coalesceNum \in Nat
    BY <1>2 DEF SlotContent
  <2>3. j.coalesceNum \in Nat /\ j.coalesceNum > 0
    BY <1>5, <2>2
  <2> QED
    BY <1>1, <1>4, <1>9, <1>10, <1>11, <2>1, <2>3, WhereTheyAre
<1>13. netCapacity' = NumOf(WaitingSlots', n + 1)
  <2>1. PICK v, w : v = WaitingSlots /\ w = WaitingSlots'
    OBVIOUS
  <2>2. /\ \A k \in 1..(n + 1) : v[k].coalesceNum \in Nat /\ w[k].coalesceNum \in Nat
        /\ w[n + 1].coalesceNum = v[n + 1].coalesceNum + 1
        /\ \A k \in 1..n : w[k] = v[k]
    BY <1>1, <1>5, <1>9, <1>10, <1>12, <2>1, WhereTheyAre
  <2>3. \A k \in 1..n : v[k].coalesceNum \in Nat /\ w[k].coalesceNum = v[k].coalesceNum
    <3>1. \A k \in 1..n : k \in 1..(n + 1)
      OBVIOUS
    <3> QED
      BY <2>2, <3>1
  <2>4. NumOf(w, n + 1) = w[n + 1].coalesceNum + NumOf(w, n) /\ NumOf(w, n) \in Nat
    BY <2>2, NumOfLast
  <2>5. NumOf(v, n + 1) = v[n + 1].coalesceNum + NumOf(v, n)
    BY <2>2, NumOfLast
  <2>6. NumOf(w, n) = NumOf(v, n)
    BY <2>3, NumOfSame
  <2>7. netCapacity = NumOf(v, n + 1)
    BY <1>1, <2>1, WhereTheyAre
  <2>8. v[n + 1].coalesceNum \in Nat
    <3>1. n + 1 \in 1..(n + 1)
      OBVIOUS
    <3> QED
      BY <2>2, <3>1
  <2> QED
    BY <2>1, <2>2, <2>4, <2>5, <2>6, <2>7, <2>8
<1>14. CountsAgree'
  <2>1. pushPtr' = (pullPtr' + (n + 1) - 1) % MaxSize
    <3>1. (n + 1) - 1 = n
      OBVIOUS
    <3>2. pushPtr' = Place(p, n) /\ pullPtr' = p
      BY <1>2 DEF IntoOpen
    <3> QED
      BY <1>8, <3>1, <3>2
  <2>2. n + 1 # 0
    OBVIOUS
  <2> QED
    BY <1>7, <1>12, <1>13, <2>1, <2>2, CountsAreNext
<1>15. WaitingFit'
  BY <1>7, <1>12 DEF WaitingFit
<1>16. AfterInsert(WaitingSlots, capacity, WaitingSlots', capacity', r)
  <2>1. n + 1 > 0 /\ (n + 1) - 1 = n
    OBVIOUS
  <2>2. WaitingSlots'[n + 1] = JoinedBy(WaitingSlots[n + 1], r)
    BY <1>2, <1>3, <1>9
  <2> QED
    BY <1>1, <1>7, <1>10, <2>1, <2>2 DEF AfterInsert
<1> QED
  BY <1>6, <1>14, <1>15, <1>16

\* Into a message of its own behind the open one.
LEMMA NewKeeps ==
  ASSUME FifoInv, NEW r \in Requests, IntoNew(r), pullPtr' = pullPtr,
         netCapacity' = netCapacity + 1
  PROVE  /\ CountsAgree' /\ WaitingFit' /\ slots' \in [Slot -> SlotContent]
         /\ AfterInsert(WaitingSlots, capacity, WaitingSlots', capacity', r)
<1> DEFINE p == pullPtr
<1>1. PICK n \in Nat : capacity = n + 1
  <2>1. capacity > 0 /\ capacity \in Nat
    BY WhereTheyAre DEF IntoNew
  <2>2. capacity - 1 \in Nat /\ capacity = (capacity - 1) + 1
    BY <2>1
  <2> QED
    BY <2>2
<1>2. /\ slots[pushPtr] \in SlotContent /\ SlotFits(slots[pushPtr])
      /\ pushPtr = Place(p, n) /\ slots[pushPtr] = WaitingSlots[n + 1]
  <2>1. capacity > 0 /\ capacity - 1 = n
    BY <1>1
  <2> QED
    BY <1>1, <2>1, OpenIsLast
<1>3. PICK a, b : a = Charged(slots[pushPtr], r) /\ b = One(r, 0)
  OBVIOUS
<1>4. /\ a \in SlotContent /\ SlotFits(a) /\ b \in SlotContent /\ SlotFits(b)
      /\ a.coalesceNum = WaitingSlots[n + 1].coalesceNum /\ b.coalesceNum = 1
  <2>1. 0 \in Nat
    OBVIOUS
  <2> QED
    BY <1>2, <1>3, <2>1, ChargedFits, OneFits DEF One
<1>5. /\ p \in Slot /\ n + 2 \in 0..MaxSize /\ capacity' = n + 2
      /\ n \in 0..(MaxSize - 1) /\ n + 1 \in 0..(MaxSize - 1)
  BY <1>1, WhereTheyAre DEF IntoNew
<1>6. pushPtr' = Place(p, n + 1) /\ ModIncr(pushPtr) = Place(p, n + 1)
  BY <1>2, <1>5, PlaceAfter DEF IntoNew
<1>7. Place(p, n) # Place(p, n + 1) /\ Place(p, n + 1) \in Slot /\ Place(p, n) \in Slot
  <2>1. n # n + 1 /\ n \in 0..MaxSize /\ n + 1 \in 0..MaxSize
    BY <1>5, WhereTheyAre
  <2> QED
    BY <1>5, <2>1, PlacesDiffer, RingPlace
<1>8. /\ slots' \in [Slot -> SlotContent] /\ slots'[Place(p, n)] = a
      /\ slots'[Place(p, n + 1)] = b
      /\ \A i \in Slot : i # Place(p, n) /\ i # Place(p, n + 1) => slots'[i] = slots[i]
  <2>1. slots' = [slots EXCEPT ![Place(p, n)] = a, ![Place(p, n + 1)] = b]
    BY <1>2, <1>3, <1>6 DEF IntoNew
  <2> QED
    BY <1>4, <1>7, <2>1, WhereTheyAre
<1>9. /\ \A k \in 1..(n + 2) : WaitingSlots'[k] = slots'[Place(p, k - 1)]
      /\ (p + (n + 2) - 1) % MaxSize = Place(p, (n + 2) - 1)
  BY <1>5, NextPlaces
<1>10. WaitingSlots'[n + 1] = a /\ WaitingSlots'[n + 2] = b
  <2>1. /\ n + 1 \in 1..(n + 2) /\ n + 2 \in 1..(n + 2)
        /\ (n + 1) - 1 = n /\ (n + 2) - 1 = n + 1
    OBVIOUS
  <2> QED
    BY <1>8, <1>9, <2>1
<1>11. \A k \in 1..n : WaitingSlots'[k] = WaitingSlots[k]
  <2>1. SUFFICES ASSUME NEW k \in 1..n PROVE WaitingSlots'[k] = WaitingSlots[k]
    OBVIOUS
  <2>2. k \in 1..(n + 1) /\ k \in 1..(n + 2) /\ k - 1 # n /\ k - 1 # n + 1
    OBVIOUS
  <2>3. /\ k - 1 \in 0..(MaxSize - 1) /\ Place(p, k - 1) \in Slot
        /\ WaitingSlots[k] = slots[Place(p, k - 1)]
    BY <1>1, <2>2, WhereTheyAre
  <2>4. Place(p, k - 1) # Place(p, n) /\ Place(p, k - 1) # Place(p, n + 1)
    BY <1>5, <2>2, <2>3, PlacesDiffer
  <2> QED
    BY <1>8, <1>9, <2>2, <2>3, <2>4
<1>12. \A k \in 1..(n + 2) : k \in 1..n \/ k = n + 1 \/ k = n + 2
  OBVIOUS
<1>13. WaitingSlots[n + 1].coalesceNum \in Nat /\ WaitingSlots[n + 1].coalesceNum > 0
  <2>1. n + 1 \in 1..(n + 1)
    OBVIOUS
  <2> QED
    BY <1>1, <2>1, WhereTheyAre
<1>14. \A k \in 1..(n + 2) : /\ SlotFits(WaitingSlots'[k])
                              /\ WaitingSlots'[k].coalesceNum \in Nat
                              /\ WaitingSlots'[k].coalesceNum > 0
  <2>1. \A k \in 1..n : k \in 1..(n + 1)
    OBVIOUS
  <2>2. b.coalesceNum \in Nat /\ b.coalesceNum > 0
    BY <1>4
  <2> QED
    BY <1>1, <1>4, <1>10, <1>11, <1>12, <1>13, <2>1, <2>2, WhereTheyAre
<1>15. netCapacity' = NumOf(WaitingSlots', n + 2)
  <2>1. PICK v, w : v = WaitingSlots /\ w = WaitingSlots'
    OBVIOUS
  <2>2. \A k \in 1..(n + 1) : k \in 1..(n + 2) /\ (k \in 1..n \/ k = n + 1)
    OBVIOUS
  <2>3. \A k \in 1..(n + 1) : v[k].coalesceNum \in Nat /\ w[k].coalesceNum = v[k].coalesceNum
    BY <1>1, <1>4, <1>10, <1>11, <2>1, <2>2, WhereTheyAre
  <2>4. /\ \A k \in 1..((n + 1) + 1) : w[k].coalesceNum \in Nat
        /\ w[(n + 1) + 1].coalesceNum = 1
    <3>1. (n + 1) + 1 = n + 2
      OBVIOUS
    <3> QED
      BY <1>4, <1>10, <1>14, <2>1, <3>1
  <2>5. n + 1 \in Nat
    OBVIOUS
  <2>6. NumOf(w, (n + 1) + 1) = w[(n + 1) + 1].coalesceNum + NumOf(w, n + 1)
    BY <2>4, <2>5, NumOfLast
  <2>7. NumOf(w, n + 1) = NumOf(v, n + 1) /\ NumOf(v, n + 1) \in Nat
    BY <2>3, <2>5, NumOfSame
  <2>8. netCapacity = NumOf(v, n + 1) /\ (n + 1) + 1 = n + 2
    BY <1>1, <2>1, WhereTheyAre
  <2> QED
    BY <2>1, <2>4, <2>6, <2>7, <2>8
<1>16. CountsAgree'
  <2>1. pushPtr' = (pullPtr' + (n + 2) - 1) % MaxSize
    <3>1. (n + 2) - 1 = n + 1
      OBVIOUS
    <3> QED
      BY <1>6, <1>9, <3>1
  <2>2. n + 2 # 0
    OBVIOUS
  <2> QED
    BY <1>5, <1>14, <1>15, <2>1, <2>2, CountsAreNext
<1>17. WaitingFit'
  BY <1>5, <1>14 DEF WaitingFit
<1>18. AfterInsert(WaitingSlots, capacity, WaitingSlots', capacity', r)
  <2>1. n + 1 > 0 /\ (n + 1) - 1 = n /\ (n + 1) + 1 = n + 2
    OBVIOUS
  <2>2. WaitingSlots'[n + 1] = Charged(WaitingSlots[n + 1], r)
    BY <1>2, <1>3, <1>10
  <2>3. WaitingSlots'[n + 2] = One(r, 0)
    BY <1>3, <1>10
  <2> QED
    BY <1>1, <1>5, <1>11, <2>1, <2>2, <2>3 DEF AfterInsert
<1> QED
  BY <1>8, <1>16, <1>17, <1>18

\* An insertion keeps the invariant.
LEMMA InsertKeeps ==
  ASSUME FifoInv, NEW r \in Requests, NEW breakMessage \in BOOLEAN,
         InsertMes(r, breakMessage)
  PROVE  /\ FifoInv' /\ inserted' = inserted + 1 /\ r.id = inserted'
         /\ AfterInsert(WaitingSlots, capacity, WaitingSlots', capacity', r)
<1>1. /\ IntoEmpty(r) \/ IntoOpen(r) \/ IntoNew(r)
      /\ netCapacity' = netCapacity + 1 /\ inserted' = inserted + 1
      /\ r.id = inserted' /\ pullPtr' = pullPtr /\ message' = message
  BY InsertWays
<1>2. /\ CountsAgree' /\ WaitingFit' /\ slots' \in [Slot -> SlotContent]
      /\ AfterInsert(WaitingSlots, capacity, WaitingSlots', capacity', r)
  BY <1>1, EmptyKeeps, OpenKeeps, NewKeeps
<1>3. pushPtr' \in Slot /\ capacity' \in 0..MaxSize
  <2>1. 0 \in 0..(MaxSize - 1)
    BY WhereTheyAre
  <2>2. pushPtr \in Slot /\ ModIncr(pushPtr) \in Slot
    BY <2>1, WhereTheyAre, PlaceAfter
  <2>3. pushPtr' \in Slot
    BY <1>1, <2>2 DEF IntoEmpty, IntoOpen, IntoNew
  <2>4. capacity' \in 0..MaxSize
    BY <1>1, WhereTheyAre DEF IntoEmpty, IntoOpen, IntoNew
  <2> QED
    BY <2>3, <2>4
<1>4. /\ netCapacity' \in Nat /\ inserted' \in Nat /\ pullPtr' \in Slot
      /\ message' \in Seq(Requests)
  BY <1>1 DEF FifoInv, FifoShape
<1> QED
  BY <1>1, <1>2, <1>3, <1>4 DEF FifoInv, FifoShape

----------------------------------------------------------------------------
(* A message sent keeps the invariant.                                     *)

\* The net capacity reaches zero with the last message.
LEMMA LeftIs ==
  ASSUME FifoInv, SendFromPullSlot
  PROVE  \E n \in Nat :
           /\ capacity = n + 1 /\ slots[pullPtr] = WaitingSlots[1]
           /\ WaitingSlots[1] \in SlotContent
           /\ netCapacity' = NumOf([k \in 1..n |-> WaitingSlots[k + 1]], n)
           /\ netCapacity' \in Nat
           /\ netCapacity' = 0 <=> n = 0
<1>1. /\ netCapacity > 0 \/ capacity > 0
      /\ netCapacity' = netCapacity - slots[pullPtr].coalesceNum
  BY DEF SendFromPullSlot
<1>2. PICK v : v = WaitingSlots
  OBVIOUS
<1>3. 1..0 = {}
  OBVIOUS
<1>4. \A w : NumOf(w, 0) = 0
  BY <1>3, SumOfEmpty DEF NumOf
<1>5. capacity > 0
  <2>1. capacity = 0 => netCapacity = 0
    BY <1>4, WhereTheyAre
  <2> QED
    BY <1>1, <2>1, WhereTheyAre
<1>6. PICK n \in Nat : capacity = n + 1
  <2>1. capacity - 1 \in Nat /\ capacity = (capacity - 1) + 1
    BY <1>5, WhereTheyAre
  <2> QED
    BY <2>1
<1>7. slots[pullPtr] = v[1] /\ v[1] \in SlotContent
  <2>1. 1 \in 1..capacity /\ 1 - 1 = 0 /\ 0 \in 0..(MaxSize - 1)
    BY <1>6, WhereTheyAre
  <2>2. Place(pullPtr, 0) = pullPtr
    BY <2>1, WhereTheyAre, PlaceAfter
  <2> QED
    BY <1>2, <2>1, <2>2, WhereTheyAre
<1>8. PICK w : w = [k \in 1..n |-> v[k + 1]]
  OBVIOUS
<1>9. \A k \in 1..n : w[k] = v[k + 1] /\ k + 1 \in 1..(n + 1)
  BY <1>8
<1>10. \A k \in 1..(n + 1) : v[k].coalesceNum \in Nat /\ v[k].coalesceNum > 0
  BY <1>2, <1>6, WhereTheyAre
<1>11. NumOf(v, n + 1) = v[1].coalesceNum + NumOf(w, n) /\ NumOf(w, n) \in Nat
  BY <1>9, <1>10, NumOfShift
<1>12. netCapacity' = NumOf(w, n)
  <2>1. netCapacity = NumOf(v, n + 1)
    BY <1>2, <1>6, WhereTheyAre
  <2>2. v[1].coalesceNum \in Nat
    <3>1. 1 \in 1..(n + 1)
      OBVIOUS
    <3> QED
      BY <1>10, <3>1
  <2> QED
    BY <1>1, <1>7, <1>11, <2>1, <2>2
<1>13. ASSUME n # 0 PROVE NumOf(w, n) # 0
  <2>1. PICK m \in Nat : n = m + 1
    <3>1. n - 1 \in Nat /\ n = (n - 1) + 1
      BY <1>13
    <3> QED
      BY <3>1
  <2>2. \A k \in 1..(m + 1) : w[k].coalesceNum \in Nat
    BY <1>9, <1>10, <2>1
  <2>3. NumOf(w, m + 1) = w[m + 1].coalesceNum + NumOf(w, m) /\ NumOf(w, m) \in Nat
    BY <2>2, NumOfLast
  <2>4. m + 1 \in 1..n
    BY <2>1
  <2>5. w[m + 1].coalesceNum \in Nat /\ w[m + 1].coalesceNum > 0
    BY <1>9, <1>10, <2>4
  <2> QED
    BY <2>1, <2>3, <2>5
<1> QED
  BY <1>2, <1>4, <1>6, <1>7, <1>8, <1>11, <1>12, <1>13

\* What a message sent leaves of the n messages v that wait: the m messages w.
AfterSend(v, n, w, m) == n = m + 1 /\ \A k \in 1..m : w[k] = v[k + 1]

\* What waits after a message has been sent is what waited behind it.
LEMMA SendKeeps ==
  ASSUME FifoInv, SendFromPullSlot
  PROVE  /\ FifoInv' /\ message' = WaitingSlots[1].reqs
         /\ AfterSend(WaitingSlots, capacity, WaitingSlots', capacity')
<1> DEFINE p == pullPtr
<1>1. PICK n \in Nat :
        /\ capacity = n + 1 /\ slots[pullPtr] = WaitingSlots[1]
        /\ WaitingSlots[1] \in SlotContent
        /\ netCapacity' = NumOf([k \in 1..n |-> WaitingSlots[k + 1]], n)
        /\ netCapacity' \in Nat
        /\ netCapacity' = 0 <=> n = 0
  BY LeftIs
<1>2. /\ message' = slots[pullPtr].reqs /\ CloseWhenEmpty(netCapacity')
      /\ capacity' = capacity - 1 /\ pullPtr' = ModIncr(pullPtr)
      /\ inserted' = inserted
  BY DEF SendFromPullSlot
<1>3. message' \in Seq(Requests) /\ inserted' \in Nat
  BY <1>1, <1>2 DEF SlotContent, FifoInv, FifoShape
<1>4. /\ capacity' = n /\ n \in 0..MaxSize /\ n \in 0..(MaxSize - 1)
      /\ p \in Slot /\ pushPtr \in Slot
  BY <1>1, <1>2, WhereTheyAre
<1>5. pullPtr' \in Slot /\ ModIncr(pushPtr) \in Slot /\ ModIncr(p) \in Slot
  BY <1>2, <1>4, PlaceAfter
<1>6. FreshSlot \in SlotContent
  BY FifoAssumption DEF FreshSlot, SlotContent
<1>7. slots' \in [Slot -> SlotContent] /\ pushPtr' \in Slot
  BY <1>2, <1>4, <1>5, <1>6, WhereTheyAre DEF CloseWhenEmpty
<1>8. capacity > 0 /\ pushPtr = Place(p, n)
  <2>1. capacity > 0 /\ capacity - 1 = n
    BY <1>1
  <2> QED
    BY <2>1, OpenIsLast
<1>9. CASE n = 0
  <2>1. pushPtr = p
    BY <1>4, <1>8, <1>9, PlaceAfter
  <2>2. /\ pushPtr' = ModIncr(pushPtr)
        /\ slots' = [slots EXCEPT ![ModIncr(pushPtr)] = FreshSlot]
    BY <1>1, <1>2, <1>9 DEF CloseWhenEmpty
  <2>3. pushPtr' = pullPtr' /\ slots'[pushPtr'] = FreshSlot
    BY <1>2, <1>5, <2>1, <2>2, WhereTheyAre
  <2>4. 1..0 = {} /\ capacity' = 0
    BY <1>4, <1>9
  <2>5. netCapacity' = NumOf(WaitingSlots', 0)
    BY <1>1, <1>9, <2>4, SumOfEmpty DEF NumOf
  <2>6. CountsAgree'
    BY <2>3, <2>4, <2>5, CountsAreNext
  <2>7. WaitingFit'
    BY <2>4 DEF WaitingFit
  <2>8. AfterSend(WaitingSlots, capacity, WaitingSlots', capacity')
    BY <1>1, <1>4, <1>9, <2>4 DEF AfterSend
  <2> QED
    BY <1>1, <1>2, <1>3, <1>4, <1>5, <1>7, <2>6, <2>7, <2>8 DEF FifoInv, FifoShape
<1>10. CASE n # 0
  <2>1. slots' = slots /\ pushPtr' = pushPtr
    BY <1>1, <1>2, <1>10 DEF CloseWhenEmpty
  <2>2. /\ \A k \in 1..n : WaitingSlots'[k] = slots'[Place(ModIncr(p), k - 1)]
        /\ (ModIncr(p) + n - 1) % MaxSize = Place(ModIncr(p), n - 1)
    <3>1. n > 0
      BY <1>10
    <3> QED
      BY <1>2, <1>4, <1>5, <3>1, NextPlaces
  <2>3. \A k \in 1..n : /\ Place(ModIncr(p), k - 1) = Place(p, k)
                         /\ k + 1 \in 1..capacity /\ (k + 1) - 1 = k
    <3>1. \A k \in 1..n : /\ k - 1 \in 0..(MaxSize - 1) /\ (k - 1) + 1 = k
                           /\ k + 1 \in 1..capacity /\ (k + 1) - 1 = k
      <4>1. /\ MaxSize \in Nat /\ n \in Nat /\ n <= MaxSize - 1
            /\ capacity = n + 1
        BY <1>1, <1>4, WhereTheyAre
      <4> QED
        BY <4>1
    <3>2. \A k \in 1..n : Place(ModIncr(p), k - 1) = Place(p, (k - 1) + 1)
      BY <1>4, <3>1, PlaceAfter
    <3> QED
      BY <3>1, <3>2
  <2>4. \A k \in 1..n : WaitingSlots'[k] = WaitingSlots[k + 1]
    BY <2>1, <2>2, <2>3, WhereTheyAre
  <2>5. PICK w, x : w = WaitingSlots' /\ x = [k \in 1..n |-> WaitingSlots[k + 1]]
    OBVIOUS
  <2>6. \A k \in 1..n : /\ x[k] = w[k] /\ x[k].coalesceNum \in Nat
                         /\ x[k].coalesceNum > 0 /\ SlotFits(x[k])
    <3>1. \A k \in 1..n : x[k] = WaitingSlots[k + 1]
      BY <2>5
    <3> QED
      BY <2>3, <2>4, <2>5, <3>1, WhereTheyAre
  <2>7. \A k \in 1..n : x[k].coalesceNum \in Nat /\ w[k].coalesceNum = x[k].coalesceNum
    BY <2>6
  <2>8. NumOf(w, n) = NumOf(x, n)
    BY <2>7, NumOfSame
  <2>9. pushPtr' = (pullPtr' + n - 1) % MaxSize
    <3>1. n \in 1..n
      BY <1>10
    <3> QED
      BY <1>2, <1>8, <2>1, <2>2, <2>3, <3>1
  <2>10. CountsAgree'
    BY <1>1, <1>4, <1>10, <2>5, <2>6, <2>8, <2>9, CountsAreNext
  <2>11. WaitingFit'
    BY <1>4, <2>5, <2>6 DEF WaitingFit
  <2>12. AfterSend(WaitingSlots, capacity, WaitingSlots', capacity')
    BY <1>1, <1>4, <2>4 DEF AfterSend
  <2> QED
    BY <1>1, <1>2, <1>3, <1>4, <1>5, <1>7, <2>10, <2>11, <2>12 DEF FifoInv, FifoShape
<1> QED
  BY <1>9, <1>10

----------------------------------------------------------------------------
(* The fifo is safe.                                                       *)

\* The empty fifo.
LEMMA FifoInit == Init => FifoInv
<1> SUFFICES ASSUME Init PROVE FifoInv
  OBVIOUS
<1>1. MaxSize \in Nat /\ MaxSize > 0 /\ MesHeader \in Nat /\ 0 \in Slot
  BY FifoAssumption DEF Slot
<1>2. FreshSlot \in SlotContent
  BY <1>1 DEF FreshSlot, SlotContent
<1>3. [FreshSlot EXCEPT !.byteSize = 0] \in SlotContent
  <2>1. [FreshSlot EXCEPT !.byteSize = 0]
          = [coalesceNum |-> 0, byteSize |-> 0, respSize |-> 0, reqs |-> <<>>]
    BY DEF FreshSlot
  <2>2. [coalesceNum |-> 0, byteSize |-> 0, respSize |-> 0, reqs |-> <<>>]
          \in SlotContent
    BY DEF SlotContent
  <2> QED
    BY <2>1, <2>2
<1>4. slots \in [Slot -> SlotContent] /\ slots[0] = FreshSlot
  BY <1>1, <1>2, <1>3 DEF Init
<1>5. FifoShape
  BY <1>1, <1>4 DEF FifoShape, Init
<1>6. 1..0 = {} /\ capacity = 0
  BY DEF Init
<1>7. netCapacity = NumOf(WaitingSlots, 0)
  BY <1>6, SumOfEmpty DEF NumOf, Init
<1>8. CountsAgree
  BY <1>4, <1>6, <1>7, CountsAre DEF Init
<1>9. WaitingFit
  BY <1>6 DEF WaitingFit
<1> QED
  BY <1>5, <1>8, <1>9 DEF FifoInv

\* It speaks of the fifo only.
LEMMA FifoStutter ==
  ASSUME FifoInv, UNCHANGED vars
  PROVE  FifoInv'
BY DEF FifoInv, FifoShape, CountsAgree, WaitingFit, WaitingSlots, vars

\* A step of the fifo keeps the invariant, so that whatever else uses the fifo
\* by these calls alone can count on it.
LEMMA FifoStep ==
  ASSUME FifoInv, [Next]_vars
  PROVE  FifoInv'
<1>1. ASSUME NEW r \in Requests, NEW breakMessage \in BOOLEAN,
             InsertMes(r, breakMessage)
      PROVE  FifoInv'
  BY <1>1, InsertKeeps
<1>2. CASE SendFromPullSlot
  BY <1>2, SendKeeps
<1>3. CASE UNCHANGED vars
  BY <1>3, FifoStutter
<1> QED
  BY <1>1, <1>2, <1>3 DEF Next

\* The two counts of a fifo, the count of messages that ctx_can_send_unicasts
\* goes by and the count of requests that ctx_send_broadcasts goes by, never
\* disagree, for any slots, sizes and requests.
THEOREM FifoCounts == Spec => []CountsAgree
<1>1. FifoInv => CountsAgree
  BY DEF FifoInv
<1> QED
  BY <1>1, FifoInit, FifoStep, PTL DEF Spec

\* What the messages that wait hold fits, by the invariant.
LEMMA InvFits == FifoInv => MessagesFit
<1> SUFFICES ASSUME FifoInv, NEW k \in 1..capacity
             PROVE  /\ WaitingSlots[k].byteSize <= SlotSize
                    /\ ReplyBytes(WaitingSlots[k].reqs)
                         - Head(WaitingSlots[k].reqs).resp <= Mtu
  BY DEF MessagesFit
<1>1. PICK s : s = WaitingSlots[k]
  OBVIOUS
<1>2. SlotFits(s) /\ s \in SlotContent
  BY <1>1, WhereTheyAre
<1>3. s.reqs \in Seq(Requests) /\ Len(s.reqs) > 0
  BY <1>2 DEF SlotContent, SlotFits
<1>4. Head(s.reqs) = s.reqs[1]
  BY <1>3
<1> QED
  BY <1>1, <1>2, <1>4 DEF SlotFits

\* No message outgrows its slot, nor the replies to it the MTU.
THEOREM FifoFits == Spec => []MessagesFit
BY FifoInit, FifoStep, InvFits, PTL DEF Spec

----------------------------------------------------------------------------
(* Messages one behind the other.                                          *)

\* What FlattenSeq counts up: the first n of the sequences s, joined.
Joins(f, s, n) == f = [i \in 1..n |-> IF i = 1 THEN s[i] ELSE f[i - 1] \o s[i]]

\* It can be counted up, for any n.
LEMMA JoinsExist ==
  ASSUME NEW s, NEW last \in Nat
  PROVE  \E f : Joins(f, s, last)
<1> DEFINE N == {n \in Nat : \E f : Joins(f, s, n)}
<1>1. 0 \in N
  <2>1. PICK f : f = [i \in 1..0 |-> s[i]]
    OBVIOUS
  <2>2. \A i \in 1..0 : FALSE
    OBVIOUS
  <2>3. f = [i \in 1..0 |-> IF i = 1 THEN s[i] ELSE f[i - 1] \o s[i]]
    BY <2>1, <2>2
  <2> QED
    BY <2>3 DEF Joins
<1>2. ASSUME NEW n \in N PROVE n + 1 \in N
  <2>1. n \in Nat
    OBVIOUS
  <2>2. PICK f : f = [i \in 1..n |-> IF i = 1 THEN s[i] ELSE f[i - 1] \o s[i]]
    BY DEF Joins
  <2>3. PICK y : y = IF n = 0 THEN s[1] ELSE f[n] \o s[n + 1]
    OBVIOUS
  <2>4. PICK g : g = [i \in 1..(n + 1) |-> IF i = n + 1 THEN y ELSE f[i]]
    OBVIOUS
  <2>5. ASSUME NEW i \in 1..(n + 1)
        PROVE  g[i] = IF i = 1 THEN s[i] ELSE g[i - 1] \o s[i]
    <3>1. CASE i = n + 1
      <4>1. i = 1 <=> n = 0
        BY <2>1, <3>1
      <4>2. n # 0 => i - 1 = n /\ n \in 1..(n + 1) /\ n # n + 1
        BY <2>1, <3>1
      <4>3. n # 0 => g[i - 1] = f[n]
        BY <2>4, <4>2
      <4>4. g[i] = y
        BY <2>4, <3>1
      <4> QED
        BY <2>3, <3>1, <4>1, <4>3, <4>4
    <3>2. CASE i # n + 1
      <4>1. i \in 1..n /\ (i # 1 => i - 1 \in 1..(n + 1) /\ i - 1 # n + 1)
        BY <2>1, <3>2
      <4>2. g[i] = f[i] /\ (i # 1 => g[i - 1] = f[i - 1])
        BY <2>4, <3>2, <4>1
      <4>3. f[i] = IF i = 1 THEN s[i] ELSE f[i - 1] \o s[i]
        BY <2>2, <4>1
      <4> QED
        BY <4>2, <4>3
    <3> QED
      BY <3>1, <3>2
  <2>6. PICK x : x = [i \in 1..(n + 1) |-> IF i = 1 THEN s[i] ELSE g[i - 1] \o s[i]]
    OBVIOUS
  <2>7. /\ g = [i \in 1..(n + 1) |-> g[i]] /\ x = [i \in 1..(n + 1) |-> x[i]]
    BY <2>4, <2>6
  <2>8. \A i \in 1..(n + 1) : g[i] = x[i]
    BY <2>5, <2>6
  <2>9. g = x
    BY <2>7, <2>8
  <2>10. Joins(g, s, n + 1)
    BY <2>6, <2>9 DEF Joins
  <2> QED
    BY <2>1, <2>10
<1>3. N = Nat
  <2> HIDE DEF N
  <2>1. N \in SUBSET Nat
    BY DEF N
  <2> QED
    BY <1>1, <1>2, <2>1, SetNatInduction
<1> QED
  BY <1>3

\* FlattenSeq is the last of it.
LEMMA FlattenJoins ==
  ASSUME NEW S, NEW n \in Nat, n > 0, NEW s \in [1..n -> Seq(S)]
  PROVE  \E f : Joins(f, s, n) /\ FlattenSeq(s) = f[n]
<1>1. Len(s) = n /\ n # 0
  <2>1. s \in Seq(Seq(S))
    OBVIOUS
  <2> QED
    BY <2>1
<1>2. \E f : f = [i \in 1..n |-> IF i = 1 THEN s[i] ELSE f[i - 1] \o s[i]]
  BY JoinsExist DEF Joins
<1>3. PICK f : f = CHOOSE g : g = [i \in 1..n |-> IF i = 1 THEN s[i] ELSE g[i - 1] \o s[i]]
  OBVIOUS
<1>4. Joins(f, s, n)
  BY <1>2, <1>3 DEF Joins
<1>5. FlattenSeq(s) = f[n]
  BY <1>1, <1>3 DEF FlattenSeq
<1> QED
  BY <1>4, <1>5

Agree(S, f, g, n) == \A k \in 1..n : f[k] \in Seq(S) /\ g[k] = f[k]

\* Two that count the same sequences up count the same.
LEMMA JoinsAgree ==
  ASSUME NEW S, NEW n \in Nat, NEW m \in Nat, n > 0, n <= m,
         NEW s \in [1..n -> Seq(S)], NEW t \in [1..m -> Seq(S)],
         \A k \in 1..n : s[k] = t[k],
         NEW f, NEW g, Joins(f, s, n), Joins(g, t, m)
  PROVE  Agree(S, f, g, n)
<1> DEFINE N == {k \in Nat : k < n => f[k + 1] \in Seq(S) /\ g[k + 1] = f[k + 1]}
<1>1. \A k \in 1..n : k \in 1..m
  OBVIOUS
<1>2. \A k \in 1..n : /\ f[k] = IF k = 1 THEN s[k] ELSE f[k - 1] \o s[k]
                      /\ g[k] = IF k = 1 THEN s[k] ELSE g[k - 1] \o s[k]
                      /\ s[k] \in Seq(S)
  BY <1>1 DEF Joins
<1>3. 0 \in N
  <2>1. 1 \in 1..n /\ 0 + 1 = 1
    OBVIOUS
  <2>2. f[1] = s[1] /\ g[1] = s[1] /\ s[1] \in Seq(S)
    BY <1>2, <2>1
  <2> QED
    BY <2>1, <2>2
<1>4. ASSUME NEW k \in N PROVE k + 1 \in N
  <2>1. k \in Nat /\ (k < n => f[k + 1] \in Seq(S) /\ g[k + 1] = f[k + 1])
    OBVIOUS
  <2>2. SUFFICES ASSUME k + 1 < n
                 PROVE  f[(k + 1) + 1] \in Seq(S) /\ g[(k + 1) + 1] = f[(k + 1) + 1]
    BY <2>1
  <2>3. /\ k < n /\ (k + 1) + 1 \in 1..n /\ (k + 1) + 1 # 1
        /\ (k + 1) + 1 - 1 = k + 1
    BY <2>1, <2>2
  <2>4. PICK j \in 1..n : j = (k + 1) + 1
    BY <2>3
  <2>5. j # 1 /\ j - 1 = k + 1
    BY <2>3, <2>4
  <2>6. /\ f[j] = f[k + 1] \o s[j] /\ g[j] = g[k + 1] \o s[j] /\ s[j] \in Seq(S)
    BY <1>2, <2>5
  <2>7. f[k + 1] \o s[j] \in Seq(S)
    BY <2>1, <2>3, <2>6, ConcatProperties
  <2> QED
    BY <2>1, <2>3, <2>4, <2>6, <2>7
<1>5. N = Nat
  <2> HIDE DEF N
  <2>1. N \in SUBSET Nat
    BY DEF N
  <2> QED
    BY <1>3, <1>4, <2>1, SetNatInduction
<1>6. ASSUME NEW k \in 1..n PROVE f[k] \in Seq(S) /\ g[k] = f[k]
  <2>1. k - 1 \in Nat /\ k - 1 < n /\ (k - 1) + 1 = k
    OBVIOUS
  <2>2. k - 1 \in N
    BY <1>5, <2>1
  <2> QED
    BY <2>1, <2>2
<1> QED
  BY <1>6 DEF Agree

\* No messages hold nothing.
LEMMA FlattenNone ==
  ASSUME NEW S, NEW s \in [1..0 -> Seq(S)]
  PROVE  FlattenSeq(s) = <<>>
<1>1. s \in Seq(Seq(S)) /\ Len(s) = 0
  OBVIOUS
<1>2. s = <<>>
  BY <1>1
<1> QED
  BY <1>1, <1>2 DEF FlattenSeq

\* The last message comes behind the others.
LEMMA FlattenLast ==
  ASSUME NEW S, NEW n \in Nat, NEW s \in [1..n -> Seq(S)],
         NEW t \in [1..(n + 1) -> Seq(S)], \A k \in 1..n : s[k] = t[k]
  PROVE  /\ FlattenSeq(s) \in Seq(S) /\ FlattenSeq(t) \in Seq(S)
         /\ FlattenSeq(t) = FlattenSeq(s) \o t[n + 1]
<1>1. n + 1 \in Nat /\ n + 1 > 0 /\ n + 1 \in 1..(n + 1)
  OBVIOUS
<1>2. PICK g : Joins(g, t, n + 1) /\ FlattenSeq(t) = g[n + 1]
  BY <1>1, FlattenJoins
<1>3. /\ g[n + 1] = IF n + 1 = 1 THEN t[n + 1] ELSE g[(n + 1) - 1] \o t[n + 1]
      /\ t[n + 1] \in Seq(S)
  BY <1>1, <1>2 DEF Joins
<1>4. CASE n = 0
  <2>1. FlattenSeq(s) = <<>>
    BY <1>4, FlattenNone
  <2>2. FlattenSeq(t) = t[n + 1]
    BY <1>2, <1>3, <1>4
  <2>3. <<>> \o t[n + 1] = t[n + 1]
    BY <1>3, ConcatEmptySeq
  <2> QED
    BY <1>3, <2>1, <2>2, <2>3
<1>5. CASE n > 0
  <2>1. PICK f : Joins(f, s, n) /\ FlattenSeq(s) = f[n]
    BY <1>5, FlattenJoins
  <2>2. n <= n + 1 /\ n \in 1..n /\ (n + 1) - 1 = n /\ n + 1 # 1
    BY <1>5
  <2>3. PICK m \in Nat : m = n + 1 /\ n <= m
    BY <2>2
  <2>4. Joins(g, t, m) /\ t \in [1..m -> Seq(S)]
    BY <1>2, <2>3
  <2>5. Agree(S, f, g, n)
    BY <1>5, <2>1, <2>3, <2>4, JoinsAgree
  <2>6. f[n] \in Seq(S) /\ g[n] = f[n]
    BY <2>2, <2>5 DEF Agree
  <2>7. g[n + 1] = f[n] \o t[n + 1]
    BY <1>3, <2>2, <2>6
  <2>8. f[n] \o t[n + 1] \in Seq(S)
    BY <1>3, <2>6, ConcatProperties
  <2> QED
    BY <1>2, <2>1, <2>6, <2>7, <2>8
<1> QED
  BY <1>4, <1>5

\* What is claimed of the first message, when there are n more.
FirstBefore(S, n) ==
  \A s \in [1..n -> Seq(S)], t \in [1..(n + 1) -> Seq(S)] :
    (\A k \in 1..n : s[k] = t[k + 1]) => FlattenSeq(t) = t[1] \o FlattenSeq(s)

\* It holds for any n.
LEMMA FirstBeforeAll ==
  ASSUME NEW S
  PROVE  \A n \in Nat : FirstBefore(S, n)
<1>0. \A a, b, c \in Seq(S) : (a \o b) \o c = a \o (b \o c)
  <2>1. SUFFICES ASSUME NEW a \in Seq(S), NEW b \in Seq(S), NEW c \in Seq(S)
                 PROVE  (a \o b) \o c = a \o (b \o c)
    OBVIOUS
  <2> QED
    BY ConcatAssociative
<1> DEFINE N == {n \in Nat : FirstBefore(S, n)}
<1>1. 0 \in N
  <2>1. SUFFICES ASSUME NEW s \in [1..0 -> Seq(S)], NEW t \in [1..(0 + 1) -> Seq(S)]
                 PROVE  FlattenSeq(t) = t[1] \o FlattenSeq(s)
    BY DEF FirstBefore
  <2>2. FlattenSeq(s) = <<>>
    BY FlattenNone
  <2>3. 0 \in Nat /\ \A k \in 1..0 : s[k] = t[k]
    OBVIOUS
  <2>4. FlattenSeq(t) = FlattenSeq(s) \o t[0 + 1]
    BY <2>3, FlattenLast
  <2>5. t[1] \in Seq(S) /\ 0 + 1 = 1
    OBVIOUS
  <2>6. <<>> \o t[1] = t[1] /\ t[1] \o <<>> = t[1]
    BY <2>5, ConcatEmptySeq
  <2> QED
    BY <2>2, <2>4, <2>5, <2>6
<1>2. ASSUME NEW n \in N PROVE n + 1 \in N
  <2>0. n \in Nat /\ n + 1 \in Nat /\ FirstBefore(S, n)
    OBVIOUS
  <2>1. SUFFICES ASSUME NEW s \in [1..(n + 1) -> Seq(S)],
                        NEW t \in [1..((n + 1) + 1) -> Seq(S)],
                        \A k \in 1..(n + 1) : s[k] = t[k + 1]
                 PROVE  FlattenSeq(t) = t[1] \o FlattenSeq(s)
    BY <2>0 DEF FirstBefore
  <2>2. PICK u : u = [k \in 1..n |-> s[k]]
    OBVIOUS
  <2>3. PICK v : v = [k \in 1..(n + 1) |-> t[k]]
    OBVIOUS
  <2>4. /\ \A k \in 1..n : k \in 1..(n + 1) /\ k + 1 \in 1..(n + 1)
        /\ \A k \in 1..(n + 1) : k \in 1..((n + 1) + 1)
        /\ n + 1 \in Nat /\ n + 1 \in 1..(n + 1)
        /\ (n + 1) + 1 \in 1..((n + 1) + 1) /\ 1 \in 1..(n + 1)
    BY <2>0
  <2>5. u \in [1..n -> Seq(S)] /\ \A k \in 1..n : u[k] = s[k]
    BY <2>2, <2>4
  <2>6. v \in [1..(n + 1) -> Seq(S)] /\ \A k \in 1..(n + 1) : v[k] = t[k]
    BY <2>3, <2>4
  <2>7. \A k \in 1..n : u[k] = v[k + 1]
    BY <2>1, <2>4, <2>5, <2>6
  <2>8. FlattenSeq(v) = v[1] \o FlattenSeq(u)
    BY <2>0, <2>5, <2>6, <2>7 DEF FirstBefore
  <2>9. /\ FlattenSeq(u) \in Seq(S)
        /\ FlattenSeq(s) = FlattenSeq(u) \o s[n + 1]
    BY <2>0, <2>5, FlattenLast
  <2>10. FlattenSeq(t) = FlattenSeq(v) \o t[(n + 1) + 1]
    BY <2>4, <2>6, FlattenLast
  <2>11. /\ v[1] = t[1] /\ s[n + 1] = t[(n + 1) + 1]
         /\ t[1] \in Seq(S) /\ s[n + 1] \in Seq(S)
    BY <2>1, <2>4, <2>6
  <2>12. (t[1] \o FlattenSeq(u)) \o s[n + 1] = t[1] \o (FlattenSeq(u) \o s[n + 1])
    <3>1. PICK a \in Seq(S), b \in Seq(S), c \in Seq(S) :
            a = t[1] /\ b = FlattenSeq(u) /\ c = s[n + 1]
      BY <2>9, <2>11
    <3>2. (a \o b) \o c = a \o (b \o c)
      BY <1>0
    <3> QED
      BY <3>1, <3>2
  <2> QED
    BY <2>8, <2>9, <2>10, <2>11, <2>12
<1>3. N = Nat
  <2> HIDE DEF N
  <2>1. N \in SUBSET Nat
    BY DEF N
  <2> QED
    BY <1>1, <1>2, <2>1, SetNatInduction
<1> QED
  BY <1>3

\* The first message comes before the others.
LEMMA FlattenFirst ==
  ASSUME NEW S, NEW n \in Nat, NEW s \in [1..n -> Seq(S)],
         NEW t \in [1..(n + 1) -> Seq(S)], \A k \in 1..n : s[k] = t[k + 1]
  PROVE  FlattenSeq(t) = t[1] \o FlattenSeq(s)
BY FirstBeforeAll DEF FirstBefore

----------------------------------------------------------------------------
(* The fifo is a mailbox.                                                  *)

\* The requests of the first n of the messages w.
Content(w, n) == FlattenSeq([k \in 1..n |-> w[k].reqs])

HoldRequests(w, n) == \A k \in 1..n : w[k].reqs \in Seq(Requests)

\* They are the requests of the messages but the last, and then its own.
LEMMA ContentLast ==
  ASSUME NEW n \in Nat, NEW w, HoldRequests(w, n + 1)
  PROVE  /\ Content(w, n) \in Seq(Requests) /\ w[n + 1].reqs \in Seq(Requests)
         /\ Content(w, n + 1) = Content(w, n) \o w[n + 1].reqs
<1>1. PICK s, t : /\ s = [k \in 1..n |-> w[k].reqs]
                  /\ t = [k \in 1..(n + 1) |-> w[k].reqs]
  OBVIOUS
<1>2. n + 1 \in 1..(n + 1) /\ \A k \in 1..n : k \in 1..(n + 1)
  OBVIOUS
<1>3. s \in [1..n -> Seq(Requests)] /\ t \in [1..(n + 1) -> Seq(Requests)]
  BY <1>1, <1>2 DEF HoldRequests
<1>4. (\A k \in 1..n : s[k] = t[k]) /\ t[n + 1] = w[n + 1].reqs
  BY <1>1, <1>2
<1>5. FlattenSeq(s) \in Seq(Requests) /\ FlattenSeq(t) = FlattenSeq(s) \o t[n + 1]
  BY <1>3, <1>4, FlattenLast
<1> QED
  BY <1>1, <1>2, <1>4, <1>5 DEF Content, HoldRequests

\* Nothing waits in no messages.
LEMMA ContentNone == ASSUME NEW w PROVE Content(w, 0) = <<>>
<1>1. [k \in 1..0 |-> w[k].reqs] \in [1..0 -> Seq(Requests)]
  OBVIOUS
<1> QED
  BY <1>1, FlattenNone DEF Content

\* It depends on the requests only.
LEMMA ContentSame ==
  ASSUME NEW n, NEW v, NEW w, \A k \in 1..n : w[k].reqs = v[k].reqs
  PROVE  Content(w, n) = Content(v, n)
<1>1. [k \in 1..n |-> w[k].reqs] = [k \in 1..n |-> v[k].reqs]
  OBVIOUS
<1> QED
  BY <1>1 DEF Content

\* A request behind the last of several is behind them all.
LEMMA JoinAppend ==
  ASSUME NEW S, NEW a \in Seq(S), NEW b \in Seq(S), NEW r \in S
  PROVE  a \o Append(b, r) = Append(a \o b, r)
<1>1. PICK x, y : x = a \o Append(b, r) /\ y = Append(a \o b, r)
  OBVIOUS
<1>2. /\ x \in Seq(S) /\ y \in Seq(S)
      /\ Len(x) = Len(y)
      /\ \A i \in 1..Len(x) : x[i] = y[i]
  BY <1>1
<1> QED
  BY <1>1, <1>2, SeqEqual

\* An insertion puts the request behind all that wait, whichever way it goes.
LEMMA InsertAppends ==
  ASSUME NEW r \in Requests, NEW n \in Nat, NEW m \in Nat, NEW v, NEW w,
         HoldRequests(v, n), AfterInsert(v, n, w, m, r)
  PROVE  Content(w, m) = Append(Content(v, n), r)
<1>1. <<r>> \in Seq(Requests) /\ Append(<<>>, r) = <<r>> /\ <<>> \o <<r>> = <<r>>
  OBVIOUS
<1>6. \A a, b \in Seq(Requests) : a \o Append(b, r) = Append(a \o b, r)
  BY JoinAppend
<1>2. CASE n = 0 /\ m = 1 /\ w[1] = One(r, r.resp)
  <2>1. w[0 + 1].reqs = <<r>>
    BY <1>2 DEF One
  <2>2. \A k \in 1..(0 + 1) : k = 0 + 1
    OBVIOUS
  <2>3. HoldRequests(w, 0 + 1)
    BY <1>1, <2>1, <2>2 DEF HoldRequests
  <2>4. Content(w, 0 + 1) = Content(w, 0) \o w[0 + 1].reqs
    BY <2>3, ContentLast
  <2>5. Content(w, 0) = <<>> /\ Content(v, 0) = <<>> /\ 0 + 1 = 1
    BY ContentNone
  <2> QED
    BY <1>1, <1>2, <2>1, <2>4, <2>5
<1>3. ASSUME n > 0, \A k \in 1..(n - 1) : w[k] = v[k]
      PROVE  \E q \in Nat :
               /\ n = q + 1 /\ Content(w, q) = Content(v, q)
               /\ Content(v, q) \in Seq(Requests) /\ v[n].reqs \in Seq(Requests)
               /\ Content(v, n) = Content(v, q) \o v[n].reqs
  <2>1. n - 1 \in Nat /\ n = (n - 1) + 1
    BY <1>3
  <2>2. PICK q \in Nat : q = n - 1 /\ n = q + 1
    BY <2>1
  <2>3. \A k \in 1..q : w[k].reqs = v[k].reqs
    BY <1>3, <2>2
  <2>4. Content(w, q) = Content(v, q)
    BY <2>3, ContentSame
  <2>5. HoldRequests(v, q + 1)
    BY <2>2
  <2>6. /\ Content(v, q) \in Seq(Requests) /\ v[q + 1].reqs \in Seq(Requests)
        /\ Content(v, q + 1) = Content(v, q) \o v[q + 1].reqs
    BY <2>5, ContentLast
  <2> QED
    BY <2>2, <2>4, <2>6
<1>4. CASE /\ n > 0 /\ m = n /\ w[n] = JoinedBy(v[n], r)
           /\ \A k \in 1..(n - 1) : w[k] = v[k]
  <2>1. PICK q \in Nat :
          /\ n = q + 1 /\ Content(w, q) = Content(v, q)
          /\ Content(v, q) \in Seq(Requests) /\ v[n].reqs \in Seq(Requests)
          /\ Content(v, n) = Content(v, q) \o v[n].reqs
    BY <1>3, <1>4
  <2>2. w[n].reqs = Append(v[n].reqs, r) /\ w[n].reqs \in Seq(Requests)
    BY <1>4, <2>1 DEF JoinedBy
  <2>3. HoldRequests(w, q + 1)
    <3>1. \A k \in 1..n : k = n \/ k \in 1..(n - 1)
      OBVIOUS
    <3> QED
      BY <1>4, <2>1, <2>2, <3>1 DEF HoldRequests
  <2>4. Content(w, q + 1) = Content(w, q) \o w[q + 1].reqs
    BY <2>3, ContentLast
  <2>5. Content(v, q) \o Append(v[n].reqs, r) = Append(Content(v, q) \o v[n].reqs, r)
    BY <1>6, <2>1
  <2> QED
    BY <1>4, <2>1, <2>2, <2>4, <2>5
<1>5. CASE /\ n > 0 /\ m = n + 1 /\ w[n] = Charged(v[n], r) /\ w[n + 1] = One(r, 0)
           /\ \A k \in 1..(n - 1) : w[k] = v[k]
  <2>1. \A k \in 1..n : k = n \/ k \in 1..(n - 1)
    OBVIOUS
  <2>2. \A k \in 1..n : w[k].reqs = v[k].reqs
    BY <1>5, <2>1 DEF Charged
  <2>3. Content(w, n) = Content(v, n)
    BY <2>2, ContentSame
  <2>4. w[n + 1].reqs = <<r>>
    BY <1>5 DEF One
  <2>5. \A k \in 1..(n + 1) : k = n + 1 \/ k \in 1..n
    OBVIOUS
  <2>6. HoldRequests(w, n + 1)
    BY <1>1, <2>2, <2>4, <2>5 DEF HoldRequests
  <2>7. /\ Content(w, n) \in Seq(Requests)
        /\ Content(w, n + 1) = Content(w, n) \o w[n + 1].reqs
    BY <2>6, ContentLast
  <2>8. \A a \in Seq(Requests) : a \o <<r>> = Append(a, r)
    BY AppendIsConcat
  <2> QED
    BY <1>5, <2>3, <2>4, <2>7, <2>8
<1> QED
  BY <1>2, <1>4, <1>5 DEF AfterInsert

\* What is sent is the beginning of what waits, and the rest goes on waiting.
LEMMA SendTakesFirst ==
  ASSUME NEW n \in Nat, NEW m \in Nat, NEW v, NEW w,
         HoldRequests(v, n), AfterSend(v, n, w, m)
  PROVE  \E a, b \in Seq(Requests) :
           a = v[1].reqs /\ b = Content(w, m) /\ Content(v, n) = a \o b
<1>1. n = m + 1 /\ \A k \in 1..m : w[k] = v[k + 1]
  BY DEF AfterSend
<1>2. PICK s, t : /\ s = [k \in 1..m |-> w[k].reqs]
                  /\ t = [k \in 1..(m + 1) |-> v[k].reqs]
  OBVIOUS
<1>3. 1 \in 1..(m + 1) /\ \A k \in 1..m : k + 1 \in 1..(m + 1)
  OBVIOUS
<1>4. s \in [1..m -> Seq(Requests)] /\ t \in [1..(m + 1) -> Seq(Requests)]
  BY <1>1, <1>2, <1>3 DEF HoldRequests
<1>5. (\A k \in 1..m : s[k] = t[k + 1]) /\ t[1] = v[1].reqs /\ t[1] \in Seq(Requests)
  BY <1>1, <1>2, <1>3, <1>4
<1>6. FlattenSeq(t) = t[1] \o FlattenSeq(s)
  BY <1>4, <1>5, FlattenFirst
<1>7. FlattenSeq(s) \in Seq(Requests)
  <2>1. PICK u : u = [k \in 1..(m + 1) |-> IF k = m + 1 THEN <<>> ELSE s[k]]
    OBVIOUS
  <2>2. \A k \in 1..(m + 1) : k # m + 1 => k \in 1..m
    OBVIOUS
  <2>3. u \in [1..(m + 1) -> Seq(Requests)]
    BY <1>4, <2>1, <2>2
  <2>4. \A k \in 1..m : s[k] = u[k]
    BY <2>1
  <2> QED
    BY <1>4, <2>3, <2>4, FlattenLast
<1> QED
  BY <1>1, <1>2, <1>5, <1>6, <1>7 DEF Content

\* The messages that wait hold requests, and none is empty.
LEMMA WaitingHold ==
  ASSUME FifoInv
  PROVE  /\ HoldRequests(WaitingSlots, capacity) /\ capacity \in Nat
         /\ capacity > 0 => Len(WaitingSlots[1].reqs) > 0
<1>1. \A k \in 1..capacity : WaitingSlots[k] \in SlotContent /\ SlotFits(WaitingSlots[k])
  BY WhereTheyAre
<1>2. capacity \in Nat /\ (capacity > 0 => 1 \in 1..capacity)
  BY WhereTheyAre
<1>3. capacity > 0 => Len(WaitingSlots[1].reqs) > 0
  BY <1>1, <1>2 DEF SlotContent, SlotFits
<1> QED
  BY <1>1, <1>2, <1>3 DEF HoldRequests, SlotContent

\* An insertion is one of the mailbox.
LEMMA InsertMaps ==
  ASSUME FifoInv, NEW r \in Requests, NEW breakMessage \in BOOLEAN,
         InsertMes(r, breakMessage)
  PROVE  Box!Insert(r)
<1>1. /\ FifoInv' /\ inserted' = inserted + 1
      /\ AfterInsert(WaitingSlots, capacity, WaitingSlots', capacity', r)
  BY InsertKeeps
<1>2. message' = message
  BY DEF InsertMes
<1>3. capacity' \in Nat
  BY <1>1, FifoAssumption DEF FifoInv, FifoShape
<1>4. PICK n \in Nat, m \in Nat : n = capacity /\ m = capacity'
  BY <1>3, WaitingHold
<1>5. PICK v, w : v = WaitingSlots /\ w = WaitingSlots' /\ n = capacity /\ m = capacity'
  BY <1>4
<1>6. Content(w, m) = Append(Content(v, n), r)
  BY <1>1, <1>5, WaitingHold, InsertAppends
<1>7. FlattenSeq([k \in 1..capacity |-> WaitingSlots[k].reqs])' = Content(w, m)
  BY <1>5 DEF Content
<1>8. FlattenSeq([k \in 1..capacity |-> WaitingSlots[k].reqs]) = Content(v, n)
  BY <1>5 DEF Content
<1> QED
  BY <1>1, <1>2, <1>6, <1>7, <1>8 DEF Box!Insert

\* A message sent is one of the mailbox, of all the requests in the pull slot.
LEMMA SendMaps ==
  ASSUME FifoInv, SendFromPullSlot
  PROVE  Box!Next
<1>1. /\ FifoInv' /\ message' = WaitingSlots[1].reqs
      /\ AfterSend(WaitingSlots, capacity, WaitingSlots', capacity')
  BY SendKeeps
<1>2. inserted' = inserted
  BY DEF SendFromPullSlot
<1>3. capacity' \in Nat
  BY <1>1, FifoAssumption DEF FifoInv, FifoShape
<1>4. PICK n \in Nat, m \in Nat : n = capacity /\ m = capacity'
  BY <1>3, WaitingHold
<1>5. PICK v, w : v = WaitingSlots /\ w = WaitingSlots' /\ n = capacity /\ m = capacity'
  BY <1>4
<1>6. PICK a, b \in Seq(Requests) :
        a = v[1].reqs /\ b = Content(w, m) /\ Content(v, n) = a \o b
  BY <1>1, <1>5, WaitingHold, SendTakesFirst
<1>7. /\ Len(a) \in Nat /\ Len(a \o b) = Len(a) + Len(b) /\ Len(b) \in Nat
      /\ SubSeq(a \o b, 1, Len(a)) = a
      /\ SubSeq(a \o b, Len(a) + 1, Len(a \o b)) = b
  OBVIOUS
<1>8. Len(a) > 0
  <2>1. n = m + 1
    BY <1>1, <1>5 DEF AfterSend
  <2>2. n > 0
    BY <2>1
  <2>3. capacity > 0
    BY <1>4, <2>2
  <2>4. Len(WaitingSlots[1].reqs) > 0
    BY <2>3, WaitingHold
  <2> QED
    BY <1>5, <1>6, <2>4
<1>9. Len(a) \in 1..Len(a \o b)
  BY <1>7, <1>8
<1>10. FlattenSeq([k \in 1..capacity |-> WaitingSlots[k].reqs])' = b
  BY <1>5, <1>6 DEF Content
<1>11. FlattenSeq([k \in 1..capacity |-> WaitingSlots[k].reqs]) = a \o b
  BY <1>5, <1>6 DEF Content
<1>12. message' = a
  BY <1>1, <1>5, <1>6
<1>13. Box!Send(Len(a))
  BY <1>2, <1>7, <1>10, <1>11, <1>12 DEF Box!Send
<1> QED
  BY <1>9, <1>11, <1>13 DEF Box!Next

\* An empty fifo is an empty mailbox.
LEMMA BoxInit == Init => Box!Init
<1> SUFFICES ASSUME Init PROVE Box!Init
  OBVIOUS
<1>1. capacity = 0 /\ inserted = 0 /\ message = <<>>
  BY DEF Init
<1>2. FlattenSeq([k \in 1..capacity |-> WaitingSlots[k].reqs]) = Content(WaitingSlots, 0)
  BY <1>1 DEF Content
<1> QED
  BY <1>1, <1>2, ContentNone DEF Box!Init

\* Each step of the fifo is one of the mailbox.
LEMMA BoxStep == FifoInv /\ [Next]_vars => [Box!Next]_Box!vars
<1> SUFFICES ASSUME FifoInv, [Next]_vars PROVE Box!Next \/ UNCHANGED Box!vars
  OBVIOUS
<1>1. ASSUME NEW r \in Requests, NEW breakMessage \in BOOLEAN,
             InsertMes(r, breakMessage)
      PROVE  Box!Next
  BY <1>1, InsertMaps DEF Box!Next
<1>2. CASE SendFromPullSlot
  BY <1>2, SendMaps
<1>3. CASE UNCHANGED vars
  BY <1>3 DEF vars, Box!vars, WaitingSlots
<1> QED
  BY <1>1, <1>2, <1>3 DEF Next

\* A send fifo keeps what it promises for any slots, sizes and requests: each
\* request leaves in one message, in the order of insertion.
THEOREM FifoIsAMailbox == Spec => ImplementsMailbox
BY FifoInit, FifoStep, BoxInit, BoxStep, PTL
   DEF Spec, ImplementsMailbox, Box!Spec

----------------------------------------------------------------------------
(* The fifo whose messages are unicasts.                                   *)

\* ctx_send_unicasts uses the fifo by its two calls alone.
LEMMA UniFifoStep ==
  ASSUME FifoInv, [UniNext]_uniVars
  PROVE  FifoInv'
<1>1. ASSUME NEW r \in Requests, NEW breakMessage \in BOOLEAN,
             UniInsert(r, breakMessage)
      PROVE  FifoInv'
  BY <1>1, InsertKeeps DEF UniInsert
<1>2. CASE UniSend
  BY <1>2, FifoStutter DEF UniSend
<1>3. CASE UniForge
  BY <1>3, SendKeeps DEF UniForge
<1>4. CASE UniPost
  BY <1>4, FifoStutter DEF UniPost
<1>5. ASSUME NEW n \in 1..MaxReqs, Commit(n) PROVE FifoInv'
  BY <1>5, FifoStutter DEF Commit
<1>6. CASE UNCHANGED uniVars
  BY <1>6, FifoStutter DEF uniVars
<1> QED
  BY <1>1, <1>2, <1>3, <1>4, <1>5, <1>6 DEF UniNext

\* The counts of the fifo agree whatever the credits, the card and the commits
\* do: od_fifo.h keeps capacity and net_capacity in step.
THEOREM CountsHold == UniSpec => []CountsAgree
<1>1. FifoInv => CountsAgree
  BY DEF FifoInv
<1>2. UniInit => FifoInv
  BY FifoInit DEF UniInit
<1> QED
  BY <1>1, <1>2, UniFifoStep, PTL DEF UniSpec

\* Every unicast fits its slot, and the replies to it the MTU but for the one
\* that get_send_fifo_ptr has charged to the message before.
THEOREM MessagesHold == UniSpec => []MessagesFit
<1>1. UniInit => FifoInv
  BY FifoInit DEF UniInit
<1> QED
  BY <1>1, UniFifoStep, InvFits, PTL DEF UniSpec

----------------------------------------------------------------------------
(* Selective signaling.                                                    *)

\* The one signal under way is that of the message that was forged when
\* sent_tx was last zero: posted, or forged in this call.  The card holds no
\* more than a batch beyond it.
CardInv ==
  /\ at \in {"idle", "forge", "aborted"}
  /\ mesI \in Nat /\ queued \in Nat /\ sentTx \in 0..(UniSsBatch - 1)
  /\ at # "forge" => mesI = 0 /\ flagged = {}
  /\ at = "forge" => mesI + capacity <= MaxSize
  /\ sentTx = 0 => signals = {} /\ flagged = {}
  /\ sentTx > 0 =>
       \/ /\ signals = {queued + mesI - sentTx + 1} /\ flagged = {}
          /\ 1 <= queued + mesI - sentTx + 1 /\ queued + mesI - sentTx + 1 <= queued
       \/ signals = {} /\ flagged = {mesI - sentTx + 1} /\ sentTx <= mesI
  /\ queued + mesI <= UniSsBatch - 1 + sentTx

\* The batch is longer than any list of work requests.
LEMMA BatchSize ==
  /\ UniSsBatch \in Nat /\ UniSsBatch >= SendWrNum + 2 /\ SendWrNum \in Nat
  /\ MaxSize \in Nat /\ MaxSize <= SendWrNum /\ UniSendQDepth = 2 * UniSsBatch + 3
BY FifoAssumption, UnicastAssumption DEF UniSsBatch, UniSendQDepth

\* The one signal is the least.
LEMMA MinOfOne == ASSUME NEW x \in Int PROVE Min({x}) = x
BY DEF Min

\* Nothing is under way at first.
LEMMA CardInit == UniInit => CardInv
<1>1. UniSsBatch \in Nat /\ UniSsBatch >= 2
  BY BatchSize
<1> QED
  BY <1>1 DEF UniInit, CardInv

\* No wait for a signal that is not posted.
LEMMA PollFinds ==
  ASSUME FifoInv, CardInv, at = "forge", CanSend, UniPollDue
  PROVE  /\ signals = {queued + mesI - sentTx + 1} /\ flagged = {}
         /\ queued + mesI - sentTx + 1 <= queued /\ 1 <= queued + mesI - sentTx + 1
         /\ mesI < MaxSize
<1>1. PICK b \in Nat, m \in Nat, c \in Nat, w \in Nat, x \in Nat :
        b = UniSsBatch /\ m = mesI /\ c = capacity /\ w = SendWrNum /\ x = MaxSize
  BY BatchSize, WhereTheyAre DEF CardInv
<1>2. /\ b >= w + 2 /\ x <= w /\ m + c <= x /\ c > 0 /\ sentTx = b - 1
  BY <1>1, BatchSize DEF CardInv, CanSend, UniPollDue
<1>3. sentTx > 0 /\ ~ (sentTx <= m) /\ m < x
  BY <1>2
<1> QED
  BY <1>1, <1>3 DEF CardInv

\* A message is forged.
LEMMA ForgeCard ==
  ASSUME FifoInv, CardInv, UniForge
  PROVE  CardInv'
<1>1. PICK b \in Nat, m \in Nat, c \in Nat, w \in Nat, x \in Nat, q \in Nat, t \in Nat :
        /\ b = UniSsBatch /\ m = mesI /\ c = capacity /\ w = SendWrNum /\ x = MaxSize
        /\ q = queued /\ t = sentTx
  BY BatchSize, WhereTheyAre DEF CardInv
<1>2. /\ b >= w + 2 /\ x <= w /\ m + c <= x /\ c > 0 /\ t < b
      /\ q + m <= b - 1 + t
  BY <1>1, BatchSize DEF CardInv, CanSend, UniForge
<1>3. /\ at = "forge" /\ CanSend /\ at' = at
      /\ mesI' = m + 1 /\ sentTx' = (t + 1) % b /\ Polled
      /\ flagged' = IF t = 0 THEN flagged \cup {m + 1} ELSE flagged
  BY <1>1 DEF UniForge
<1>4. capacity' = c - 1
  BY <1>1 DEF UniForge, SendFromPullSlot
<1>5. mesI' + capacity' <= MaxSize /\ mesI' \in Nat
  BY <1>1, <1>2, <1>3, <1>4
<1>6. CASE t = b - 1
  <2>1. UniPollDue
    BY <1>1, <1>6 DEF UniPollDue
  <2>2. PICK s : s = q + m - t + 1
    OBVIOUS
  <2>3. /\ signals = {s} /\ flagged = {} /\ s \in Nat /\ s <= q
    BY <1>1, <1>3, <2>1, <2>2, PollFinds
  <2>4. Min(signals) = s
    BY <2>3, MinOfOne
  <2>5. queued' = q - s /\ signals' = {}
    BY <1>1, <1>3, <2>1, <2>3, <2>4 DEF Polled
  <2>6. sentTx' = 0 /\ flagged' = {}
    <3>1. (t + 1) % b = 0 /\ t # 0
      BY <1>2, <1>6
    <3> QED
      BY <1>3, <2>3, <3>1
  <2>7. queued' \in Nat /\ queued' + mesI' <= b - 1 + 0
    BY <1>3, <1>6, <2>2, <2>3, <2>5
  <2>8. 0 \in 0..(b - 1) /\ ~ (0 > 0)
    BY <1>2
  <2> QED
    BY <1>1, <1>3, <1>5, <2>5, <2>6, <2>7, <2>8 DEF CardInv, UniSsBatch
<1>7. CASE t # b - 1
  <2>1. queued' = q /\ signals' = signals
    BY <1>1, <1>3, <1>7 DEF Polled, UniPollDue
  <2>2. sentTx' = t + 1 /\ t + 1 \in 0..(b - 1)
    <3>1. (t + 1) % b = t + 1 /\ t + 1 \in 0..(b - 1)
      BY <1>2, <1>7
    <3> QED
      BY <1>3, <3>1
  <2>3. q + (m + 1) <= b - 1 + (t + 1) /\ t + 1 > 0 /\ t + 1 # 0
    BY <1>2
  <2>4. \/ /\ signals' = {q + (m + 1) - (t + 1) + 1} /\ flagged' = {}
           /\ 1 <= q + (m + 1) - (t + 1) + 1 /\ q + (m + 1) - (t + 1) + 1 <= q
        \/ signals' = {} /\ flagged' = {(m + 1) - (t + 1) + 1} /\ t + 1 <= m + 1
    <3>1. CASE t = 0
      <4>1. signals = {} /\ flagged = {}
        BY <1>1, <3>1 DEF CardInv
      <4>2. (m + 1) - (t + 1) + 1 = m + 1 /\ t + 1 <= m + 1
        BY <3>1
      <4> QED
        BY <1>3, <2>1, <3>1, <4>1, <4>2
    <3>2. CASE t # 0
      <4>1. \/ /\ signals = {q + m - t + 1} /\ flagged = {}
               /\ 1 <= q + m - t + 1 /\ q + m - t + 1 <= q
            \/ signals = {} /\ flagged = {m - t + 1} /\ t <= m
        BY <1>1, <3>2 DEF CardInv
      <4>2. /\ q + (m + 1) - (t + 1) + 1 = q + m - t + 1
            /\ (m + 1) - (t + 1) + 1 = m - t + 1
            /\ t <= m => t + 1 <= m + 1
        OBVIOUS
      <4> QED
        BY <1>3, <2>1, <3>2, <4>1, <4>2
    <3> QED
      BY <3>1, <3>2
  <2> QED
    BY <1>1, <1>3, <1>5, <2>1, <2>2, <2>3, <2>4 DEF CardInv, UniSsBatch
<1> QED
  BY <1>6, <1>7

\* The list goes to the card.
LEMMA PostCard ==
  ASSUME FifoInv, CardInv, UniPost
  PROVE  CardInv'
<1>1. PICK m \in Nat, q \in Nat, t \in Nat : m = mesI /\ q = queued /\ t = sentTx
  BY BatchSize DEF CardInv
<1>2. /\ queued' = q + m /\ signals' = signals \cup {q + k : k \in flagged}
      /\ flagged' = {} /\ mesI' = 0 /\ at' = "idle" /\ sentTx' = t
  BY <1>1 DEF UniPost
<1>3. t = 0 => signals' = {}
  BY <1>1, <1>2 DEF CardInv
<1>4. t > 0 => /\ signals' = {(q + m) + 0 - t + 1}
               /\ 1 <= (q + m) + 0 - t + 1 /\ (q + m) + 0 - t + 1 <= q + m
  <2>1. SUFFICES ASSUME t > 0
                 PROVE  /\ signals' = {(q + m) + 0 - t + 1}
                        /\ 1 <= (q + m) + 0 - t + 1 /\ (q + m) + 0 - t + 1 <= q + m
    OBVIOUS
  <2>2. (q + m) + 0 - t + 1 = q + m - t + 1 /\ q + (m - t + 1) = q + m - t + 1
    OBVIOUS
  <2>3. CASE /\ signals = {q + m - t + 1} /\ flagged = {}
             /\ 1 <= q + m - t + 1 /\ q + m - t + 1 <= q
    <3>1. {q + k : k \in flagged} = {}
      BY <2>3
    <3> QED
      BY <1>2, <2>2, <2>3, <3>1
  <2>4. CASE signals = {} /\ flagged = {m - t + 1} /\ t <= m
    <3>1. {q + k : k \in flagged} = {q + (m - t + 1)}
      BY <2>4
    <3>2. 1 <= q + m - t + 1 /\ q + m - t + 1 <= q + m
      BY <2>1, <2>4
    <3> QED
      BY <1>2, <2>2, <2>4, <3>1, <3>2
  <2> QED
    BY <1>1, <2>1, <2>3, <2>4 DEF CardInv
<1>5. (q + m) + 0 <= UniSsBatch - 1 + t /\ q + m \in Nat
  <2>1. q + m <= UniSsBatch - 1 + t
    BY <1>1 DEF CardInv
  <2> QED
    BY <2>1
<1>6. sentTx' \in 0..(UniSsBatch - 1)
  BY <1>1, <1>2 DEF CardInv
<1> QED
  BY <1>2, <1>3, <1>4, <1>5, <1>6 DEF CardInv, UniSsBatch

\* Every step keeps it.
LEMMA CardStep ==
  ASSUME FifoInv, CardInv, [UniNext]_uniVars
  PROVE  CardInv'
<1>1. FifoInv'
  BY UniFifoStep
<1>2. capacity \in Nat /\ capacity <= MaxSize
  BY WhereTheyAre
<1>3. ASSUME NEW r \in Requests, NEW breakMessage \in BOOLEAN,
             UniInsert(r, breakMessage)
      PROVE  CardInv'
  <2>1. at = "idle" /\ UNCHANGED cardVars
    BY <1>3 DEF UniInsert
  <2> QED
    BY <2>1 DEF CardInv, cardVars, UniSsBatch
<1>4. CASE UniSend
  <2>1. /\ at = "idle" /\ at' = "forge" /\ UNCHANGED <<sentTx, mesI, flagged, queued, signals>>
        /\ capacity' = capacity
    BY <1>4 DEF UniSend, vars
  <2>2. mesI' + capacity' <= MaxSize
    BY <1>2, <2>1 DEF CardInv
  <2> QED
    BY <2>1, <2>2 DEF CardInv, UniSsBatch
<1>5. CASE UniForge
  BY <1>5, ForgeCard
<1>6. CASE UniPost
  BY <1>6, PostCard
<1>7. ASSUME NEW n \in 1..MaxReqs, Commit(n) PROVE CardInv'
  <2>1. /\ at = "idle" /\ at' \in {"idle", "aborted"}
        /\ UNCHANGED <<sentTx, mesI, flagged, queued, signals>>
    BY <1>7 DEF Commit
  <2>2. at' # "forge"
    BY <2>1
  <2> QED
    BY <2>1, <2>2 DEF CardInv, UniSsBatch
<1>8. CASE UNCHANGED uniVars
  <2>1. UNCHANGED cardVars /\ capacity' = capacity
    BY <1>8 DEF uniVars, vars, cardVars
  <2> QED
    BY <2>1 DEF CardInv, cardVars, UniSsBatch
<1> QED
  BY <1>3, <1>4, <1>5, <1>6, <1>7, <1>8 DEF UniNext

\* selective_signaling_for_unicast never waits for a message that it has only
\* forged, and neither the send queue nor the work requests overflow, whatever
\* the sizes of the batches and of the fifo.
THEOREM SignalsAreAnswered == UniSpec => []SignalsAnswered
<1>1. FifoInv /\ CardInv => SignalsAnswered
  <2> SUFFICES ASSUME FifoInv, CardInv PROVE SignalsAnswered
    OBVIOUS
  <2>1. at = "forge" /\ CanSend /\ UniPollDue => signals # {}
    BY PollFinds
  <2>2. PICK b \in Nat, m \in Nat, q \in Nat, t \in Nat, c \in Nat, x \in Nat, w \in Nat :
          /\ b = UniSsBatch /\ m = mesI /\ q = queued /\ t = sentTx
          /\ c = capacity /\ x = MaxSize /\ w = SendWrNum
    <3>1. UniSsBatch \in Nat /\ SendWrNum \in Nat /\ MaxSize \in Nat
      BY BatchSize
    <3>2. mesI \in Nat /\ queued \in Nat /\ sentTx \in Nat
      BY <3>1 DEF CardInv
    <3>3. capacity \in Nat
      BY WhereTheyAre
    <3> QED
      BY <3>1, <3>2, <3>3
  <2>3. q + m <= b - 1 + t /\ t <= b - 1 /\ x <= w
    BY <2>2, BatchSize DEF CardInv
  <2>4. m <= x
    <3>1. m = 0 \/ m + c <= x
      BY <2>2 DEF CardInv
    <3> QED
      BY <3>1
  <2>5. q + m <= 2 * b + 3 /\ m <= w
    BY <2>3, <2>4
  <2> QED
    BY <2>1, <2>2, <2>5, BatchSize DEF SignalsAnswered
<1>2. UniInit => FifoInv /\ CardInv
  BY FifoInit, CardInit DEF UniInit
<1>3. FifoInv /\ CardInv /\ [UniNext]_uniVars => FifoInv' /\ CardInv'
  BY UniFifoStep, CardStep
<1> QED
  BY <1>1, <1>2, <1>3, PTL DEF UniSpec

----------------------------------------------------------------------------
(* The mirrored buffer.                                                    *)

\* The id of the last request of a message, and of the last that was sent.
LastId(slot) == slot.reqs[Len(slot.reqs)].id
LastSent(l) == IF Len(l) = 0 THEN 0 ELSE l[Len(l)]

\* The n messages w that wait carry all requests from the one after sent to
\* the one inserted last, without a gap.
Numbered(w, n, sent, last) ==
  /\ \A k \in 1..n :
       LastId(w[k]) = (IF k = 1 THEN sent ELSE LastId(w[k - 1])) + w[k].coalesceNum
  /\ last = IF n = 0 THEN sent ELSE LastId(w[n])

\* What the messages that were sent ended with grows, and the commits have
\* not overtaken them.
Growing(l) ==
  /\ l \in Seq(Nat)
  /\ \A k \in 1..Len(l) : 0 < l[k]
  /\ \A j, k \in 1..Len(l) : j < k => l[j] < l[k]

\* What of the ith of the messages behind the hth is not yet committed, when c
\* requests are.
Rest(l, c, h, i) == l[h + i] - (IF i = 1 THEN c ELSE l[h + i - 1])

Buffers == [nums : [MirrorSlot -> Int], push : MirrorSlot, pull : MirrorSlot,
            capacity : 0..MaxCredits]

\* The buffer holds, from pull to push, what is not committed of the messages
\* that are not committed whole, which are the last ones.
Mirrors(buf, l, c) ==
  /\ buf \in Buffers /\ buf.capacity <= Len(l)
  /\ buf.push = (buf.pull + buf.capacity) % MaxCredits
  /\ \A k \in 1..Len(l) : l[k] <= c <=> k <= Len(l) - buf.capacity
  /\ \A i \in 1..buf.capacity :
       buf.nums[(buf.pull + i - 1) % MaxCredits]
         = Rest(l, c, Len(l) - buf.capacity, i)

MirrorInv ==
  /\ at # "aborted"
  /\ Numbered(WaitingSlots, capacity, LastSent(lasts), inserted)
  /\ Growing(lasts)
  /\ committed \in Nat /\ committed <= LastSent(lasts)
  /\ Mirrors(mirror, lasts, committed)
  /\ credits = MaxCredits - mirror.capacity

\* The last request of a message that has changed.
LEMMA LastIdIs ==
  ASSUME NEW r \in Requests
  PROVE  /\ r.id \in Nat
         /\ \A x : LastId(One(r, x)) = r.id /\ One(r, x).coalesceNum = 1
         /\ \A s \in SlotContent :
              /\ LastId(JoinedBy(s, r)) = r.id
              /\ JoinedBy(s, r).coalesceNum = s.coalesceNum + 1
              /\ LastId(Charged(s, r)) = LastId(s)
              /\ Charged(s, r).coalesceNum = s.coalesceNum
<1>1. r.id \in Nat
  <2>1. r.id \in 1..MaxReqs
    BY DEF Requests
  <2> QED
    BY <2>1, FifoAssumption
<1>2. ASSUME NEW s \in SlotContent PROVE LastId(JoinedBy(s, r)) = r.id
  <2>1. PICK q \in Seq(Requests) : q = s.reqs
    BY DEF SlotContent
  <2>2. Append(q, r)[Len(Append(q, r))] = r
    OBVIOUS
  <2> QED
    BY <2>1, <2>2 DEF LastId, JoinedBy
<1>3. \A x : LastId(One(r, x)) = r.id
  BY DEF LastId, One
<1> QED
  BY <1>1, <1>2, <1>3 DEF LastId, One, JoinedBy, Charged

\* A message that waits ends with a request.
LEMMA LastIdNat ==
  ASSUME NEW s \in SlotContent, SlotFits(s)
  PROVE  LastId(s) \in Nat /\ s.coalesceNum \in Nat /\ s.coalesceNum > 0
<1>1. s.reqs \in Seq(Requests) /\ Len(s.reqs) \in 1..Len(s.reqs)
  BY DEF SlotContent, SlotFits
<1>2. s.reqs[Len(s.reqs)] \in Requests
  BY <1>1, ElementOfSeq
<1> QED
  BY <1>2, LastIdIs DEF LastId, SlotFits, SlotContent

\* An insertion continues the numbers.
LEMMA NumberedInsert ==
  ASSUME NEW n \in Nat, NEW v, NEW w, NEW m, NEW r \in Requests,
         NEW sent \in Nat, NEW last,
         \A k \in 1..n : v[k] \in SlotContent /\ SlotFits(v[k]),
         Numbered(v, n, sent, last), AfterInsert(v, n, w, m, r), r.id = last + 1
  PROVE  Numbered(w, m, sent, r.id)
<1>1. r.id \in Nat
  BY LastIdIs
<1>2. CASE n = 0 /\ m = 1 /\ w[1] = One(r, r.resp)
  <2>1. last = sent
    BY <1>2 DEF Numbered
  <2>2. LastId(w[1]) = r.id /\ w[1].coalesceNum = 1
    BY <1>2, LastIdIs
  <2>3. r.id = sent + 1
    BY <2>1
  <2> QED
    BY <1>2, <2>2, <2>3 DEF Numbered
<1>3. CASE n > 0
  <2>1. PICK prior : prior = IF n = 1 THEN sent ELSE LastId(v[n - 1])
    OBVIOUS
  <2>2. prior \in Nat
    <3>1. n # 1 => n - 1 \in 1..n
      BY <1>3
    <3> QED
      BY <2>1, <3>1, LastIdNat
  <2>3. /\ v[n] \in SlotContent /\ SlotFits(v[n]) /\ v[n].coalesceNum \in Nat
        /\ LastId(v[n]) = prior + v[n].coalesceNum
        /\ last = LastId(v[n])
    <3>1. n \in 1..n /\ n # 0
      BY <1>3
    <3>2. v[n].coalesceNum \in Nat
      BY <3>1, LastIdNat
    <3> QED
      BY <2>1, <3>1, <3>2 DEF Numbered
  <2>4. CASE /\ m = n /\ w[n] = JoinedBy(v[n], r)
             /\ \A k \in 1..(n - 1) : w[k] = v[k]
    <3>1. LastId(w[n]) = r.id /\ w[n].coalesceNum = v[n].coalesceNum + 1
      BY <2>3, <2>4, LastIdIs
    <3>2. LastId(w[n]) = prior + w[n].coalesceNum
      BY <2>2, <2>3, <3>1
    <3>3. ASSUME NEW k \in 1..n
          PROVE  LastId(w[k])
                   = (IF k = 1 THEN sent ELSE LastId(w[k - 1])) + w[k].coalesceNum
      <4>1. CASE k = n
        <5>1. k # 1 => k - 1 \in 1..(n - 1)
          BY <4>1
        <5> QED
          BY <2>1, <2>4, <3>2, <4>1, <5>1
      <4>2. CASE k # n
        <5>1. k \in 1..(n - 1) /\ (k # 1 => k - 1 \in 1..(n - 1))
          BY <4>2
        <5> QED
          BY <2>4, <5>1 DEF Numbered
      <4> QED
        BY <4>1, <4>2
    <3>4. n # 0
      BY <1>3
    <3> QED
      BY <2>4, <3>1, <3>3, <3>4 DEF Numbered
  <2>5. CASE /\ m = n + 1 /\ w[n] = Charged(v[n], r) /\ w[n + 1] = One(r, 0)
             /\ \A k \in 1..(n - 1) : w[k] = v[k]
    <3>1. /\ LastId(w[n]) = LastId(v[n]) /\ w[n].coalesceNum = v[n].coalesceNum
          /\ LastId(w[n + 1]) = r.id /\ w[n + 1].coalesceNum = 1
      BY <2>3, <2>5, LastIdIs
    <3>2. \A k \in 1..n : LastId(w[k]) = LastId(v[k]) /\ w[k].coalesceNum = v[k].coalesceNum
      <4>1. \A k \in 1..n : k \in 1..(n - 1) \/ k = n
        OBVIOUS
      <4> QED
        BY <2>5, <3>1, <4>1
    <3>3. ASSUME NEW k \in 1..(n + 1)
          PROVE  LastId(w[k])
                   = (IF k = 1 THEN sent ELSE LastId(w[k - 1])) + w[k].coalesceNum
      <4>1. CASE k = n + 1
        <5>1. k # 1 /\ k - 1 = n /\ n \in 1..n
          BY <1>3, <4>1
        <5>2. LastId(w[k - 1]) = last
          BY <2>3, <3>1, <5>1
        <5> QED
          BY <3>1, <4>1, <5>1, <5>2
      <4>2. CASE k # n + 1
        <5>1. k \in 1..n /\ (k # 1 => k - 1 \in 1..n)
          BY <4>2
        <5> QED
          BY <3>2, <5>1 DEF Numbered
      <4> QED
        BY <4>1, <4>2
    <3>4. n + 1 # 0
      OBVIOUS
    <3> QED
      BY <2>5, <3>1, <3>3, <3>4 DEF Numbered
  <2> QED
    BY <1>3, <2>4, <2>5 DEF AfterInsert
<1> QED
  BY <1>2, <1>3 DEF AfterInsert

\* What is sent comes first.
LEMMA NumberedSend ==
  ASSUME NEW n, NEW v, NEW w, NEW m \in Nat, NEW sent, NEW last,
         Numbered(v, n, sent, last), AfterSend(v, n, w, m)
  PROVE  /\ Numbered(w, m, LastId(v[1]), last)
         /\ LastId(v[1]) = sent + v[1].coalesceNum
<1>1. n = m + 1 /\ \A k \in 1..m : w[k] = v[k + 1]
  BY DEF AfterSend
<1>2. LastId(v[1]) = sent + v[1].coalesceNum
  BY <1>1 DEF Numbered
<1>3. ASSUME NEW k \in 1..m
      PROVE  LastId(w[k]) = (IF k = 1 THEN LastId(v[1]) ELSE LastId(w[k - 1]))
                              + w[k].coalesceNum
  <2>1. /\ k + 1 \in 1..n /\ k + 1 # 1 /\ (k + 1) - 1 = k
        /\ k # 1 => k - 1 \in 1..m /\ (k - 1) + 1 = k
    BY <1>1
  <2>2. LastId(v[k + 1]) = LastId(v[k]) + v[k + 1].coalesceNum
    BY <2>1 DEF Numbered
  <2> QED
    BY <1>1, <2>1, <2>2
<1>4. last = IF m = 0 THEN LastId(v[1]) ELSE LastId(w[m])
  <2>1. n # 0 /\ last = LastId(v[n])
    BY <1>1 DEF Numbered
  <2>2. m = 0 => n = 1
    BY <1>1
  <2>3. m # 0 => m \in 1..m /\ n = m + 1
    BY <1>1
  <2> QED
    BY <1>1, <2>1, <2>2, <2>3
<1> QED
  BY <1>2, <1>3, <1>4 DEF Numbered

\* The place k slots after p in the mirrored buffer.
MirrorPlace(p, k) == IF p + k < MaxCredits THEN p + k ELSE p + k - MaxCredits

\* What the remainder computes there.
LEMMA MirrorPlaces ==
  ASSUME NEW p \in MirrorSlot, NEW k \in 0..MaxCredits
  PROVE  (p + k) % MaxCredits = MirrorPlace(p, k) /\ MirrorPlace(p, k) \in MirrorSlot
BY UnicastAssumption DEF MirrorSlot, MirrorPlace

\* One place further, counted from either end.
LEMMA MirrorPlaceAfter ==
  ASSUME NEW p \in MirrorSlot, NEW k \in 0..(MaxCredits - 1)
  PROVE  /\ MirrorPlace(MirrorPlace(p, k), 1) = MirrorPlace(p, k + 1)
         /\ MirrorPlace(MirrorPlace(p, 1), k) = MirrorPlace(p, k + 1)
         /\ MirrorPlace(p, 0) = p
BY UnicastAssumption DEF MirrorSlot, MirrorPlace

\* Different places are different slots.
LEMMA MirrorPlacesDiffer ==
  ASSUME NEW p \in MirrorSlot, NEW j \in 0..(MaxCredits - 1),
         NEW k \in 0..(MaxCredits - 1), MirrorPlace(p, j) = MirrorPlace(p, k)
  PROVE  j = k
BY UnicastAssumption DEF MirrorSlot, MirrorPlace

\* The sizes of the buffer: of the n messages that were sent h are committed
\* and cap are held.
SizesAre(buf, l, n, cap, h) ==
  n = Len(l) /\ cap = buf.capacity /\ n = h + cap /\ cap <= MaxCredits

\* What it holds then, without remainders.
Holding(buf, l, c, n, cap, h) ==
  /\ buf.push = MirrorPlace(buf.pull, cap)
  /\ \A k \in 1..n : l[k] <= c <=> k <= h
  /\ \A i \in 1..cap : buf.nums[MirrorPlace(buf.pull, i - 1)] = Rest(l, c, h, i)

\* The sizes of a buffer.
LEMMA HasSizes ==
  ASSUME NEW l \in Seq(Nat), NEW buf \in Buffers, buf.capacity <= Len(l)
  PROVE  \E n \in Nat, cap \in Nat, h \in Nat : SizesAre(buf, l, n, cap, h)
<1>1. PICK n \in Nat : n = Len(l)
  OBVIOUS
<1>2. PICK cap \in Nat : cap = buf.capacity /\ cap <= MaxCredits
  BY UnicastAssumption DEF Buffers
<1>3. cap <= n
  BY <1>1, <1>2
<1>4. PICK h \in Nat : n = h + cap
  <2>1. n - cap \in Nat /\ n = (n - cap) + cap
    BY <1>3
  <2> QED
    BY <2>1
<1> QED
  BY <1>1, <1>2, <1>4 DEF SizesAre

\* What the buffer mirrors is what it holds.
LEMMA MirrorsAre ==
  ASSUME NEW l \in Seq(Nat), NEW c \in Nat, NEW buf \in Buffers,
         NEW n \in Nat, NEW cap \in Nat, NEW h \in Nat, SizesAre(buf, l, n, cap, h)
  PROVE  Mirrors(buf, l, c) <=> Holding(buf, l, c, n, cap, h)
<1>1. n = Len(l) /\ cap = buf.capacity /\ n = h + cap /\ cap <= MaxCredits
  BY DEF SizesAre
<1>2. Len(l) - buf.capacity = h /\ buf.capacity <= Len(l)
  <2>1. n - cap = h /\ cap <= n
    BY <1>1
  <2> QED
    BY <1>1, <2>1
<1>3. buf.pull \in MirrorSlot /\ buf.pull \in Nat
  BY UnicastAssumption DEF Buffers, MirrorSlot
<1>4. ASSUME NEW i \in 1..cap
      PROVE  (buf.pull + i - 1) % MaxCredits = MirrorPlace(buf.pull, i - 1)
  <2>1. i - 1 \in 0..MaxCredits /\ buf.pull + i - 1 = buf.pull + (i - 1)
    BY <1>1, <1>3, UnicastAssumption
  <2> QED
    BY <1>3, <2>1, MirrorPlaces
<1>5. (buf.pull + cap) % MaxCredits = MirrorPlace(buf.pull, cap)
  <2>1. cap \in 0..MaxCredits
    BY <1>1, UnicastAssumption
  <2> QED
    BY <1>3, <2>1, MirrorPlaces
<1>6. (\A i \in 1..cap : buf.nums[(buf.pull + i - 1) % MaxCredits] = Rest(l, c, h, i))
        <=> (\A i \in 1..cap : buf.nums[MirrorPlace(buf.pull, i - 1)] = Rest(l, c, h, i))
  BY <1>4
<1> QED
  BY <1>1, <1>2, <1>5, <1>6 DEF Mirrors, Holding

\* The buffer with one message more, with one less, and with a message that
\* has been committed in part.
Pushed(buf, num) ==
  [nums |-> [buf.nums EXCEPT ![buf.push] = num], push |-> MirrorPlace(buf.push, 1),
   pull |-> buf.pull, capacity |-> buf.capacity + 1]

Popped(buf) ==
  [nums |-> buf.nums, push |-> buf.push, pull |-> MirrorPlace(buf.pull, 1),
   capacity |-> buf.capacity - 1]

Reduced(buf, num) ==
  [nums |-> [buf.nums EXCEPT ![buf.pull] = num], push |-> buf.push,
   pull |-> buf.pull, capacity |-> buf.capacity]

\* An update of two of its fields.
LEMMA BufferPopped ==
  ASSUME NEW buf \in Buffers, NEW x, NEW y
  PROVE  [buf EXCEPT !.pull = x, !.capacity = y]
           = [nums |-> buf.nums, push |-> buf.push, pull |-> x, capacity |-> y]
<1>1. PICK n, p, q, c : buf = [nums |-> n, push |-> p, pull |-> q, capacity |-> c]
  BY DEF Buffers
<1>2. buf.nums = n /\ buf.push = p
  BY <1>1
<1>3. PICK d : d = [buf EXCEPT !.pull = x]
  OBVIOUS
<1>4. d = [nums |-> n, push |-> p, pull |-> x, capacity |-> c]
  BY <1>1, <1>3
<1>5. [d EXCEPT !.capacity = y] = [nums |-> n, push |-> p, pull |-> x, capacity |-> y]
  BY <1>4
<1>6. [buf EXCEPT !.pull = x, !.capacity = y] = [d EXCEPT !.capacity = y]
  BY <1>3
<1> QED
  BY <1>2, <1>5, <1>6

\* What was sent grows.
LEMMA GrowingAppend ==
  ASSUME NEW l, Growing(l), NEW num \in Nat \ {0}, NEW last, last = LastSent(l) + num
  PROVE  /\ Growing(Append(l, last)) /\ LastSent(Append(l, last)) = last
         /\ LastSent(l) \in Nat /\ last \in Nat /\ LastSent(l) < last
<1>1. PICK n \in Nat : n = Len(l) /\ l \in Seq(Nat) /\ \A k \in 1..n : l[k] \in Nat
  BY DEF Growing
<1>2. LastSent(l) \in Nat /\ (\A k \in 1..n : l[k] <= LastSent(l))
  <2>1. n # 0 => n \in 1..n
    BY <1>1
  <2>2. LastSent(l) \in Nat
    BY <1>1, <2>1 DEF LastSent
  <2>3. ASSUME NEW k \in 1..n PROVE l[k] <= LastSent(l)
    <3>1. n # 0 /\ (k = n \/ k < n)
      BY <2>3
    <3>2. k < n => l[k] < l[n]
      BY <1>1, <2>1, <3>1 DEF Growing
    <3>3. LastSent(l) = l[n]
      BY <1>1, <3>1 DEF LastSent
    <3> QED
      BY <1>1, <2>1, <3>1, <3>2, <3>3
  <2> QED
    BY <2>2, <2>3
<1>3. last \in Nat /\ LastSent(l) < last
  BY <1>2
<1>4. PICK e : e = Append(l, last)
  OBVIOUS
<1>5. /\ e \in Seq(Nat) /\ Len(e) = n + 1 /\ e[n + 1] = last
      /\ \A k \in 1..n : e[k] = l[k]
  BY <1>1, <1>3, <1>4
<1>6. \A k \in 1..(n + 1) : k \in 1..n \/ k = n + 1
  OBVIOUS
<1>7. \A k \in 1..(n + 1) : 0 < e[k]
  <2>1. \A k \in 1..n : 0 < l[k]
    BY <1>1 DEF Growing
  <2>2. 0 < last
    BY <1>2, <1>3
  <2> QED
    BY <1>5, <1>6, <2>1, <2>2
<1>8. ASSUME NEW j \in 1..(n + 1), NEW k \in 1..(n + 1), j < k PROVE e[j] < e[k]
  <2>1. j \in 1..n
    BY <1>8
  <2>2. CASE k \in 1..n
    BY <1>1, <1>5, <1>8, <2>1, <2>2 DEF Growing
  <2>3. CASE k = n + 1
    <3>1. e[j] <= LastSent(l) /\ e[j] \in Nat /\ e[k] = last
      BY <1>1, <1>2, <1>5, <2>1, <2>3
    <3> QED
      BY <1>2, <1>3, <3>1
  <2> QED
    BY <1>6, <2>2, <2>3
<1>9. LastSent(e) = last
  BY <1>5 DEF LastSent
<1> QED
  BY <1>2, <1>3, <1>4, <1>5, <1>7, <1>8, <1>9 DEF Growing

\* A message is mirrored.
LEMMA MirrorsPush ==
  ASSUME NEW l, Growing(l), NEW c \in Nat, c <= LastSent(l), NEW num \in Nat \ {0},
         NEW last, last = LastSent(l) + num, NEW buf, Mirrors(buf, l, c),
         buf.capacity < MaxCredits
  PROVE  Mirrors(Pushed(buf, num), Append(l, last), c)
<1>1. l \in Seq(Nat) /\ buf \in Buffers /\ buf.capacity <= Len(l)
  BY DEF Mirrors, Growing
<1>2. PICK n \in Nat, cap \in Nat, h \in Nat : SizesAre(buf, l, n, cap, h)
  BY <1>1, HasSizes
<1>3. PICK m \in Nat : m = MaxCredits /\ m > 0
  BY UnicastAssumption
<1>4. n = Len(l) /\ cap = buf.capacity /\ n = h + cap /\ cap < m
  BY <1>2, <1>3 DEF SizesAre
<1>5. Holding(buf, l, c, n, cap, h)
  BY <1>1, <1>2, MirrorsAre
<1>6. /\ buf.pull \in MirrorSlot /\ buf.push \in MirrorSlot
      /\ buf.nums \in [MirrorSlot -> Int] /\ buf.push = MirrorPlace(buf.pull, cap)
      /\ \A k \in 1..n : l[k] <= c <=> k <= h
      /\ \A i \in 1..cap : buf.nums[MirrorPlace(buf.pull, i - 1)] = Rest(l, c, h, i)
  BY <1>1, <1>5 DEF Holding, Buffers
<1>7. cap \in 0..(MaxCredits - 1) /\ cap + 1 \in 0..MaxCredits /\ 1 \in 0..MaxCredits
  BY <1>3, <1>4
<1>8. PICK sent \in Nat, end \in Nat :
        /\ sent = LastSent(l) /\ end = last /\ end = sent + num /\ sent < end /\ c <= sent
  BY GrowingAppend
<1>9. PICK e : e = Append(l, end)
  OBVIOUS
<1>10. /\ e \in Seq(Nat) /\ Len(e) = n + 1 /\ e[n + 1] = end
       /\ \A k \in 1..n : e[k] = l[k] /\ l[k] \in Nat
  <2>1. l \in Seq(Nat) /\ Len(l) = n
    BY <1>1, <1>4
  <2>2. e \in Seq(Nat) /\ Len(e) = n + 1 /\ e[n + 1] = end
        /\ \A k \in 1..n : e[k] = l[k]
    BY <1>9, <2>1, AppendProperties
  <2>3. \A k \in 1..n : l[k] \in Nat
    BY <2>1, ElementOfSeq
  <2> QED
    BY <2>2, <2>3
<1>11. PICK b : b = Pushed(buf, num)
  OBVIOUS
<1>12. /\ b.capacity = cap + 1 /\ b.pull = buf.pull
       /\ b.push = MirrorPlace(buf.pull, cap + 1)
       /\ b.nums = [buf.nums EXCEPT ![buf.push] = num]
       /\ b.nums \in [MirrorSlot -> Int] /\ b \in Buffers
  <2>1. MirrorPlace(buf.push, 1) = MirrorPlace(buf.pull, cap + 1)
    BY <1>6, <1>7, MirrorPlaceAfter
  <2>2. MirrorPlace(buf.push, 1) \in MirrorSlot
    BY <1>6, <1>7, MirrorPlaces
  <2>3. num \in Int
    OBVIOUS
  <2>4. [buf.nums EXCEPT ![buf.push] = num] \in [MirrorSlot -> Int]
    BY <1>6, <2>3
  <2> QED
    BY <1>4, <1>6, <1>7, <1>11, <2>1, <2>2, <2>4 DEF Pushed, Buffers
<1>13. \A k \in 1..(n + 1) : e[k] <= c <=> k <= h
  <2>1. SUFFICES ASSUME NEW k \in 1..(n + 1) PROVE e[k] <= c <=> k <= h
    OBVIOUS
  <2>2. CASE k \in 1..n
    BY <1>6, <1>10, <2>2
  <2>3. CASE k = n + 1
    <3>1. ~ (end <= c)
      BY <1>8
    <3>2. ~ (n + 1 <= h)
      BY <1>4
    <3> QED
      BY <1>10, <2>3, <3>1, <3>2
  <2>4. k \in 1..n \/ k = n + 1
    OBVIOUS
  <2> QED
    BY <2>2, <2>3, <2>4
<1>14. ASSUME NEW i \in 1..cap
       PROVE  b.nums[MirrorPlace(buf.pull, i - 1)] = Rest(e, c, h, i)
  <2>1. /\ h + i \in 1..n /\ i - 1 \in 0..(MaxCredits - 1) /\ i - 1 # cap
        /\ i - 1 \in 0..MaxCredits /\ (i # 1 => h + i - 1 \in 1..n)
    BY <1>3, <1>4
  <2>2. MirrorPlace(buf.pull, i - 1) # buf.push /\ MirrorPlace(buf.pull, i - 1) \in MirrorSlot
    BY <1>6, <1>7, <2>1, MirrorPlacesDiffer, MirrorPlaces
  <2>3. b.nums[MirrorPlace(buf.pull, i - 1)] = Rest(l, c, h, i)
    BY <1>6, <1>12, <2>2
  <2>4. Rest(e, c, h, i) = Rest(l, c, h, i)
    BY <1>10, <2>1 DEF Rest
  <2> QED
    BY <2>3, <2>4
<1>15. b.nums[MirrorPlace(buf.pull, cap)] = Rest(e, c, h, cap + 1)
  <2>1. h + (cap + 1) = n + 1 /\ h + (cap + 1) - 1 = n
    BY <1>4
  <2>2. (IF cap + 1 = 1 THEN c ELSE e[n]) = sent
    <3>1. CASE cap = 0
      <4>1. n # 0 => n \in 1..n /\ n <= h
        BY <1>4, <3>1
      <4>2. n # 0 => l[n] <= c /\ l[n] \in Nat /\ sent = l[n]
        BY <1>4, <1>6, <1>8, <1>10, <4>1 DEF LastSent
      <4>3. n = 0 => sent = 0
        BY <1>4, <1>8 DEF LastSent
      <4>4. sent <= c
        BY <4>2, <4>3
      <4> QED
        BY <1>8, <3>1, <4>4
    <3>2. CASE cap # 0
      <4>1. n # 0 /\ n \in 1..n /\ cap + 1 # 1
        BY <1>4, <3>2
      <4> QED
        BY <1>4, <1>8, <1>10, <4>1 DEF LastSent
    <3> QED
      BY <3>1, <3>2
  <2>3. Rest(e, c, h, cap + 1) = end - sent
    BY <1>10, <2>1, <2>2 DEF Rest
  <2>4. end - sent = num
    BY <1>8
  <2>5. b.nums[buf.push] = num
    BY <1>6, <1>12
  <2> QED
    BY <1>6, <2>3, <2>4, <2>5
<1>16. \A i \in 1..(cap + 1) : b.nums[MirrorPlace(b.pull, i - 1)] = Rest(e, c, h, i)
  <2>1. \A i \in 1..(cap + 1) : i \in 1..cap \/ (i = cap + 1 /\ i - 1 = cap)
    OBVIOUS
  <2> QED
    BY <1>12, <1>14, <1>15, <2>1
<1>17. Holding(b, e, c, n + 1, cap + 1, h)
  BY <1>12, <1>13, <1>16 DEF Holding
<1>18. SizesAre(b, e, n + 1, cap + 1, h)
  <2>1. n + 1 = h + (cap + 1) /\ cap + 1 <= MaxCredits
    BY <1>3, <1>4
  <2> QED
    BY <1>10, <1>12, <2>1 DEF SizesAre
<1>19. n + 1 \in Nat /\ cap + 1 \in Nat
  OBVIOUS
<1>20. Mirrors(b, e, c)
  BY <1>10, <1>12, <1>17, <1>18, <1>19, MirrorsAre
<1> QED
  BY <1>8, <1>9, <1>11, <1>20

\* The oldest message of the buffer, when not all is committed.
LEMMA MirrorsOldest ==
  ASSUME NEW l, Growing(l), NEW c \in Nat, c < LastSent(l), NEW buf, Mirrors(buf, l, c),
         NEW n \in Nat, NEW cap \in Nat, NEW h \in Nat, SizesAre(buf, l, n, cap, h)
  PROVE  /\ Holding(buf, l, c, n, cap, h) /\ cap > 0 /\ h + 1 \in 1..n
         /\ \A k \in 1..n : l[k] \in Nat
         /\ l[h + 1] \in Nat /\ c < l[h + 1] /\ buf.nums[buf.pull] = l[h + 1] - c
<1>1. l \in Seq(Nat) /\ buf \in Buffers
  BY DEF Mirrors, Growing
<1>2. Holding(buf, l, c, n, cap, h)
  BY <1>1, MirrorsAre
<1>3. n = Len(l) /\ n = h + cap
  BY DEF SizesAre
<1>4. \A k \in 1..n : l[k] \in Nat
  BY <1>1, <1>3, ElementOfSeq
<1>5. cap > 0
  <2>1. SUFFICES ASSUME cap = 0 PROVE FALSE
    OBVIOUS
  <2>2. n # 0 => n \in 1..n /\ n <= h
    BY <1>3, <2>1
  <2>3. n # 0 => l[n] <= c /\ l[n] \in Nat
    BY <1>2, <1>4, <2>2 DEF Holding
  <2> QED
    BY <1>3, <2>3 DEF LastSent
<1>6. 1 \in 1..cap /\ 1 - 1 = 0 /\ h + 1 \in 1..n /\ ~ (h + 1 <= h)
  BY <1>3, <1>5
<1>7. l[h + 1] \in Nat /\ ~ (l[h + 1] <= c)
  BY <1>2, <1>4, <1>6 DEF Holding
<1>8. buf.nums[buf.pull] = l[h + 1] - c
  <2>1. buf.pull \in MirrorSlot /\ 0 \in 0..(MaxCredits - 1)
    BY <1>1, UnicastAssumption DEF Buffers
  <2>2. MirrorPlace(buf.pull, 1 - 1) = buf.pull
    BY <1>6, <2>1, MirrorPlaceAfter
  <2>3. Rest(l, c, h, 1) = l[h + 1] - c
    BY DEF Rest
  <2> QED
    BY <1>2, <1>6, <2>2, <2>3 DEF Holding
<1> QED
  BY <1>2, <1>4, <1>5, <1>6, <1>7, <1>8

\* Commits that reach the end of the oldest message take it out.
LEMMA MirrorsPop ==
  ASSUME NEW l, Growing(l), NEW c \in Nat, c < LastSent(l), NEW buf, Mirrors(buf, l, c)
  PROVE  /\ buf.capacity \in Nat /\ buf.capacity > 0
         /\ buf.nums[buf.pull] \in Nat /\ buf.nums[buf.pull] > 0
         /\ Mirrors(Popped(buf), l, c + buf.nums[buf.pull])
<1>1. l \in Seq(Nat) /\ buf \in Buffers /\ buf.capacity <= Len(l)
  BY DEF Mirrors, Growing
<1>2. PICK n \in Nat, cap \in Nat, h \in Nat : SizesAre(buf, l, n, cap, h)
  BY <1>1, HasSizes
<1>3. PICK m \in Nat : m = MaxCredits /\ m > 0
  BY UnicastAssumption
<1>4. n = Len(l) /\ cap = buf.capacity /\ n = h + cap /\ cap <= m
  BY <1>2, <1>3 DEF SizesAre
<1>5. /\ Holding(buf, l, c, n, cap, h) /\ cap > 0 /\ h + 1 \in 1..n
      /\ \A k \in 1..n : l[k] \in Nat
      /\ l[h + 1] \in Nat /\ c < l[h + 1] /\ buf.nums[buf.pull] = l[h + 1] - c
  BY <1>2, MirrorsOldest
<1>6. /\ buf.pull \in MirrorSlot /\ buf.push \in MirrorSlot
      /\ buf.nums \in [MirrorSlot -> Int] /\ buf.push = MirrorPlace(buf.pull, cap)
      /\ \A k \in 1..n : l[k] <= c <=> k <= h
      /\ \A i \in 1..cap : buf.nums[MirrorPlace(buf.pull, i - 1)] = Rest(l, c, h, i)
  BY <1>1, <1>5 DEF Holding, Buffers
<1>7. PICK c2 \in Nat, num \in Nat :
        c2 = l[h + 1] /\ num = buf.nums[buf.pull] /\ c2 = c + num /\ num > 0
  <2>1. PICK x \in Nat : x = l[h + 1] /\ c < x
    BY <1>5
  <2>2. x - c \in Nat /\ x = c + (x - c) /\ x - c > 0
    BY <2>1
  <2> QED
    BY <1>5, <2>1, <2>2
<1>8. PICK b : b = Popped(buf)
  OBVIOUS
<1>9. PICK d \in Nat : cap = d + 1 /\ d = cap - 1 /\ d \in 0..(MaxCredits - 1)
  <2>1. cap - 1 \in Nat /\ cap = (cap - 1) + 1 /\ cap - 1 \in 0..(MaxCredits - 1)
    BY <1>3, <1>4, <1>5
  <2> QED
    BY <2>1
<1>10. /\ b.capacity = d /\ b.pull = MirrorPlace(buf.pull, 1) /\ b.push = buf.push
       /\ b.nums = buf.nums /\ b \in Buffers
  <2>1. 1 \in 0..MaxCredits /\ d \in 0..MaxCredits
    BY <1>3, <1>9
  <2>2. MirrorPlace(buf.pull, 1) \in MirrorSlot
    BY <1>6, <2>1, MirrorPlaces
  <2> QED
    BY <1>4, <1>6, <1>8, <1>9, <2>1, <2>2 DEF Popped, Buffers
<1>11. b.push = MirrorPlace(b.pull, d)
  <2>1. MirrorPlace(MirrorPlace(buf.pull, 1), d) = MirrorPlace(buf.pull, d + 1)
    BY <1>6, <1>9, MirrorPlaceAfter
  <2> QED
    BY <1>6, <1>9, <1>10, <2>1
<1>12. \A k \in 1..n : l[k] <= c2 <=> k <= h + 1
  <2>1. SUFFICES ASSUME NEW k \in 1..n PROVE l[k] <= c2 <=> k <= h + 1
    OBVIOUS
  <2>2. /\ k < h + 1 => l[k] < l[h + 1]
        /\ h + 1 < k => l[h + 1] < l[k]
    BY <1>4, <1>5 DEF Growing
  <2>3. PICK x \in Nat : x = l[k]
    BY <1>5
  <2>4. /\ k < h + 1 => x < c2
        /\ h + 1 < k => c2 < x
        /\ k = h + 1 => x = c2
    BY <1>7, <2>2, <2>3
  <2>5. k \in Nat
    OBVIOUS
  <2>6. x <= c2 <=> k <= h + 1
    BY <2>4, <2>5
  <2> QED
    BY <2>3, <2>6
<1>13. ASSUME NEW i \in 1..d
       PROVE  b.nums[MirrorPlace(b.pull, i - 1)] = Rest(l, c2, h + 1, i)
  <2>1. /\ i - 1 \in 0..(MaxCredits - 1) /\ (i - 1) + 1 = (i + 1) - 1
        /\ i + 1 \in 1..cap /\ i + 1 # 1
    BY <1>3, <1>4, <1>9
  <2>2. MirrorPlace(b.pull, i - 1) = MirrorPlace(buf.pull, (i + 1) - 1)
    BY <1>6, <1>10, <2>1, MirrorPlaceAfter
  <2>3. b.nums[MirrorPlace(b.pull, i - 1)] = Rest(l, c, h, i + 1)
    BY <1>6, <1>10, <2>1, <2>2
  <2>4. /\ h + (i + 1) = (h + 1) + i /\ h + (i + 1) - 1 = (h + 1) + i - 1
        /\ i = 1 => (h + 1) + i - 1 = h + 1
    OBVIOUS
  <2>5. Rest(l, c, h, i + 1) = Rest(l, c2, h + 1, i)
    BY <1>7, <2>1, <2>4 DEF Rest
  <2> QED
    BY <2>3, <2>5
<1>14. Holding(b, l, c2, n, d, h + 1)
  BY <1>11, <1>12, <1>13 DEF Holding
<1>15. SizesAre(b, l, n, d, h + 1)
  <2>1. n = (h + 1) + d /\ d <= MaxCredits
    BY <1>3, <1>4, <1>9
  <2> QED
    BY <1>4, <1>10, <2>1 DEF SizesAre
<1>16. h + 1 \in Nat
  OBVIOUS
<1>17. Mirrors(b, l, c2)
  BY <1>1, <1>10, <1>14, <1>15, <1>16, MirrorsAre
<1> QED
  BY <1>4, <1>5, <1>7, <1>8, <1>17

\* Commits that do not reach its end leave the rest of it.
LEMMA MirrorsReduce ==
  ASSUME NEW l, Growing(l), NEW c \in Nat, c < LastSent(l), NEW buf, Mirrors(buf, l, c),
         NEW num \in Nat, num = buf.nums[buf.pull], NEW d \in Nat, d < num
  PROVE  Mirrors(Reduced(buf, num - d), l, c + d)
<1>1. l \in Seq(Nat) /\ buf \in Buffers /\ buf.capacity <= Len(l)
  BY DEF Mirrors, Growing
<1>2. PICK n \in Nat, cap \in Nat, h \in Nat : SizesAre(buf, l, n, cap, h)
  BY <1>1, HasSizes
<1>3. PICK m \in Nat : m = MaxCredits /\ m > 0
  BY UnicastAssumption
<1>4. n = Len(l) /\ cap = buf.capacity /\ n = h + cap /\ cap <= m
  BY <1>2, <1>3 DEF SizesAre
<1>5. /\ Holding(buf, l, c, n, cap, h) /\ cap > 0 /\ h + 1 \in 1..n
      /\ \A k \in 1..n : l[k] \in Nat
      /\ l[h + 1] \in Nat /\ c < l[h + 1] /\ buf.nums[buf.pull] = l[h + 1] - c
  BY <1>2, MirrorsOldest
<1>6. /\ buf.pull \in MirrorSlot /\ buf.push \in MirrorSlot
      /\ buf.nums \in [MirrorSlot -> Int] /\ buf.push = MirrorPlace(buf.pull, cap)
      /\ \A k \in 1..n : l[k] <= c <=> k <= h
      /\ \A i \in 1..cap : buf.nums[MirrorPlace(buf.pull, i - 1)] = Rest(l, c, h, i)
  BY <1>1, <1>5 DEF Holding, Buffers
<1>7. PICK x \in Nat, c2 \in Nat, y \in Int :
        /\ x = l[h + 1] /\ c2 = c + d /\ c2 < x /\ y = num - d /\ y = x - c2
  <2>1. PICK x \in Nat : x = l[h + 1] /\ num = x - c
    BY <1>5
  <2>2. c + d \in Nat /\ c + d < x /\ num - d \in Int /\ num - d = x - (c + d)
    BY <2>1
  <2> QED
    BY <2>1, <2>2
<1>8. PICK b : b = Reduced(buf, y)
  OBVIOUS
<1>9. /\ b.capacity = cap /\ b.pull = buf.pull /\ b.push = buf.push
      /\ b.nums = [buf.nums EXCEPT ![buf.pull] = y] /\ b \in Buffers
  <2>1. [buf.nums EXCEPT ![buf.pull] = y] \in [MirrorSlot -> Int]
    BY <1>6
  <2>2. cap \in 0..MaxCredits
    BY <1>3, <1>4
  <2> QED
    BY <1>4, <1>6, <1>8, <2>1, <2>2 DEF Reduced, Buffers
<1>10. \A k \in 1..n : l[k] <= c2 <=> k <= h
  <2>1. SUFFICES ASSUME NEW k \in 1..n PROVE l[k] <= c2 <=> k <= h
    OBVIOUS
  <2>2. h + 1 < k => l[h + 1] < l[k]
    BY <1>4, <1>5 DEF Growing
  <2>3. PICK z \in Nat : z = l[k]
    BY <1>5
  <2>4. /\ z <= c <=> k <= h
        /\ h + 1 < k => x < z
        /\ k = h + 1 => z = x
    BY <1>6, <1>7, <2>2, <2>3
  <2>5. k \in Nat
    OBVIOUS
  <2>6. z <= c2 <=> k <= h
    BY <1>7, <2>4, <2>5
  <2> QED
    BY <2>3, <2>6
<1>11. ASSUME NEW i \in 1..cap
       PROVE  b.nums[MirrorPlace(buf.pull, i - 1)] = Rest(l, c2, h, i)
  <2>1. 0 \in 0..(MaxCredits - 1) /\ i - 1 \in 0..(MaxCredits - 1)
    BY <1>3, <1>4
  <2>2. MirrorPlace(buf.pull, 0) = buf.pull
    BY <1>6, <2>1, MirrorPlaceAfter
  <2>3. CASE i = 1
    <3>1. i - 1 = 0 /\ Rest(l, c2, h, i) = x - c2
      BY <1>7, <2>3 DEF Rest
    <3> QED
      BY <1>6, <1>7, <1>9, <2>2, <3>1
  <2>4. CASE i # 1
    <3>1. i - 1 # 0
      BY <2>4
    <3>2. MirrorPlace(buf.pull, i - 1) # buf.pull
      BY <1>6, <2>1, <2>2, <3>1, MirrorPlacesDiffer
    <3>3. Rest(l, c2, h, i) = Rest(l, c, h, i)
      BY <2>4 DEF Rest
    <3> QED
      BY <1>6, <1>9, <3>2, <3>3
  <2> QED
    BY <2>3, <2>4
<1>12. Holding(b, l, c2, n, cap, h)
  BY <1>6, <1>9, <1>10, <1>11 DEF Holding
<1>13. SizesAre(b, l, n, cap, h)
  BY <1>2, <1>9 DEF SizesAre
<1>14. Mirrors(b, l, c2)
  BY <1>1, <1>9, <1>12, <1>13, MirrorsAre
<1> QED
  BY <1>7, <1>8, <1>14

\* The loop of remove_from_the_mirrored_buffer after k turns, of the removal
\* of num requests from a buffer of cap messages: either it is done, or it has
\* won a credit a turn.
TurnOK(t, k, num, l, c, cap) ==
  /\ t.left \in 0..num /\ t.won \in Nat
  /\ Mirrors(t.buf, l, c + num - t.left)
  /\ t.won + t.buf.capacity = cap
  /\ t.left = 0 \/ t.won >= k

\* One turn.
LEMMA TurnKeeps ==
  ASSUME NEW l, Growing(l), NEW c \in Nat, NEW num \in Nat, c + num <= LastSent(l),
         NEW cap \in Nat, NEW k \in Nat, NEW t, TurnOK(t, k, num, l, c, cap)
  PROVE  TurnOK(RemovalTurn(t), k + 1, num, l, c, cap)
<1>1. PICK left \in Nat, won \in Nat, cc \in Nat :
        /\ left = t.left /\ won = t.won /\ cc = c + num - left /\ left <= num
        /\ Mirrors(t.buf, l, cc) /\ won + t.buf.capacity = cap
        /\ (left = 0 \/ won >= k)
  <2>1. t.left \in Nat /\ t.left <= num /\ c + num - t.left \in Nat
    BY DEF TurnOK
  <2> QED
    BY <2>1 DEF TurnOK
<1>2. CASE left = 0
  <2>1. RemovalTurn(t) = t
    BY <1>1, <1>2 DEF RemovalTurn
  <2> QED
    BY <1>1, <1>2, <2>1 DEF TurnOK
<1>3. CASE left # 0
  <2>1. LastSent(l) \in Nat
    <3>1. l \in Seq(Nat) /\ Len(l) \in Nat /\ (Len(l) # 0 => Len(l) \in 1..Len(l))
      BY DEF Growing
    <3> QED
      BY <3>1 DEF LastSent
  <2>2. cc < LastSent(l)
    BY <1>1, <1>3, <2>1
  <2>3. PICK x \in Nat :
          /\ x = t.buf.nums[t.buf.pull] /\ x > 0 /\ t.buf.capacity > 0
          /\ Mirrors(Popped(t.buf), l, cc + x)
    BY <1>1, <2>2, MirrorsPop
  <2>4. /\ t.buf \in Buffers /\ t.buf.pull \in MirrorSlot /\ t.buf.capacity \in Nat
        /\ (t.buf.pull + 1) % MaxCredits = MirrorPlace(t.buf.pull, 1)
    <3>1. t.buf \in Buffers
      BY <1>1 DEF Mirrors
    <3>2. t.buf.pull \in MirrorSlot /\ t.buf.capacity \in Nat
      BY <3>1, UnicastAssumption DEF Buffers
    <3>3. 1 \in 0..MaxCredits
      BY UnicastAssumption
    <3> QED
      BY <3>1, <3>2, <3>3, MirrorPlaces
  <2>5. CASE x <= left
    <3>1. [t.buf EXCEPT !.pull = (@ + 1) % MaxCredits, !.capacity = @ - 1] = Popped(t.buf)
      <4>1. PICK b \in Buffers : b = t.buf
        BY <2>4
      <4>2. PICK q, r : q = (b.pull + 1) % MaxCredits /\ r = b.capacity - 1
        OBVIOUS
      <4>3. q = MirrorPlace(b.pull, 1)
        BY <2>4, <4>1, <4>2
      <4>4. [b EXCEPT !.pull = q, !.capacity = r]
              = [nums |-> b.nums, push |-> b.push, pull |-> q, capacity |-> r]
        BY BufferPopped
      <4>5. Popped(b) = [nums |-> b.nums, push |-> b.push, pull |-> q, capacity |-> r]
        BY <4>2, <4>3 DEF Popped
      <4>6. [b EXCEPT !.pull = (@ + 1) % MaxCredits, !.capacity = @ - 1]
              = [b EXCEPT !.pull = q, !.capacity = r]
        BY <4>2
      <4> QED
        BY <4>1, <4>2, <4>4, <4>5, <4>6
    <3>2. RemovalTurn(t) = [buf |-> Popped(t.buf), left |-> left - x, won |-> won + 1]
      BY <1>1, <1>3, <2>3, <2>5, <3>1 DEF RemovalTurn, Covered
    <3>3. /\ left - x \in 0..num /\ won + 1 \in Nat /\ cc + x = c + num - (left - x)
          /\ won + 1 >= k + 1
      BY <1>1, <1>3, <2>3, <2>5
    <3>4. (won + 1) + Popped(t.buf).capacity = cap
      <4>1. PICK y \in Nat : y = t.buf.capacity
        BY <2>4
      <4>2. Popped(t.buf).capacity = y - 1
        BY <4>1 DEF Popped
      <4>3. won + y = cap
        BY <1>1, <4>1
      <4> QED
        BY <4>2, <4>3
    <3> QED
      BY <2>3, <3>2, <3>3, <3>4 DEF TurnOK
  <2>6. CASE ~ (x <= left)
    <3>1. [t.buf EXCEPT !.nums[t.buf.pull] = x - left] = Reduced(t.buf, x - left)
      BY <2>4 DEF Buffers, Reduced
    <3>2. RemovalTurn(t) = [buf |-> Reduced(t.buf, x - left), left |-> 0, won |-> won]
      BY <1>1, <1>3, <2>3, <2>6, <3>1 DEF RemovalTurn, Covered
    <3>3. Mirrors(Reduced(t.buf, x - left), l, cc + left)
      <4>1. left < x
        BY <2>3, <2>6
      <4> QED
        BY <1>1, <2>2, <2>3, <4>1, MirrorsReduce
    <3>4. cc + left = c + num - 0 /\ 0 \in 0..num
      BY <1>1
    <3>5. Reduced(t.buf, x - left).capacity = t.buf.capacity
      BY DEF Reduced
    <3> QED
      BY <1>1, <3>2, <3>3, <3>4, <3>5 DEF TurnOK
  <2> QED
    BY <2>5, <2>6
<1> QED
  BY <1>2, <1>3

\* The turns of the loop exist: a recursive definition over an interval.
LEMMA TurnsExist ==
  ASSUME NEW start, NEW last \in Nat
  PROVE  \E f : f = [k \in 0..last |-> IF k = 0 THEN start ELSE RemovalTurn(f[k - 1])]
<1> DEFINE Turns(f, n) ==
             f = [k \in 0..n |-> IF k = 0 THEN start ELSE RemovalTurn(f[k - 1])]
           N == {n \in Nat : \E f : Turns(f, n)}
<1>1. 0 \in N
  <2>1. PICK f : f = [k \in 0..0 |-> start]
    OBVIOUS
  <2>2. \A k \in 0..0 : k = 0
    OBVIOUS
  <2>3. f = [k \in 0..0 |-> IF k = 0 THEN start ELSE RemovalTurn(f[k - 1])]
    BY <2>1, <2>2
  <2> QED
    BY <2>3
<1>2. ASSUME NEW n \in N PROVE n + 1 \in N
  <2>1. PICK f : Turns(f, n)
    OBVIOUS
  <2>2. n \in Nat
    OBVIOUS
  <2>3. PICK g : g = [k \in 0..(n + 1) |-> IF k = n + 1 THEN RemovalTurn(f[n]) ELSE f[k]]
    OBVIOUS
  <2>4. ASSUME NEW k \in 0..(n + 1)
        PROVE  g[k] = IF k = 0 THEN start ELSE RemovalTurn(g[k - 1])
    <3>1. CASE k = n + 1
      <4>1. k # 0 /\ k - 1 = n /\ n \in 0..(n + 1) /\ n # n + 1
        BY <2>2, <3>1
      <4>2. g[k - 1] = f[n] /\ g[k] = RemovalTurn(f[n])
        BY <2>3, <3>1, <4>1
      <4> QED
        BY <4>1, <4>2
    <3>2. CASE k # n + 1
      <4>1. k \in 0..n /\ (k # 0 => k - 1 \in 0..(n + 1) /\ k - 1 # n + 1)
        BY <2>2, <3>2
      <4>2. g[k] = f[k] /\ (k # 0 => g[k - 1] = f[k - 1])
        BY <2>3, <3>2, <4>1
      <4>3. f[k] = IF k = 0 THEN start ELSE RemovalTurn(f[k - 1])
        BY <2>1, <4>1
      <4> QED
        BY <4>2, <4>3
    <3> QED
      BY <3>1, <3>2
  <2>5. PICK x : x = [k \in 0..(n + 1) |-> IF k = 0 THEN start ELSE RemovalTurn(g[k - 1])]
    OBVIOUS
  <2>6. /\ DOMAIN g = 0..(n + 1) /\ DOMAIN x = 0..(n + 1)
        /\ g = [k \in 0..(n + 1) |-> g[k]] /\ x = [k \in 0..(n + 1) |-> x[k]]
    BY <2>3, <2>5
  <2>7. \A k \in 0..(n + 1) : g[k] = x[k]
    BY <2>4, <2>5
  <2>8. g = x
    BY <2>6, <2>7
  <2> QED
    BY <2>2, <2>5, <2>8
<1>3. N = Nat
  <2> HIDE DEF N
  <2>1. N \in SUBSET Nat
    BY DEF N
  <2> QED
    BY <1>1, <1>2, <2>1, SetNatInduction
<1> QED
  BY <1>3

\* The loop ends with all of the commits accounted for, and has won a credit
\* for each message that they complete.
LEMMA RemovalIs ==
  ASSUME MirrorInv, NEW n \in Nat, committed + n <= LastSent(lasts)
  PROVE  /\ Mirrors(Removal(n).buf, lasts, committed + n)
         /\ Removal(n).won + Removal(n).buf.capacity = mirror.capacity
         /\ Removal(n).won \in Nat
<1>1. PICK start : start = [buf |-> mirror, left |-> n, won |-> 0]
  OBVIOUS
<1>2. PICK last \in Nat : last = MaxCredits + 1
  BY UnicastAssumption
<1>3. PICK turn : turn = CHOOSE f : f = [k \in 0..last |->
                     IF k = 0 THEN start ELSE RemovalTurn(f[k - 1])]
  OBVIOUS
<1>4. turn = [k \in 0..last |-> IF k = 0 THEN start ELSE RemovalTurn(turn[k - 1])]
  BY <1>3, TurnsExist
<1>5. Removal(n) = turn[last]
  BY <1>1, <1>2, <1>3 DEF Removal
<1>6. PICK l \in Seq(Nat), c \in Nat, cap \in Nat :
        /\ l = lasts /\ c = committed /\ cap = mirror.capacity /\ Growing(l)
        /\ c + n <= LastSent(l) /\ Mirrors(mirror, l, c) /\ cap <= MaxCredits
  <2>1. mirror \in Buffers
    BY DEF MirrorInv, Mirrors
  <2>2. mirror.capacity \in Nat /\ mirror.capacity <= MaxCredits
    BY <2>1, UnicastAssumption DEF Buffers
  <2> QED
    BY <2>2 DEF MirrorInv, Growing
<1> DEFINE N == {k \in Nat : k <= last => TurnOK(turn[k], k, n, l, c, cap)}
<1>7. 0 \in N
  <2>1. 0 \in 0..last /\ n \in 0..n /\ c + n - n = c /\ 0 + cap = cap
    OBVIOUS
  <2>2. turn[0] = start
    BY <1>4, <2>1
  <2>3. TurnOK(start, 0, n, l, c, cap)
    BY <1>1, <1>6, <2>1 DEF TurnOK
  <2> QED
    BY <2>2, <2>3
<1>8. ASSUME NEW k \in N PROVE k + 1 \in N
  <2>1. SUFFICES ASSUME k + 1 <= last
                 PROVE  TurnOK(turn[k + 1], k + 1, n, l, c, cap)
    OBVIOUS
  <2>2. k \in Nat /\ k <= last /\ k + 1 \in 0..last /\ k + 1 # 0 /\ (k + 1) - 1 = k
    BY <2>1
  <2>3. TurnOK(turn[k], k, n, l, c, cap)
    BY <2>2
  <2>4. turn[k + 1] = RemovalTurn(turn[k])
    BY <1>4, <2>2
  <2> HIDE DEF N
  <2> QED
    BY <1>6, <2>2, <2>3, <2>4, TurnKeeps
<1>9. N = Nat
  <2> HIDE DEF N
  <2>1. N \in SUBSET Nat
    BY DEF N
  <2> QED
    BY <1>7, <1>8, <2>1, SetNatInduction
<1>10. PICK t : t = turn[last]
  OBVIOUS
<1>11. TurnOK(t, last, n, l, c, cap)
  BY <1>9, <1>10
<1>12. t.left = 0
  <2>1. t.buf.capacity \in Nat
    <3>1. t.buf \in Buffers
      BY <1>11 DEF TurnOK, Mirrors
    <3> QED
      BY <3>1, UnicastAssumption DEF Buffers
  <2>2. t.won \in Nat /\ t.won + t.buf.capacity = cap /\ (t.left = 0 \/ t.won >= last)
    BY <1>11 DEF TurnOK
  <2>3. cap < last
    BY <1>2, <1>6, UnicastAssumption
  <2> QED
    BY <2>1, <2>2, <2>3
<1>13. c + n - 0 = c + n
  OBVIOUS
<1>14. Mirrors(t.buf, l, c + n) /\ t.won + t.buf.capacity = cap /\ t.won \in Nat
  BY <1>11, <1>12, <1>13 DEF TurnOK
<1> QED
  BY <1>5, <1>6, <1>10, <1>14

\* The count of the message that was sent last, when it fits.
LEMMA LastFits ==
  ASSUME CountsFit', NEW l \in Seq(Nat), NEW last \in Nat, NEW num \in Nat,
         lasts' = Append(l, last), last = LastSent(l) + num
  PROVE  num < NumLimit
<1>1. PICK n \in Nat : n = Len(l) /\ (n # 0 => n \in 1..n)
  OBVIOUS
<1>2. /\ n + 1 \in DOMAIN lasts' /\ (n + 1) - 1 = n /\ (n + 1 = 1 <=> n = 0)
      /\ lasts'[n + 1] = last /\ (n # 0 => lasts'[n] = l[n] /\ l[n] \in Nat)
  BY <1>1
<1>3. lasts'[n + 1] - (IF n + 1 = 1 THEN 0 ELSE lasts'[n]) < NumLimit
  BY <1>2 DEF CountsFit
<1>4. LastSent(l) = IF n + 1 = 1 THEN 0 ELSE lasts'[n]
  BY <1>1, <1>2 DEF LastSent
<1>5. LastSent(l) \in Nat
  BY <1>1, <1>2 DEF LastSent
<1>6. last - LastSent(l) = num
  BY <1>5
<1> QED
  BY <1>2, <1>3, <1>4, <1>6

\* A step leaves what has been sent, or sends one more message.
LEMMA LastsGrow ==
  ASSUME FifoInv, [UniNext]_uniVars
  PROVE  lasts' = lasts \/ \E last \in Nat : lasts' = Append(lasts, last)
<1>1. ASSUME NEW r \in Requests, NEW breakMessage \in BOOLEAN,
             UniInsert(r, breakMessage)
      PROVE  lasts' = lasts
  BY <1>1 DEF UniInsert, creditVars
<1>2. CASE UniSend
  BY <1>2 DEF UniSend, creditVars
<1>3. CASE UniForge
  <2>1. lasts' = Append(lasts, Last(slots[pullPtr].reqs).id) /\ SendFromPullSlot
    BY <1>3 DEF UniForge
  <2>2. slots[pullPtr] = WaitingSlots[1] /\ 1 \in 1..capacity
    <3>1. CanSend
      BY <1>3 DEF UniForge
    <3>2. slots[pullPtr] = WaitingSlots[1] /\ \E x \in Nat : capacity = x + 1
      BY <2>1, LeftIs
    <3> QED
      BY <3>2
  <2>3. slots[pullPtr] \in SlotContent /\ SlotFits(slots[pullPtr])
    BY <2>2, WhereTheyAre
  <2>4. LastId(slots[pullPtr]) \in Nat
    BY <2>3, LastIdNat
  <2> QED
    BY <2>1, <2>4 DEF LastId, Last
<1>4. CASE UniPost
  BY <1>4 DEF UniPost, creditVars
<1>5. ASSUME NEW n \in 1..MaxReqs, Commit(n) PROVE lasts' = lasts
  BY <1>5 DEF Commit, creditVars
<1>6. CASE UNCHANGED uniVars
  BY <1>6 DEF uniVars, creditVars
<1> QED
  BY <1>1, <1>2, <1>3, <1>4, <1>5, <1>6 DEF UniNext

\* Counts that fit after a step have fitted before it.
LEMMA CountsFitBefore ==
  ASSUME lasts \in Seq(Nat), CountsFit', NEW last \in Nat,
         lasts' = lasts \/ lasts' = Append(lasts, last)
  PROVE  CountsFit
<1>1. SUFFICES ASSUME NEW k \in DOMAIN lasts
               PROVE  lasts[k] - (IF k = 1 THEN 0 ELSE lasts[k - 1]) < NumLimit
  BY DEF CountsFit
<1>2. /\ k \in DOMAIN lasts' /\ lasts'[k] = lasts[k]
      /\ k # 1 => lasts'[k - 1] = lasts[k - 1]
  <2>1. k \in 1..Len(lasts) /\ (k # 1 => k - 1 \in 1..Len(lasts))
    OBVIOUS
  <2> QED
    BY <2>1
<1>3. lasts'[k] - (IF k = 1 THEN 0 ELSE lasts'[k - 1]) < NumLimit
  BY <1>2 DEF CountsFit
<1> QED
  BY <1>2, <1>3

\* Before anything is sent the mirrored buffer is empty.
LEMMA MirrorInit == UniInit => MirrorInv
<1> SUFFICES ASSUME UniInit PROVE MirrorInv
  OBVIOUS
<1>1. /\ capacity = 0 /\ inserted = 0 /\ lasts = <<>> /\ committed = 0
      /\ credits = MaxCredits /\ at # "aborted"
      /\ mirror = [nums |-> [i \in MirrorSlot |-> 0], push |-> 0, pull |-> 0,
                   capacity |-> 0]
  BY DEF UniInit, Init
<1>2. 1..0 = {} /\ Len(lasts) = 0 /\ LastSent(lasts) = 0
  BY <1>1 DEF LastSent
<1>3. Numbered(WaitingSlots, capacity, LastSent(lasts), inserted)
  BY <1>1, <1>2 DEF Numbered
<1>4. Growing(lasts)
  BY <1>1, <1>2 DEF Growing
<1>5. 0 \in MirrorSlot /\ 0 \in 0..MaxCredits /\ MaxCredits - 0 = MaxCredits
      /\ (0 + 0) % MaxCredits = 0
  BY UnicastAssumption DEF MirrorSlot
<1>6. mirror \in Buffers /\ mirror.capacity = 0 /\ mirror.push = 0 /\ mirror.pull = 0
  BY <1>1, <1>5 DEF Buffers
<1>7. Mirrors(mirror, lasts, committed)
  BY <1>2, <1>5, <1>6 DEF Mirrors
<1> QED
  BY <1>1, <1>2, <1>3, <1>4, <1>5, <1>6, <1>7 DEF MirrorInv

\* It is about the fifo, the credits and the mirrored buffer.
LEMMA MirrorStutter ==
  ASSUME MirrorInv, UNCHANGED vars, UNCHANGED creditVars, at' # "aborted"
  PROVE  MirrorInv'
BY DEF MirrorInv, WaitingSlots, vars, creditVars

\* A request is inserted.
LEMMA InsertMirrors ==
  ASSUME FifoInv, MirrorInv, NEW r \in Requests, NEW breakMessage \in BOOLEAN,
         UniInsert(r, breakMessage)
  PROVE  MirrorInv'
<1>1. /\ InsertMes(r, breakMessage)
      /\ lasts' = lasts /\ committed' = committed /\ mirror' = mirror
      /\ credits' = credits /\ at' # "aborted"
  BY DEF UniInsert, creditVars, cardVars
<1>2. /\ inserted' = inserted + 1 /\ r.id = inserted'
      /\ AfterInsert(WaitingSlots, capacity, WaitingSlots', capacity', r)
  BY <1>1, InsertKeeps
<1>3. PICK v, w, m, sent, last :
        /\ v = WaitingSlots /\ w = WaitingSlots' /\ m = capacity'
        /\ sent = LastSent(lasts) /\ last = inserted
  OBVIOUS
<1>4. sent \in Nat
  <2>1. lasts \in Seq(Nat) /\ (Len(lasts) # 0 => Len(lasts) \in 1..Len(lasts))
    BY DEF MirrorInv, Growing
  <2> QED
    BY <1>3, <2>1 DEF LastSent
<1>5. capacity \in Nat /\ \A k \in 1..capacity : v[k] \in SlotContent /\ SlotFits(v[k])
  BY <1>3, WhereTheyAre
<1>6. Numbered(v, capacity, sent, last)
  BY <1>3 DEF MirrorInv
<1>7. Numbered(w, m, sent, r.id)
  BY <1>2, <1>3, <1>4, <1>5, <1>6, NumberedInsert
<1> QED
  BY <1>1, <1>2, <1>3, <1>7 DEF MirrorInv

\* A message is forged, and its count fits.
LEMMA ForgeMirrors ==
  ASSUME FifoInv, MirrorInv, UniForge, CountsFit'
  PROVE  MirrorInv'
<1>1. /\ credits > 0 /\ SendFromPullSlot
      /\ mirror' = AddToMirror(slots[pullPtr].coalesceNum)
      /\ credits' = credits - 1 /\ committed' = committed
      /\ lasts' = Append(lasts, Last(slots[pullPtr].reqs).id)
      /\ inserted' = inserted /\ at' # "aborted"
  BY DEF UniForge, CanSend, SendFromPullSlot
<1>2. AfterSend(WaitingSlots, capacity, WaitingSlots', capacity')
  BY <1>1, SendKeeps
<1>3. PICK v, w : v = WaitingSlots /\ w = WaitingSlots'
  OBVIOUS
<1>4. PICK m \in Nat, n \in Nat : m = capacity' /\ n = capacity
  <2>1. PICK x \in Nat : capacity = x + 1
    BY <1>1, LeftIs
  <2>2. capacity' = x
    BY <1>1, <2>1 DEF SendFromPullSlot
  <2> QED
    BY <2>1, <2>2
<1>5. PICK s : s = v[1] /\ s = slots[pullPtr] /\ s \in SlotContent /\ SlotFits(s)
  <2>1. slots[pullPtr] = WaitingSlots[1] /\ \E x \in Nat : capacity = x + 1
    BY <1>1, LeftIs
  <2>2. 1 \in 1..capacity
    BY <2>1
  <2> QED
    BY <1>3, <2>1, <2>2, WhereTheyAre
<1>6. PICK num \in Nat \ {0}, last \in Nat : num = s.coalesceNum /\ last = LastId(s)
  BY <1>5, LastIdNat
<1>7. Last(s.reqs).id = last
  BY <1>6 DEF LastId, Last
<1>8. PICK l \in Seq(Nat), c \in Nat, buf \in Buffers :
        /\ l = lasts /\ c = committed /\ buf = mirror /\ Growing(l)
        /\ c <= LastSent(l) /\ Mirrors(buf, l, c)
        /\ credits = MaxCredits - buf.capacity /\ Numbered(v, n, LastSent(l), inserted)
  <2>1. lasts \in Seq(Nat) /\ committed \in Nat /\ mirror \in Buffers
    BY DEF MirrorInv, Growing, Mirrors
  <2> QED
    BY <1>3, <1>4, <2>1 DEF MirrorInv
<1>9. PICK e : e = Append(l, last)
  OBVIOUS
<1>10. Numbered(w, m, last, inserted) /\ last = LastSent(l) + num
  <2>1. AfterSend(v, n, w, m)
    BY <1>2, <1>3, <1>4
  <2>2. Numbered(v, n, LastSent(l), inserted)
    BY <1>8
  <2>3. Numbered(w, m, LastId(v[1]), inserted) /\ LastId(v[1]) = LastSent(l) + v[1].coalesceNum
    BY <2>1, <2>2, NumberedSend
  <2> QED
    BY <1>5, <1>6, <2>3
<1>11. Growing(e) /\ LastSent(e) = last /\ LastSent(l) \in Nat /\ LastSent(l) < last
  BY <1>8, <1>10, <1>9, GrowingAppend
<1>12. buf \in Buffers /\ buf.capacity \in Nat /\ buf.capacity < MaxCredits
  <2>1. buf \in Buffers
    BY <1>8 DEF Mirrors
  <2> QED
    BY <1>1, <1>8, <2>1, UnicastAssumption DEF Buffers
<1>13. Mirrors(Pushed(buf, num), e, c)
  BY <1>8, <1>10, <1>12, <1>9, MirrorsPush
<1>18. num % NumLimit = num
  <2>1. lasts' = e
    BY <1>1, <1>5, <1>7, <1>8, <1>9
  <2>2. num < NumLimit
    BY <1>8, <1>9, <1>10, <2>1, LastFits
  <2> QED
    BY <2>2, UnicastAssumption
<1>14. mirror' = Pushed(buf, num)
  <2>1. buf.push \in MirrorSlot /\ 1 \in 0..MaxCredits
    BY <1>12, UnicastAssumption DEF Buffers
  <2>2. (buf.push + 1) % MaxCredits = MirrorPlace(buf.push, 1)
    BY <2>1, MirrorPlaces
  <2>3. AddToMirror(num) = Pushed(buf, num)
    <3>1. PICK nums, x, y : /\ nums = [buf.nums EXCEPT ![buf.push] = num]
                            /\ x = (buf.push + 1) % MaxCredits /\ y = buf.capacity + 1
      OBVIOUS
    <3>2. [buf EXCEPT !.nums = nums, !.push = x, !.capacity = y] = Pushed(buf, num)
      <4>1. x = MirrorPlace(buf.push, 1)
        BY <2>2, <3>1
      <4>2. Pushed(buf, num)
              = [nums |-> nums, push |-> x, pull |-> buf.pull, capacity |-> y]
        BY <3>1, <4>1 DEF Pushed
      <4>3. PICK ns, pu, pl, cp :
              buf = [nums |-> ns, push |-> pu, pull |-> pl, capacity |-> cp]
        BY <1>12 DEF Buffers
      <4>4. PICK d : d = [buf EXCEPT !.nums = nums]
        OBVIOUS
      <4>5. d = [nums |-> nums, push |-> pu, pull |-> pl, capacity |-> cp]
        BY <4>3, <4>4
      <4>6. PICK f : f = [d EXCEPT !.push = x]
        OBVIOUS
      <4>7. f = [nums |-> nums, push |-> x, pull |-> pl, capacity |-> cp]
        BY <4>5, <4>6
      <4>8. [f EXCEPT !.capacity = y]
              = [nums |-> nums, push |-> x, pull |-> pl, capacity |-> y]
        BY <4>7
      <4>9. [buf EXCEPT !.nums = nums, !.push = x, !.capacity = y]
              = [f EXCEPT !.capacity = y]
        BY <4>4, <4>6
      <4>10. buf.pull = pl
        BY <4>3
      <4> QED
        BY <4>2, <4>8, <4>9, <4>10
    <3>3. AddToMirror(num) = [buf EXCEPT !.nums = nums, !.push = x, !.capacity = y]
      BY <1>8, <1>12, <1>18, <3>1 DEF AddToMirror, Buffers
    <3> QED
      BY <3>2, <3>3
  <2> QED
    BY <1>1, <1>5, <1>6, <2>3
<1>15. lasts' = e
  BY <1>1, <1>5, <1>7, <1>8, <1>9
<1>16. mirror'.capacity = buf.capacity + 1 /\ credits' = MaxCredits - mirror'.capacity
  BY <1>1, <1>8, <1>12, <1>14, UnicastAssumption DEF Pushed
<1>17. c <= last
  BY <1>8, <1>11
<1> QED
  BY <1>1, <1>3, <1>8, <1>10, <1>11, <1>13, <1>14, <1>15, <1>16, <1>17, <1>4 DEF MirrorInv

\* Commits arrive, and the buffer has the messages that they are about.
LEMMA CommitMirrors ==
  ASSUME MirrorInv, NEW n \in 1..MaxReqs, Commit(n)
  PROVE  MirrorInv'
<1>0. /\ lasts # <<>> /\ committed + n <= Last(lasts) /\ at = "idle"
      /\ lasts' = lasts /\ UNCHANGED vars
  BY DEF Commit, creditVars
<1>2. n \in Nat /\ committed \in Nat
  BY FifoAssumption DEF MirrorInv
<1>3. Last(lasts) = LastSent(lasts)
  <2>1. lasts \in Seq(Nat) /\ Len(lasts) # 0
    BY <1>0 DEF MirrorInv, Growing
  <2> QED
    BY <2>1 DEF Last, LastSent
<1>4. PICK buf \in Buffers, won \in Nat :
        /\ buf = Removal(n).buf /\ won = Removal(n).won
        /\ Mirrors(buf, lasts, committed + n) /\ won + buf.capacity = mirror.capacity
  <2>1. PICK t : t = Removal(n)
    OBVIOUS
  <2>2. /\ Mirrors(t.buf, lasts, committed + n) /\ t.won \in Nat
        /\ t.won + t.buf.capacity = mirror.capacity
    BY <1>0, <1>2, <1>3, <2>1, RemovalIs
  <2>3. t.buf \in Buffers
    BY <2>2 DEF Mirrors
  <2> QED
    BY <2>1, <2>2, <2>3
<1>1. /\ committed' = committed + n /\ mirror' = buf /\ credits' = credits + won
      /\ at' # "aborted"
  <2>1. mirror.capacity # 0
    <3>1. LastSent(lasts) \in Nat
      <4>1. lasts \in Seq(Nat) /\ (Len(lasts) # 0 => Len(lasts) \in 1..Len(lasts))
        BY DEF MirrorInv, Growing
      <4> QED
        BY <4>1 DEF LastSent
    <3>2. committed < LastSent(lasts)
      BY <1>0, <1>2, <1>3, <3>1
    <3>3. mirror.capacity > 0
      BY <1>2, <3>2, MirrorsPop DEF MirrorInv
    <3> QED
      BY <3>3
  <2>2. ~ (Removal(n).buf.capacity < 0)
    BY <1>4, UnicastAssumption DEF Buffers
  <2>3. ~ MirrorEmpty(n)
    BY <2>1, <2>2 DEF MirrorEmpty
  <2> QED
    BY <1>0, <1>4, <2>3 DEF Commit
<1>5. credits + won = MaxCredits - buf.capacity
  <2>1. PICK x \in Nat, y \in Nat, z \in Nat :
          x = buf.capacity /\ y = mirror.capacity /\ z = MaxCredits
    <3>1. buf \in Buffers /\ mirror \in Buffers
      BY <1>4 DEF MirrorInv, Mirrors
    <3>2. buf.capacity \in Nat /\ mirror.capacity \in Nat /\ MaxCredits \in Nat
      BY <3>1, UnicastAssumption DEF Buffers
    <3> QED
      BY <3>2
  <2>2. won + x = y /\ credits = z - y
    BY <1>4, <2>1 DEF MirrorInv
  <2>3. (z - y) + won = z - x
    BY <2>2
  <2> QED
    BY <2>1, <2>2, <2>3
<1>6. Numbered(WaitingSlots, capacity, LastSent(lasts), inserted)'
  BY <1>0 DEF MirrorInv, WaitingSlots, vars
<1> QED
  BY <1>0, <1>1, <1>2, <1>3, <1>4, <1>5, <1>6 DEF MirrorInv

\* Every step keeps it, while the counts fit.
LEMMA MirrorStep ==
  ASSUME FifoInv, MirrorInv, [UniNext]_uniVars, CountsFit'
  PROVE  MirrorInv'
<1>1. ASSUME NEW r \in Requests, NEW breakMessage \in BOOLEAN,
             UniInsert(r, breakMessage)
      PROVE  MirrorInv'
  BY <1>1, InsertMirrors
<1>2. CASE UniSend
  <2>1. UNCHANGED vars /\ UNCHANGED creditVars /\ at' = "forge"
    BY <1>2 DEF UniSend
  <2> QED
    BY <2>1, MirrorStutter
<1>3. CASE UniForge
  BY <1>3, ForgeMirrors
<1>4. CASE UniPost
  <2>1. UNCHANGED vars /\ UNCHANGED creditVars /\ at' = "idle"
    BY <1>4 DEF UniPost
  <2> QED
    BY <2>1, MirrorStutter
<1>5. ASSUME NEW n \in 1..MaxReqs, Commit(n) PROVE MirrorInv'
  BY <1>5, CommitMirrors
<1>6. CASE UNCHANGED uniVars
  <2>1. UNCHANGED vars /\ UNCHANGED creditVars /\ at' = at
    BY <1>6 DEF uniVars, cardVars
  <2> QED
    BY <2>1, MirrorStutter DEF MirrorInv
<1> QED
  BY <1>1, <1>2, <1>3, <1>4, <1>5, <1>6 DEF UniNext

\* The messages that are held are the last ones, as many as the buffer holds.
LEMMA InvMirrors == MirrorInv => MirrorIsLeadersBuffer
<1> SUFFICES ASSUME MirrorInv PROVE MirrorIsLeadersBuffer
  OBVIOUS
<1>1. /\ lasts \in Seq(Nat) /\ mirror \in Buffers /\ mirror.capacity <= Len(lasts)
      /\ committed \in Nat /\ Mirrors(mirror, lasts, committed)
  BY DEF MirrorInv, Mirrors, Growing
<1>2. PICK n \in Nat, cap \in Nat, h \in Nat :
        /\ SizesAre(mirror, lasts, n, cap, h) /\ n = Len(lasts) /\ cap = mirror.capacity
        /\ n = h + cap /\ cap <= MaxCredits
  BY <1>1, HasSizes DEF SizesAre
<1>3. /\ \A k \in 1..n : lasts[k] <= committed <=> k <= h
      /\ \A i \in 1..cap : mirror.nums[(mirror.pull + i - 1) % MaxCredits]
                               = Rest(lasts, committed, h, i)
  <2>1. Len(lasts) - mirror.capacity = h
    <3>1. n - cap = h
      BY <1>2
    <3> QED
      BY <1>2, <3>1
  <2> QED
    BY <1>1, <1>2, <2>1 DEF Mirrors
<1>4. /\ \A k \in 1..n : lasts[k] \in Nat /\ 0 < lasts[k]
      /\ \A j, k \in 1..n : j < k => lasts[j] < lasts[k]
      /\ DOMAIN lasts = 1..n
  <2>1. \A k \in 1..n : lasts[k] \in Nat
    BY <1>1, <1>2, ElementOfSeq
  <2>2. DOMAIN lasts = 1..n
    BY <1>1, <1>2, LenProperties
  <2>3. Growing(lasts)
    BY DEF MirrorInv
  <2> QED
    BY <1>2, <2>1, <2>2, <2>3 DEF Growing
<1>5. Held = (h + 1)..n
  <2>1. ASSUME NEW k \in 1..n PROVE lasts[k] > committed <=> k \in (h + 1)..n
    <3>1. PICK x \in Nat, c \in Nat : x = lasts[k] /\ c = committed
      BY <1>1, <1>4
    <3>2. x <= c <=> k <= h
      BY <1>3, <3>1
    <3>3. x > c <=> k \in (h + 1)..n
      BY <3>2
    <3> QED
      BY <3>1, <3>3
  <2>2. \A k \in (h + 1)..n : k \in 1..n
    OBVIOUS
  <2> QED
    BY <1>4, <2>1, <2>2 DEF Held
<1>6. Cardinality(Held) = cap
  <2>1. h + 1 \in Int /\ n \in Int
    OBVIOUS
  <2>2. Cardinality((h + 1)..n) = IF h + 1 > n THEN 0 ELSE n - (h + 1) + 1
    BY <2>1, FS_Interval
  <2>3. (IF h + 1 > n THEN 0 ELSE n - (h + 1) + 1) = cap
    BY <1>2
  <2> QED
    BY <1>5, <2>2, <2>3
<1>7. ASSUME NEW k \in Held
      PROVE  mirror.nums[(mirror.pull + k - Min(Held)) % MaxCredits] = Uncommitted(k)
  <2>1. k \in (h + 1)..n /\ k \in 1..n
    <3>1. k \in (h + 1)..n
      BY <1>5, <1>7
    <3> QED
      BY <3>1
  <2>2. Min(Held) = h + 1
    <3>1. Held \in SUBSET Nat /\ Held # {} /\ h + 1 \in Held
      BY <1>5, <2>1
    <3>2. Min(Held) \in Held /\ \A y \in Held : Min(Held) <= y
      BY <3>1, MinOfNaturals
    <3> QED
      BY <1>5, <3>1, <3>2
  <2>3. PICK i \in 1..cap : i = k - h /\ k = h + i
    <3>1. k - h \in 1..cap /\ k = h + (k - h)
      BY <1>2, <2>1
    <3> QED
      BY <3>1
  <2>4. mirror.pull + k - Min(Held) = mirror.pull + i - 1
    <3>1. PICK p \in Nat : p = mirror.pull
      BY <1>1, UnicastAssumption DEF Buffers, MirrorSlot
    <3>2. p + k - (h + 1) = p + i - 1
      BY <2>3
    <3> QED
      BY <2>2, <3>1, <3>2
  <2>5. PICK S : S = {committed} \cup {lasts[j] : j \in 1..(k - 1)}
    OBVIOUS
  <2>6. \A j \in 1..(k - 1) : j \in 1..n
    BY <2>1
  <2>7. Max(S) = IF i = 1 THEN committed ELSE lasts[k - 1]
    <3>1. CASE i = 1
      <4>1. \A j \in 1..(k - 1) : j \in 1..n /\ j <= h
        BY <1>2, <2>1, <2>3, <3>1
      <4>2. \A j \in 1..(k - 1) : lasts[j] <= committed /\ lasts[j] \in Nat
        BY <1>3, <1>4, <4>1
      <4>3. committed \in S /\ \A y \in S : y <= committed /\ y \in Nat
        BY <1>1, <2>5, <4>2
      <4>4. \A x \in S : (\A y \in S : x >= y) => x = committed
        BY <1>1, <4>3
      <4>5. \A y \in S : committed >= y
        BY <1>1, <4>3
      <4> QED
        BY <3>1, <4>3, <4>4, <4>5 DEF Max
    <3>2. CASE i # 1
      <4>1. k - 1 \in 1..n /\ k - 1 \in 1..(k - 1) /\ ~ (k - 1 <= h)
        BY <1>2, <2>1, <2>3, <3>2
      <4>2. lasts[k - 1] \in S /\ lasts[k - 1] \in Nat /\ committed <= lasts[k - 1]
        <5>1. PICK x \in Nat, c \in Nat : x = lasts[k - 1] /\ c = committed
          BY <1>1, <1>4, <4>1
        <5>2. ~ (x <= c)
          BY <1>3, <4>1, <5>1
        <5>3. lasts[k - 1] \in S
          BY <2>5, <4>1
        <5> QED
          BY <5>1, <5>2, <5>3
      <4>3. \A j \in 1..(k - 1) : j = k - 1 \/ j < k - 1
        BY <4>1
      <4>4. \A j \in 1..(k - 1) : lasts[j] <= lasts[k - 1] /\ lasts[j] \in Nat
        BY <1>4, <2>6, <4>1, <4>2, <4>3
      <4>5. \A y \in S : y <= lasts[k - 1] /\ y \in Nat
        BY <1>1, <2>5, <4>2, <4>4
      <4>6. \A x \in S : (\A y \in S : x >= y) => x = lasts[k - 1]
        BY <4>2, <4>5
      <4>7. \A y \in S : lasts[k - 1] >= y
        BY <4>2, <4>5
      <4> QED
        BY <3>2, <4>2, <4>6, <4>7 DEF Max
    <3> QED
      BY <3>1, <3>2
  <2>8. Rest(lasts, committed, h, i) = Uncommitted(k)
    BY <2>3, <2>5, <2>7 DEF Rest, Uncommitted
  <2> QED
    BY <1>3, <2>3, <2>4, <2>8
<1>8. credits = MaxCredits - cap
  BY <1>2 DEF MirrorInv
<1>9. Cardinality(Held) <= MaxCredits
  BY <1>2, <1>6
<1> QED
  BY <1>2, <1>6, <1>7, <1>8, <1>9 DEF MirrorIsLeadersBuffer, MirrorInv

\* The worker does not lose track of a leader that does not answer: until a
\* message of NumLimit requests is sent, the mirrored buffer and the credits are
\* right and no assertion about them fails, whatever messages were coalesced,
\* however the commits cut through them, and for any number of slots of the
\* leader.
THEOREM MirrorIsRight == UniSpec => []MirrorIsLeadersBuffer
<1> DEFINE Sent == lasts \in Seq(Nat)
<1>1. UniInit => FifoInv /\ Sent /\ (CountsFit => MirrorInv)
  BY FifoInit, MirrorInit DEF UniInit
<1>2. FifoInv /\ Sent /\ (CountsFit => MirrorInv) /\ [UniNext]_uniVars
        => FifoInv' /\ Sent' /\ (CountsFit' => MirrorInv')
  <2> SUFFICES ASSUME FifoInv, Sent, CountsFit => MirrorInv, [UniNext]_uniVars
               PROVE  FifoInv' /\ Sent' /\ (CountsFit' => MirrorInv')
    OBVIOUS
  <2>1. FifoInv'
    BY UniFifoStep
  <2>2. PICK last \in Nat : lasts' = lasts \/ lasts' = Append(lasts, last)
    BY LastsGrow
  <2>3. Sent'
    BY <2>2
  <2>4. ASSUME CountsFit' PROVE MirrorInv'
    <3>1. CountsFit
      BY <2>2, <2>4, CountsFitBefore
    <3> QED
      BY <2>4, <3>1, MirrorStep
  <2> QED
    BY <2>1, <2>3, <2>4
<1>3. (CountsFit => MirrorInv) => MirrorIsLeadersBuffer
  BY InvMirrors DEF MirrorIsLeadersBuffer
<1> QED
  BY <1>1, <1>2, <1>3, PTL DEF UniSpec
============================================================================
