----------------------- MODULE ClientInterfaceProofs -----------------------
(***************************************************************************)
(* Proofs about ClientInterface, for any number of sessions, any ring size *)
(* and any bound on the requests.                                          *)
(*                                                                         *)
(* PointersMatchSlots is almost inductive.  What it lacks is ControlFits:  *)
(* what the place of each thread in its call says about the ring, between  *)
(* the load that took it there and the store that relies on it.            *)
(*                                                                         *)
(* The refinement of RequestPipeline needs to know besides which request   *)
(* lies in which slot (RequestsFit).  With that the ring tells the phase   *)
(* of every request (PhasesKnown), and a step that moves a pointer or      *)
(* changes a slot's state moves one request to its next phase.             *)
(***************************************************************************)
EXTENDS ClientInterface, FiniteSetTheorems, TLAPS

USE InterfaceAssumption

\* What the control states of session s say about its ring.
ControlFits(s) ==
  /\ cltPc[s] \in {"pollOnce", "awaitSlot", "fill", "activate"}
       => lastPushed[s] < MaxReqs
  /\ cltPc[s] \in {"pollOnce", "awaitSlot"}
       => NumOutstanding(s) = PerSessionReqNum
  /\ cltPc[s] = "awaitSlot" => target[s] = lastPulled[s] + 1
  /\ cltPc[s] \in {"fill", "activate"} => NumOutstanding(s) < PerSessionReqNum
  /\ cltPc[s] = "awaitResult" /\ call[s] = "blocking"
       => target[s] = lastPushed[s]
  /\ cltPc[s] = "idle" /\ call[s] = "blocking" => NumOutstanding(s) = 0
  /\ wrkrPc[s] # "scan" => Active(s, wrkrPull[s])

\* The part of PointersMatchSlots that speaks of session s.
RingFits(s) ==
  /\ NumOutstanding(s) \in 0..PerSessionReqNum
  /\ NumStarted(s) <= NumOutstanding(s)
  /\ PushMeetsPull(s)
  /\ \A i \in Slot : SlotStateFits(s, i)

SessionInv(s) == RingFits(s) /\ ControlFits(s)

\* The inductive invariant.
IInv == TypeOK /\ \A s \in Sessions : SessionInv(s)

\* What a step must leave alone for session t to notice nothing.
Untouched(t) ==
  /\ reqState'[t] = reqState[t]
  /\ cltPush'[t] = cltPush[t] /\ cltPull'[t] = cltPull[t]
  /\ wrkrPull'[t] = wrkrPull[t]
  /\ lastPushed'[t] = lastPushed[t] /\ lastPulled'[t] = lastPulled[t]
  /\ cltPc'[t] = cltPc[t] /\ call'[t] = call[t] /\ target'[t] = target[t]
  /\ wrkrPc'[t] = wrkrPc[t]

----------------------------------------------------------------------------
\* A session whose components a step leaves alone keeps its invariant.
LEMMA SessionFrame ==
  ASSUME NEW t \in Sessions, Untouched(t), SessionInv(t)
  PROVE  SessionInv(t)'
BY DEF Untouched, SessionInv, RingFits, ControlFits, NumOutstanding, NumStarted,
       Offset, PushMeetsPull, SlotStateFits, Active

\* The integers among the components of one session.
LEMMA SessionTypes ==
  ASSUME TypeOK, NEW s \in Sessions
  PROVE  /\ PerSessionReqNum \in Int /\ PerSessionReqNum >= 1 /\ MaxReqs \in Nat
         /\ cltPull[s] \in Slot /\ cltPush[s] \in Slot /\ wrkrPull[s] \in Slot
         /\ lastPushed[s] \in 0..MaxReqs /\ lastPulled[s] \in 0..MaxReqs
         /\ \A i \in Slot : i \in Int /\ 0 <= i /\ i < PerSessionReqNum
BY DEF TypeOK, Slot

\* Offset counts every slot once, from the pull pointer on.
LEMMA OffsetRange ==
  ASSUME TypeOK, NEW s \in Sessions, NEW i \in Slot
  PROVE  /\ Offset(s, i) \in Int
         /\ 0 <= Offset(s, i) /\ Offset(s, i) < PerSessionReqNum
         /\ Offset(s, i) = 0 <=> i = cltPull[s]
         /\ NumStarted(s) \in Int /\ NumOutstanding(s) \in Int
BY SessionTypes DEF Offset, NumStarted, NumOutstanding

\* The pull slot is COMPLETED only if some request is outstanding.
LEMMA PollableOutstanding ==
  ASSUME TypeOK, NEW s \in Sessions, SessionInv(s), Pollable(s)
  PROVE  lastPulled[s] < lastPushed[s] /\ NumStarted(s) >= 1
<1>1. cltPull[s] \in Slot /\ Offset(s, cltPull[s]) = 0
      /\ lastPulled[s] \in Int /\ lastPushed[s] \in Int
      /\ NumStarted(s) \in Int /\ NumOutstanding(s) \in Int
  BY SessionTypes, OffsetRange
<1>2. SlotStateFits(s, cltPull[s]) /\ NumStarted(s) <= NumOutstanding(s)
  BY <1>1 DEF SessionInv, RingFits
<1>3. NumStarted(s) >= 1
  BY <1>1, <1>2 DEF SlotStateFits, Pollable
<1> QED
  BY <1>1, <1>2, <1>3 DEF NumOutstanding

\* A poll that takes a request back shifts every offset by one.
LEMMA PollRing ==
  ASSUME TypeOK, NEW s \in Sessions, SessionInv(s), Poll(s),
         cltPush'[s] = cltPush[s], wrkrPull'[s] = wrkrPull[s],
         lastPushed'[s] = lastPushed[s]
  PROVE  /\ RingFits(s)'
         /\ NumOutstanding(s)' = IF Pollable(s) THEN NumOutstanding(s) - 1
                                                ELSE NumOutstanding(s)
         /\ \A i \in Slot : Active(s, i)' <=> Active(s, i)
<1> SUFFICES ASSUME Pollable(s)
    PROVE  /\ RingFits(s)'
           /\ NumOutstanding(s)' = NumOutstanding(s) - 1
           /\ \A i \in Slot : Active(s, i)' <=> Active(s, i)
  BY DEF Poll, SessionInv, RingFits, NumOutstanding, NumStarted, Offset,
         PushMeetsPull, SlotStateFits, Active
<1>1. /\ cltPull'[s] = IF cltPull[s] + 1 = PerSessionReqNum THEN 0
                                                            ELSE cltPull[s] + 1
      /\ lastPulled'[s] = lastPulled[s] + 1
  BY DEF Poll, TypeOK, NextSlot
<1>2. \A i \in Slot : reqState'[s][i] = IF i = cltPull[s] THEN "INVALID"
                                                          ELSE reqState[s][i]
  BY SessionTypes DEF Poll, TypeOK, SetState
<1>3. NumOutstanding(s)' = NumOutstanding(s) - 1
  BY <1>1, SessionTypes DEF NumOutstanding
<1>4. \A i \in Slot : Offset(s, i)' = IF i = cltPull[s]
                                        THEN PerSessionReqNum - 1
                                        ELSE Offset(s, i) - 1
  BY <1>1, SessionTypes DEF Offset
<1>5. NumStarted(s)' = NumStarted(s) - 1
  <2>0. /\ cltPull'[s] \in Slot
        /\ wrkrPull'[s] = wrkrPull[s] /\ wrkrPull[s] \in Slot
        /\ cltPull[s] \in Slot
    BY <1>1, SessionTypes DEF Slot
  <2>1. CASE wrkrPull[s] = cltPull[s]
    <3>1. NumStarted(s) = PerSessionReqNum
      BY <2>1, PollableOutstanding DEF NumStarted
    <3>2. CASE PerSessionReqNum = 1
      BY <3>1, <3>2, <2>1, <2>0, <1>1, <1>2, SessionTypes DEF NumStarted
    <3>3. CASE PerSessionReqNum > 1
      BY <3>1, <3>3, <2>1, <2>0, <1>1, <1>4, SessionTypes DEF NumStarted
    <3> QED
      BY <3>2, <3>3, SessionTypes
  <2>2. CASE wrkrPull[s] # cltPull[s]
    <3>1. NumStarted(s) = Offset(s, wrkrPull[s])
      BY <2>2 DEF NumStarted
    <3>2. CASE wrkrPull[s] # cltPull'[s]
      BY <3>1, <3>2, <2>2, <2>0, <1>4 DEF NumStarted
    <3>3. CASE wrkrPull[s] = cltPull'[s]
      <4>1. Offset(s, wrkrPull[s]) = 1
        BY <3>3, <2>2, <1>1, SessionTypes DEF Offset
      <4>2. reqState[s][wrkrPull[s]] \notin {"IN_PROGRESS", "COMPLETED"}
        BY <4>1, <3>1, <2>0, OffsetRange
           DEF SessionInv, RingFits, SlotStateFits
      <4> QED
        BY <4>1, <4>2, <3>1, <3>3, <2>0, <2>2, <1>2 DEF NumStarted
    <3> QED
      BY <3>2, <3>3
  <2> QED
    BY <2>1, <2>2
<1>6. RingFits(s)'
  <2>1. NumOutstanding(s)' \in 0..PerSessionReqNum
        /\ NumStarted(s)' <= NumOutstanding(s)'
    BY <1>3, <1>5, PollableOutstanding, OffsetRange, SessionTypes
       DEF SessionInv, RingFits
  <2>2. PushMeetsPull(s)'
    BY <1>1, <1>3, PollableOutstanding, OffsetRange, SessionTypes
       DEF SessionInv, RingFits, PushMeetsPull
  <2>3. ASSUME NEW i \in Slot
        PROVE  SlotStateFits(s, i)'
    <3>1. SlotStateFits(s, i)
      BY DEF SessionInv, RingFits
    <3> QED
      BY <3>1, <1>2, <1>3, <1>4, <1>5, OffsetRange, SessionTypes
         DEF SlotStateFits, SessionInv, RingFits
  <2> QED
    BY <2>1, <2>2, <2>3 DEF RingFits
<1> QED
  BY <1>2, <1>3, <1>6 DEF Active, Pollable

\* A step of one session preserves the invariant if it preserves the types
\* and that session's part.
LEMMA OneSession ==
  ASSUME IInv, TypeOK', NEW s \in Sessions,
         \A t \in Sessions \ {s} : Untouched(t),
         SessionInv(s)'
  PROVE  IInv'
BY SessionFrame DEF IInv

\* The ring is untouched by a step that changes none of its components.
LEMMA RingFrame ==
  ASSUME NEW s \in Sessions, RingFits(s),
         reqState'[s] = reqState[s],
         cltPush'[s] = cltPush[s], cltPull'[s] = cltPull[s],
         wrkrPull'[s] = wrkrPull[s],
         lastPushed'[s] = lastPushed[s], lastPulled'[s] = lastPulled[s]
  PROVE  /\ RingFits(s)'
         /\ NumOutstanding(s)' = NumOutstanding(s)
         /\ \A i \in Slot : Active(s, i)' <=> Active(s, i)
BY DEF RingFits, NumOutstanding, NumStarted, Offset, PushMeetsPull,
       SlotStateFits, Active

\* The push slot is free exactly when the ring is not full.
LEMMA PushSlot ==
  ASSUME TypeOK, NEW s \in Sessions, RingFits(s)
  PROVE  SlotFree(s) <=> NumOutstanding(s) < PerSessionReqNum
<1>1. /\ cltPush[s] \in Slot
      /\ NumOutstanding(s) \in 0..PerSessionReqNum
      /\ NumStarted(s) \in Int /\ NumStarted(s) <= NumOutstanding(s)
      /\ SlotStateFits(s, cltPush[s])
  BY SessionTypes, OffsetRange DEF RingFits
<1>2. Offset(s, cltPush[s]) = IF NumOutstanding(s) = PerSessionReqNum
                                THEN 0 ELSE NumOutstanding(s)
  BY <1>1, SessionTypes DEF RingFits, PushMeetsPull, Offset
<1> QED
  BY <1>1, <1>2, SessionTypes DEF SlotFree, SlotStateFits

----------------------------------------------------------------------------
(* One lemma per action of the client.                                     *)

LEMMA AccessStep ==
  ASSUME IInv, NEW s \in Sessions, NEW k \in {"weak", "strong", "blocking", "trace"},
         Access(s, k)
  PROVE  IInv'
<1> USE DEF IInv
<1>1. TypeOK'
  BY DEF TypeOK, Access, CltGoto, CltPcs, Call, cltPrivate, wrkrVars
<1>2. \A t \in Sessions \ {s} : Untouched(t)
  BY DEF TypeOK, Access, CltGoto, cltPrivate, wrkrVars, Untouched
<1>3. RingFits(s)' /\ NumOutstanding(s)' = NumOutstanding(s)
      /\ \A i \in Slot : Active(s, i)' <=> Active(s, i)
  BY RingFrame DEF SessionInv, Access, cltPrivate, wrkrVars
<1>4. /\ NumOutstanding(s) \in 0..PerSessionReqNum
      /\ SlotFree(s) <=> NumOutstanding(s) < PerSessionReqNum
  BY PushSlot DEF SessionInv, RingFits
<1>5. /\ cltPc'[s] = IF SlotFree(s) THEN "fill" ELSE "pollOnce"
      /\ lastPushed'[s] = lastPushed[s] /\ lastPushed[s] < MaxReqs
      /\ wrkrPc'[s] = wrkrPc[s] /\ wrkrPull'[s] = wrkrPull[s]
      /\ reqState'[s] = reqState[s]
  BY DEF TypeOK, Access, CltGoto, cltPrivate, wrkrVars
<1>6. ControlFits(s)'
  BY <1>3, <1>4, <1>5, SessionTypes DEF SessionInv, ControlFits, Active
<1> QED
  BY <1>1, <1>2, <1>3, <1>6, OneSession DEF SessionInv

\* Storing a state in one slot keeps the type and the other sessions' slots.
LEMMA SetStateType ==
  ASSUME TypeOK, NEW s \in Sessions, NEW i \in Slot, NEW st \in ReqState,
         reqState' = [reqState EXCEPT ![s][i] = st]
  PROVE  /\ reqState' \in [Sessions -> [Slot -> ReqState]]
         /\ \A t \in Sessions \ {s} : reqState'[t] = reqState[t]
         /\ \A j \in Slot : reqState'[s][j] = IF j = i THEN st
                                                       ELSE reqState[s][j]
<1> DEFINE row == [reqState[s] EXCEPT ![i] = st]
<1>1. row \in [Slot -> ReqState]
      /\ \A j \in Slot : row[j] = IF j = i THEN st ELSE reqState[s][j]
  BY DEF TypeOK
<1>2. reqState' = [reqState EXCEPT ![s] = row]
  OBVIOUS
<1> HIDE DEF row
<1> QED
  BY <1>1, <1>2 DEF TypeOK

\* What a poll leaves alone, and the types of what it changes.
LEMMA PollTypes ==
  ASSUME IInv, NEW s \in Sessions, Poll(s)
  PROVE  /\ reqState' \in [Sessions -> [Slot -> ReqState]]
         /\ cltPull' \in [Sessions -> Slot]
         /\ lastPulled' \in [Sessions -> 0..MaxReqs]
         /\ lastPulled'[s] = IF Pollable(s) THEN lastPulled[s] + 1
                                            ELSE lastPulled[s]
         /\ \A t \in Sessions \ {s} :
              /\ reqState'[t] = reqState[t]
              /\ cltPull'[t] = cltPull[t]
              /\ lastPulled'[t] = lastPulled[t]
<1> USE DEF IInv
<1>1. CASE Pollable(s)
  <2>1. NextSlot(cltPull[s]) \in Slot
    BY SessionTypes DEF NextSlot, Slot
  <2>2. lastPulled[s] + 1 \in 0..MaxReqs
    BY <1>1, PollableOutstanding, SessionTypes
  <2>3. reqState' = [reqState EXCEPT ![s][cltPull[s]] = "INVALID"]
        /\ cltPull' = [cltPull EXCEPT ![s] = NextSlot(cltPull[s])]
        /\ lastPulled' = [lastPulled EXCEPT ![s] = lastPulled[s] + 1]
    BY <1>1 DEF Poll, SetState
  <2>4. reqState' \in [Sessions -> [Slot -> ReqState]]
    BY <2>3, SetStateType, SessionTypes DEF ReqState
  <2> QED
    BY <1>1, <2>1, <2>2, <2>3, <2>4 DEF TypeOK
<1>2. CASE ~Pollable(s)
  BY <1>2 DEF Poll, TypeOK
<1> QED
  BY <1>1, <1>2

LEMMA AccessPollStep ==
  ASSUME IInv, NEW s \in Sessions, AccessPoll(s)
  PROVE  IInv'
<1> USE DEF IInv
<1>0. Poll(s)
  BY DEF AccessPoll
<1>1. TypeOK'
  BY <1>0, PollTypes
     DEF TypeOK, AccessPoll, CltGoto, CltPcs, wrkrVars
<1>2. \A t \in Sessions \ {s} : Untouched(t)
  BY <1>0, PollTypes DEF TypeOK, AccessPoll, CltGoto, wrkrVars, Untouched
<1>3. /\ RingFits(s)'
      /\ NumOutstanding(s)' = IF Pollable(s) THEN NumOutstanding(s) - 1
                                             ELSE NumOutstanding(s)
      /\ \A i \in Slot : Active(s, i)' <=> Active(s, i)
  BY <1>0, PollRing DEF AccessPoll, wrkrVars
<1>4. reqState'[s][cltPush[s]] = "INVALID" <=> Pollable(s)
  <2>1. cltPush[s] = cltPull[s] /\ ~SlotFree(s) /\ cltPush[s] \in Slot
    BY PushSlot, SessionTypes
       DEF AccessPoll, SessionInv, ControlFits, RingFits, PushMeetsPull
  <2>2. CASE Pollable(s)
    BY <2>1, <2>2, <1>0, SetStateType DEF Poll, SetState, ReqState
  <2>3. CASE ~Pollable(s)
    BY <2>1, <2>3, <1>0 DEF Poll, SlotFree
  <2> QED
    BY <2>2, <2>3
<1>5. ControlFits(s)'
  BY <1>0, <1>3, <1>4, PollTypes, SessionTypes
     DEF TypeOK, AccessPoll, CltGoto, wrkrVars, SessionInv, ControlFits, Active
<1> QED
  BY <1>1, <1>2, <1>3, <1>5, OneSession DEF SessionInv

LEMMA AwaitSlotStep ==
  ASSUME IInv, NEW s \in Sessions, AwaitSlot(s)
  PROVE  IInv'
<1> USE DEF IInv
<1>0. Poll(s)
  BY DEF AwaitSlot
<1>1. TypeOK'
  BY <1>0, PollTypes DEF TypeOK, AwaitSlot, CltGoto, CltPcs, wrkrVars
<1>2. \A t \in Sessions \ {s} : Untouched(t)
  BY <1>0, PollTypes DEF TypeOK, AwaitSlot, CltGoto, CltPcs, wrkrVars, Untouched
<1>3. /\ RingFits(s)'
      /\ NumOutstanding(s)' = IF Pollable(s) THEN NumOutstanding(s) - 1
                                             ELSE NumOutstanding(s)
      /\ \A i \in Slot : Active(s, i)' <=> Active(s, i)
  BY <1>0, PollRing DEF AwaitSlot, wrkrVars
<1>4. /\ cltPc'[s] = IF lastPulled'[s] >= target[s] THEN "fill" ELSE "awaitSlot"
      /\ lastPulled'[s] = IF Pollable(s) THEN lastPulled[s] + 1
                                         ELSE lastPulled[s]
      /\ UNCHANGED <<lastPushed, call, target, wrkrPc, wrkrPull>>
      /\ NumOutstanding(s) \in 0..PerSessionReqNum
  BY <1>0, PollTypes
     DEF TypeOK, AwaitSlot, CltGoto, CltPcs, wrkrVars, SessionInv, RingFits
<1>5. ControlFits(s)'
  BY <1>3, <1>4, SessionTypes, PollableOutstanding
     DEF AwaitSlot, SessionInv, ControlFits, Active, NumOutstanding
<1> QED
  BY <1>1, <1>2, <1>3, <1>5, OneSession DEF SessionInv

LEMMA AwaitResultStep ==
  ASSUME IInv, NEW s \in Sessions, AwaitResult(s)
  PROVE  IInv'
<1> USE DEF IInv
<1>0. Poll(s)
  BY DEF AwaitResult
<1>1. TypeOK'
  BY <1>0, PollTypes DEF TypeOK, AwaitResult, CltGoto, CltPcs, wrkrVars
<1>2. \A t \in Sessions \ {s} : Untouched(t)
  BY <1>0, PollTypes DEF TypeOK, AwaitResult, CltGoto, CltPcs, wrkrVars, Untouched
<1>3. /\ RingFits(s)'
      /\ NumOutstanding(s)' = IF Pollable(s) THEN NumOutstanding(s) - 1
                                             ELSE NumOutstanding(s)
      /\ \A i \in Slot : Active(s, i)' <=> Active(s, i)
  BY <1>0, PollRing DEF AwaitResult, wrkrVars
<1>4. /\ cltPc'[s] = IF lastPulled'[s] >= target[s] THEN "idle" ELSE "awaitResult"
      /\ lastPulled'[s] = IF Pollable(s) THEN lastPulled[s] + 1
                                         ELSE lastPulled[s]
      /\ UNCHANGED <<lastPushed, call, target, wrkrPc, wrkrPull>>
      /\ NumOutstanding(s) \in 0..PerSessionReqNum
  BY <1>0, PollTypes
     DEF TypeOK, AwaitResult, CltGoto, CltPcs, wrkrVars, SessionInv, RingFits
<1>5. ControlFits(s)'
  BY <1>3, <1>4, SessionTypes, PollableOutstanding
     DEF AwaitResult, SessionInv, ControlFits, Active, NumOutstanding
<1> QED
  BY <1>1, <1>2, <1>3, <1>5, OneSession DEF SessionInv

LEMMA PollAsyncStep ==
  ASSUME IInv, NEW s \in Sessions, PollAsync(s)
  PROVE  IInv'
<1> USE DEF IInv
<1>0. Poll(s)
  BY DEF PollAsync
<1>1. TypeOK'
  BY <1>0, PollTypes DEF TypeOK, PollAsync, wrkrVars
<1>2. \A t \in Sessions \ {s} : Untouched(t)
  BY <1>0, PollTypes DEF TypeOK, PollAsync, wrkrVars, Untouched
<1>3. /\ RingFits(s)'
      /\ NumOutstanding(s)' = IF Pollable(s) THEN NumOutstanding(s) - 1
                                             ELSE NumOutstanding(s)
      /\ \A i \in Slot : Active(s, i)' <=> Active(s, i)
  BY <1>0, PollRing DEF PollAsync, wrkrVars
<1>4. /\ cltPc'[s] = cltPc[s]
      /\ lastPulled'[s] = IF Pollable(s) THEN lastPulled[s] + 1
                                         ELSE lastPulled[s]
      /\ UNCHANGED <<lastPushed, call, target, wrkrPc, wrkrPull>>
      /\ NumOutstanding(s) \in 0..PerSessionReqNum
  BY <1>0, PollTypes
     DEF TypeOK, PollAsync, wrkrVars, SessionInv, RingFits
<1>5. ControlFits(s)'
  BY <1>3, <1>4, SessionTypes, PollableOutstanding
     DEF PollAsync, SessionInv, ControlFits, Active, NumOutstanding
<1> QED
  BY <1>1, <1>2, <1>3, <1>5, OneSession DEF SessionInv

LEMMA FillStep ==
  ASSUME IInv, NEW s \in Sessions, Fill(s)
  PROVE  IInv'
<1> USE DEF IInv
<1>1. TypeOK'
  <2>1. lastPushed[s] + 1 \in 0..MaxReqs /\ cltPush[s] \in Slot
    BY SessionTypes DEF Fill, SessionInv, ControlFits
  <2> DEFINE row == [reqOp[s] EXCEPT ![cltPush[s]] = lastPushed[s] + 1]
  <2>2. row \in [Slot -> 0..MaxReqs]
    BY <2>1 DEF TypeOK
  <2>3. reqOp' = [reqOp EXCEPT ![s] = row]
    BY DEF Fill
  <2> HIDE DEF row
  <2>4. reqOp' \in [Sessions -> [Slot -> 0..MaxReqs]]
    BY <2>2, <2>3 DEF TypeOK
  <2> QED
    BY <2>4 DEF TypeOK, Fill, CltGoto, CltPcs, cltPrivate, wrkrVars
<1>2. \A t \in Sessions \ {s} : Untouched(t)
  BY DEF TypeOK, Fill, CltGoto, cltPrivate, wrkrVars, Untouched
<1>3. RingFits(s)' /\ NumOutstanding(s)' = NumOutstanding(s)
      /\ \A i \in Slot : Active(s, i)' <=> Active(s, i)
  BY RingFrame DEF SessionInv, Fill, cltPrivate, wrkrVars
<1>4. /\ cltPc[s] = "fill" /\ cltPc'[s] = "activate"
      /\ UNCHANGED <<lastPushed, lastPulled, call, target, wrkrPc, wrkrPull,
                     reqState>>
  BY DEF TypeOK, Fill, CltGoto, cltPrivate, wrkrVars
<1>5. ControlFits(s)'
  BY <1>3, <1>4, SessionTypes DEF SessionInv, ControlFits, Active
<1> QED
  BY <1>1, <1>2, <1>3, <1>5, OneSession DEF SessionInv

LEMMA PollBlockingStep ==
  ASSUME IInv, NEW s \in Sessions, NEW n \in 1..lastPushed[s],
         PollBlocking(s, n)
  PROVE  IInv'
<1> USE DEF IInv
<1>1. TypeOK'
  BY SessionTypes
     DEF TypeOK, PollBlocking, CltGoto, CltPcs, Call, cltPrivate, wrkrVars
<1>2. \A t \in Sessions \ {s} : Untouched(t)
  BY DEF TypeOK, PollBlocking, CltGoto, cltPrivate, wrkrVars, Untouched
<1>3. RingFits(s)' /\ NumOutstanding(s)' = NumOutstanding(s)
      /\ \A i \in Slot : Active(s, i)' <=> Active(s, i)
  BY RingFrame DEF SessionInv, PollBlocking, cltPrivate, wrkrVars
<1>4. /\ cltPc'[s] = "awaitResult" /\ call'[s] = "poll"
      /\ UNCHANGED <<lastPushed, lastPulled, wrkrPc, wrkrPull, reqState>>
  BY DEF TypeOK, PollBlocking, CltGoto, cltPrivate, wrkrVars
<1>5. ControlFits(s)'
  BY <1>3, <1>4, SessionTypes DEF SessionInv, ControlFits, Active
<1> QED
  BY <1>1, <1>2, <1>3, <1>5, OneSession DEF SessionInv

LEMMA ActivateStep ==
  ASSUME IInv, NEW s \in Sessions, Activate(s)
  PROVE  IInv'
<1> USE DEF IInv
<1> DEFINE q == cltPush[s]
<1>0. /\ q \in Slot /\ SlotFree(s)
      /\ NumOutstanding(s) \in 0..(PerSessionReqNum - 1)
      /\ lastPushed[s] + 1 \in 0..MaxReqs
      /\ NextSlot(q) \in Slot
  BY PushSlot, SessionTypes
     DEF Activate, SessionInv, ControlFits, RingFits, NextSlot, Slot
<1>1. /\ reqState' \in [Sessions -> [Slot -> ReqState]]
      /\ \A t \in Sessions \ {s} : reqState'[t] = reqState[t]
      /\ \A i \in Slot : reqState'[s][i] = IF i = q THEN "ACTIVE"
                                                    ELSE reqState[s][i]
  BY <1>0, SetStateType DEF Activate, SetState, ReqState
<1>2. TypeOK'
  <2>1. lastPushed' = [lastPushed EXCEPT ![s] = lastPushed[s] + 1]
        /\ target' = [target EXCEPT ![s] = lastPushed[s] + 1]
    BY DEF Activate, TypeOK
  <2>2. lastPushed[s] + 1 \in 0..(MaxReqs + 1)
    BY <1>0, SessionTypes
  <2>3. lastPushed' \in [Sessions -> 0..MaxReqs]
    BY <1>0, <2>1 DEF TypeOK
  <2>4. target' \in [Sessions -> 0..(MaxReqs + 1)]
    BY <2>1, <2>2 DEF TypeOK
  <2>5. cltPush' \in [Sessions -> Slot] /\ cltPc' \in [Sessions -> CltPcs]
    BY <1>0 DEF TypeOK, Activate, CltGoto, CltPcs
  <2> QED
    BY <1>1, <2>3, <2>4, <2>5 DEF TypeOK, Activate, wrkrVars
<1>3. \A t \in Sessions \ {s} : Untouched(t)
  BY <1>1 DEF TypeOK, Activate, CltGoto, wrkrVars, Untouched
<1>4. /\ cltPush'[s] = NextSlot(q)
      /\ lastPushed'[s] = lastPushed[s] + 1
      /\ target'[s] = lastPushed[s] + 1
      /\ cltPc'[s] = IF call[s] = "blocking" THEN "awaitResult" ELSE "idle"
      /\ UNCHANGED <<cltPull, lastPulled, call, wrkrPc, wrkrPull>>
  BY DEF TypeOK, Activate, CltGoto, wrkrVars
<1>5. /\ NumOutstanding(s)' = NumOutstanding(s) + 1
      /\ \A i \in Slot : Offset(s, i)' = Offset(s, i)
  BY <1>4, SessionTypes DEF NumOutstanding, Offset
<1>6. Offset(s, q) = NumOutstanding(s)
  BY <1>0, SessionTypes DEF SessionInv, RingFits, PushMeetsPull, Offset
<1>7. NumStarted(s)' = NumStarted(s)
  <2>1. reqState'[s][cltPull[s]] \in {"IN_PROGRESS", "COMPLETED"}
          <=> reqState[s][cltPull[s]] \in {"IN_PROGRESS", "COMPLETED"}
    BY <1>0, <1>1, SessionTypes DEF SlotFree
  <2>2. wrkrPull[s] \in Slot
    BY SessionTypes
  <2> QED
    BY <2>1, <2>2, <1>4, <1>5 DEF NumStarted
<1>8. RingFits(s)'
  <2>1. /\ NumOutstanding(s)' \in 0..PerSessionReqNum
        /\ NumStarted(s)' <= NumOutstanding(s)'
    BY <1>0, <1>5, <1>7, OffsetRange, SessionTypes DEF SessionInv, RingFits
  <2>2. PushMeetsPull(s)'
    BY <1>0, <1>4, <1>5, SessionTypes
       DEF SessionInv, RingFits, PushMeetsPull, NextSlot
  <2>3. ASSUME NEW i \in Slot
        PROVE  SlotStateFits(s, i)'
    <3>1. SlotStateFits(s, i) /\ NumStarted(s) <= NumOutstanding(s)
      BY DEF SessionInv, RingFits
    <3>2. Offset(s, i) = Offset(s, q) => i = q
      BY <1>0, SessionTypes DEF Offset
    <3>3. reqState'[s][i] = IF i = q THEN "ACTIVE" ELSE reqState[s][i]
      BY <1>1
    <3>4. /\ Offset(s, i) \in Int /\ NumStarted(s) \in Int
          /\ NumOutstanding(s) \in Int
      BY OffsetRange
    <3>5. /\ Offset(s, i)' = Offset(s, i)
          /\ NumStarted(s)' = NumStarted(s)
          /\ NumOutstanding(s)' = NumOutstanding(s) + 1
      BY <1>5, <1>7
    <3>6. CASE i = q
      BY <3>1, <3>3, <3>4, <3>5, <3>6, <1>6 DEF SlotStateFits
    <3>7. CASE i # q
      BY <3>1, <3>2, <3>3, <3>4, <3>5, <3>7, <1>6 DEF SlotStateFits
    <3> QED
      BY <3>6, <3>7
  <2> QED
    BY <2>1, <2>2, <2>3 DEF RingFits
<1>9. ControlFits(s)'
  BY <1>0, <1>1, <1>4, <1>5, SessionTypes
     DEF SessionInv, ControlFits, Active, SlotFree, Activate
<1> QED
  BY <1>2, <1>3, <1>8, <1>9, OneSession DEF SessionInv

----------------------------------------------------------------------------
(* One lemma per action of the worker.                                     *)

\* The steps that only move the worker's control state.
LEMMA WorkerLooksStep ==
  ASSUME IInv, NEW s \in Sessions,
         FindRequest(s) \/ CheckNext(s) \/ CheckPrev(s)
  PROVE  IInv'
<1> USE DEF IInv
<1>1. /\ wrkrPc' \in [Sessions -> WrkrPcs]
      /\ \A t \in Sessions \ {s} : wrkrPc'[t] = wrkrPc[t]
      /\ wrkrPc'[s] # "scan"
      /\ Active(s, wrkrPull[s])
      /\ UNCHANGED <<reqState, reqOp, cltVars, wrkrPull, wrkrOp, stalled>>
  BY DEF FindRequest, CheckNext, CheckPrev, WrkrGoto, TypeOK, WrkrPcs,
         SessionInv, ControlFits
<1>2. TypeOK'
  BY <1>1 DEF TypeOK, cltVars, cltPrivate
<1>3. \A t \in Sessions \ {s} : Untouched(t)
  BY <1>1 DEF Untouched, cltVars, cltPrivate
<1>4. RingFits(s)' /\ NumOutstanding(s)' = NumOutstanding(s)
      /\ \A i \in Slot : Active(s, i)' <=> Active(s, i)
  BY <1>1, RingFrame DEF SessionInv, cltVars, cltPrivate
<1>5. ControlFits(s)'
  BY <1>1, <1>4 DEF SessionInv, ControlFits, Active, cltVars, cltPrivate
<1> QED
  BY <1>2, <1>3, <1>4, <1>5, OneSession DEF SessionInv

LEMMA FillTraceOpStep ==
  ASSUME IInv, NEW s \in Sessions, FillTraceOp(s)
  PROVE  IInv'
<1> USE DEF IInv
<1>1. wrkrOp' \in [Sessions -> [Slot -> 0..MaxReqs]]
  <2> DEFINE row == [wrkrOp[s] EXCEPT ![wrkrPull[s]] = reqOp[s][wrkrPull[s]]]
  <2>1. row \in [Slot -> 0..MaxReqs]
    BY SessionTypes DEF TypeOK
  <2>2. wrkrOp' = [wrkrOp EXCEPT ![s] = row]
    BY DEF FillTraceOp
  <2> HIDE DEF row
  <2> QED
    BY <2>1, <2>2 DEF TypeOK
<1>2. /\ wrkrPc' \in [Sessions -> WrkrPcs]
      /\ \A t \in Sessions \ {s} : wrkrPc'[t] = wrkrPc[t]
      /\ wrkrPc'[s] = "signal" /\ wrkrPc[s] = "fill"
      /\ UNCHANGED <<reqState, reqOp, cltVars, wrkrPull, stalled>>
  BY DEF FillTraceOp, WrkrGoto, TypeOK, WrkrPcs
<1>3. TypeOK'
  BY <1>1, <1>2 DEF TypeOK, cltVars, cltPrivate
<1>4. \A t \in Sessions \ {s} : Untouched(t)
  BY <1>2 DEF Untouched, cltVars, cltPrivate
<1>5. RingFits(s)' /\ NumOutstanding(s)' = NumOutstanding(s)
      /\ \A i \in Slot : Active(s, i)' <=> Active(s, i)
  BY <1>2, RingFrame DEF SessionInv, cltVars, cltPrivate
<1>6. ControlFits(s)'
  BY <1>2, <1>5 DEF SessionInv, ControlFits, Active, cltVars, cltPrivate
<1> QED
  BY <1>3, <1>4, <1>5, <1>6, OneSession DEF SessionInv

LEMMA SignalInProgressStep ==
  ASSUME IInv, NEW s \in Sessions, SignalInProgress(s)
  PROVE  IInv'
<1> USE DEF IInv
<1> DEFINE w == wrkrPull[s]
<1>0. /\ w \in Slot /\ NextSlot(w) \in Slot /\ reqState[s][w] = "ACTIVE"
      /\ cltPull[s] \in Slot
      /\ NumStarted(s) \in Int /\ NumOutstanding(s) \in 0..PerSessionReqNum
      /\ SlotStateFits(s, w) /\ SlotStateFits(s, cltPull[s])
  BY SessionTypes, OffsetRange
     DEF SignalInProgress, SessionInv, ControlFits, RingFits, NextSlot, Slot,
         Active
<1>1. /\ reqState' \in [Sessions -> [Slot -> ReqState]]
      /\ \A t \in Sessions \ {s} : reqState'[t] = reqState[t]
      /\ \A i \in Slot : reqState'[s][i] = IF i = w THEN "IN_PROGRESS"
                                                    ELSE reqState[s][i]
  BY <1>0, SetStateType DEF SignalInProgress, SetState, ReqState
<1>2. /\ wrkrPull' = [wrkrPull EXCEPT ![s] = NextSlot(w)]
      /\ wrkrPc' = [wrkrPc EXCEPT ![s] = "scan"]
      /\ stalled' \in [Sessions -> 0..PerSessionReqNum]
      /\ UNCHANGED <<reqOp, cltPush, lastPushed, cltPull, lastPulled, cltPc,
                     call, target, wrkrOp>>
  <2>1. /\ wrkrPull' = [wrkrPull EXCEPT ![s] = NextSlot(w)]
        /\ wrkrPc' = [wrkrPc EXCEPT ![s] = "scan"]
        /\ UNCHANGED <<reqOp, cltPush, lastPushed, cltPull, lastPulled, cltPc,
                       call, target, wrkrOp>>
    BY DEF SignalInProgress, WrkrAdvance, WrkrGoto, cltVars, cltPrivate
  <2>2. PICK b \in {NoSlot, wrkrPull[s]} :
               stalled' = [stalled EXCEPT ![s] = b]
    BY DEF SignalInProgress
  <2>3. b \in 0..PerSessionReqNum
    BY <1>0, SessionTypes DEF NoSlot, Slot
  <2>4. stalled' \in [Sessions -> 0..PerSessionReqNum]
    BY <2>2, <2>3 DEF TypeOK
  <2> QED
    BY <2>1, <2>4
<1>3. TypeOK'
  <2>1. /\ wrkrPull' \in [Sessions -> Slot]
        /\ wrkrPc' \in [Sessions -> WrkrPcs]
    BY <1>0, <1>2 DEF TypeOK, WrkrPcs
  <2> QED
    BY <2>1, <1>1, <1>2 DEF TypeOK
<1>4. \A t \in Sessions \ {s} : Untouched(t)
  BY <1>1, <1>2 DEF TypeOK, Untouched
<1>5. /\ NumOutstanding(s)' = NumOutstanding(s)
      /\ \A i \in Slot : Offset(s, i)' = Offset(s, i)
      /\ wrkrPull'[s] = NextSlot(w)
      /\ wrkrPc'[s] = "scan"
  BY <1>2 DEF TypeOK, NumOutstanding, Offset
<1>6. Offset(s, w) = NumStarted(s) /\ Offset(s, w) < NumOutstanding(s)
  <2>1. CASE w = cltPull[s]
    BY <1>0, <2>1, OffsetRange DEF NumStarted, SlotStateFits
  <2>2. CASE w # cltPull[s]
    BY <1>0, <2>2, OffsetRange DEF NumStarted, SlotStateFits
  <2> QED
    BY <2>1, <2>2
<1>7. NumStarted(s)' = NumStarted(s) + 1
  <2>1. CASE NextSlot(w) = cltPull[s]
    <3>1. Offset(s, w) = PerSessionReqNum - 1
      BY <1>0, <2>1, SessionTypes DEF Offset, NextSlot
    <3>2. reqState'[s][cltPull[s]] \in {"IN_PROGRESS", "COMPLETED"}
      <4>1. CASE w = cltPull[s]
        BY <4>1, <1>1, <1>0
      <4>2. CASE w # cltPull[s]
        BY <4>2, <1>0, <1>1, <1>6, OffsetRange DEF SlotStateFits
      <4> QED
        BY <4>1, <4>2
    <3> QED
      BY <2>1, <3>1, <3>2, <1>2, <1>5, <1>6 DEF NumStarted
  <2>2. CASE NextSlot(w) # cltPull[s]
    <3>1. Offset(s, NextSlot(w)) = Offset(s, w) + 1
      BY <1>0, <2>2, SessionTypes DEF Offset, NextSlot
    <3> QED
      BY <2>2, <3>1, <1>0, <1>2, <1>5, <1>6 DEF NumStarted
  <2> QED
    BY <2>1, <2>2
<1>8. RingFits(s)'
  <2>1. /\ NumOutstanding(s)' \in 0..PerSessionReqNum
        /\ NumStarted(s)' <= NumOutstanding(s)'
    BY <1>0, <1>5, <1>6, <1>7, OffsetRange, SessionTypes
  <2>2. PushMeetsPull(s)'
    BY <1>2, <1>5 DEF SessionInv, RingFits, PushMeetsPull
  <2>3. ASSUME NEW i \in Slot
        PROVE  SlotStateFits(s, i)'
    <3>1. SlotStateFits(s, i)
      BY DEF SessionInv, RingFits
    <3>2. Offset(s, i) = Offset(s, w) <=> i = w
      BY <1>0, SessionTypes DEF Offset
    <3>3. reqState'[s][i] = IF i = w THEN "IN_PROGRESS" ELSE reqState[s][i]
      BY <1>1
    <3>4. Offset(s, i) \in Int /\ Offset(s, i)' = Offset(s, i)
      BY <1>5, OffsetRange
    <3>5. CASE i = w
      BY <3>3, <3>4, <3>5, <1>0, <1>5, <1>6, <1>7 DEF SlotStateFits
    <3>6. CASE i # w
      BY <3>1, <3>2, <3>3, <3>4, <3>6, <1>0, <1>5, <1>6, <1>7
         DEF SlotStateFits
    <3> QED
      BY <3>5, <3>6
  <2> QED
    BY <2>1, <2>2, <2>3 DEF RingFits
<1>9. ControlFits(s)'
  BY <1>2, <1>5 DEF SessionInv, ControlFits
<1> QED
  BY <1>3, <1>4, <1>8, <1>9, OneSession DEF SessionInv

LEMMA SignalCompletionStep ==
  ASSUME IInv, NEW s \in Sessions, NEW c \in Slot, SignalCompletion(s, c)
  PROVE  IInv'
<1> USE DEF IInv
<1>1. /\ reqState[s][c] = "IN_PROGRESS"
      /\ reqState' \in [Sessions -> [Slot -> ReqState]]
      /\ \A t \in Sessions \ {s} : reqState'[t] = reqState[t]
      /\ \A i \in Slot : reqState'[s][i] = IF i = c THEN "COMPLETED"
                                                    ELSE reqState[s][i]
  BY SetStateType DEF SignalCompletion, SetState, ReqState
<1>2. /\ stalled' \in [Sessions -> 0..PerSessionReqNum]
      /\ wrkrPc[s] = "scan"
      /\ UNCHANGED <<reqOp, cltPush, lastPushed, cltPull, lastPulled, cltPc,
                     call, target, wrkrPull, wrkrPc, wrkrOp>>
  BY SessionTypes DEF TypeOK, SignalCompletion, NoSlot, cltVars, cltPrivate
<1>3. TypeOK'
  BY <1>1, <1>2 DEF TypeOK
<1>4. \A t \in Sessions \ {s} : Untouched(t)
  BY <1>1, <1>2 DEF Untouched
<1>5. /\ NumOutstanding(s)' = NumOutstanding(s)
      /\ \A i \in Slot : Offset(s, i)' = Offset(s, i)
      /\ PushMeetsPull(s)' <=> PushMeetsPull(s)
  BY <1>2 DEF NumOutstanding, Offset, PushMeetsPull
<1>6. NumStarted(s)' = NumStarted(s)
  BY <1>1, <1>2, <1>5, SessionTypes DEF NumStarted
<1>7. RingFits(s)'
  <2>1. ASSUME NEW i \in Slot
        PROVE  SlotStateFits(s, i)'
    BY <1>1, <1>5, <1>6, OffsetRange DEF SessionInv, RingFits, SlotStateFits
  <2> QED
    BY <2>1, <1>5, <1>6 DEF SessionInv, RingFits
<1>8. ControlFits(s)'
  BY <1>2, <1>5 DEF SessionInv, ControlFits
<1> QED
  BY <1>3, <1>4, <1>7, <1>8, OneSession DEF SessionInv

----------------------------------------------------------------------------
(* The theorems.                                                           *)

LEMMA Initially == Init => IInv
<1> SUFFICES ASSUME Init PROVE IInv
  OBVIOUS
<1>1. TypeOK
  BY DEF Init, TypeOK, Slot, NoSlot, ReqState, CltPcs, Call, WrkrPcs
<1>2. ASSUME NEW s \in Sessions
      PROVE  SessionInv(s)
  <2>1. NumOutstanding(s) = 0 /\ NumStarted(s) = 0
    BY <1>1, SessionTypes
       DEF Init, NumOutstanding, NumStarted, Offset, Slot
  <2>2. RingFits(s)
    BY <2>1, <1>1, OffsetRange, SessionTypes
       DEF Init, RingFits, PushMeetsPull, SlotStateFits
  <2> QED
    BY <2>1, <2>2 DEF Init, SessionInv, ControlFits
<1> QED
  BY <1>1, <1>2 DEF IInv

LEMMA Inductive == IInv /\ [Next]_vars => IInv'
<1> SUFFICES ASSUME IInv, [Next]_vars PROVE IInv'
  OBVIOUS
<1>1. CASE UNCHANGED vars
  <2>1. TypeOK'
    BY <1>1
       DEF IInv, TypeOK, vars, cltVars, cltPrivate, wrkrVars
  <2>2. \A s \in Sessions : Untouched(s)
    BY <1>1 DEF vars, cltVars, cltPrivate, wrkrVars, Untouched
  <2> QED
    BY <2>1, <2>2, SessionFrame DEF IInv
<1>2. ASSUME NEW s \in Sessions, ClientCalls(s)
      PROVE  IInv'
  BY <1>2, AccessStep, PollAsyncStep, PollBlockingStep
     DEF ClientCalls, TraceTurn
<1>3. ASSUME NEW s \in Sessions, ClientRuns(s)
      PROVE  IInv'
  BY <1>3, AccessPollStep, AwaitSlotStep, FillStep, ActivateStep,
     AwaitResultStep DEF ClientRuns
<1>4. ASSUME NEW s \in Sessions, WorkerPicksUp(s)
      PROVE  IInv'
  BY <1>4, WorkerLooksStep, FillTraceOpStep, SignalInProgressStep
     DEF WorkerPicksUp
<1>5. ASSUME NEW s \in Sessions, NEW i \in Slot, SignalCompletion(s, i)
      PROVE  IInv'
  BY <1>5, SignalCompletionStep
<1> QED
  BY <1>1, <1>2, <1>3, <1>4, <1>5 DEF Next

THEOREM Invariance == Spec => []IInv
BY Initially, Inductive, PTL DEF Spec

\* Every variable keeps its type: in particular no ring pointer of the client
\* or of the worker ever leaves the ring.
THEOREM TypeCorrect == Spec => []TypeOK
<1>1. IInv => TypeOK
  BY DEF IInv
<1> QED
  BY <1>1, Invariance, PTL

\* The pointers and the slot states of wrk_clt_if stay in step for every
\* number of sessions and every PER_SESSION_REQ_NUM.
THEOREM PointersStayInStep == Spec => []PointersMatchSlots
<1>1. IInv => PointersMatchSlots
  BY DEF IInv, SessionInv, RingFits, PointersMatchSlots
<1> QED
  BY <1>1, Invariance, PTL

\* None of the interface's assertions can fail.
THEOREM AssertionsNeverFail == Spec => []AssertionsHold
<1>1. IInv => AssertionsHold
  <2> SUFFICES ASSUME IInv, NEW s \in Sessions
      PROVE  /\ cltPc[s] = "pollOnce" => NumOutstanding(s) = PerSessionReqNum
             /\ cltPc[s] \in {"fill", "activate"} => SlotFree(s)
             /\ cltPc[s] = "idle" /\ call[s] = "blocking"
                  => cltPush[s] = cltPull[s]
             /\ wrkrPc[s] # "scan" => Active(s, wrkrPull[s])
    BY DEF AssertionsHold
  <2>1. NumOutstanding(s) = 0 => cltPush[s] = cltPull[s]
    BY SessionTypes DEF IInv, SessionInv, RingFits, PushMeetsPull
  <2> QED
    BY <2>1, PushSlot DEF IInv, SessionInv, ControlFits
<1> QED
  BY <1>1, Invariance, PTL

\* The client never writes into a slot that the worker may still be using.
THEOREM RequestsAreStable == Spec => RequestStable
<1>1. IInv /\ [Next]_vars
        => [\A s \in Sessions, i \in Slot :
              reqOp'[s][i] # reqOp[s][i] => reqState[s][i] = "INVALID"]_vars
  <2> SUFFICES ASSUME IInv, Next, NEW s \in Sessions, NEW i \in Slot,
                      reqOp'[s][i] # reqOp[s][i]
      PROVE  reqState[s][i] = "INVALID"
    BY DEF vars
  <2>1. PICK t \in Sessions : Fill(t)
    BY DEF Next, ClientCalls, TraceTurn, ClientRuns, WorkerPicksUp, Access,
           AccessPoll, AwaitSlot, Activate, AwaitResult, PollAsync, PollBlocking,
           FindRequest, CheckNext, CheckPrev, FillTraceOp, SignalInProgress,
           SignalCompletion
  <2>2. SlotFree(t)
    BY <2>1, PushSlot DEF Fill, IInv, SessionInv, ControlFits
  <2>3. s = t /\ i = cltPush[t]
    BY <2>1, SessionTypes DEF Fill, IInv, TypeOK
  <2> QED
    BY <2>2, <2>3 DEF SlotFree
<1> QED
  BY <1>1, Invariance, PTL DEF Spec, RequestStable

----------------------------------------------------------------------------
(* The refinement of RequestPipeline.                                      *)

\* What the slots of session s hold: the outstanding requests in the order of
\* their numbers, in the worker's own copy once it has read them.
RequestsFit(s) ==
  /\ \A i \in Slot : Offset(s, i) < NumOutstanding(s)
       => reqOp[s][i] = lastPulled[s] + 1 + Offset(s, i)
  /\ \A i \in Slot : reqState[s][i] \in {"IN_PROGRESS", "COMPLETED"}
       => wrkrOp[s][i] = reqOp[s][i]
  /\ cltPc[s] = "activate" => reqOp[s][cltPush[s]] = lastPushed[s] + 1
  /\ wrkrPc[s] = "signal" => wrkrOp[s][wrkrPull[s]] = reqOp[s][wrkrPull[s]]

\* The inductive invariant of the refinement.
PipeInv == IInv /\ \A s \in Sessions : RequestsFit(s)

\* The phase of a request that lies in a slot with state st.
PhaseIn(st) ==
  IF st = "IN_PROGRESS" THEN "started"
  ELSE IF st = "COMPLETED" THEN "done" ELSE "issued"

\* The phases of the requests of session s, read off the ring.
PhasesKnown(s) ==
  /\ \A i \in Slot : Offset(s, i) < NumOutstanding(s)
       => PhaseOf(s, lastPulled[s] + 1 + Offset(s, i)) = PhaseIn(reqState[s][i])
  /\ \A r \in 1..MaxReqs : r <= lastPulled[s] => PhaseOf(s, r) = "returned"
  /\ \A r \in 1..MaxReqs : r > lastPushed[s] => PhaseOf(s, r) = "new"
  /\ \A r \in (lastPulled[s] + 1)..lastPushed[s] : \E i \in Slot :
       Offset(s, i) < NumOutstanding(s) /\ r = lastPulled[s] + 1 + Offset(s, i)

\* The invariant reaches every session.
LEMMA PipeOf ==
  ASSUME PipeInv, NEW s \in Sessions
  PROVE  /\ TypeOK /\ IInv /\ RingFits(s) /\ ControlFits(s) /\ RequestsFit(s)
         /\ NumOutstanding(s) \in 0..PerSessionReqNum
         /\ NumOutstanding(s) = lastPushed[s] - lastPulled[s]
         /\ NumStarted(s) \in Int /\ NumStarted(s) <= NumOutstanding(s)
         /\ lastPulled[s] <= lastPushed[s]
         /\ lastPulled[s] \in 0..MaxReqs /\ lastPushed[s] \in 0..MaxReqs
         /\ cltPull[s] \in Slot /\ cltPush[s] \in Slot /\ wrkrPull[s] \in Slot
<1>1. TypeOK /\ IInv /\ RingFits(s) /\ ControlFits(s) /\ RequestsFit(s)
  BY DEF PipeInv, IInv, SessionInv
<1> QED
  BY <1>1, SessionTypes, OffsetRange DEF RingFits, NumOutstanding

\* Every distance from the pull pointer is that of one slot.
LEMMA SlotAt ==
  ASSUME TypeOK, NEW s \in Sessions, NEW k \in Int, 0 <= k, k < PerSessionReqNum
  PROVE  \E i \in Slot : Offset(s, i) = k
<1> DEFINE i == IF cltPull[s] + k >= PerSessionReqNum
                  THEN cltPull[s] + k - PerSessionReqNum ELSE cltPull[s] + k
<1>1. cltPull[s] \in Int /\ 0 <= cltPull[s] /\ cltPull[s] < PerSessionReqNum
  BY SessionTypes DEF Slot
<1>2. i \in Slot
  BY <1>1 DEF Slot
<1>3. Offset(s, i) = k
  BY <1>1 DEF Offset
<1> QED
  BY <1>2, <1>3

\* No two slots are at the same distance.
LEMMA SlotUnique ==
  ASSUME TypeOK, NEW s \in Sessions, NEW i \in Slot, NEW j \in Slot,
         Offset(s, i) = Offset(s, j)
  PROVE  i = j
BY SessionTypes DEF Offset, Slot

\* A slot that the worker has taken up is one of the first NumStarted.
LEMMA TakenIsStarted ==
  ASSUME PipeInv, NEW s \in Sessions, NEW i \in Slot,
         reqState[s][i] \in {"IN_PROGRESS", "COMPLETED"}
  PROVE  /\ Offset(s, i) < NumStarted(s) /\ Offset(s, i) < NumOutstanding(s)
         /\ reqOp[s][i] = lastPulled[s] + 1 + Offset(s, i)
         /\ wrkrOp[s][i] = lastPulled[s] + 1 + Offset(s, i)
<1>1. Offset(s, i) < NumStarted(s)
  BY PipeOf DEF RingFits, SlotStateFits
<1>2. Offset(s, i) < NumOutstanding(s)
  BY <1>1, PipeOf, OffsetRange
<1> QED
  BY <1>1, <1>2, PipeOf DEF RequestsFit

\* With the invariant the ring tells the phases.
LEMMA RingTellsPhases == PipeInv => \A s \in Sessions : PhasesKnown(s)
<1> SUFFICES ASSUME PipeInv, NEW s \in Sessions PROVE PhasesKnown(s)
  OBVIOUS
<1>1. ASSUME NEW i \in Slot, Offset(s, i) < NumOutstanding(s)
      PROVE  PhaseOf(s, lastPulled[s] + 1 + Offset(s, i)) = PhaseIn(reqState[s][i])
  <2> DEFINE r == lastPulled[s] + 1 + Offset(s, i)
  <2>1. r > lastPulled[s] /\ r <= lastPushed[s] /\ r \in Int
    BY <1>1, PipeOf, OffsetRange
  <2>2. ASSUME NEW j \in Slot, wrkrOp[s][j] = r,
               reqState[s][j] \in {"IN_PROGRESS", "COMPLETED"}
        PROVE  j = i
    <3>1. Offset(s, j) = Offset(s, i)
      BY <2>2, TakenIsStarted, PipeOf, OffsetRange
    <3> QED
      BY <3>1, SlotUnique, PipeOf
  <2>3. reqState[s][i] \in {"IN_PROGRESS", "COMPLETED"} => wrkrOp[s][i] = r
    BY TakenIsStarted
  <2> HIDE DEF r
  <2>4. \A st \in {"IN_PROGRESS", "COMPLETED"} :
          (\E j \in Slot : wrkrOp[s][j] = r /\ reqState[s][j] = st)
            <=> reqState[s][i] = st
    BY <2>2, <2>3
  <2>5. ~(r <= lastPulled[s]) /\ ~(r > lastPushed[s])
    BY <2>1, PipeOf
  <2>6. PhaseOf(s, r) = PhaseIn(reqState[s][i])
    BY <2>4, <2>5 DEF PhaseOf, PhaseIn
  <2> QED
    BY <2>6 DEF r
<1>2. \A r \in 1..MaxReqs : r <= lastPulled[s] => PhaseOf(s, r) = "returned"
  BY DEF PhaseOf
<1>3. \A r \in 1..MaxReqs : r > lastPushed[s] => PhaseOf(s, r) = "new"
  BY PipeOf DEF PhaseOf
<1>4. ASSUME NEW r \in (lastPulled[s] + 1)..lastPushed[s]
      PROVE  \E i \in Slot : Offset(s, i) < NumOutstanding(s)
                             /\ r = lastPulled[s] + 1 + Offset(s, i)
  <2> DEFINE k == r - lastPulled[s] - 1
  <2>1. k \in Int /\ 0 <= k /\ k < NumOutstanding(s) /\ k < PerSessionReqNum
    BY PipeOf
  <2>2. r = lastPulled[s] + 1 + k
    BY PipeOf
  <2> HIDE DEF k
  <2>3. PICK i \in Slot : Offset(s, i) = k
    BY <2>1, SlotAt, PipeOf
  <2> QED
    BY <2>1, <2>2, <2>3
<1> QED
  BY <1>1, <1>2, <1>3, <1>4 DEF PhasesKnown

\* And so in the next state.
LEMMA RingTellsNext == PipeInv' => (\A s \in Sessions : PhasesKnown(s))'
BY RingTellsPhases, PTL

\* The effect of a step of session s on the requests and their phases.
OthersKeep(s) == \A t \in Sessions \ {s} :
  Untouched(t) /\ reqOp'[t] = reqOp[t] /\ wrkrOp'[t] = wrkrOp[t]

\* What a step that moves no request keeps of session t.
RequestsKeep(t) ==
  /\ reqState'[t] = reqState[t] /\ wrkrOp'[t] = wrkrOp[t]
  /\ lastPulled'[t] = lastPulled[t] /\ lastPushed'[t] = lastPushed[t]

\* A session that a step leaves alone keeps its requests ...
LEMMA RequestsFrame ==
  ASSUME NEW t \in Sessions, Untouched(t), RequestsFit(t),
         reqOp'[t] = reqOp[t], wrkrOp'[t] = wrkrOp[t]
  PROVE  RequestsFit(t)'
BY DEF Untouched, RequestsFit, Offset, NumOutstanding

\* ... and their phases.
LEMMA PhaseFrame ==
  ASSUME NEW t \in Sessions, RequestsKeep(t)
  PROVE  \A r \in 1..MaxReqs : PhaseOf(t, r)' = PhaseOf(t, r)
BY DEF PhaseOf, RequestsKeep

\* Calls that look at the ring, and the worker's looks, move no request.
LEMMA LooksMoveNothing ==
  ASSUME PipeInv, NEW s \in Sessions,
         \/ \E k \in {"weak", "strong", "blocking", "trace"} : Access(s, k)
         \/ \E t \in 1..lastPushed[s] : PollBlocking(s, t)
         \/ FindRequest(s) \/ CheckNext(s) \/ CheckPrev(s)
  PROVE  OthersKeep(s) /\ RequestsKeep(s) /\ RequestsFit(s)'
<1>1. /\ UNCHANGED <<reqState, reqOp, wrkrOp, cltPrivate, wrkrPull>>
      /\ cltPc'[s] = "activate" => cltPc[s] = "activate"
      /\ wrkrPc'[s] # "signal"
         \/ wrkrPc'[s] = wrkrPc[s]
      /\ \A t \in Sessions \ {s} : /\ cltPc'[t] = cltPc[t] /\ call'[t] = call[t]
                                   /\ target'[t] = target[t] /\ wrkrPc'[t] = wrkrPc[t]
  BY PipeOf DEF Access, PollBlocking, FindRequest, CheckNext, CheckPrev, CltGoto,
     WrkrGoto, cltVars, wrkrVars, TypeOK, cltPrivate
<1> QED
  BY <1>1, PipeOf DEF OthersKeep, RequestsKeep, Untouched, RequestsFit, cltPrivate,
     Offset, NumOutstanding

\* The effect of a poll that takes a request back.
LEMMA PollEffect ==
  ASSUME PipeInv, NEW s \in Sessions, Poll(s), Pollable(s), UNCHANGED lastPushed
  PROVE  /\ cltPull'[s] = IF cltPull[s] + 1 = PerSessionReqNum THEN 0
                                                               ELSE cltPull[s] + 1
         /\ lastPulled'[s] = lastPulled[s] + 1
         /\ NumOutstanding(s)' = NumOutstanding(s) - 1
         /\ \A i \in Slot : reqState'[s][i] = IF i = cltPull[s] THEN "INVALID"
                                                               ELSE reqState[s][i]
         /\ \A i \in Slot : Offset(s, i)' = IF i = cltPull[s]
                                              THEN PerSessionReqNum - 1
                                              ELSE Offset(s, i) - 1
         /\ \A t \in Sessions \ {s} : /\ reqState'[t] = reqState[t]
                                      /\ cltPull'[t] = cltPull[t]
                                      /\ lastPulled'[t] = lastPulled[t]
<1>1. /\ cltPull'[s] = IF cltPull[s] + 1 = PerSessionReqNum THEN 0
                                                            ELSE cltPull[s] + 1
      /\ lastPulled'[s] = lastPulled[s] + 1
      /\ \A t \in Sessions \ {s} : /\ reqState'[t] = reqState[t]
                                   /\ cltPull'[t] = cltPull[t]
                                   /\ lastPulled'[t] = lastPulled[t]
  BY PipeOf DEF Poll, TypeOK, NextSlot, SetState
<1>2. \A i \in Slot : reqState'[s][i] = IF i = cltPull[s] THEN "INVALID"
                                                          ELSE reqState[s][i]
  BY PipeOf DEF Poll, TypeOK, SetState
<1>3. NumOutstanding(s)' = NumOutstanding(s) - 1
  BY <1>1, PipeOf DEF NumOutstanding
<1>4. \A i \in Slot : Offset(s, i)' = IF i = cltPull[s]
                                        THEN PerSessionReqNum - 1
                                        ELSE Offset(s, i) - 1
  BY <1>1, PipeOf, SessionTypes DEF Offset
<1> QED
  BY <1>1, <1>2, <1>3, <1>4

\* The polls of all calls: a request taken back shifts the others by one.
LEMMA PollsKeepRequests ==
  ASSUME PipeInv, NEW s \in Sessions,
         AccessPoll(s) \/ AwaitSlot(s) \/ AwaitResult(s) \/ PollAsync(s)
  PROVE  /\ Poll(s) /\ OthersKeep(s) /\ RequestsFit(s)' /\ UNCHANGED <<lastPushed, wrkrOp>>
         /\ ~Pollable(s) => RequestsKeep(s)
<1>1. /\ Poll(s) /\ UNCHANGED <<reqOp, wrkrOp, cltPush, lastPushed, wrkrPull, wrkrPc>>
      /\ cltPc'[s] # "activate"
      /\ \A t \in Sessions \ {s} : /\ cltPc'[t] = cltPc[t] /\ call'[t] = call[t]
                                   /\ target'[t] = target[t]
  BY PipeOf DEF AccessPoll, AwaitSlot, AwaitResult, PollAsync, CltGoto, wrkrVars, TypeOK
<1>2. CASE ~Pollable(s)
  BY <1>1, <1>2, PipeOf DEF Poll, OthersKeep, RequestsKeep, Untouched, RequestsFit,
     Offset, NumOutstanding
<1>3. CASE Pollable(s)
  <2>1. OthersKeep(s)
    BY <1>1, <1>3, PollEffect DEF OthersKeep, Untouched
  <2>2. \A i \in Slot : Offset(s, i)' < NumOutstanding(s)' =>
          reqOp'[s][i] = lastPulled'[s] + 1 + Offset(s, i)'
    <3> SUFFICES ASSUME NEW i \in Slot, Offset(s, i)' < NumOutstanding(s)'
        PROVE  reqOp'[s][i] = lastPulled'[s] + 1 + Offset(s, i)'
      OBVIOUS
    <3>1. i # cltPull[s] /\ Offset(s, i) < NumOutstanding(s)
      BY <1>1, <1>3, PollEffect, PipeOf, OffsetRange
    <3>2. reqOp[s][i] = lastPulled[s] + 1 + Offset(s, i)
      BY <3>1, PipeOf DEF RequestsFit
    <3> QED
      BY <3>1, <3>2, <1>1, <1>3, PollEffect, PipeOf, OffsetRange
  <2>3. \A i \in Slot : reqState'[s][i] \in {"IN_PROGRESS", "COMPLETED"}
                          => wrkrOp'[s][i] = reqOp'[s][i]
    BY <1>1, <1>3, PollEffect, PipeOf DEF RequestsFit
  <2>4. wrkrPc'[s] = "signal" => wrkrOp'[s][wrkrPull'[s]] = reqOp'[s][wrkrPull'[s]]
    BY <1>1, PipeOf DEF RequestsFit
  <2> QED
    BY <1>1, <1>3, <2>1, <2>2, <2>3, <2>4 DEF RequestsFit
<1> QED
  BY <1>1, <1>2, <1>3

\* A free slot is none of those that hold a request.
LEMMA FreeIsBeyond ==
  ASSUME PipeInv, NEW s \in Sessions, NEW i \in Slot, reqState[s][i] = "INVALID"
  PROVE  ~(Offset(s, i) < NumOutstanding(s))
<1>1. SlotStateFits(s, i)
  BY PipeOf DEF RingFits
<1> QED
  BY <1>1, PipeOf, OffsetRange DEF SlotStateFits

\* A request is written into a free slot, where it is of no request's phase.
LEMMA FillKeepsRequests ==
  ASSUME PipeInv, NEW s \in Sessions, Fill(s)
  PROVE  OthersKeep(s) /\ RequestsKeep(s) /\ RequestsFit(s)'
<1> DEFINE q == cltPush[s]
<1>1. q \in Slot /\ reqState[s][q] = "INVALID" /\ ~(Offset(s, q) < NumOutstanding(s))
  <2>1. reqState[s][q] = "INVALID"
    BY PushSlot, PipeOf DEF Fill, ControlFits, SlotFree
  <2> QED
    BY <2>1, FreeIsBeyond, PipeOf
<1>2. /\ UNCHANGED <<reqState, wrkrOp, cltPush, cltPull, lastPushed, lastPulled,
                     wrkrPull, wrkrPc, call, target>>
      /\ \A t \in Sessions \ {s} : cltPc'[t] = cltPc[t] /\ reqOp'[t] = reqOp[t]
      /\ \A i \in Slot : reqOp'[s][i] = IF i = q THEN lastPushed[s] + 1 ELSE reqOp[s][i]
  BY <1>1, PipeOf DEF Fill, CltGoto, cltPrivate, wrkrVars, TypeOK
<1>3. OthersKeep(s) /\ RequestsKeep(s)
  BY <1>2 DEF OthersKeep, Untouched, RequestsKeep
<1>4. \A i \in Slot : Offset(s, i)' = Offset(s, i)
  BY <1>2 DEF Offset
<1>5. NumOutstanding(s)' = NumOutstanding(s)
  BY <1>2 DEF NumOutstanding
<1> HIDE DEF q
<1>6. \A i \in Slot : Offset(s, i)' < NumOutstanding(s)' =>
        reqOp'[s][i] = lastPulled'[s] + 1 + Offset(s, i)'
  BY <1>1, <1>2, <1>4, <1>5, PipeOf DEF RequestsFit
<1>7. \A i \in Slot : reqState'[s][i] \in {"IN_PROGRESS", "COMPLETED"}
                        => wrkrOp'[s][i] = reqOp'[s][i]
  BY <1>1, <1>2, PipeOf DEF RequestsFit
<1>8. wrkrPc[s] = "signal" => wrkrPull[s] # q
  BY <1>1, PipeOf DEF ControlFits, Active
<1>9. wrkrPc'[s] = "signal" => wrkrOp'[s][wrkrPull'[s]] = reqOp'[s][wrkrPull'[s]]
  BY <1>2, <1>8, PipeOf DEF RequestsFit
<1>10. reqOp'[s][cltPush'[s]] = lastPushed'[s] + 1
  BY <1>1, <1>2 DEF q
<1> QED
  BY <1>3, <1>6, <1>7, <1>9, <1>10 DEF RequestsFit

\* The effect of the store that gives the worker a request.
LEMMA ActivateEffect ==
  ASSUME PipeInv, NEW s \in Sessions, Activate(s)
  PROVE  /\ Offset(s, cltPush[s]) = NumOutstanding(s)
         /\ NumOutstanding(s) < PerSessionReqNum /\ lastPushed[s] < MaxReqs
         /\ reqOp[s][cltPush[s]] = lastPushed[s] + 1
         /\ UNCHANGED <<reqOp, wrkrOp, cltPull, lastPulled, wrkrPull, wrkrPc>>
         /\ lastPushed'[s] = lastPushed[s] + 1
         /\ NumOutstanding(s)' = NumOutstanding(s) + 1
         /\ cltPc'[s] # "activate"
         /\ \A i \in Slot : reqState'[s][i] = IF i = cltPush[s] THEN "ACTIVE"
                                                               ELSE reqState[s][i]
         /\ \A i \in Slot : Offset(s, i)' = Offset(s, i)
         /\ OthersKeep(s)
<1>1. /\ UNCHANGED <<reqOp, wrkrOp, cltPull, lastPulled, wrkrPull, wrkrPc, call>>
      /\ lastPushed'[s] = lastPushed[s] + 1
      /\ cltPc'[s] # "activate"
      /\ \A i \in Slot : reqState'[s][i] = IF i = cltPush[s] THEN "ACTIVE"
                                                            ELSE reqState[s][i]
      /\ \A t \in Sessions \ {s} : /\ reqState'[t] = reqState[t]
                                   /\ cltPush'[t] = cltPush[t]
                                   /\ lastPushed'[t] = lastPushed[t]
                                   /\ cltPc'[t] = cltPc[t] /\ target'[t] = target[t]
  BY PipeOf DEF Activate, SetState, CltGoto, wrkrVars, TypeOK
<1>2. /\ NumOutstanding(s) < PerSessionReqNum /\ lastPushed[s] < MaxReqs
      /\ reqOp[s][cltPush[s]] = lastPushed[s] + 1
  BY PipeOf DEF Activate, ControlFits, RequestsFit
<1>3. Offset(s, cltPush[s]) = NumOutstanding(s)
  BY <1>2, PipeOf, SessionTypes DEF RingFits, PushMeetsPull, Offset
<1>4. \A i \in Slot : Offset(s, i)' = Offset(s, i)
  BY <1>1 DEF Offset
<1>5. NumOutstanding(s)' = NumOutstanding(s) + 1
  BY <1>1, PipeOf DEF NumOutstanding
<1> QED
  BY <1>1, <1>2, <1>3, <1>4, <1>5 DEF OthersKeep, Untouched

\* The request that is issued joins the others at their end.
LEMMA ActivateKeepsRequests ==
  ASSUME PipeInv, NEW s \in Sessions, Activate(s)
  PROVE  RequestsFit(s)'
<1>1. ASSUME NEW i \in Slot, Offset(s, i)' < NumOutstanding(s)'
      PROVE  reqOp'[s][i] = lastPulled'[s] + 1 + Offset(s, i)'
  <2>1. CASE i = cltPush[s]
    BY <2>1, ActivateEffect, PipeOf
  <2>2. CASE i # cltPush[s]
    <3>1. Offset(s, i) # Offset(s, cltPush[s])
      BY <2>2, SlotUnique, PipeOf
    <3>2. Offset(s, i) < NumOutstanding(s)
      BY <1>1, <3>1, ActivateEffect, PipeOf, OffsetRange
    <3> QED
      BY <3>2, ActivateEffect, PipeOf DEF RequestsFit
  <2> QED
    BY <2>1, <2>2
<1>2. \A i \in Slot : reqState'[s][i] \in {"IN_PROGRESS", "COMPLETED"}
                        => wrkrOp'[s][i] = reqOp'[s][i]
  BY ActivateEffect, PipeOf DEF RequestsFit
<1>3. wrkrPc'[s] = "signal" => wrkrOp'[s][wrkrPull'[s]] = reqOp'[s][wrkrPull'[s]]
  BY ActivateEffect, PipeOf DEF RequestsFit
<1> QED
  BY <1>1, <1>2, <1>3, ActivateEffect DEF RequestsFit

\* The worker reads the request from the slot that it has found active.
LEMMA TraceOpKeepsRequests ==
  ASSUME PipeInv, NEW s \in Sessions, FillTraceOp(s)
  PROVE  /\ OthersKeep(s) /\ RequestsFit(s)'
         /\ UNCHANGED <<reqState, cltPull, lastPulled, lastPushed>>
<1> DEFINE w == wrkrPull[s]
<1>1. w \in Slot /\ reqState[s][w] = "ACTIVE"
  BY PipeOf DEF FillTraceOp, ControlFits, Active
<1>2. /\ UNCHANGED <<reqState, reqOp, cltPush, cltPull, lastPushed, lastPulled,
                     wrkrPull, cltPc, call, target>>
      /\ \A t \in Sessions \ {s} : wrkrPc'[t] = wrkrPc[t] /\ wrkrOp'[t] = wrkrOp[t]
      /\ \A i \in Slot : wrkrOp'[s][i] = IF i = w THEN reqOp[s][w] ELSE wrkrOp[s][i]
  BY <1>1, PipeOf DEF FillTraceOp, WrkrGoto, cltVars, cltPrivate, TypeOK
<1> HIDE DEF w
<1>3. /\ \A i \in Slot : Offset(s, i)' = Offset(s, i)
      /\ NumOutstanding(s)' = NumOutstanding(s)
  BY <1>2 DEF Offset, NumOutstanding
<1>4. \A i \in Slot : Offset(s, i)' < NumOutstanding(s)' =>
        reqOp'[s][i] = lastPulled'[s] + 1 + Offset(s, i)'
  BY <1>2, <1>3, PipeOf DEF RequestsFit
<1>5. \A i \in Slot : reqState'[s][i] \in {"IN_PROGRESS", "COMPLETED"}
                        => wrkrOp'[s][i] = reqOp'[s][i]
  BY <1>1, <1>2, PipeOf DEF RequestsFit
<1>6. cltPc'[s] = "activate" => reqOp'[s][cltPush'[s]] = lastPushed'[s] + 1
  BY <1>2, PipeOf DEF RequestsFit
<1>7. wrkrOp'[s][wrkrPull'[s]] = reqOp'[s][wrkrPull'[s]]
  BY <1>1, <1>2 DEF w
<1> QED
  BY <1>2, <1>4, <1>5, <1>6, <1>7 DEF RequestsFit, OthersKeep, Untouched

\* The worker has taken up a request, the first one that it had not.
LEMMA SignalKeepsRequests ==
  ASSUME PipeInv, NEW s \in Sessions, SignalInProgress(s)
  PROVE  /\ OthersKeep(s) /\ RequestsFit(s)'
         /\ UNCHANGED <<cltPull, lastPulled, lastPushed>>
         /\ \A i \in Slot : reqState'[s][i] = IF i = wrkrPull[s] THEN "IN_PROGRESS"
                                                                ELSE reqState[s][i]
         /\ reqState[s][wrkrPull[s]] = "ACTIVE"
<1> DEFINE w == wrkrPull[s]
<1>1. w \in Slot /\ reqState[s][w] = "ACTIVE" /\ wrkrOp[s][w] = reqOp[s][w]
  BY PipeOf DEF SignalInProgress, ControlFits, Active, RequestsFit
<1>2. /\ UNCHANGED <<reqOp, wrkrOp, cltPush, cltPull, lastPushed, lastPulled, cltPc,
                     call, target>>
      /\ \A t \in Sessions \ {s} : /\ reqState'[t] = reqState[t]
                                   /\ wrkrPull'[t] = wrkrPull[t]
                                   /\ wrkrPc'[t] = wrkrPc[t]
      /\ \A i \in Slot : reqState'[s][i] = IF i = w THEN "IN_PROGRESS"
                                                    ELSE reqState[s][i]
      /\ wrkrPc'[s] = "scan"
  BY <1>1, PipeOf DEF SignalInProgress, SetState, WrkrAdvance, WrkrGoto, cltVars,
     cltPrivate, TypeOK
<1>3. /\ \A i \in Slot : Offset(s, i)' = Offset(s, i)
      /\ NumOutstanding(s)' = NumOutstanding(s)
  BY <1>2 DEF Offset, NumOutstanding
<1>4. RequestsFit(s)'
  BY <1>1, <1>2, <1>3, PipeOf DEF RequestsFit
<1> QED
  BY <1>1, <1>2, <1>4 DEF OthersKeep, Untouched

\* The protocol has finished a request.
LEMMA CompletionKeepsRequests ==
  ASSUME PipeInv, NEW s \in Sessions, NEW c \in Slot, SignalCompletion(s, c)
  PROVE  /\ OthersKeep(s) /\ RequestsFit(s)'
         /\ UNCHANGED <<cltPull, lastPulled, lastPushed>>
         /\ \A i \in Slot : reqState'[s][i] = IF i = c THEN "COMPLETED"
                                                       ELSE reqState[s][i]
         /\ reqState[s][c] = "IN_PROGRESS"
<1>1. /\ UNCHANGED <<reqOp, wrkrOp, cltPush, cltPull, lastPushed, lastPulled, cltPc,
                     call, target, wrkrPull, wrkrPc>>
      /\ \A t \in Sessions \ {s} : reqState'[t] = reqState[t]
      /\ \A i \in Slot : reqState'[s][i] = IF i = c THEN "COMPLETED"
                                                    ELSE reqState[s][i]
      /\ reqState[s][c] = "IN_PROGRESS"
  BY PipeOf DEF SignalCompletion, SetState, cltVars, cltPrivate, TypeOK
<1>2. /\ \A i \in Slot : Offset(s, i)' = Offset(s, i)
      /\ NumOutstanding(s)' = NumOutstanding(s)
  BY <1>1 DEF Offset, NumOutstanding
<1>3. RequestsFit(s)'
  BY <1>1, <1>2, PipeOf DEF RequestsFit
<1> QED
  BY <1>1, <1>3 DEF OthersKeep, Untouched

\* What a step of session s may be, in seven kinds.
StepOf(s) ==
  \/ \/ \E k \in {"weak", "strong", "blocking", "trace"} : Access(s, k)
     \/ \E t \in 1..lastPushed[s] : PollBlocking(s, t)
     \/ FindRequest(s) \/ CheckNext(s) \/ CheckPrev(s)
  \/ AccessPoll(s) \/ AwaitSlot(s) \/ AwaitResult(s) \/ PollAsync(s)
  \/ Fill(s)
  \/ Activate(s)
  \/ FillTraceOp(s)
  \/ SignalInProgress(s)
  \/ \E i \in Slot : SignalCompletion(s, i)

\* Every step is a step of one session.
LEMMA StepsAreOfOne == Next => \E s \in Sessions : StepOf(s)
BY DEF Next, StepOf, ClientCalls, TraceTurn, ClientRuns, WorkerPicksUp

\* Every step keeps what the slots hold.
LEMMA StepKeepsRequests ==
  ASSUME PipeInv, NEW s \in Sessions, StepOf(s)
  PROVE  OthersKeep(s) /\ RequestsFit(s)'
BY LooksMoveNothing, PollsKeepRequests, FillKeepsRequests, ActivateKeepsRequests,
   ActivateEffect, TraceOpKeepsRequests, SignalKeepsRequests, CompletionKeepsRequests
   DEF StepOf

\* The invariant of the refinement holds throughout.
LEMMA PipeInitially == Init => PipeInv
<1> SUFFICES ASSUME Init PROVE PipeInv
  OBVIOUS
<1>1. IInv
  BY Initially
<1>2. ASSUME NEW s \in Sessions PROVE RequestsFit(s)
  <2>1. /\ \A i \in Slot : Offset(s, i) \in Int /\ Offset(s, i) >= 0
        /\ NumOutstanding(s) = 0
    BY <1>1, OffsetRange DEF IInv, Init, NumOutstanding
  <2> QED
    BY <2>1 DEF Init, RequestsFit
<1> QED
  BY <1>1, <1>2 DEF PipeInv

\* Every step keeps it.
LEMMA PipeInductive == PipeInv /\ [Next]_vars => PipeInv'
<1> SUFFICES ASSUME PipeInv, [Next]_vars PROVE PipeInv'
  OBVIOUS
<1>1. IInv'
  BY Inductive DEF PipeInv
<1>2. CASE UNCHANGED vars
  BY <1>1, <1>2 DEF PipeInv, vars, cltVars, cltPrivate, wrkrVars, RequestsFit, Offset,
     NumOutstanding
<1>3. CASE Next
  <2>1. PICK s \in Sessions : StepOf(s)
    BY <1>3, StepsAreOfOne
  <2>2. OthersKeep(s) /\ RequestsFit(s)'
    BY <2>1, StepKeepsRequests
  <2>3. \A t \in Sessions : RequestsFit(t)'
    BY <2>2, RequestsFrame, PipeOf DEF OthersKeep
  <2> QED
    BY <1>1, <2>3 DEF PipeInv
<1> QED
  BY <1>2, <1>3

----------------------------------------------------------------------------
(* The steps of the abstract pipeline.                                     *)

\* Nothing is seen of a step that leaves the ring as it is.
LEMMA SamePhases ==
  ASSUME NEW s \in Sessions, PipeInv, PipeInv', UNCHANGED <<reqState[s], cltPull[s],
         lastPulled[s], lastPushed[s]>>
  PROVE  \A r \in 1..MaxReqs : PhaseOf(s, r)' = PhaseOf(s, r)
<1>1. PhasesKnown(s) /\ PhasesKnown(s)'
  BY RingTellsPhases, RingTellsNext
<1>2. /\ \A i \in Slot : Offset(s, i)' = Offset(s, i)
      /\ NumOutstanding(s)' = NumOutstanding(s)
  BY DEF Offset, NumOutstanding
<1> SUFFICES ASSUME NEW r \in 1..MaxReqs PROVE PhaseOf(s, r)' = PhaseOf(s, r)
  OBVIOUS
<1>3. CASE r \in (lastPulled[s] + 1)..lastPushed[s]
  <2>1. PICK i \in Slot : Offset(s, i) < NumOutstanding(s)
                          /\ r = lastPulled[s] + 1 + Offset(s, i)
    BY <1>1, <1>3 DEF PhasesKnown
  <2> QED
    BY <2>1, <1>1, <1>2 DEF PhasesKnown
<1>4. CASE r <= lastPulled[s] \/ r > lastPushed[s]
  BY <1>4, <1>1 DEF PhasesKnown
<1> QED
  BY <1>3, <1>4, PipeOf

\* The other sessions' requests stay in their phases.
LEMMA OthersPhases ==
  ASSUME NEW s \in Sessions, OthersKeep(s), NEW t \in Sessions, t # s
  PROVE  \A r \in 1..MaxReqs : PhaseOf(t, r)' = PhaseOf(t, r)
BY PhaseFrame DEF OthersKeep, Untouched, RequestsKeep

\* When one request changes its phase, the pipeline advances it.
LEMMA AdvanceOne ==
  ASSUME NEW s \in Sessions, NEW r \in 1..MaxReqs, NEW p, OthersKeep(s),
         PhaseOf(s, r)' = p,
         \A q \in 1..MaxReqs : q # r => PhaseOf(s, q)' = PhaseOf(s, q)
  PROVE  Pipeline!Advance(s, r, p)
<1>1. \A t \in Sessions, q \in 1..MaxReqs :
        PhaseOf(t, q)' = IF t = s /\ q = r THEN p ELSE PhaseOf(t, q)
  BY OthersPhases
<1> QED
  BY <1>1 DEF Pipeline!Advance

\* The pipeline counts as this module does.
LEMMA SameCardinality == \A S : Pipeline!Cardinality(S) = Cardinality(S)
BY DEF Pipeline!Cardinality, Cardinality

\* A request is outstanding between its issue and its return.
LEMMA OutstandingCount ==
  ASSUME PipeInv, NEW s \in Sessions
  PROVE  Pipeline!Cardinality(Pipeline!Outstanding(s)) = NumOutstanding(s)
<1>1. PhasesKnown(s)
  BY RingTellsPhases
<1>2. \A r \in 1..MaxReqs : PhaseOf(s, r) \in {"issued", "started", "done"}
                              <=> r \in (lastPulled[s] + 1)..lastPushed[s]
  BY <1>1, PipeOf DEF PhasesKnown, PhaseIn
<1>3. Pipeline!Outstanding(s) = (lastPulled[s] + 1)..lastPushed[s]
  BY <1>2, PipeOf DEF Pipeline!Outstanding, Pipeline!Request
<1>4. lastPulled[s] + 1 \in Int /\ lastPushed[s] \in Int
  BY PipeOf
<1>5. Cardinality((lastPulled[s] + 1)..lastPushed[s])
        = IF lastPulled[s] + 1 > lastPushed[s] THEN 0
          ELSE lastPushed[s] - (lastPulled[s] + 1) + 1
  BY <1>4, FS_Interval
<1>6. Cardinality((lastPulled[s] + 1)..lastPushed[s]) = NumOutstanding(s)
  BY <1>5, PipeOf
<1> QED
  BY <1>3, <1>6, SameCardinality

\* The store that activates a slot issues the next request.
LEMMA ActivateIssues ==
  ASSUME PipeInv, PipeInv', NEW s \in Sessions, Activate(s),
         NEW n \in Int, n = lastPushed[s] + 1, NEW c \in Slot, c = cltPush[s]
  PROVE  n \in 1..MaxReqs /\ Pipeline!Issue(s, n)
<1>1. PhasesKnown(s) /\ PhasesKnown(s)'
  BY RingTellsPhases, RingTellsNext
<1>2. n \in 1..MaxReqs
  BY ActivateEffect, PipeOf
<1>3. PhaseOf(s, n) = "new" /\ \A q \in 1..(n - 1) : PhaseOf(s, q) # "new"
  <2>1. PhaseOf(s, n) = "new"
    BY <1>1, <1>2, PipeOf DEF PhasesKnown
  <2>2. ASSUME NEW q \in 1..(n - 1) PROVE PhaseOf(s, q) # "new"
    <3>1. CASE q <= lastPulled[s]
      BY <3>1, <1>1, <1>2, PipeOf DEF PhasesKnown
    <3>2. CASE q \in (lastPulled[s] + 1)..lastPushed[s]
      BY <3>2, <1>1, PipeOf DEF PhasesKnown, PhaseIn
    <3> QED
      BY <3>1, <3>2, PipeOf
  <2> QED
    BY <2>1, <2>2
<1>4. PhaseOf(s, n)' = "issued"
  <2>1. /\ lastPulled'[s] + 1 + Offset(s, c)' = n
        /\ Offset(s, c)' < NumOutstanding(s)'
        /\ reqState'[s][c] = "ACTIVE"
    BY <1>2, ActivateEffect, PipeOf
  <2> QED
    BY <2>1, <1>1, <1>2 DEF PhasesKnown, PhaseIn
<1>5. ASSUME NEW q \in 1..MaxReqs, q # n PROVE PhaseOf(s, q)' = PhaseOf(s, q)
  <2>1. CASE q <= lastPulled[s] \/ q > n
    BY <2>1, <1>1, <1>2, ActivateEffect, PipeOf DEF PhasesKnown
  <2>2. CASE q \in (lastPulled[s] + 1)..lastPushed[s]
    <3>1. PICK i \in Slot : Offset(s, i) < NumOutstanding(s)
                            /\ q = lastPulled[s] + 1 + Offset(s, i)
      BY <2>2, <1>1 DEF PhasesKnown
    <3>2. i # c /\ reqState'[s][i] = reqState[s][i]
      BY <3>1, ActivateEffect, PipeOf, OffsetRange
    <3>3. Offset(s, i)' < NumOutstanding(s)' /\ q = lastPulled'[s] + 1 + Offset(s, i)'
      BY <3>1, ActivateEffect, PipeOf, OffsetRange
    <3> QED
      BY <3>1, <3>2, <3>3, <1>1 DEF PhasesKnown
  <2> QED
    BY <2>1, <2>2, <1>5, PipeOf
<1>6. Pipeline!Advance(s, n, "issued")
  BY <1>2, <1>4, <1>5, AdvanceOne, ActivateEffect
<1>7. Pipeline!Cardinality(Pipeline!Outstanding(s)) < PerSessionReqNum
  BY OutstandingCount, ActivateEffect
<1> QED
  BY <1>2, <1>3, <1>6, <1>7 DEF Pipeline!Issue

\* A poll that takes a request back returns the oldest one.
LEMMA PollReturns ==
  ASSUME PipeInv, PipeInv', NEW s \in Sessions, Pollable(s),
         AccessPoll(s) \/ AwaitSlot(s) \/ AwaitResult(s) \/ PollAsync(s),
         NEW n \in Int, n = lastPulled[s] + 1, NEW c \in Slot, c = cltPull[s]
  PROVE  n \in 1..MaxReqs /\ Pipeline!Return(s, n)
<1>0. Poll(s) /\ UNCHANGED lastPushed /\ OthersKeep(s)
  BY PollsKeepRequests
<1>1. PhasesKnown(s) /\ PhasesKnown(s)'
  BY RingTellsPhases, RingTellsNext
<1>2. Offset(s, c) = 0 /\ Offset(s, c) < NumOutstanding(s) /\ n <= lastPushed[s]
  BY PollableOutstanding, OffsetRange, PipeOf DEF PipeInv, IInv
<1>3. n \in 1..MaxReqs
  BY <1>2, PipeOf
<1>4. PhaseOf(s, n) = "done"
  <2>1. n = lastPulled[s] + 1 + Offset(s, c) /\ reqState[s][c] = "COMPLETED"
    BY <1>2, PipeOf DEF Pollable
  <2> QED
    BY <2>1, <1>1, <1>2 DEF PhasesKnown, PhaseIn
<1>5. \A q \in 1..(n - 1) : PhaseOf(s, q) = "returned"
  BY <1>1, <1>3, PipeOf DEF PhasesKnown
<1>6. PhaseOf(s, n)' = "returned"
  BY <1>0, <1>1, <1>3, PollEffect DEF PhasesKnown
<1>7. ASSUME NEW q \in 1..MaxReqs, q # n PROVE PhaseOf(s, q)' = PhaseOf(s, q)
  <2>1. CASE q <= lastPulled[s] \/ q > lastPushed[s]
    BY <2>1, <1>0, <1>1, PollEffect, PipeOf DEF PhasesKnown
  <2>2. CASE q \in (lastPulled[s] + 1)..lastPushed[s]
    <3>1. PICK i \in Slot : Offset(s, i) < NumOutstanding(s)
                            /\ q = lastPulled[s] + 1 + Offset(s, i)
      BY <2>2, <1>1 DEF PhasesKnown
    <3>2. i # c /\ reqState'[s][i] = reqState[s][i]
      BY <3>1, <1>0, <1>2, <1>7, PollEffect, PipeOf
    <3>3. Offset(s, i)' < NumOutstanding(s)' /\ q = lastPulled'[s] + 1 + Offset(s, i)'
      BY <3>1, <3>2, <1>0, PollEffect, PipeOf, OffsetRange
    <3> QED
      BY <3>1, <3>2, <3>3, <1>1 DEF PhasesKnown
  <2> QED
    BY <2>1, <2>2, PipeOf
<1>8. Pipeline!Advance(s, n, "returned")
  BY <1>0, <1>3, <1>6, <1>7, AdvanceOne
<1> QED
  BY <1>3, <1>4, <1>5, <1>8 DEF Pipeline!Return

\* A slot changes its state as its request its phase, and no other request does.
LEMMA SlotMovesRequest ==
  ASSUME PipeInv, PipeInv', NEW s \in Sessions, NEW c \in Slot, NEW st,
         UNCHANGED <<cltPull, lastPulled, lastPushed>>,
         Offset(s, c) < NumOutstanding(s),
         \A i \in Slot : reqState'[s][i] = IF i = c THEN st ELSE reqState[s][i],
         OthersKeep(s), NEW n \in Int, n = lastPulled[s] + 1 + Offset(s, c)
  PROVE  /\ n \in 1..MaxReqs /\ PhaseOf(s, n) = PhaseIn(reqState[s][c])
         /\ Pipeline!Advance(s, n, PhaseIn(st))
<1>1. PhasesKnown(s) /\ PhasesKnown(s)'
  BY RingTellsPhases, RingTellsNext
<1>2. /\ \A i \in Slot : Offset(s, i)' = Offset(s, i)
      /\ NumOutstanding(s)' = NumOutstanding(s)
  BY DEF Offset, NumOutstanding
<1>3. n \in 1..MaxReqs
  BY PipeOf, OffsetRange
<1>4. PhaseOf(s, n) = PhaseIn(reqState[s][c])
  BY <1>1 DEF PhasesKnown
<1>5. PhaseOf(s, n)' = PhaseIn(st)
  <2>1. n = lastPulled'[s] + 1 + Offset(s, c)' /\ reqState'[s][c] = st
    BY <1>2
  <2> QED
    BY <2>1, <1>1, <1>2 DEF PhasesKnown
<1>6. ASSUME NEW q \in 1..MaxReqs, q # n PROVE PhaseOf(s, q)' = PhaseOf(s, q)
  <2>1. CASE q <= lastPulled[s] \/ q > lastPushed[s]
    BY <2>1, <1>1, PipeOf DEF PhasesKnown
  <2>2. CASE q \in (lastPulled[s] + 1)..lastPushed[s]
    <3>1. PICK i \in Slot : Offset(s, i) < NumOutstanding(s)
                            /\ q = lastPulled[s] + 1 + Offset(s, i)
      BY <2>2, <1>1 DEF PhasesKnown
    <3>2. reqState'[s][i] = reqState[s][i]
      BY <3>1, <1>6
    <3> QED
      BY <3>1, <3>2, <1>1, <1>2 DEF PhasesKnown
  <2> QED
    BY <2>1, <2>2, PipeOf
<1>7. Pipeline!Advance(s, n, PhaseIn(st))
  BY <1>3, <1>5, <1>6, AdvanceOne
<1> QED
  BY <1>3, <1>4, <1>7

\* The worker takes up the oldest request that it has not taken up.
LEMMA SignalStarts ==
  ASSUME PipeInv, PipeInv', NEW s \in Sessions, SignalInProgress(s),
         NEW c \in Slot, c = wrkrPull[s],
         NEW n \in Int, n = lastPulled[s] + 1 + Offset(s, c)
  PROVE  n \in 1..MaxReqs /\ Pipeline!Start(s, n)
<1>1. PhasesKnown(s)
  BY RingTellsPhases
<1>2. reqState[s][c] = "ACTIVE" /\ SlotStateFits(s, c)
  BY SignalKeepsRequests, PipeOf DEF RingFits
<1>3. /\ Offset(s, c) < NumOutstanding(s) /\ Offset(s, c) = NumStarted(s)
      /\ Offset(s, c) \in Int
  <2>1. Offset(s, c) < NumOutstanding(s) /\ Offset(s, c) \in Int
    BY <1>2, OffsetRange, PipeOf DEF SlotStateFits
  <2>2. CASE c # cltPull[s]
    BY <2>1, <2>2 DEF NumStarted
  <2>3. CASE c = cltPull[s]
    BY <2>1, <2>3, <1>2, OffsetRange, PipeOf DEF NumStarted
  <2> QED
    BY <2>1, <2>2, <2>3
<1>4. /\ n \in 1..MaxReqs /\ PhaseOf(s, n) = "issued"
      /\ Pipeline!Advance(s, n, "started")
  <2>1. /\ OthersKeep(s) /\ UNCHANGED <<cltPull, lastPulled, lastPushed>>
        /\ \A i \in Slot : reqState'[s][i] = IF i = c THEN "IN_PROGRESS"
                                                      ELSE reqState[s][i]
    BY SignalKeepsRequests
  <2>2. /\ n \in 1..MaxReqs /\ PhaseOf(s, n) = PhaseIn(reqState[s][c])
        /\ Pipeline!Advance(s, n, PhaseIn("IN_PROGRESS"))
    BY <2>1, <1>3, SlotMovesRequest
  <2> QED
    BY <2>2, <1>2 DEF PhaseIn
<1>5. ASSUME NEW q \in 1..(n - 1) PROVE PhaseOf(s, q) # "issued"
  <2>1. CASE q <= lastPulled[s]
    BY <2>1, <1>1, <1>4, PipeOf DEF PhasesKnown
  <2>2. CASE q \in (lastPulled[s] + 1)..lastPushed[s]
    <3>1. PICK i \in Slot : Offset(s, i) < NumOutstanding(s)
                            /\ q = lastPulled[s] + 1 + Offset(s, i)
      BY <2>2, <1>1 DEF PhasesKnown
    <3>2. Offset(s, i) < NumStarted(s)
      BY <3>1, <1>3, PipeOf, OffsetRange
    <3>3. reqState[s][i] \in {"IN_PROGRESS", "COMPLETED"}
      BY <3>2, PipeOf DEF RingFits, SlotStateFits
    <3> QED
      BY <3>1, <3>3, <1>1 DEF PhasesKnown, PhaseIn
  <2>3. n <= lastPushed[s]
    BY <1>3, PipeOf
  <2> QED
    BY <2>1, <2>2, <2>3, PipeOf
<1> QED
  BY <1>4, <1>5 DEF Pipeline!Start

\* The protocol completes a request that has been started.
LEMMA SignalCompletes ==
  ASSUME PipeInv, PipeInv', NEW s \in Sessions, NEW c \in Slot, SignalCompletion(s, c),
         NEW n \in Int, n = lastPulled[s] + 1 + Offset(s, c)
  PROVE  n \in 1..MaxReqs /\ Pipeline!Complete(s, n)
<1>1. /\ OthersKeep(s) /\ UNCHANGED <<cltPull, lastPulled, lastPushed>>
      /\ \A i \in Slot : reqState'[s][i] = IF i = c THEN "COMPLETED"
                                                    ELSE reqState[s][i]
      /\ reqState[s][c] = "IN_PROGRESS"
  BY CompletionKeepsRequests
<1>2. Offset(s, c) < NumOutstanding(s)
  BY <1>1, TakenIsStarted
<1>3. /\ n \in 1..MaxReqs /\ PhaseOf(s, n) = PhaseIn(reqState[s][c])
      /\ Pipeline!Advance(s, n, PhaseIn("COMPLETED"))
  BY <1>1, <1>2, SlotMovesRequest
<1> QED
  BY <1>1, <1>3 DEF Pipeline!Complete, PhaseIn

\* The pipeline as the ring shows it.
PhaseMap == [s \in Sessions |-> [r \in 1..MaxReqs |-> PhaseOf(s, r)]]

\* A step that changes no phase is a stutter of the pipeline.
LEMMA SameIsStutter ==
  ASSUME NEW s \in Sessions, OthersKeep(s),
         \A r \in 1..MaxReqs : PhaseOf(s, r)' = PhaseOf(s, r)
  PROVE  UNCHANGED PhaseMap
<1>1. \A t \in Sessions, r \in 1..MaxReqs : PhaseOf(t, r)' = PhaseOf(t, r)
  BY OthersPhases
<1> QED
  BY <1>1 DEF PhaseMap

\* At the start every request is new.
LEMMA PipelineStarts == Init => Pipeline!Init
<1> SUFFICES ASSUME Init PROVE Pipeline!Init
  OBVIOUS
<1>1. \A s \in Sessions, r \in 1..MaxReqs : PhaseOf(s, r) = "new"
  BY PipeInitially, RingTellsPhases DEF Init, PhasesKnown
<1> QED
  BY <1>1 DEF Pipeline!Init, Pipeline!Request

\* Every step of the interface is one of the pipeline or changes nothing there.
LEMMA PipelineGoesOn ==
  PipeInv /\ PipeInv' /\ [Next]_vars => Pipeline!Next \/ UNCHANGED PhaseMap
<1> SUFFICES ASSUME PipeInv, PipeInv', [Next]_vars
    PROVE  Pipeline!Next \/ UNCHANGED PhaseMap
  OBVIOUS
<1>1. CASE UNCHANGED vars
  <2>1. \A s \in Sessions, r \in 1..MaxReqs : PhaseOf(s, r)' = PhaseOf(s, r)
    BY <1>1, PhaseFrame DEF vars, cltVars, cltPrivate, wrkrVars, RequestsKeep
  <2> QED
    BY <2>1 DEF PhaseMap
<1>2. CASE Next
  <2>1. PICK s \in Sessions : StepOf(s)
    BY <1>2, StepsAreOfOne
  <2>2. OthersKeep(s)
    BY <2>1, StepKeepsRequests
  <2>3. CASE RequestsKeep(s)
    BY <2>2, <2>3, PhaseFrame, SameIsStutter
  <2>4. CASE FillTraceOp(s)
    BY <2>2, <2>4, TraceOpKeepsRequests, SamePhases, SameIsStutter
  <2>5. CASE Activate(s)
    <3> DEFINE n == lastPushed[s] + 1
               c == cltPush[s]
    <3>1. n \in Int /\ c \in Slot
      BY PipeOf
    <3>2. n \in 1..MaxReqs /\ Pipeline!Issue(s, n)
      BY <3>1, <2>5, ActivateIssues
    <3> QED
      BY <3>2 DEF Pipeline!Next, Pipeline!Request
  <2>6. CASE (AccessPoll(s) \/ AwaitSlot(s) \/ AwaitResult(s) \/ PollAsync(s)) /\ Pollable(s)
    <3> DEFINE n == lastPulled[s] + 1
               c == cltPull[s]
    <3>1. n \in Int /\ c \in Slot
      BY PipeOf
    <3>2. n \in 1..MaxReqs /\ Pipeline!Return(s, n)
      BY <3>1, <2>6, PollReturns
    <3> QED
      BY <3>2 DEF Pipeline!Next, Pipeline!Request
  <2>7. CASE SignalInProgress(s)
    <3> DEFINE c == wrkrPull[s]
               n == lastPulled[s] + 1 + Offset(s, c)
    <3>1. n \in Int /\ c \in Slot
      BY PipeOf, OffsetRange
    <3>2. n \in 1..MaxReqs /\ Pipeline!Start(s, n)
      BY <3>1, <2>7, SignalStarts
    <3> QED
      BY <3>2 DEF Pipeline!Next, Pipeline!Request
  <2>8. ASSUME NEW c \in Slot, SignalCompletion(s, c)
        PROVE  Pipeline!Next
    <3> DEFINE n == lastPulled[s] + 1 + Offset(s, c)
    <3>1. n \in Int
      BY PipeOf, OffsetRange
    <3>2. n \in 1..MaxReqs /\ Pipeline!Complete(s, n)
      BY <3>1, <2>8, SignalCompletes
    <3> QED
      BY <3>2 DEF Pipeline!Next, Pipeline!Request
  <2>9. \/ RequestsKeep(s) \/ FillTraceOp(s) \/ Activate(s) \/ SignalInProgress(s)
        \/ (AccessPoll(s) \/ AwaitSlot(s) \/ AwaitResult(s) \/ PollAsync(s)) /\ Pollable(s)
        \/ \E c \in Slot : SignalCompletion(s, c)
    BY <2>1, LooksMoveNothing, PollsKeepRequests, FillKeepsRequests DEF StepOf
  <2> QED
    BY <2>3, <2>4, <2>5, <2>6, <2>7, <2>8, <2>9
<1> QED
  BY <1>1, <1>2

\* The interface does only what the bounded FIFO pipeline does: the worker takes up
\* the requests in the order of their issue, each once and with what the client
\* wrote, no more are outstanding than the ring has slots, and results come back in
\* the order of issue, in whatever order the protocol completes them.
THEOREM PipelineSteps == Spec => Pipeline!Safety
<1>1. Spec => []PipeInv
  BY PipeInitially, PipeInductive, PTL DEF Spec
<1>2. PipeInv /\ PipeInv' /\ [Next]_vars
        => [Pipeline!Next]_([s \in Sessions |-> [r \in 1..MaxReqs |-> PhaseOf(s, r)]])
  BY PipelineGoesOn DEF PhaseMap
<1> QED
  BY <1>1, <1>2, PipelineStarts, PTL DEF Spec, Pipeline!Safety
=============================================================================
