-------------------------- MODULE ClientInterface --------------------------
(***************************************************************************)
(* The shared-memory interface between client threads and one worker:      *)
(* per session a ring of request slots (struct wrk_clt_if).  The client    *)
(* side is the API of od_interface.c (poll, access_async with its strong   *)
(* and weak forms, access_blocking) and the client that works off a trace  *)
(* (send_reqs_from_trace of od_client.c); the worker side is the pick-up of a   *)
(* request (od_fill_trace_op and the calls of od_wrkr_side_calls.c) and    *)
(* the signalling of its completion.                                       *)
(*                                                                         *)
(* A step is one access to the slot state that the other side can change,  *)
(* with the private pointer updates that follow it.  A session is used by  *)
(* one client thread ("no races across clients"), so each session has a    *)
(* client control state and a worker control state of its own.             *)
(***************************************************************************)
EXTENDS Integers

CONSTANTS
  Sessions,          \* the sessions of one worker
  PerSessionReqNum,  \* PER_SESSION_REQ_NUM: the slots of a session's ring
  MaxReqs,           \* bound on the requests a session issues
  EnableAssertions,  \* ENABLE_ASSERTIONS: the worker runs its debug checks
  NDebug             \* assert() is compiled out

ASSUME InterfaceAssumption ==
  /\ PerSessionReqNum \in Nat \ {0}
  /\ MaxReqs \in Nat
  /\ EnableAssertions \in BOOLEAN
  /\ NDebug \in BOOLEAN

Slot == 0..(PerSessionReqNum - 1)
NoSlot == PerSessionReqNum
ReqState == {"INVALID", "ACTIVE", "IN_PROGRESS", "COMPLETED"}
Call == {"none", "weak", "strong", "blocking", "poll", "trace"}

VARIABLES
  reqState,    \* [s][i]: state of slot i of session s, shared by both sides
  reqOp,       \* [s][i]: the request the client wrote in the slot
  cltPush,     \* clt_push_ptr: the slot the client issues in next
  cltPull,     \* clt_pull_ptr: the slot the client polls next
  wrkrPull,    \* wrkr_pull_ptr: the slot the worker picks up next
  lastPushed,  \* last_pushed_req: requests issued so far
  lastPulled,  \* last_pulled_req: requests polled so far
  cltPc,       \* where the client thread is in its API call
  call,        \* which API call that is
  target,      \* the request number a polling loop waits for
  wrkrPc,      \* where the worker is in picking up a request
  wrkrOp,      \* [s][i]: the request the worker read from the slot
  stalled      \* the slot whose request stalls the session, or NoSlot

cltPrivate == <<cltPush, lastPushed, cltPull, lastPulled>>
cltVars == <<cltPrivate, cltPc, call, target>>
wrkrVars == <<wrkrPull, wrkrPc, wrkrOp, stalled>>
vars == <<reqState, reqOp, cltVars, wrkrVars>>

CltPcs == {"idle", "pollOnce", "awaitSlot", "fill", "activate",
           "awaitResult", "aborted"}
WrkrPcs == {"scan", "checkNext", "checkPrev", "fill", "signal"}

Init ==
  /\ reqState = [s \in Sessions |-> [i \in Slot |-> "INVALID"]]
  /\ reqOp = [s \in Sessions |-> [i \in Slot |-> 0]]
  /\ cltPush = [s \in Sessions |-> 0]
  /\ cltPull = [s \in Sessions |-> 0]
  /\ wrkrPull = [s \in Sessions |-> 0]
  /\ lastPushed = [s \in Sessions |-> 0]
  /\ lastPulled = [s \in Sessions |-> 0]
  /\ cltPc = [s \in Sessions |-> "idle"]
  /\ call = [s \in Sessions |-> "none"]
  /\ target = [s \in Sessions |-> 0]
  /\ wrkrPc = [s \in Sessions |-> "scan"]
  /\ wrkrOp = [s \in Sessions |-> [i \in Slot |-> 0]]
  /\ stalled = [s \in Sessions |-> NoSlot]

\* Mutant: the wrap-around is off by one.
NextSlotNoWrap(i) == IF i = PerSessionReqNum THEN 0 ELSE i + 1

\* MOD_INCR on a slot pointer, and the slot before a pointer.
NextSlot(i) == IF i + 1 = PerSessionReqNum THEN 0 ELSE i + 1
PrevSlot(i) == IF i = 0 THEN PerSessionReqNum - 1 ELSE i - 1

SetState(s, i, st) == reqState' = [reqState EXCEPT ![s][i] = st]
CltGoto(s, pc) == cltPc' = [cltPc EXCEPT ![s] = pc]
WrkrGoto(s, pc) == wrkrPc' = [wrkrPc EXCEPT ![s] = pc]

----------------------------------------------------------------------------
(* The client side.                                                        *)

\* Mutant: a request is taken as finished as soon as the worker has it.
PollableEarly(s) == reqState[s][cltPull[s]] \in {"IN_PROGRESS", "COMPLETED"}

\* poll() takes a request back only when its slot is COMPLETED.
Pollable(s) == reqState[s][cltPull[s]] = "COMPLETED"

\* Mutant: the slot is released but the pull pointer stays.
PollNoAdvance(s) ==
  /\ IF Pollable(s)
       THEN /\ SetState(s, cltPull[s], "INVALID")
            /\ lastPulled' = [lastPulled EXCEPT ![s] = @ + 1]
       ELSE UNCHANGED <<reqState, lastPulled>>
  /\ UNCHANGED cltPull

\* poll(): the slot is captured before the loop, and once it is INVALID only
\* this client can change it, so that a call takes back at most one request.
Poll(s) ==
  IF Pollable(s)
    THEN /\ SetState(s, cltPull[s], "INVALID")
         /\ cltPull' = [cltPull EXCEPT ![s] = NextSlot(@)]
         /\ lastPulled' = [lastPulled EXCEPT ![s] = @ + 1]
    ELSE UNCHANGED <<reqState, cltPull, lastPulled>>

\* Mutant: any slot the worker is not holding counts as free.
SlotFreeLoose(s) == reqState[s][cltPush[s]] \in {"INVALID", "COMPLETED"}

\* The push slot can take a request.
SlotFree(s) == reqState[s][cltPush[s]] = "INVALID"

\* An access_async or access_blocking call begins with a look at the slot.
Access(s, k) ==
  /\ cltPc[s] = "idle"
  /\ lastPushed[s] < MaxReqs
  /\ call' = [call EXCEPT ![s] = k]
  /\ CltGoto(s, IF SlotFree(s) THEN "fill" ELSE "pollOnce")
  /\ UNCHANGED <<reqState, reqOp, cltPrivate, target, wrkrVars>>

\* One poll for a slot.  If it frees none, a strong or a blocking call goes
\* on to poll_one_req_blocking, and a weak call runs into assert(false) and,
\* when assert is compiled out, returns NO_SLOT_TO_ISSUE_REQUEST.
AccessPoll(s) ==
  /\ cltPc[s] = "pollOnce"
  /\ Poll(s)
  /\ CltGoto(s, IF reqState'[s][cltPush[s]] = "INVALID" THEN "fill"
                ELSE IF call[s] # "weak" THEN "awaitSlot"
                ELSE IF NDebug THEN "idle" ELSE "aborted")
  /\ target' = [target EXCEPT ![s] = lastPulled'[s] + 1]
  /\ UNCHANGED <<reqOp, cltPush, lastPushed, call, wrkrVars>>

\* poll_one_req_blocking, inside a call that waits for a free slot.
AwaitSlot(s) ==
  /\ cltPc[s] = "awaitSlot"
  /\ Poll(s)
  /\ CltGoto(s, IF lastPulled'[s] >= target[s] THEN "fill" ELSE "awaitSlot")
  /\ UNCHANGED <<reqOp, cltPush, lastPushed, call, target, wrkrVars>>

\* fill_client_op: the request is written into the slot ...
Fill(s) ==
  /\ cltPc[s] = "fill"
  /\ reqOp' = [reqOp EXCEPT ![s][cltPush[s]] = lastPushed[s] + 1]
  /\ CltGoto(s, "activate")
  /\ UNCHANGED <<reqState, cltPrivate, call, target, wrkrVars>>

\* ... and only then is it released to the worker.  A blocking call goes on
\* to poll_all_reqs, an asynchronous one returns.
Activate(s) ==
  /\ cltPc[s] = "activate"
  /\ SetState(s, cltPush[s], "ACTIVE")
  /\ cltPush' = [cltPush EXCEPT ![s] = NextSlot(@)]
  /\ lastPushed' = [lastPushed EXCEPT ![s] = @ + 1]
  /\ target' = [target EXCEPT ![s] = lastPushed'[s]]
  /\ CltGoto(s, IF call[s] = "blocking" THEN "awaitResult" ELSE "idle")
  /\ UNCHANGED <<reqOp, cltPull, lastPulled, call, wrkrVars>>

\* The loops of poll_all_reqs and poll_a_req_blocking.
AwaitResult(s) ==
  /\ cltPc[s] = "awaitResult"
  /\ Poll(s)
  /\ CltGoto(s, IF lastPulled'[s] >= target[s] THEN "idle" ELSE "awaitResult")
  /\ UNCHANGED <<reqOp, cltPush, lastPushed, call, target, wrkrVars>>

\* poll_a_req_async: one poll, outside any other call.
PollAsync(s) ==
  /\ cltPc[s] = "idle"
  /\ Poll(s)
  /\ UNCHANGED <<reqOp, cltPush, lastPushed, cltPc, call, target, wrkrVars>>

\* poll_a_req_blocking(t), and poll_all_reqs when t is the last request.
PollBlocking(s, t) ==
  /\ cltPc[s] = "idle"
  /\ lastPulled[s] < t
  /\ call' = [call EXCEPT ![s] = "poll"]
  /\ target' = [target EXCEPT ![s] = t]
  /\ CltGoto(s, "awaitResult")
  /\ UNCHANGED <<reqState, reqOp, cltPrivate, wrkrVars>>

\* A client that works off a trace (send_reqs_from_trace) uses the ring without
\* the API.  As it comes by a session it takes back one result if there is one,
\* for it goes on looking at the slot it has just freed, and then issues one
\* request, into a slot that is free.  It keeps no request numbers.
TraceTurn(s) ==
  \/ Pollable(s) /\ PollAsync(s)
  \/ SlotFree(s) /\ Access(s, "trace")

----------------------------------------------------------------------------
(* The worker side.                                                        *)

\* is_client_req_active
Active(s, i) == reqState[s][i] = "ACTIVE"

\* od_pull_request_from_this_session answers yes.
FindRequest(s) ==
  /\ wrkrPc[s] = "scan"
  /\ stalled[s] = NoSlot
  /\ Active(s, wrkrPull[s])
  /\ WrkrGoto(s, IF EnableAssertions THEN "checkNext" ELSE "fill")
  /\ UNCHANGED <<reqState, reqOp, cltVars, wrkrPull, wrkrOp, stalled>>

\* check_client_req_state_when_filling_op looks at the next slot first and
\* at the previous slot later, while the client goes on issuing.
CheckNext(s) ==
  LET next == NextSlot(wrkrPull[s])
      prev == PrevSlot(wrkrPull[s])
  IN  /\ wrkrPc[s] = "checkNext"
      /\ WrkrGoto(s, IF Active(s, next) \/ next = prev \/ prev = wrkrPull[s]
                       THEN "fill" ELSE "checkPrev")
      /\ UNCHANGED <<reqState, reqOp, cltVars, wrkrPull, wrkrOp, stalled>>

CheckPrev(s) ==
  /\ wrkrPc[s] = "checkPrev"
  /\ WrkrGoto(s, "fill")
  /\ UNCHANGED <<reqState, reqOp, cltVars, wrkrPull, wrkrOp, stalled>>

\* create_inputs_of_op: the request is read from the slot ...
FillTraceOp(s) ==
  /\ wrkrPc[s] = "fill"
  /\ wrkrOp' = [wrkrOp EXCEPT ![s][wrkrPull[s]] = reqOp[s][wrkrPull[s]]]
  /\ WrkrGoto(s, "signal")
  /\ UNCHANGED <<reqState, reqOp, cltVars, wrkrPull, stalled>>

\* Mutant: the worker's pointer is not advanced.
WrkrAdvanceNever(s) == UNCHANGED wrkrPull

\* The worker moves on to the next slot.
WrkrAdvance(s) == wrkrPull' = [wrkrPull EXCEPT ![s] = NextSlot(@)]

\* signal_in_progress_to_client.  The protocol may then stall the session
\* until this request completes.
SignalInProgress(s) ==
  /\ wrkrPc[s] = "signal"
  /\ SetState(s, wrkrPull[s], "IN_PROGRESS")
  /\ WrkrAdvance(s)
  /\ stalled' \in {[stalled EXCEPT ![s] = b] : b \in {NoSlot, wrkrPull[s]}}
  /\ WrkrGoto(s, "scan")
  /\ UNCHANGED <<reqOp, cltVars, wrkrOp>>

\* signal_completion_to_client, for a request the protocol has finished: the
\* worker thread does it between two pick-ups, in any order of the requests.
SignalCompletion(s, i) ==
  /\ wrkrPc[s] = "scan"
  /\ reqState[s][i] = "IN_PROGRESS"
  /\ SetState(s, i, "COMPLETED")
  /\ stalled' = [stalled EXCEPT ![s] = IF @ = i THEN NoSlot ELSE @]
  /\ UNCHANGED <<reqOp, cltVars, wrkrPull, wrkrPc, wrkrOp>>

----------------------------------------------------------------------------
\* The call the client is in, its polling loops included, runs on.
ClientRuns(s) ==
  AccessPoll(s) \/ AwaitSlot(s) \/ Fill(s) \/ Activate(s) \/ AwaitResult(s)

\* The worker picks up the request it has found.
WorkerPicksUp(s) ==
  FindRequest(s) \/ CheckNext(s) \/ CheckPrev(s) \/ FillTraceOp(s)
    \/ SignalInProgress(s)

ClientCalls(s) ==
  \/ \E k \in {"weak", "strong", "blocking"} : Access(s, k)
  \/ PollAsync(s)
  \/ \E t \in 1..lastPushed[s] : PollBlocking(s, t)
  \/ TraceTurn(s)

\* A failed assertion ends the process, and with it every thread.
Running == \A s \in Sessions : cltPc[s] # "aborted"

Next ==
  /\ Running
  /\ \E s \in Sessions :
       \/ ClientCalls(s)
       \/ ClientRuns(s)
       \/ WorkerPicksUp(s)
       \/ \E i \in Slot : SignalCompletion(s, i)

\* A thread inside a call keeps running, the worker's loop visits every
\* session, and the protocol finishes what it has started.  Nothing makes a
\* client begin a call.
Fairness ==
  \A s \in Sessions :
    /\ WF_vars(Running /\ ClientRuns(s))
    /\ WF_vars(Running /\ WorkerPicksUp(s))
    /\ \A i \in Slot : WF_vars(Running /\ SignalCompletion(s, i))

Spec == Init /\ [][Next]_vars
FairSpec == Spec /\ Fairness

----------------------------------------------------------------------------
(* Properties.                                                             *)

\* Every variable has its type: the pointers stay inside the ring, the
\* counters inside the bound, and the control states are known ones.
TypeOK ==
  /\ reqState \in [Sessions -> [Slot -> ReqState]]
  /\ reqOp \in [Sessions -> [Slot -> 0..MaxReqs]]
  /\ cltPush \in [Sessions -> Slot]
  /\ cltPull \in [Sessions -> Slot]
  /\ wrkrPull \in [Sessions -> Slot]
  /\ lastPushed \in [Sessions -> 0..MaxReqs]
  /\ lastPulled \in [Sessions -> 0..MaxReqs]
  /\ cltPc \in [Sessions -> CltPcs]
  /\ call \in [Sessions -> Call]
  /\ target \in [Sessions -> 0..(MaxReqs + 1)]
  /\ wrkrPc \in [Sessions -> WrkrPcs]
  /\ wrkrOp \in [Sessions -> [Slot -> 0..MaxReqs]]
  /\ stalled \in [Sessions -> 0..PerSessionReqNum]

\* How many requests of s are issued and not yet polled.
NumOutstanding(s) == lastPushed[s] - lastPulled[s]

\* How far slot i lies ahead of the client's pull pointer.
Offset(s, i) ==
  IF i >= cltPull[s] THEN i - cltPull[s]
                     ELSE i - cltPull[s] + PerSessionReqNum

\* How many of the outstanding requests the worker has picked up.
NumStarted(s) ==
  IF wrkrPull[s] # cltPull[s] THEN Offset(s, wrkrPull[s])
  ELSE IF reqState[s][cltPull[s]] \in {"IN_PROGRESS", "COMPLETED"}
       THEN PerSessionReqNum ELSE 0

PushMeetsPull(s) ==
  cltPush[s] = IF cltPull[s] + NumOutstanding(s) >= PerSessionReqNum
                 THEN cltPull[s] + NumOutstanding(s) - PerSessionReqNum
                 ELSE cltPull[s] + NumOutstanding(s)

SlotStateFits(s, i) ==
  reqState[s][i] \in
    IF Offset(s, i) < NumStarted(s) THEN {"IN_PROGRESS", "COMPLETED"}
    ELSE IF Offset(s, i) < NumOutstanding(s) THEN {"ACTIVE"}
    ELSE {"INVALID"}

\* The three private pointers and the slot states tell one story: walking the
\* ring from the client's pull pointer one meets the requests the worker has
\* picked up, then those it has not seen, up to the push pointer, then free
\* slots.  Neither side ever reads the other's pointers (wrk_clt_if), so that
\* this is what keeps the two in step.
PointersMatchSlots ==
  \A s \in Sessions :
    /\ NumOutstanding(s) \in 0..PerSessionReqNum
    /\ NumStarted(s) <= NumOutstanding(s)
    /\ PushMeetsPull(s)
    /\ \A i \in Slot : SlotStateFits(s, i)

\* The assertions in the code: check_push_pull_ptrs when access_async has to
\* poll; the push slot is INVALID when a request is filled in; push and pull
\* pointers meet when access_blocking returns; the worker fills in and signals
\* only an ACTIVE request.
AssertionsHold ==
  \A s \in Sessions :
    /\ cltPc[s] = "pollOnce" => NumOutstanding(s) = PerSessionReqNum
    /\ cltPc[s] \in {"fill", "activate"} => SlotFree(s)
    /\ cltPc[s] = "idle" /\ call[s] = "blocking" => cltPush[s] = cltPull[s]
    /\ wrkrPc[s] # "scan" => Active(s, wrkrPull[s])

\* A request is not overwritten while the worker may use it: the worker keeps
\* a pointer to the slot's value_to_write (create_inputs_of_op) and no copy.
RequestStable ==
  [][\A s \in Sessions, i \in Slot :
       reqOp'[s][i] # reqOp[s][i] => reqState[s][i] = "INVALID"]_vars

\* The phase of request r of session s in the abstract pipeline.
PhaseOf(s, r) ==
  LET In(st) == \E i \in Slot : wrkrOp[s][i] = r /\ reqState[s][i] = st
  IN  IF r <= lastPulled[s] THEN "returned"
      ELSE IF r > lastPushed[s] THEN "new"
      ELSE IF In("IN_PROGRESS") THEN "started"
      ELSE IF In("COMPLETED") THEN "done"
      ELSE "issued"

Pipeline == INSTANCE RequestPipeline WITH
  Capacity <- PerSessionReqNum,
  phase <- [s \in Sessions |-> [r \in 1..MaxReqs |-> PhaseOf(s, r)]]

\* The interface is a bounded FIFO pipeline: the worker starts the requests
\* in issue order, each exactly once and with what the client wrote, results
\* come back in issue order, and what is issued is eventually completed.
ImplementsPipeline == Pipeline!Spec

\* A call that polls for a slot or a result returns (poll_one_req_blocking,
\* poll_all_reqs and poll_a_req_blocking do not spin forever), as long as the
\* worker and the protocol run.
CallsReturn ==
  \A s \in Sessions : cltPc[s] # "idle" ~> cltPc[s] = "idle"

\* od_interface.c on the weak calls: they "will not block, but may return that
\* the request was not issued".  So no call ends the process.
WeakCallReturns == \A s \in Sessions : cltPc[s] # "aborted"

\* od_debug_util.h: "if the next req is not active, no request can be active",
\* which check_client_req_state_when_filling_op asserts of the previous slot.
PrevInactiveIfNextInactive ==
  \A s \in Sessions :
    wrkrPc[s] = "checkPrev" => ~Active(s, PrevSlot(wrkrPull[s]))
=============================================================================
