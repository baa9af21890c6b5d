----------------------------- MODULE BcastFlow -----------------------------
(***************************************************************************)
(* Flow control of broadcasts and their acknowledgements, for one worker   *)
(* on each machine: od_config_util.h (credits, timeout, which machines are *)
(* taken to be alive), and of od_main_loop_api.c the broadcasts, the       *)
(* polling of messages and the acks.  Every machine is both a sender and a *)
(* receiver, but the two roles share no state, so that a model may have    *)
(* senders and receivers of its own.                                       *)
(*                                                                         *)
(* A message carries consecutive operations, named by their local ids.  A  *)
(* message is sent only on a credit of each receiver; a credit stands for  *)
(* a receive that is posted there.  Neither messages nor acks are          *)
(* retransmitted, as RDMA's unreliable datagrams are not.                  *)
(***************************************************************************)
EXTENDS Integers, Sequences, FiniteSets, FiniteSetsExt, Functions

CONSTANTS
  Senders,           \* the machines whose broadcasts are modelled
  Receivers,         \* the remote machines, by id
  MaxCredits,        \* max_credits of the broadcast queue pair
  RemoteQuorum,      \* REMOTE_QUORUM
  CreditTimeout,     \* CREDIT_TIMEOUT: failed looks at the credits in a row
  EnableAssertions,  \* ENABLE_ASSERTIONS
  MaxOps,            \* bound on the operations of a sender
  MaxCoalesce,       \* bound on the operations of a message
  MaxLost            \* bound on the messages and acks that get lost

ASSUME FlowAssumption ==
  /\ Receivers \subseteq Nat /\ IsFiniteSet(Receivers) /\ IsFiniteSet(Senders)
  /\ MaxCredits \in Nat \ {0}
  /\ RemoteQuorum \in 1..Cardinality(Receivers)
  /\ CreditTimeout \in Nat \ {0}
  /\ EnableAssertions \in BOOLEAN
  /\ MaxOps \in Nat \ {0} /\ MaxCoalesce \in Nat \ {0} /\ MaxLost \in Nat

VARIABLES
  nextLid,     \* [s]: the id of s's next operation
  pullLid,     \* [s]: the id of s's oldest operation that awaits its quorum
  acked,       \* [s][l]: the receivers that s counts as holding operation l
  pending,     \* [s]: s's send fifo, the messages not yet broadcast
  credits,     \* [s][r]: credits of s for r
  active,      \* [s]: the receivers that s takes to be alive (q_info)
  timeOutCnt,  \* [s]: how often in a row a receiver was found out of credits
  ackRecvs,    \* [s]: posted_recvs of s's ack queue pair
  mesRecvs,    \* [r]: posted_recvs of r's broadcast queue pair
  ackToSend,   \* [r][s]: the ack that r gathers for s
  received,    \* [r][s]: the operations of s that have reached r
  mesNet,      \* [s][r]: messages on their way, or not yet polled
  ackNet,      \* [r][s]: acks on their way, or not yet polled
  lost         \* [s][r]: the credits lost with a message or an ack

senderVars == <<nextLid, pullLid, acked, pending, credits, active, timeOutCnt,
                ackRecvs>>
receiverVars == <<mesRecvs, ackToSend, received>>
netVars == <<mesNet, ackNet, lost>>
vars == <<senderVars, receiverVars, netVars>>

Lids == 0..(MaxOps - 1)

\* The opcode of such an ack is OP_ACK: it is sent, or was never begun.
NoAck == [lid |-> 0, num |-> 0, credits |-> 0]

\* recv_wr_num: a receive for every message that can be on its way, and on
\* the sender's side for every ack (create_ack_qp_meta).
MesRecvNum == MaxCredits * Cardinality(Senders)
AckRecvNum == MaxCredits * Cardinality(Receivers)

Init ==
  /\ nextLid = [s \in Senders |-> 0]
  /\ pullLid = [s \in Senders |-> 0]
  /\ acked = [s \in Senders |-> [l \in Lids |-> {}]]
  /\ pending = [s \in Senders |-> <<>>]
  /\ credits = [s \in Senders |-> [r \in Receivers |-> MaxCredits]]
  /\ active = [s \in Senders |-> Receivers]
  /\ timeOutCnt = [s \in Senders |-> 0]
  /\ ackRecvs = [s \in Senders |-> AckRecvNum]
  /\ mesRecvs = [r \in Receivers |-> MesRecvNum]
  /\ ackToSend = [r \in Receivers |-> [s \in Senders |-> NoAck]]
  /\ received = [r \in Receivers |-> [s \in Senders |-> {}]]
  /\ mesNet = [s \in Senders |-> [r \in Receivers |-> <<>>]]
  /\ ackNet = [r \in Receivers |-> [s \in Senders |-> <<>>]]
  /\ lost = [s \in Senders |-> [r \in Receivers |-> 0]]

----------------------------------------------------------------------------
(* The sender.                                                             *)

\* The protocol inserts n operations as one message (od_insert_mes, see
\* SendFifo for how they are coalesced).
Insert(s, n) ==
  /\ nextLid[s] + n <= MaxOps
  /\ pending' = [pending EXCEPT ![s] = Append(@, [lid |-> nextLid[s], num |-> n])]
  /\ nextLid' = [nextLid EXCEPT ![s] = @ + n]
  /\ UNCHANGED <<pullLid, acked, credits, active, timeOutCnt, ackRecvs,
                 receiverVars, netVars>>

\* The first loop of check_bcast_credits: an active receiver has no credit.
OutOfCredits(s) == {r \in active[s] : credits[s][r] < 1}

\* Mutant: a timeout leaves the quorum information as it is.
UpdateQInfoNot(s) == UNCHANGED active

\* update_q_info: alive is who has a credit, missing who has none.
UpdateQInfo(s) ==
  active' = [active EXCEPT ![s] = {r \in Receivers : credits[s][r] >= 1}]

\* check_bcast_credits finds a receiver out of credits: nothing is sent, and
\* at the CREDIT_TIMEOUTth time in a row that receiver is given up.
AwaitCredits(s) ==
  /\ pending[s] # <<>>
  /\ OutOfCredits(s) # {}
  /\ IF timeOutCnt[s] + 1 = CreditTimeout
       THEN /\ timeOutCnt' = [timeOutCnt EXCEPT ![s] = 0]
            /\ UpdateQInfo(s)
       ELSE /\ timeOutCnt' = [timeOutCnt EXCEPT ![s] = @ + 1]
            /\ UNCHANGED active
  /\ UNCHANGED <<nextLid, pullLid, acked, pending, credits, ackRecvs,
                 receiverVars, netVars>>

\* all_q_info_targets_are_reached: no message to r is unacknowledged.
TargetReached(s, r) == credits[s][r] = MaxCredits

\* The loop that revives: over the missing receivers in the order of their
\* ids, it takes back those that have reached the target.  It indexes the list
\* that revive_machine shortens, so it passes over the one after each it
\* revives.
Revived(s) ==
  LET missing == Receivers \ active[s]
      revives[r \in Receivers] ==
        LET before == {q \in missing : q < r}
        IN  /\ r \in missing
            /\ TargetReached(s, r)
            /\ before = {} \/ ~revives[Max(before)]
  IN  {r \in missing : revives[r]}

\* revive_machine: the active ids with those that are taken back.
Alive(s) == active[s] \cup Revived(s)

\* Mutant: the receiver with the most credits decides.
AvailableMost(s, alive) == Max({credits[s][r] : r \in alive})

\* avail_cred: how many messages the alive receivers can all take.
Available(s, alive) == Min({credits[s][r] : r \in alive})

\* decrease_credits: only the alive ones are sent to and charged.
DecreaseCredits(s, alive, n) ==
  credits' = [credits EXCEPT
    ![s] = [r \in Receivers |-> IF r \in alive THEN @[r] - n ELSE @[r]]]

\* ctx_send_broadcasts: all receivers that are alive have a credit.  Those
\* that are back are revived; then, if they are a quorum, as many messages
\* as there are credits go out, after the ack receives have been refilled.
SendBroadcasts(s) ==
  LET alive == Alive(s)
      n == Min({Len(pending[s]), Available(s, alive)})
  IN  /\ pending[s] # <<>>
      /\ OutOfCredits(s) = {}
      /\ timeOutCnt' = [timeOutCnt EXCEPT ![s] = 0]
      /\ active' = [active EXCEPT ![s] = alive]
      /\ IF Cardinality(alive) < RemoteQuorum
           THEN UNCHANGED <<pending, credits, ackRecvs, mesNet>>
           ELSE /\ pending' = [pending EXCEPT ![s] = SubSeq(@, n + 1, Len(@))]
                /\ DecreaseCredits(s, alive, n)
                /\ ackRecvs' = [ackRecvs EXCEPT ![s] = AckRecvNum]
                /\ mesNet' = [mesNet EXCEPT ![s] =
                     [r \in Receivers |->
                        IF r \in alive THEN @[r] \o SubSeq(pending[s], 1, n)
                                       ELSE @[r]]]
      /\ UNCHANGED <<nextLid, pullLid, acked, receiverVars, ackNet, lost>>

\* Mutant: the newest operation of an ack counts as retired with the rest.
TooOldOffByOne(s, ack) ==
  \/ pullLid[s] = nextLid[s]
  \/ pullLid[s] >= ack.lid /\ pullLid[s] - ack.lid + 1 >= ack.num

\* od_is_ack_too_old: all that the ack speaks of has retired already.
TooOld(s, ack) ==
  \/ pullLid[s] = nextLid[s]
  \/ pullLid[s] >= ack.lid /\ pullLid[s] - ack.lid >= ack.num

\* Mutant: the part of the ack that has retired is not cut off its count.
AckedOpsUncut(s, ack) ==
  LET first == Max({ack.lid, pullLid[s]})
  IN  IF TooOld(s, ack) THEN {} ELSE first..(first + ack.num - 1)

\* ctx_find_when_the_ack_points_acked: the operations an ack counts for, less
\* those that have retired.
AckedOps(s, ack) ==
  LET first == Max({ack.lid, pullLid[s]})
      num == ack.num - (first - ack.lid)
  IN  IF TooOld(s, ack) THEN {} ELSE first..(first + num - 1)

\* Mutant: an ack returns one credit, however many messages it acks.
CreditsBackOne(s, r, ack) == Min({credits[s][r] + 1, MaxCredits})

\* ctx_increase_credits_on_polling_ack
CreditsBack(s, r, ack) == Min({credits[s][r] + ack.credits, MaxCredits})

\* The sender polls an ack of r.
PollAck(s, r) ==
  /\ ackNet[r][s] # <<>>
  /\ LET ack == Head(ackNet[r][s])
     IN  /\ credits' = [credits EXCEPT ![s][r] = CreditsBack(s, r, ack)]
         /\ acked' = [acked EXCEPT ![s] =
              [l \in Lids |-> IF l \in AckedOps(s, ack) THEN @[l] \cup {r}
                                                        ELSE @[l]]]
  /\ ackNet' = [ackNet EXCEPT ![r][s] = Tail(@)]
  /\ ackRecvs' = [ackRecvs EXCEPT ![s] = @ - 1]
  /\ UNCHANGED <<nextLid, pullLid, pending, active, timeOutCnt, receiverVars,
                 mesNet, lost>>

\* The protocol retires its oldest operation once a quorum holds it.
Retire(s) ==
  /\ pullLid[s] < nextLid[s]
  /\ Cardinality(acked[s][pullLid[s]]) >= RemoteQuorum
  /\ pullLid' = [pullLid EXCEPT ![s] = @ + 1]
  /\ UNCHANGED <<nextLid, acked, pending, credits, active, timeOutCnt, ackRecvs,
                 receiverVars, netVars>>

----------------------------------------------------------------------------
(* The receiver.                                                           *)

\* ctx_ack_insert refuses: the message does not follow the one before it.
\* Only a build with assertions looks.
Refused(r, s, mes) ==
  /\ EnableAssertions
  /\ ackToSend[r][s].num > 0
  /\ ackToSend[r][s].lid + ackToSend[r][s].num # mes.lid

\* ctx_ack_insert: a new ack, or one more message on the one that is there.
AckInsert(r, s, mes) ==
  LET ack == ackToSend[r][s]
  IN  ackToSend' = [ackToSend EXCEPT ![r][s] =
        IF ack.num = 0 THEN [lid |-> mes.lid, num |-> mes.num, credits |-> 1]
        ELSE [lid |-> ack.lid, num |-> ack.num + mes.num,
              credits |-> ack.credits + 1]]

\* ctx_poll_incoming_messages, for one message, whose handler inserts the
\* ack.  If that is refused the message stays to be polled again.
PollMessage(r, s) ==
  /\ mesNet[s][r] # <<>>
  /\ LET mes == Head(mesNet[s][r])
     IN  /\ ~Refused(r, s, mes)
         /\ AckInsert(r, s, mes)
         /\ received' = [received EXCEPT
              ![r][s] = @ \cup mes.lid..(mes.lid + mes.num - 1)]
  /\ mesNet' = [mesNet EXCEPT ![s][r] = Tail(@)]
  /\ mesRecvs' = [mesRecvs EXCEPT ![r] = @ - 1]
  /\ UNCHANGED <<senderVars, ackNet, lost>>

\* Mutant: no receives are posted as the acks go out.
RefillRecvsNot(r) == UNCHANGED mesRecvs

\* ctx_refill_recvs, for the broadcast queue pair.
RefillRecvs(r) == mesRecvs' = [mesRecvs EXCEPT ![r] = MesRecvNum]

\* od_send_acks: every ack that is begun goes out, and the receives of the
\* messages it acks are posted again before it does.
SendAcks(r) ==
  /\ \E s \in Senders : ackToSend[r][s].num > 0
  /\ RefillRecvs(r)
  /\ ackNet' = [ackNet EXCEPT ![r] =
       [s \in Senders |-> IF ackToSend[r][s].num > 0
                            THEN Append(@[s], ackToSend[r][s]) ELSE @[s]]]
  /\ ackToSend' = [ackToSend EXCEPT ![r] = [s \in Senders |-> NoAck]]
  /\ UNCHANGED <<senderVars, received, mesNet, lost>>

----------------------------------------------------------------------------
(* The network loses a message or an ack.                                  *)

NumLost == SumFunction([s \in Senders |-> SumFunction(lost[s])])

LoseMessage(s, r) ==
  /\ NumLost < MaxLost
  /\ mesNet[s][r] # <<>>
  /\ mesNet' = [mesNet EXCEPT ![s][r] = Tail(@)]
  /\ lost' = [lost EXCEPT ![s][r] = @ + 1]
  /\ UNCHANGED <<senderVars, receiverVars, ackNet>>

LoseAck(r, s) ==
  /\ NumLost < MaxLost
  /\ ackNet[r][s] # <<>>
  /\ ackNet' = [ackNet EXCEPT ![r][s] = Tail(@)]
  /\ lost' = [lost EXCEPT ![s][r] = @ + Head(ackNet[r][s]).credits]
  /\ UNCHANGED <<senderVars, receiverVars, mesNet>>

Loss == \E s \in Senders, r \in Receivers : LoseMessage(s, r) \/ LoseAck(r, s)

----------------------------------------------------------------------------
SenderRuns(s) ==
  AwaitCredits(s) \/ SendBroadcasts(s) \/ \E r \in Receivers : PollAck(s, r)

Next ==
  \/ \E s \in Senders :
       \/ \E n \in 1..MaxCoalesce : Insert(s, n)
       \/ SenderRuns(s) \/ Retire(s)
  \/ \E r \in Receivers :
       \/ \E s \in Senders : PollMessage(r, s)
       \/ SendAcks(r)
  \/ Loss

\* Each worker's loop comes to every one of its steps again and again.
Fairness ==
  /\ \A s \in Senders :
       /\ WF_vars(AwaitCredits(s) \/ SendBroadcasts(s))
       /\ WF_vars(Retire(s))
       /\ \A r \in Receivers : WF_vars(PollAck(s, r))
  /\ \A r \in Receivers :
       /\ WF_vars(SendAcks(r))
       /\ \A s \in Senders : WF_vars(PollMessage(r, s))

Spec == Init /\ [][Next]_vars
FairSpec == Spec /\ Fairness

----------------------------------------------------------------------------
(* Properties.                                                             *)

Messages == [lid : Lids, num : 1..MaxCoalesce]
Acks == [lid : Lids, num : 0..MaxOps, credits : 0..MaxCredits]

\* Every variable has its type; above all no count of credits or of posted
\* receives, all of them unsigned in the code, goes below zero.
TypeOK ==
  /\ nextLid \in [Senders -> 0..MaxOps]
  /\ pullLid \in [Senders -> 0..MaxOps]
  /\ acked \in [Senders -> [Lids -> SUBSET Receivers]]
  /\ \A s \in Senders : pending[s] \in Seq(Messages)
  /\ credits \in [Senders -> [Receivers -> 0..MaxCredits]]
  /\ active \in [Senders -> SUBSET Receivers]
  /\ timeOutCnt \in [Senders -> 0..(CreditTimeout - 1)]
  /\ ackRecvs \in [Senders -> 0..AckRecvNum]
  /\ mesRecvs \in [Receivers -> 0..MesRecvNum]
  /\ ackToSend \in [Receivers -> [Senders -> Acks]]
  /\ received \in [Receivers -> [Senders -> SUBSET Lids]]
  /\ \A s \in Senders, r \in Receivers :
       mesNet[s][r] \in Seq(Messages) /\ ackNet[r][s] \in Seq(Acks)
  /\ lost \in [Senders -> [Receivers -> Nat]]

\* No message and no ack ever arrives at a queue pair without a receive
\* posted for it, where the network card would drop it: what is on its way
\* to a machine, from all machines together, is never more than its receives.
ReceivesSuffice ==
  /\ \A r \in Receivers :
       SumFunction([s \in Senders |-> Len(mesNet[s][r])]) <= mesRecvs[r]
  /\ \A s \in Senders :
       SumFunction([r \in Receivers |-> Len(ackNet[r][s])]) <= ackRecvs[s]

CreditsOf(acks) == SumFunction([i \in DOMAIN acks |-> acks[i].credits])

\* A credit is in one place: with the sender, with a message on its way, with
\* an ack that is gathered or on its way, or lost with one of those.  So the
\* cap in ctx_increase_credits_on_polling_ack never comes to bear.
CreditsAccounted ==
  \A s \in Senders, r \in Receivers :
    credits[s][r] + Len(mesNet[s][r]) + ackToSend[r][s].credits
      + CreditsOf(ackNet[r][s]) + lost[s][r] = MaxCredits

\* No operation is counted as held by a machine that never received it
\* (od_netw_func.h, of ctx_ack_insert: after a gap "the old ack needs to be
\* sent, before we try again to insert").
AcksAreHonest ==
  \A s \in Senders, l \in Lids : \A r \in acked[s][l] : l \in received[r][s]

\* An operation retires only when a quorum of machines holds it, counting
\* across timeouts, revivals and lost messages.
RetiredByQuorum ==
  \A s \in Senders : \A l \in 0..(pullLid[s] - 1) :
    Cardinality({r \in Receivers : l \in received[r][s]}) >= RemoteQuorum

\* A message that is inserted is broadcast in the end: a machine that returns
\* no credits holds the others up only until the timeout.
BroadcastsGoOut == \A s \in Senders : pending[s] # <<>> ~> pending[s] = <<>>

\* Without losses every operation reaches its quorum and retires.
OpsRetire == \A s \in Senders : pullLid[s] < nextLid[s] ~> pullLid[s] = nextLid[s]
=============================================================================
