----------------------------- MODULE SendQueue -----------------------------
(***************************************************************************)
(* How a worker hands broadcasts to the network card: the linked work      *)
(* requests of a broadcast queue pair, posted as one list per batch, and   *)
(* selective signalling (od_rdma_gen_util.h, od_config_util.h,             *)
(* od_init_ctx.c, od_init_qp_meta.c, ctx_send_broadcasts), without         *)
(* multicast: a broadcast is one message per machine taken to be alive.    *)
(*                                                                         *)
(* The card keeps what is posted in a send queue of fixed depth and frees  *)
(* the entries of a message, and of all before it, when the worker polls   *)
(* the completion of a message that was flagged signaled.  The worker      *)
(* flags one message every so often and waits for its completion later:    *)
(* for a message that was never posted it would wait forever.              *)
(*                                                                         *)
(* Who is alive, and how many broadcasts the credits allow, comes from     *)
(* check_bcast_credits: see BcastFlow.                                     *)
(***************************************************************************)
EXTENDS Integers, Sequences, FiniteSets, FiniteSetsExt, Functions

CONSTANTS
  RemMachNum,     \* REM_MACH_NUM, the remote machines
  RemoteQuorum,   \* REMOTE_QUORUM
  MaxBcastBatch,  \* MAX_BCAST_BATCH: broadcasts that are posted together
  MinSsBatch,     \* MIN_SS_BATCH
  MaxMessages     \* bound on the broadcasts of a call of ctx_send_broadcasts

ASSUME QueueAssumption ==
  /\ RemMachNum \in Nat \ {0}
  /\ RemoteQuorum \in 1..RemMachNum
  /\ MaxBcastBatch \in Nat \ {0}
  /\ MinSsBatch \in Nat
  /\ MaxMessages \in Nat \ {0}

RmIds == 0..(RemMachNum - 1)
Batch == 0..(MaxBcastBatch - 1)

\* send_wr[RemMachNum * j + i]: the jth broadcast of a batch, to machine i.
Wrs == Batch \X RmIds
NULL == <<>>

\* Mutant: one broadcast fewer between two signals.
SsBatchShort ==
  IF MinSsBatch \div RemMachNum > MaxBcastBatch + 1
    THEN MinSsBatch \div RemMachNum ELSE MaxBcastBatch + 1

\* qp_meta_ss_batch_q_depth
SsBatch ==
  IF MinSsBatch \div RemMachNum > MaxBcastBatch + 2
    THEN MinSsBatch \div RemMachNum ELSE MaxBcastBatch + 2
SendQDepth == 2 * SsBatch * RemMachNum + 10

VARIABLES
  active,    \* send_vector: the machines taken to be alive
  next,      \* [w]: the next field of work request w
  sentTx,    \* sent_tx, of which only the value modulo ss_batch matters
  toSend,    \* broadcasts that this call has yet to forge
  brI,       \* br_i: broadcasts forged and not yet posted
  signaled,  \* the first work request is flagged IBV_SEND_SIGNALED
  queued,    \* messages in the card's send queue
  signals,   \* where in that queue the signaled messages are
  posted,    \* the last list posted: what the card follows, how many br_i
  pc         \* where in ctx_send_broadcasts the worker is

vars == <<active, next, sentTx, toSend, brI, signaled, queued, signals,
          posted, pc>>

\* init_ctx_send_wrs: each work request points to the next, the last of each
\* broadcast to none.
Init ==
  /\ active = RmIds
  /\ next = [w \in Wrs |->
               IF w[2] = RemMachNum - 1 THEN NULL ELSE <<w[1], w[2] + 1>>]
  /\ sentTx = 0
  /\ toSend = 0
  /\ brI = 0
  /\ signaled = FALSE
  /\ queued = 0
  /\ signals = {}
  /\ posted = [chain |-> <<>>, num |-> 0]
  /\ pc = "idle"

First == Min(active)
Last == Max(active)

----------------------------------------------------------------------------
(* Another set of machines is taken to be alive.                           *)

\* Mutant: only the work requests of the first broadcast are relinked.
LinksOfFirst(act) ==
  [w \in Wrs |->
     LET later == {i \in act : i > w[2]}
     IN  IF w[1] = 0 THEN IF w[2] \in act /\ later # {}
                            THEN <<0, Min(later)>> ELSE NULL
         ELSE next[w]]

\* update_bcast_wr_links: in every broadcast of the batch, an active machine
\* points to the next active one.  Of the others only those of the first
\* broadcast are reset.
Links(act) ==
  [w \in Wrs |->
     LET later == {i \in act : i > w[2]}
     IN  IF w[2] \in act /\ later # {} THEN <<w[1], Min(later)>>
         ELSE IF w[1] = 0 THEN NULL
         ELSE next[w]]

\* check_bcast_credits, by update_q_info after a timeout or revive_machine.
Reconfigure(act) ==
  /\ pc = "idle"
  /\ active' = act
  /\ next' = Links(act)
  /\ UNCHANGED <<sentTx, toSend, brI, signaled, queued, signals, posted, pc>>

----------------------------------------------------------------------------
(* ctx_send_broadcasts.                                                    *)

\* check_bcast_credits has found enough machines, and credits for n messages.
SendBroadcasts(n) ==
  /\ pc = "idle"
  /\ Cardinality(active) >= RemoteQuorum
  /\ toSend' = n
  /\ brI' = 0
  /\ pc' = "forge"
  /\ UNCHANGED <<active, next, sentTx, signaled, queued, signals, posted>>

\* After a broadcast has been forged: the batch is full, or it was the last.
AfterForge(br, left) ==
  IF br = MaxBcastBatch \/ left = 0 THEN "post" ELSE "forge"

\* Mutant: the completion is never waited for.
PollNever(tx) == FALSE

\* form_bcast_links waits for the completion of the last signaled message.
PollDue(tx) == tx % SsBatch = SsBatch - 1

\* The last message of a broadcast points to the first of the next.
Link(br) ==
  IF br > 0 THEN [next EXCEPT ![<<br - 1, Last>>] = <<br, First>>] ELSE next

\* ctx_forge_bcast_wr with form_bcast_links, up to its poll_cq; that the link
\* is made after the wait makes no difference to anyone.
Forge ==
  /\ pc = "forge"
  /\ signaled' = (signaled \/ sentTx % SsBatch = 0)
  /\ sentTx' = (sentTx + 1) % SsBatch
  /\ next' = Link(brI)
  /\ brI' = brI + 1
  /\ toSend' = toSend - 1
  /\ pc' = IF PollDue(sentTx + 1) THEN "poll"
           ELSE AfterForge(brI + 1, toSend - 1)
  /\ UNCHANGED <<active, queued, signals, posted>>

\* poll_cq returns with one completion: the oldest signaled message is done,
\* and with it those before.
Poll ==
  /\ pc = "poll"
  /\ signals # {}
  /\ LET done == Min(signals)
     IN  /\ queued' = queued - done
         /\ signals' = {s - done : s \in signals \ {done}}
  /\ pc' = AfterForge(brI, toSend)
  /\ UNCHANGED <<active, next, sentTx, toSend, brI, signaled, posted>>

\* The work requests the card finds when it follows the links from w, up to
\* one more than there are.
Chain(links, w) ==
  LET wr[k \in 1..(Cardinality(Wrs) + 1)] ==
        IF k = 1 THEN w
        ELSE LET v == wr[k - 1] IN IF v = NULL THEN NULL ELSE links[v]
  IN  RestrictValues(wr, LAMBDA v : v # NULL)

\* The last message of the last broadcast points to none.
End(br) == [next EXCEPT ![<<br - 1, Last>>] = NULL]

\* post_quorum_broadasts_and_recvs: the list is ended and posted, and the
\* flags of its first work request are reset.
Post ==
  /\ pc = "post"
  /\ next' = End(brI)
  /\ posted' = [chain |-> Chain(next', <<0, First>>), num |-> brI]
  /\ queued' = queued + Len(posted'.chain)
  /\ signals' = IF signaled THEN signals \cup {queued + 1} ELSE signals
  /\ signaled' = FALSE
  /\ brI' = 0
  /\ pc' = IF toSend > 0 THEN "forge" ELSE "idle"
  /\ UNCHANGED <<active, sentTx, toSend>>

Next ==
  \/ \E act \in SUBSET RmIds : Reconfigure(act)
  \/ \E n \in 1..MaxMessages : SendBroadcasts(n)
  \/ Forge
  \/ Poll
  \/ Post

Spec == Init /\ [][Next]_vars

----------------------------------------------------------------------------
(* Properties.                                                             *)

\* Every variable has its type, and positions in the send queue are taken.
TypeOK ==
  /\ active \subseteq RmIds
  /\ next \in [Wrs -> Wrs \cup {NULL}]
  /\ sentTx \in 0..(SsBatch - 1)
  /\ toSend \in 0..MaxMessages
  /\ brI \in 0..MaxBcastBatch
  /\ signaled \in BOOLEAN
  /\ queued \in Nat
  /\ signals \subseteq 1..queued
  /\ posted \in [chain : Seq(Wrs), num : 0..MaxBcastBatch]
  /\ pc \in {"idle", "forge", "poll", "post"}

\* What is posted is what was forged: each broadcast of the batch once to
\* every machine taken to be alive, to the others not at all, and an earlier
\* broadcast before a later one, whatever links earlier batches and other
\* sets of machines have left in the work requests.
ChainIsBroadcast ==
  [][posted' # posted =>
       LET chain == posted'.chain
       IN  /\ Range(chain) = (0..(brI - 1)) \X active
           /\ \A k, l \in DOMAIN chain :
                k < l => \/ chain[k][1] < chain[l][1]
                         \/ chain[k][1] = chain[l][1] /\ chain[k][2] < chain[l][2]
    ]_vars

\* Whenever the worker waits for a completion, a signaled message has been
\* posted: it is not among those that it will post only after the wait.
PollAnswered == pc = "poll" => signals # {}

\* The send queue never holds more than its depth, which is what the code
\* posts without asking.
SendQueueFits == queued <= SendQDepth
=============================================================================
