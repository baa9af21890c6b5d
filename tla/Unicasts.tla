------------------------------ MODULE Unicasts ------------------------------
(***************************************************************************)
(* How a worker sends the messages of a send fifo one by one to a leader   *)
(* (ctx_send_unicasts of od_main_loop_api.c): a message per credit, posted *)
(* as one list per call, with a completion to wait for every so often      *)
(* (selective_signaling_for_unicast).                                      *)
(*                                                                         *)
(* The leader sends no credits back.  The worker mirrors the leader's      *)
(* buffer (od_fifo.h, buffer mirroring): it remembers how many requests    *)
(* each message carried, and takes back a credit when the commits it has   *)
(* seen account for all of a message.  The count is passed in fewer bits   *)
(* than it has: a message of NumLimit requests or more is mirrored wrong,  *)
(* and nothing in the code keeps a message below that.                     *)
(*                                                                         *)
(* The leader is machine 0: ctx_can_send_unicasts looks at the credits of  *)
(* machine 0, ctx_send_unicasts takes one of the recipient's.              *)
(***************************************************************************)
EXTENDS SendFifo

CONSTANTS
  MaxCredits,    \* max_credits, the slots of the leader's buffer for us
  NumLimit,      \* 2^8, as add_to_the_mirrored_buffer takes a uint8_t
  SendWrNum,     \* send_wr_num, the work requests
  MinSsBatch     \* MIN_SS_BATCH

ASSUME UnicastAssumption ==
  /\ MaxCredits \in Nat \ {0} /\ NumLimit \in Nat \ {0}
  /\ SendWrNum \in Nat /\ SendWrNum >= MaxSize
  /\ MinSsBatch \in Nat

VARIABLES
  credits,    \* credits[0]
  sentTx,     \* sent_tx modulo ss_batch, as the code only uses that
  mesI,       \* mes_i: messages forged in this call
  flagged,    \* those of them that are signaled
  queued,     \* messages in the card's send queue
  signals,    \* where in that queue the signaled messages are
  at,         \* where in ctx_send_unicasts the worker is, or "aborted"
  mirror,     \* the mirrored buffer: ring of counts, pointers and capacity
  lasts,      \* the last request of each message the leader has been sent
  committed   \* how many requests have been committed

cardVars == <<sentTx, mesI, flagged, queued, signals, at>>
creditVars == <<credits, mirror, lasts, committed>>
uniVars == <<vars, cardVars, creditVars>>

MirrorSlot == 0..(MaxCredits - 1)

UniInit ==
  /\ Init
  /\ credits = MaxCredits
  /\ sentTx = 0
  /\ mesI = 0
  /\ flagged = {}
  /\ queued = 0
  /\ signals = {}
  /\ at = "idle"
  /\ mirror = [nums |-> [i \in MirrorSlot |-> 0], push |-> 0, pull |-> 0,
               capacity |-> 0]
  /\ lasts = <<>>
  /\ committed = 0

\* Mutant: no more messages between two signals than there are slots.
UniSsBatchShort == IF MinSsBatch > SendWrNum THEN MinSsBatch ELSE SendWrNum

\* qp_meta_ss_batch_q_depth
UniSsBatch == IF MinSsBatch > SendWrNum + 2 THEN MinSsBatch ELSE SendWrNum + 2
UniSendQDepth == 2 * UniSsBatch + 3

----------------------------------------------------------------------------
(* The protocol inserts a request.                                         *)

UniInsert(r, breakMessage) ==
  /\ at = "idle"
  /\ InsertMes(r, breakMessage)
  /\ UNCHANGED <<cardVars, creditVars>>

----------------------------------------------------------------------------
(* ctx_send_unicasts.                                                      *)

\* ctx_can_send_unicasts
CanSend == capacity > 0 /\ credits > 0

UniSend ==
  /\ at = "idle"
  /\ CanSend
  /\ at' = "forge"
  /\ UNCHANGED <<vars, sentTx, mesI, flagged, queued, signals, creditVars>>

\* selective_signaling_for_unicast waits for the last signaled message before
\* it lets this one pass.
UniPollDue == sentTx = UniSsBatch - 1

\* poll_cq has returned with one completion, if it was waited for.
Polled ==
  IF UniPollDue
    THEN /\ signals # {}
         /\ queued' = queued - Min(signals)
         /\ signals' = {s - Min(signals) : s \in signals \ {Min(signals)}}
    ELSE UNCHANGED <<queued, signals>>

\* add_to_the_mirrored_buffer, for one fifo: coalesce_num comes as a uint8_t.
AddToMirror(num) ==
  [mirror EXCEPT !.nums[mirror.push] = num % NumLimit,
                 !.push = (@ + 1) % MaxCredits,
                 !.capacity = @ + 1]

\* One turn of the loop: the send helper of the protocol mirrors the message,
\* ctx_forge_unicast_wr gives it the next work request, the fifo lets go of
\* it, and its credit is spent.
UniForge ==
  /\ at = "forge"
  /\ CanSend
  /\ mirror' = AddToMirror(slots[pullPtr].coalesceNum)
  /\ flagged' = IF sentTx = 0 THEN flagged \cup {mesI + 1} ELSE flagged
  /\ Polled
  /\ sentTx' = (sentTx + 1) % UniSsBatch
  /\ mesI' = mesI + 1
  /\ SendFromPullSlot
  /\ credits' = credits - 1
  /\ lasts' = Append(lasts, Last(slots[pullPtr].reqs).id)
  /\ UNCHANGED <<at, committed>>

\* The list goes to the card.
UniPost ==
  /\ at = "forge"
  /\ ~CanSend
  /\ queued' = queued + mesI
  /\ signals' = signals \cup {queued + k : k \in flagged}
  /\ flagged' = {}
  /\ mesI' = 0
  /\ at' = "idle"
  /\ UNCHANGED <<vars, sentTx, creditVars>>

----------------------------------------------------------------------------
(* A commit message arrives.                                               *)

\* Mutant: a message goes only when the commits reach beyond it.
CoveredLate(num, remove) == num < remove

\* The commits that remain cover the rest of a message.
Covered(num, remove) == num <= remove

\* One turn of the loop of remove_from_the_mirrored_buffer, with what is left
\* to remove and the credits won: the oldest message goes, or loses the rest.
RemovalTurn(t) ==
  LET num == t.buf.nums[t.buf.pull]
  IN  IF t.left = 0 THEN t
      ELSE IF Covered(num, t.left)
      THEN [buf |-> [t.buf EXCEPT !.pull = (@ + 1) % MaxCredits, !.capacity = @ - 1],
            left |-> t.left - num, won |-> t.won + 1]
      ELSE [buf |-> [t.buf EXCEPT !.nums[t.buf.pull] = num - t.left],
            left |-> 0, won |-> t.won]

\* The loop.  A turn that is not the last takes a message out, so that after
\* one turn more than there are slots it is over or has taken too many.
Removal(remove) ==
  LET turn[k \in 0..(MaxCredits + 1)] ==
        IF k = 0 THEN [buf |-> mirror, left |-> remove, won |-> 0]
        ELSE RemovalTurn(turn[k - 1])
  IN  turn[MaxCredits + 1]

\* The assertions of remove_from_the_mirrored_buffer fail: the buffer is empty,
\* or the loop takes a message from it when it has become so.
MirrorEmpty(n) == mirror.capacity = 0 \/ Removal(n).buf.capacity < 0

\* The leader has committed n more of the requests it was sent; the protocol
\* adds what the mirrored buffer yields to the credits.  This is the build with
\* ENABLE_ASSERTIONS; the other would go on with a capacity below zero.
Commit(n) ==
  /\ at = "idle"
  /\ n < 65536               \* remove_num is a uint16_t
  /\ lasts # <<>>
  /\ committed + n <= Last(lasts)
  /\ IF MirrorEmpty(n)
       THEN /\ at' = "aborted"
            /\ UNCHANGED creditVars
       ELSE /\ committed' = committed + n
            /\ mirror' = Removal(n).buf
            /\ credits' = credits + Removal(n).won
            /\ UNCHANGED <<at, lasts>>
  /\ UNCHANGED <<vars, sentTx, mesI, flagged, queued, signals>>

UniNext ==
  \/ \E r \in Requests, breakMessage \in BOOLEAN : UniInsert(r, breakMessage)
  \/ UniSend
  \/ UniForge
  \/ UniPost
  \/ \E n \in 1..MaxReqs : Commit(n)

UniSpec == UniInit /\ [][UniNext]_uniVars

----------------------------------------------------------------------------
(* Properties.                                                             *)

\* The messages that still hold a slot of the leader's buffer: those with a
\* request that is not committed.
Held == {k \in DOMAIN lasts : lasts[k] > committed}

\* The requests of a held message that are not committed.
Uncommitted(k) ==
  lasts[k] - Max({committed} \cup {lasts[j] : j \in 1..(k - 1)})

\* So far every message had fewer requests than the mirrored count can tell.
CountsFit ==
  \A k \in DOMAIN lasts :
    lasts[k] - (IF k = 1 THEN 0 ELSE lasts[k - 1]) < NumLimit

\* As long as the counts of the messages fit, the worker has the leader's
\* buffer right without ever being told of it: the mirror holds, from pull to
\* push, what of each message is uncommitted; the credits are the free slots;
\* and the assertions of add_to_the_mirrored_buffer (the leader's buffer does
\* not overflow) and remove_from_the_mirrored_buffer hold.
MirrorIsLeadersBuffer ==
  CountsFit =>
    /\ mirror.capacity = Cardinality(Held)
    /\ credits = MaxCredits - Cardinality(Held)
    /\ Cardinality(Held) <= MaxCredits
    /\ \A k \in Held :
         mirror.nums[(mirror.pull + k - Min(Held)) % MaxCredits] = Uncommitted(k)
    /\ at # "aborted"

\* Whenever the worker waits for a completion a signaled message has been
\* posted, one that this call has not merely forged; and the send queue has
\* room for the messages that are about to be posted.
SignalsAnswered ==
  /\ at = "forge" /\ CanSend /\ UniPollDue => signals # {}
  /\ queued + mesI <= UniSendQDepth
  /\ mesI <= SendWrNum
=============================================================================
