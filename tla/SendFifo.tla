------------------------------ MODULE SendFifo ------------------------------
(***************************************************************************)
(* The fifo in which a queue pair gathers requests into messages           *)
(* (od_fifo.h, and od_insert_mes of od_main_loop_api.c): a ring of slots,  *)
(* one message each.  A request joins the message in the push slot unless  *)
(* the message or the replies to it would grow too large, or the protocol  *)
(* asks for a message of its own.  A message leaves from the pull slot.    *)
(*                                                                         *)
(* Only the worker that owns it uses a fifo, so that a step is a whole     *)
(* call.  The protocol keeps to what check_fifo asserts: never more        *)
(* messages than slots.                                                    *)
(***************************************************************************)
EXTENDS Integers, Sequences, SequencesExt, FiniteSetsExt, Functions

CONSTANTS
  MaxSize,     \* max_size, the slots
  MesHeader,   \* mes_header, the bytes before the first request
  SlotSize,    \* slot_size, the bytes of a slot
  Mtu,         \* MTU
  Sizes,       \* the sizes of requests
  RespSizes,   \* the sizes of the replies they ask for
  MaxReqs      \* bound on the requests inserted

ASSUME FifoAssumption ==
  /\ MaxSize \in Nat \ {0}
  /\ MesHeader \in Nat /\ Mtu \in Nat /\ MaxReqs \in Nat
  /\ SlotSize \in Nat
  /\ Sizes \subseteq 1..(SlotSize - MesHeader)
  /\ RespSizes \subseteq 0..Mtu

\* A slot has no room for as many requests as coalesce_num, of 16 bits, cannot
\* count.  The code asserts that a message fits the MTU, 4096 bytes.
ASSUME SlotAssumption == SlotSize < 65536

Slot == 0..(MaxSize - 1)
Requests == [id : 1..MaxReqs, size : Sizes, resp : RespSizes]

VARIABLES
  slots,         \* [i]: what slot_meta says of slot i, and its requests
  pushPtr,       \* push_ptr: the slot requests are added to
  pullPtr,       \* pull_ptr: the slot that is sent next
  capacity,      \* how many messages wait
  netCapacity,   \* how many requests wait
  inserted,      \* how many requests have been inserted so far
  message        \* the requests of the last message sent

vars == <<slots, pushPtr, pullPtr, capacity, netCapacity, inserted, message>>

\* reset_fifo_slot leaves a slot with nothing but the header.
FreshSlot ==
  [coalesceNum |-> 0, byteSize |-> MesHeader, respSize |-> 0, reqs |-> <<>>]

\* fifo_constructor gives a header to slot 0 only, the others are cleared.
Init ==
  /\ slots = [i \in Slot |->
                IF i = 0 THEN FreshSlot ELSE [FreshSlot EXCEPT !.byteSize = 0]]
  /\ pushPtr = 0
  /\ pullPtr = 0
  /\ capacity = 0
  /\ netCapacity = 0
  /\ inserted = 0
  /\ message = <<>>

\* mod_incr
ModIncr(i) == (i + 1) % MaxSize

\* Mutant: the replies are not limited.
NewMessageForSizeOnly(slot, r, breakMessage) ==
  \/ slot.byteSize + r.size > SlotSize
  \/ breakMessage /\ slot.coalesceNum # 0

\* The three reasons of get_send_fifo_ptr to begin a new message.
NewMessage(slot, r, breakMessage) ==
  \/ slot.respSize + r.resp > Mtu
  \/ slot.byteSize + r.size > SlotSize
  \/ breakMessage /\ slot.coalesceNum # 0

\* The request is written behind those that the slot holds.
AddTo(slot, r) ==
  [slot EXCEPT !.coalesceNum = @ + 1, !.byteSize = @ + r.size,
               !.reqs = Append(@, r)]

\* od_insert_mes, with get_send_fifo_ptr.  The reply is charged to the slot
\* that is open before the decision: a request that begins a new message has
\* been charged to the old one, and the fresh slot starts from nothing.
InsertMes(r, breakMessage) ==
  LET slot == [slots[pushPtr] EXCEPT !.respSize = @ + r.resp]
      isNew == NewMessage(slots[pushPtr], r, breakMessage)
      push == IF isNew THEN ModIncr(pushPtr) ELSE pushPtr
      target == AddTo(IF isNew THEN FreshSlot ELSE slot, r)
      messages == IF target.coalesceNum = 1 THEN capacity + 1 ELSE capacity
  IN  /\ messages <= MaxSize
      /\ r.id = inserted + 1
      /\ inserted' = r.id
      /\ slots' = [slots EXCEPT ![pushPtr] = slot, ![push] = target]
      /\ pushPtr' = push
      /\ capacity' = messages
      /\ netCapacity' = netCapacity + 1
      /\ UNCHANGED <<pullPtr, message>>

\* Mutant: the message that is sent last stays open for requests.
CloseNever(left) == UNCHANGED <<slots, pushPtr>>

\* When the fifo runs empty the slot that has just been sent is the push
\* slot: it is closed, and the next one opened.
CloseWhenEmpty(left) ==
  IF left = 0
    THEN /\ pushPtr' = ModIncr(pushPtr)
         /\ slots' = [slots EXCEPT ![ModIncr(pushPtr)] = FreshSlot]
    ELSE UNCHANGED <<slots, pushPtr>>

\* fifo_send_from_pull_slot, after the work request has been given the slot.
\* Broadcasts go by net_capacity (ctx_send_broadcasts), unicasts by capacity
\* (ctx_can_send_unicasts).
SendFromPullSlot ==
  LET slot == slots[pullPtr]
      left == netCapacity - slot.coalesceNum
  IN  /\ netCapacity > 0 \/ capacity > 0
      /\ message' = slot.reqs
      /\ netCapacity' = left
      /\ CloseWhenEmpty(left)
      /\ capacity' = capacity - 1
      /\ pullPtr' = ModIncr(pullPtr)
      /\ UNCHANGED inserted

Next ==
  \/ \E r \in Requests, breakMessage \in BOOLEAN : InsertMes(r, breakMessage)
  \/ SendFromPullSlot

Spec == Init /\ [][Next]_vars

----------------------------------------------------------------------------
(* Properties.                                                             *)

\* The slots of the messages that wait, in the order they will be sent.
WaitingSlots == [k \in 1..capacity |-> slots[(pullPtr + k - 1) % MaxSize]]

\* The two counts tell the same story: capacity counts the messages from the
\* pull slot to the push slot, none of them empty, net_capacity the requests
\* in them.  Callers go by one or by the other.
CountsAgree ==
  /\ \A k \in 1..capacity : WaitingSlots[k].coalesceNum > 0
  /\ netCapacity = SumFunction([k \in 1..capacity |-> WaitingSlots[k].coalesceNum])
  /\ IF capacity = 0 THEN pushPtr = pullPtr /\ slots[pushPtr] = FreshSlot
     ELSE pushPtr = (pullPtr + capacity - 1) % MaxSize

ReplyBytes(reqs) == SumFunction([k \in DOMAIN reqs |-> reqs[k].resp])

\* No message that waits outgrows its slot, and the replies to it fit the MTU
\* but for the reply to its first request, which get_send_fifo_ptr has charged
\* to the message before.
MessagesFit ==
  \A k \in 1..capacity :
    LET slot == WaitingSlots[k]
    IN  /\ slot.byteSize <= SlotSize
        /\ ReplyBytes(slot.reqs) - Head(slot.reqs).resp <= Mtu

Box == INSTANCE Mailbox WITH
  waiting <- FlattenSeq([k \in 1..capacity |-> WaitingSlots[k].reqs])

\* Every request leaves in one message, in the order of insertion, whatever
\* the slots wrap around and however messages are broken.
ImplementsMailbox == Box!Spec
=============================================================================
