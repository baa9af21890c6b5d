------------------------------ MODULE Mailbox ------------------------------
(***************************************************************************)
(* What a send fifo promises: requests leave in the order in which they    *)
(* were put in, each in one message and none forgotten.  How many of them  *)
(* share a message is the fifo's to choose.                                *)
(***************************************************************************)
EXTENDS Naturals, Sequences

CONSTANT Requests

VARIABLES
  inserted,  \* how many requests have been put in
  waiting,   \* those that are in no message sent yet
  message    \* the last message sent

vars == <<inserted, waiting, message>>

Init == inserted = 0 /\ waiting = <<>> /\ message = <<>>

Insert(r) ==
  /\ inserted' = inserted + 1
  /\ waiting' = Append(waiting, r)
  /\ UNCHANGED message

Send(n) ==
  /\ message' = SubSeq(waiting, 1, n)
  /\ waiting' = SubSeq(waiting, n + 1, Len(waiting))
  /\ UNCHANGED inserted

Next ==
  \/ \E r \in Requests : Insert(r)
  \/ \E n \in 1..Len(waiting) : Send(n)

Spec == Init /\ [][Next]_vars
=============================================================================
