--------------------------- MODULE AtomicRegister ---------------------------
(***************************************************************************)
(* What a key-value pair promises the threads that read and write it: a    *)
(* register.  A call takes effect at one instant between its begin and its *)
(* end, a read returns the whole of the value that is there at that        *)
(* instant.                                                                *)
(***************************************************************************)
CONSTANTS Workers, Values, InitialValue, NoValue

VARIABLES
  register,   \* the value of the pair
  status,     \* [w]: where worker w is in its call
  argument,   \* [w]: the value that w's write call is to store
  result      \* [w]: what w's last call, if it was a read, has returned

vars == <<register, status, argument, result>>

Init ==
  /\ register = InitialValue
  /\ status = [w \in Workers |-> "idle"]
  /\ argument = [w \in Workers |-> NoValue]
  /\ result = [w \in Workers |-> NoValue]

Moves(w, from, to) ==
  /\ status[w] = from
  /\ status' = [status EXCEPT ![w] = to]

BeginRead(w) ==
  /\ Moves(w, "idle", "reading")
  /\ result' = [result EXCEPT ![w] = NoValue]
  /\ UNCHANGED <<register, argument>>

Read(w) ==
  /\ Moves(w, "reading", "idle")
  /\ result' = [result EXCEPT ![w] = register]
  /\ UNCHANGED <<register, argument>>

BeginWrite(w, v) ==
  /\ Moves(w, "idle", "writing")
  /\ argument' = [argument EXCEPT ![w] = v]
  /\ result' = [result EXCEPT ![w] = NoValue]
  /\ UNCHANGED register

Write(w) ==
  /\ Moves(w, "writing", "written")
  /\ register' = argument[w]
  /\ UNCHANGED <<argument, result>>

EndWrite(w) ==
  /\ Moves(w, "written", "idle")
  /\ argument' = [argument EXCEPT ![w] = NoValue]
  /\ UNCHANGED <<register, result>>

Next ==
  \E w \in Workers :
    \/ BeginRead(w) \/ Read(w)
    \/ \E v \in Values : BeginWrite(w, v)
    \/ Write(w) \/ EndWrite(w)

Spec == Init /\ [][Next]_vars
=============================================================================
