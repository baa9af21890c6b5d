---------------------------- MODULE ReleaseStore ----------------------------
(***************************************************************************)
(* The store that the clients with flags rely on, which belongs to the     *)
(* protocol: it is modelled from how they use it (od_client.c 177-321 and  *)
(* 2793-2957).  Relaxed writes reach other machines late and in any order, *)
(* so that a relaxed read may return an old value; an acquire returns the  *)
(* last value of its key and, if that was released, whatever the machine   *)
(* that released it had seen or written by then is seen from there on.     *)
(*                                                                         *)
(* When a write reaches a machine is left open until the machine reads: a  *)
(* relaxed read picks any value not older than what was seen before.       *)
(***************************************************************************)
EXTENDS Integers, Sequences

CONSTANT MachineNum   \* MACHINE_NUM

ASSUME MachineAssumption == MachineNum \in Nat \ {0}

Machines == 0..(MachineNum - 1)

\* The machine that comes before m in the ring of all machines.
PrevMachine(m) == (MachineNum + m - 1) % MachineNum

VARIABLES
  written,   \* [k]: the values of key k in order, each with what an acquire
             \* of it makes visible
  seen       \* [m][k]: machine m sees the values of key k from this index on

rsVars == <<written, seen>>

NoView == <<>>   \* what a relaxed write makes visible besides its value

\* first: the keys with their first values.
RsInit(first) ==
  /\ written = [k \in DOMAIN first |-> <<[value |-> first[k], view |-> NoView]>>]
  /\ seen = [m \in Machines |-> [k \in DOMAIN first |-> 1]]

Put(m, k, v, view) ==
  /\ written' = [written EXCEPT ![k] = Append(@, [value |-> v, view |-> view])]
  /\ seen' = [seen EXCEPT ![m][k] = Len(written[k]) + 1]

Write(m, k, v) == Put(m, k, v, NoView)
Release(m, k, v) == Put(m, k, v, seen[m])

\* The value an acquire returns.
Last(k) == written[k][Len(written[k])].value

Acquire(m, k) ==
  LET view == written[k][Len(written[k])].view
      Joined(i, j) == IF j \in DOMAIN view /\ view[j] > i THEN view[j] ELSE i
  IN  /\ seen' = [seen EXCEPT ![m] = [j \in DOMAIN written |->
           IF j = k THEN Len(written[k]) ELSE Joined(@[j], j)]]
      /\ UNCHANGED written

\* The places in the order of its values that a relaxed read may read from.
Readable(m, k) == seen[m][k]..Len(written[k])
ReadableValues(m, k) == {written[k][i].value : i \in Readable(m, k)}

ReadFrom(m, k, i) ==
  /\ seen' = [seen EXCEPT ![m][k] = i]
  /\ UNCHANGED written
=============================================================================
