------------------------------ MODULE Circular ------------------------------
(***************************************************************************)
(* The two test clients that pass a turn round the ring of all machines    *)
(* (od_client.c, CLIENT_MODE BLOCKING_TEST_CASE and ASYNC_TEST_CASE): each *)
(* machine acquires the flag of the one before, reads some keys, writes    *)
(* them itself, resets the flag that it has acquired, by a relaxed write,  *)
(* and releases its own.  The two differ in what waits for what, which the *)
(* store leaves open.  A key's value is named after the machine that has   *)
(* written it (10 * machine_id + i).                                       *)
(***************************************************************************)
EXTENDS ReleaseStore

CONSTANTS
  RelaxedWrites,   \* RELAXED_WRITES
  MaxTurns         \* bound on the turns of all machines together

ASSUME CircularAssumption ==
  /\ RelaxedWrites \in Nat \ {0}
  /\ MaxTurns \in Nat

Flag(m) == <<"flag", m>>
Item(i) == <<"item", i>>
CircKeys == {Flag(m) : m \in Machines} \cup {Item(i) : i \in 1..RelaxedWrites}

\* Flags are 0 at first; Nobody is the value of a key that none has written.
Nobody == MachineNum
CircFirst == [k \in CircKeys |-> IF k[1] = "flag" THEN 0 ELSE Nobody]

VARIABLES
  step,    \* [m]: the request of m that takes effect next
  index,   \* [m]: i, the key of that request
  turns    \* how many flags have been released

circVars == <<rsVars, step, index, turns>>

\* "machine 0 kicks things off": it begins with the writes, without a turn.
CircOwnInit ==
  /\ step = [m \in Machines |-> IF m = 0 THEN "kick" ELSE "acquire"]
  /\ index = [m \in Machines |-> 1]
  /\ turns = 0

CircInit ==
  /\ RsInit(CircFirst)
  /\ CircOwnInit

\* The loop over the keys goes on, or is followed by st.
Advance(m, st) ==
  /\ index' = [index EXCEPT ![m] = IF @ = RelaxedWrites THEN 1 ELSE @ + 1]
  /\ step' = [step EXCEPT ![m] = IF index[m] = RelaxedWrites THEN st ELSE @]
  /\ UNCHANGED turns

Turn(m, st) ==
  /\ step' = [step EXCEPT ![m] = st]
  /\ UNCHANGED index

\* The values of machine 0, before it releases the first flag.
Kick(m) ==
  /\ step[m] = "kick"
  /\ Write(m, Item(index[m]), m)
  /\ Advance(m, "release")

\* Mutant: the flag is polled by relaxed reads.
AcquireFlagRelaxed(m) ==
  /\ step[m] = "acquire"
  /\ \E i \in Readable(m, Flag(PrevMachine(m))) :
       /\ ReadFrom(m, Flag(PrevMachine(m)), i)
       /\ written[Flag(PrevMachine(m))][i].value = 1
  /\ Turn(m, "read")
  /\ UNCHANGED turns

\* The flag of the machine before is acquired, until it is seen raised.
AcquireFlag(m) ==
  /\ step[m] = "acquire"
  /\ Acquire(m, Flag(PrevMachine(m)))
  /\ Turn(m, IF Last(Flag(PrevMachine(m))) = 1 THEN "read" ELSE "acquire")
  /\ UNCHANGED turns

ReadItem(m) ==
  /\ step[m] = "read"
  /\ \E i \in Readable(m, Item(index[m])) : ReadFrom(m, Item(index[m]), i)
  /\ Advance(m, "write")

WriteItem(m) ==
  /\ step[m] = "write"
  /\ Write(m, Item(index[m]), m)
  /\ Advance(m, "reset")

\* Mutant: the flag is left raised.
ResetFlagNot(m) ==
  /\ step[m] = "reset"
  /\ Turn(m, "release")
  /\ UNCHANGED <<rsVars, turns>>

ResetFlag(m) ==
  /\ step[m] = "reset"
  /\ Write(m, Flag(PrevMachine(m)), 0)
  /\ Turn(m, "release")
  /\ UNCHANGED turns

ReleaseFlag(m) ==
  /\ step[m] = "release"
  /\ turns < MaxTurns
  /\ turns' = turns + 1
  /\ Release(m, Flag(m), 1)
  /\ Turn(m, "acquire")

CircNext ==
  \E m \in Machines :
    Kick(m) \/ AcquireFlag(m) \/ ReadItem(m) \/ WriteItem(m) \/ ResetFlag(m)
      \/ ReleaseFlag(m)

CircSpec == CircInit /\ [][CircNext]_circVars

----------------------------------------------------------------------------
\* Every variable has its type.
CircTypeOK ==
  /\ \A k \in CircKeys : \A i \in DOMAIN written[k] :
       /\ written[k][i].value \in IF k[1] = "flag" THEN {0, 1} ELSE Machines \cup {Nobody}
       /\ \A j \in DOMAIN written[k][i].view : written[k][i].view[j] \in DOMAIN written[j]
  /\ \A m \in Machines : \A k \in CircKeys : seen[m][k] \in DOMAIN written[k]
  /\ step \in [Machines ->
       {"kick", "acquire", "read", "write", "reset", "release"}]
  /\ index \in [Machines -> 1..RelaxedWrites]
  /\ turns \in 0..MaxTurns

\* "make sure they are what they are supposed to be": whatever a machine may
\* read at its turn, late as the writes may come, the machine before has
\* written.
ReadsPreviousMachine ==
  \A m \in Machines : step[m] = "read" =>
    ReadableValues(m, Item(index[m])) = {PrevMachine(m)}

\* m is between the acquire that saw the flag and its release.
HasTurn(m) == step[m] # "acquire"

NextMachine(m) == (m + 1) % MachineNum

\* The flag of m is raised and the next machine has not seen it yet.
TurnOnOffer(m) == Last(Flag(m)) = 1 /\ ~HasTurn(NextMachine(m))

\* There is one turn, with a machine or on offer, and it is never lost: no
\* flag is reset after it has been raised again.
OneTurn == \E m \in Machines : {n \in Machines : HasTurn(n) \/ TurnOnOffer(n)} = {m}
=============================================================================
