# Odyssey-lib in TLA+

Odyssey-lib is the C library under a family of replication protocols over RDMA:
a client API in shared memory, a key-value store with sequence locks, and a
network layer that coalesces, broadcasts, acknowledges and flow-controls
messages. The protocols themselves are in other repositories and plug in through
function pointers (`mfs`) and macros. This directory holds TLA+ modules for the
library's own logic, the TLC configurations that check them, and TLAPS proofs.
`PROJECT.json` maps every definition to the lines it models.

Source paths below are relative to the repository: `src/...` for code,
`include/...` for headers, in which much of the logic is inline.

## 1. Inventory

| Component | State | Operations | What is hard | What makes it correct |
|---|---|---|---|---|
| Client request interface (`src/client_api/od_interface.c`, `src/client/od_wrkr_side_calls.c`, the trace functions of `src/network_api/od_main_loop_api.c`, `od_debug_util.h`) | per session a ring of slots (state word, request), a push and a pull pointer of the client, a pull pointer of the worker, request counts | blocking, asynchronous strong/weak calls, `poll` and its callers; pick-up, in-progress and completion signals | two threads that share slot states but not pointers; completions out of order; a full ring; spinning calls | the pointers stay in step, no slot is reused early, FIFO results, calls return |
| Sequence lock and key-value pair (`od_generic_inline_util.h`, `od_kvs.h`) | a counter and a value of several words | lock, unlock, lock-free read with check, read and write of a pair | lock-free readers racing word-by-word copies; two writers; retry | one owner, no torn read, atomicity, progress |
| Credits, timeouts, quorum information (`od_config_util.h`) | credits per machine, active and missing machines, timeout count | check, decrease, timeout (`update_q_info`), revival | late acks of a machine given up; lost messages; unsigned counts | credits conserved, no wrap, progress past a dead machine |
| Broadcasts, polling, acks (`od_main_loop_api.c`) | posted receives, acks being gathered, local ids | broadcast, poll messages, gather and send acks, count acks | acks that straddle retired operations, gaps, shared receive queues | acks are honest, retired means held by a quorum, a receive for every message |
| Send fifo (`od_fifo.h`, `od_insert_mes`) | a ring of slots, push and pull pointer, two counts | insert with coalescing, send | wrap-around, a message closed while being sent, size limits | each request sent once and in order, limits, counts agree |
| Work requests and signaling (`od_rdma_gen_util.h`, `od_init_qp_meta.c`, `od_init_ctx.c`) | linked work requests, `sent_tx`, the card's queue | relink, link, flag, wait for a completion, post | stale links after a change of the live machines; waiting for what was not posted; a full send queue | what is posted is the broadcast, every wait is answered, no overflow |
| Unicasts and the mirrored buffer (`od_main_loop_api.c`, `od_fifo.h`) | credits for the leader, a ring that mirrors the leader's buffer | send, commits that give credits back | the leader never tells the state of its buffer; commits cover messages in part | the mirror is the leader's buffer |
| Key-value index (`src/mica/od_kvs.c`) | buckets of 8 slots, a log | populate, locate | clashes of tags, full buckets, the end of the log | what is inserted is found |
| Timestamps and ids (`od_generic_inline_util.h`) | none | comparisons, id conversions | widths, three-way comparisons | total order, inverse conversions |
| Client data structures (`src/client/od_client.c`) | stacks, queues, lists, flags held in the store | Treiber stack, Michael-Scott queue, Harris-Michael list, producer-consumer, a turn round a ring | concurrent CAS with counted pointers, node reuse; relaxed reads and writes around releases and acquires | linearizability, no node in two places, what is read after an acquire is what was released |
| Connection setup (`od_init_connect.h`) | attributes of queue pairs per machine, sockets, two flags per machine | fill, serve, connect, wait | every machine waits for all others | all get through, with all addresses |
| Process start (`od_main.c`, `od_worker.c`, `od_init_func.h`) | the store, threads and their cores | populate, spawn, pin | the arithmetic of pinning | a core for each thread |
| Multicast, `libhrd`, traces, statistics, hash, protocol selection | – | start-up and device I/O | mostly sequential | not modelled, see section 7 |

How they interact: a client thread writes a request into its session's slot; the
worker that owns the session picks it up in its loop, and the protocol reads or
writes the pair under the sequence lock and inserts messages into a send fifo.
The worker checks the credits, takes messages from the fifo, links and posts
work requests, polls its receive queues, gathers acks and sends them; an ack
returns credits and lets operations retire, in order, once a quorum has them;
the protocol then signals the request complete. Client and worker share the
slots, workers share the store, machines share the network; everything else
belongs to one worker. So interleaving matters in the first two components,
message loss and delay in the next two, and long sequences of calls in the fifo
and the work requests. The client data structures are programs above all this:
their sessions meet only in the store, through the consistency that the protocol
gives it. Setup and start run once, before any of it, on all machines at a time.

## 2. Modules

| Module | Models | Role |
|---|---|---|
| `RequestPipeline` | what the client API promises: a bounded FIFO pipeline per session | abstract |
| `ClientInterface` | the slot ring, both sides | detailed, refines `RequestPipeline` |
| `AtomicRegister` | what a pair promises: an atomic register | abstract |
| `Seqlock` | the sequence lock and a pair guarded by it | detailed, refines `AtomicRegister` |
| `BcastFlow` | credits, timeouts, broadcasts, acks, receives over a lossy network | a composition of sender and receiver |
| `Mailbox` | what a fifo promises: in order, once | abstract |
| `SendFifo` | coalescing of requests into messages | detailed, refines `Mailbox` |
| `SendQueue` | work request lists, selective signaling, the send queue | detailed |
| `Unicasts` | messages of the fifo sent to a leader, credits, the mirrored buffer, signaling; composes with `SendFifo`, which it extends | detailed, refines `Mailbox` |
| `Stacks`, `Queues`, `Sets` | what the three data structures promise | abstract |
| `TreiberStack` | the asynchronous Treiber stack client over the store | detailed, refines `Stacks` |
| `TreiberDebug` | its debug version, which compares what it reads with what it should have read | detailed, refines `Stacks` |
| `TreiberBlocking` | its blocking version, one session of each machine at one stack | detailed, refines `Stacks` |
| `MSQueue` | the Michael-Scott queue client | detailed, refines `Queues` |
| `HMList` | the Harris-Michael list client | detailed, refines `Sets` |
| `ReleaseStore` | the store as a client with flags sees it: relaxed accesses, releases, acquires | external |
| `Circular` | the test client that passes a turn round the machines | detailed, over `ReleaseStore` |
| `ProducerConsumer` | the producer-consumer client | detailed, over `ReleaseStore` |
| `ClientModes` | the choice of one of these (`CLIENT_MODE`) | composition of these |
| `MicaIndex` | the index of the store, its population and look-up | detailed |
| `Identifiers`, `Timestamps` | ids and timestamps | pure operators |
| `ConnSetup` | the exchange of queue pair attributes | detailed |
| `Startup` | `main` and the start of the workers | composition of `MicaIndex` and `ConnSetup` |
| `ClientInterfaceProofs`, `SeqlockProofs`, `SendQueueProofs`, `BcastFlowProofs`, `UnicastsProofs` (with `SendFifo`), `StartupProofs` (with `ConnSetup`, `MicaIndex`, `Identifiers`, `Timestamps`), `ClientModesProofs` (stacks, queues, rings and the types of all, in `ClientModes`) | theorems and proofs | proofs |
| `SumTheorems` | lemmas on sums over finite sets and on induction, which the proofs share | proofs |
| `MC*` and `MC*.cfg` | instances for TLC | model checking |

Operators named as mutants in a comment are deliberate bugs. They are used by no
specification; replacing the operator that follows by the mutant must make TLC
report the property that `PROJECT.json` names, which shows that the property
depends on the code.

### ClientInterface

A step is one access to a slot's state word, the only thing both sides write,
and the private pointer updates after it. Client actions: `Access` (entry of
`access_async` and `access_blocking` up to the test of the push slot),
`AccessPoll` (the `poll` of a call that found the ring full), `AwaitSlot`
(`poll_one_req_blocking`), `Fill` (`fill_client_op`), `Activate` (the store of
`ACTIVE_REQ`, the push pointer, the count), `AwaitResult`, `PollAsync`,
`PollBlocking`. Worker actions: `FindRequest`, the two reads of the debug check
(`CheckNext`, `CheckPrev`), `FillTraceOp`, `SignalInProgress`,
`SignalCompletion`. The protocol is external: it completes requests in any order
and may stall a session on one request. A client that fails an `assert` moves to
`"aborted"`, which stops the process. The client gets no fairness to begin a
call, only to go on with one.

`ImplementsPipeline` maps the ring to `RequestPipeline`: a request's phase is
read off the counts and off the slot that holds it. The abstract specification
carries weak fairness for starting and completing, so the refinement also says
that what is issued is served.

### Seqlock

A step is one atomic access: the load of the counter, the compare-and-swap, one
word of a copy, the store of the unlock. The barriers of the code order these,
and the models take them to be sequentially consistent. Words are copied in any
order, as `memcpy` promises none. `KVS_local_read` and `KVS_write` are the calls;
`EnableLockFreeReading` chooses between the two builds.

The refinement needs no prophecy: a lock-free read takes effect at the check
that accepts its copy, because the value then is the one copied; a read under
the lock when its last word is copied; a write takes effect when it
takes the lock. So `CurrentValue` is the value that the lock's owner is about to
have written, and the pair's words otherwise.

### BcastFlow

Senders and receivers, one worker each, and channels that lose but do not
reorder or duplicate (unreliable datagrams on one queue pair). Sender actions:
`Insert` (the protocol gives a message of consecutive operations),
`AwaitCredits` (a failed look at the credits, at the `CREDIT_TIMEOUT`th of which
`update_q_info` runs), `SendBroadcasts` (revival, available credits, sending,
refilling the ack receives), `PollAck` (credits back, the operations counted),
`Retire` (external: the protocol commits its oldest operation at a quorum).
Receiver actions: `PollMessage` with `ctx_ack_insert` in it, `SendAcks` with the
refill of the receives. `Loss` drops a message or an ack; `lost` is a history
variable of the credits that went with it.

The receiver's handler refuses a message when `ctx_ack_insert` does; the message
then stays first in its queue (`completed_but_not_polled`).

### SendFifo

One fifo, whole calls: `InsertMes` and `SendFromPullSlot`. A request has a size
and the size of the reply that it asks for. The code keeps the fifo within its
slots by an assertion on the protocol; here that is the guard of `InsertMes`.
`ImplementsMailbox` maps the slots that wait to one queue of requests.

### SendQueue

A broadcast is one work request per remote machine; `next` holds the links,
which `Reconfigure` (a timeout or a revival, see `BcastFlow`), `Forge` and
`Post` write in turn, nothing ever resetting them all. `Forge` flags the first
work request of the batch when `sent_tx` is a multiple of `ss_batch`; `Poll`
is the blocking `poll_cq`, enabled once a signaled message is posted; `Post`
ends the list, hands it to the card and clears the flag. The card is external:
it follows the links (`Chain`) and frees queue entries up to the completion
polled. `sent_tx` is kept modulo `ss_batch`, which is all that the code uses.

### TreiberStack

The asynchronous stack client of `od_client.c` (`treiber_push_pull_multi_session`
and the two state machines it drives), with the sessions of all machines. Each
session pushes the node that it owns on a stack, pops a node off it, which may be
another's, and takes that node to the stack that the counter `stack_id_cntr`
shows it. The counter is shared by the sessions of a client and no property
depends on its order, so the next stack is any stack. The store belongs to the
protocol and is external: requests take effect one at a time, those of a session
in the order in which they are issued, on which the client relies when it writes
a node and swaps the top without waiting in between (`PushWrite`, `PushCas`).
A step is the effect of one request together with what the session does on its
answer: the read of the top (`PushInit`, `PopInit`), the write of the node, the
read of the first node with the test for a stale one (`PopReadFirst`), the swaps
(`PushCas`, `PopCas`), which give a failed session the new top. Nodes of several
values (`TREIBER_WRITES_NUM` above 1) are one value here: only the first holds
the pointer.

`ImplementsStacks` maps the top and the pointers to sequences (`Contents`, which
is cut one node after as many as there are, so that a cycle would show). A push
and a pop take effect at their swaps. That nodes are in one place is part of it,
since the abstract stacks only ever move them.

`TreiberDebug` extends it by what the debug version keeps more: the nodes below
the first in the top (`hints`) and the stack that a node is on (`nodeStack`). A
popped node is written once more before the session moves on (`DbgPopWrite`).
Where the code finds that what it has read is not what it should be, it reads
again until it is; that this never happens is `DebugReadsHold`, a part of
`ClientsAssert`, and the loops are left out. The read of the session's own node
at a push, which only a printed message is about, is left out too.

In `TreiberBlocking` the pop returns -1 from an empty stack, which the push that
follows refuses (`BlkPopFrom`). The code's swap sets the key id and the count of
pops in a top on the machine's stack and leaves the other fields as they are; all
tops of the model have the same there, with which the swap, which compares whole
tops, succeeds most often. So the pushes are not counted and the pops are what
keeps an old top from being taken for the new one.

### Unicasts

`ctx_send_unicasts` is a loop over the messages that have a credit: `UniSend`
enters it, `UniForge` takes one message (signal, wait, mirror, the fifo's pull
side, the credit) and `UniPost` posts the list. `Commit` is external: the
protocol's leader commits requests in order and any number at a time, and the
code lowers the counts of the mirrored buffer (`Removal`) and wins credits.
`sent_tx` is kept modulo the batch of signals. `SignalsAnswered` is the
counterpart of `PollAnswered`; `MirrorIsLeadersBuffer` relates mirror and
credits to the messages that the leader really holds, which no variable of the
worker tells it.

A slot counts its requests in 16 bits (`SlotAssumption`: a slot is too small for
that to wrap), but `add_to_the_mirrored_buffer` takes the count as a `uint8_t`, so
that the mirror has it modulo `NumLimit`, 256 in the code. The property is
about what happens until a message with `NumLimit` requests or more is sent
(`CountsFit`); after that the mirror is wrong, and a commit may find the buffer
empty and run into the assertions of `remove_from_the_mirrored_buffer`
(`MirrorEmpty`), where the worker stops (`at = "aborted"`). Without
`ENABLE_ASSERTIONS` it would go on with a capacity below zero, which is not
modelled; while the counts fit the two builds do the same, since no assertion
fails. A call takes at most 65535 requests out (`remove_num`).

The refill of receives in the same function is in `BcastFlow`.

### MSQueue and HMList

Both as `TreiberStack`: a step is the effect of one request and what the session
does on its answer; the store is external and takes requests one at a time. This
includes that no read is stale, the relaxed ones neither
(`DeqReadTail` is `async_read_strong`, a plain read, at `od_client.c:1886`), and
that a weak swap fails only when it finds another value. That no dequeue takes
its branch for a tail that lags (`DequeueFindsNode`) rests on the first: with a
stale tail it could.

In `MSQueue` an enqueue reads tail, last node, tail again, links and swings the
tail; a dequeue reads head, tail, first node, head again, and swaps; a session
that finds the tail behind moves it on. `ImplementsQueues` maps the chain behind
the head to a sequence. `are_ms_ptrs_equal` asserts that both pointers name the
same queue (`QueueIdsAgree`); the set-up writes `queue_id` of heads and tails
from a stack variable that it leaves uninitialised, so whether it equals the 0
that other writes put there is a choice (`leftover`), and a session that fails
the assertion stops (`enqAborted`, `deqAborted`).

In `HMList` search, insert and delete share their search, which helps to unlink
marked nodes after `HM_MAX_WAIT_LOOPS` looks (`MayHelp`). A delete takes effect
at its mark (`ImplementsSets`), an insert at its link. `Revisits` says whether a
session may come back to a list it has been at, as in the code it does. With it
the properties of the list are refuted for two sessions already (finding 4). Without
it TLC finds them true of two sessions, which is what the passing run shows, and
refutes the code's assertions for three: so `Revisits` is what makes that
instance pass, not a condition under which the list would be right.

### Circular, ProducerConsumer and ReleaseStore

`ReleaseStore` keeps for each key all values in order and for each machine the
place up to which it must see them; a relaxed read takes any value from there
on, a release stores what its machine sees, an acquire joins it. Both clients
are state machines of one session per machine whose flags go round the ring of
machines. `Circular` polls by acquires and resets the flag before it with a
relaxed write that its release makes visible; `ProducerConsumer` polls by
relaxed reads and acquires once. `ReadsPreviousMachine` and `ReadsReleasedNode`
say that what is then read is not stale, and `OneTurn` that machines have turns
one at a time.

### ClientModes

`CLIENT_MODE` picks one program at compile time; the composition picks it in the
initial state, and the programs share the variables of the store.

### MicaIndex, ConnSetup and Startup

`MicaInsertOne` inserts one key, with any hash, the tests and assertions of the
code in order; `LookupsFindTheirKey` reads the whole log entry back. `ConnSetup`
has the server of machine 0 (one port per other machine, in turn), the clients,
which send and wait, and the workers, which wait for worker 0. `Startup` adds
population, spawning and `pin_thread`.

### Identifiers and Timestamps

Operators with the widths of the code (`UInt16`, `UInt8`); `StartupProofs` has
the theorems about them.
The six comparisons of timestamps that differ in where the fields lie are one
operator, `compare_ts_generic` is another.

## 3. Runs

| Run | Instance | Shows |
|---|---|---|
| `client_interface` | 1 session, 3 slots, 7 requests | pointers stay in step, assertions hold, requests are stable, FIFO pipeline, calls return |
| `weak_call_aborts` | 2 slots, assertions compiled in | finding 1 |
| `prev_slot_assert` | 3 slots, debug build | finding 2 |
| `seqlock` | 3 workers, 2 words, 2 writes, unlimited lock-free reads | exclusion, atomic register, calls finish |
| `bcast_flow` | 1 sender, 2 receivers, 2 credits, 4 operations, 1 loss | credits, receives, acks, quorums; broadcasts go out |
| `bcast_flow_shared` | 2 senders, 2 receivers, 1 credit, no loss | shared receives suffice; every operation retires |
| `ack_gap_default` | `ENABLE_ASSERTIONS` 0 | finding 3 |
| `send_fifo` | 3 slots, 5 requests, 2 sizes, 2 reply sizes, 3 credits, mirrored counts below 4, signals every 5 | requests sent in order and once, messages fit, counts agree, the mirror is the leader's buffer while the counts fit, waits are answered |
| `send_queue` | 3 machines, batches of 2, periods of 4 broadcasts | the posted list is the broadcast, waits are answered, no overflow |
| `clients` | 3 sessions at stacks or queues, 2 at lists, 3 machines in the rings | refinement of stacks, queues and sets, the clients' assertions, a failed attempt means another's success, one turn, no stale read |
| `hm_list_aba` | 2 sessions, 2 lists, sessions come back | finding 4 |
| `startup` | 3 machines, 2 workers and a client each, 3 keys, 2 buckets of 2 slots, any hashes, 2 kinds of hardware | look-ups find their key, own cores, all addresses, all workers start |

### Why the bounds are enough

* Sessions share nothing in `ClientInterface`, so one is enough. Three slots are
  the least for which previous, own and next slot differ, and seven requests
  wrap the ring twice and leave one over. The safety properties are proved for
  any ring, any number of sessions and of requests.
* Two words are the least that can be torn; two writes let a reader see the
  value before, between and after; with three workers two can write while one
  reads. The safety is proved for any numbers.
* In `BcastFlow` two receivers and a quorum of one let a machine be given up
  and taken back while the other goes on. Four operations in messages of one or
  two let an ack begin in operations that have retired and end in others. With
  two credits a message can be lost, a timeout pass and a second message follow.
  Two senders are checked apart, with one credit, for the receives that they
  share; for the rest a sender's state depends on no other sender.
* Five requests over three slots wrap the fifo; the sizes fill a slot exactly
  and overfill it by one, and the replies reach the MTU in one or in two. Three
  credits run out before the requests do; commits of any number split messages
  and span them. A message has one to four requests and the mirrored counts go up
  to three: the largest that fits occurs and the smallest that does not, and the
  assertions on the mirrored buffer do fail after that.
* In `SendQueue` three machines give every shape of live set (a first, a middle
  and a last one missing). The period is at the minimum `MAX_BCAST_BATCH + 2`,
  where waiting is tightest; calls of up to five broadcasts leave full and
  partial batches at every point of the period. `sent_tx` is cyclic, so that the
  state space is finite without any bound on time.
* In `TreiberStack` a round is a push and the pop after it, of any session. A
  swap that compares key ids alone soon spoils the counters; for it to spoil
  what the stacks hold, the old top must come back to its stack and point
  elsewhere, which takes six rounds: with five, or with two sessions and ten,
  TLC finds `ImplementsStacks` true of that swap here (at the one stack of the
  blocking version it fails sooner). In the debug version five
  rounds are the least that bring three nodes onto one stack, where the top knows
  two nodes below the first; the blocking version has as many. Sessions are interchangeable,
  and the run uses the symmetry, which is sound as all of its properties are
  safety.
* In `MSQueue` four rounds of three sessions are enough for a session to fall
  behind a tail and for a node to be enqueued again: swaps and comparisons by key
  alone break both the queue and the assertions. The lists are checked with two
  sessions and two lists, with a node that is never deleted in each list before
  which or behind which the others go.
* Three machines are the least for which the machine before is not the machine
  after; five turns, or three releases each, bring machine 0 its second turn.
* Three keys in two buckets of two slots clash by tag, fill a bucket, and run
  over the smaller log, and each also does not. Three machines give machine 0
  two ports to serve in turn. The two kinds of hardware reach all branches of
  `pin_thread` that four cores have.

The deadlock check is on for `SendQueue`, whose worker must never stop. The other
systems stop when the bound on requests or operations is used up.

### Fairness

* `ClientInterface`: a thread inside a call runs on; the worker's loop visits
  every session (`od_pull_request_from_this_session` is tried for each); the
  protocol completes what it has begun, which is the assumption on the code that
  is not here. Nothing makes a client call.
* `Seqlock`: a thread in a call is scheduled. Progress of readers needs the
  writes to end, which the bound on locked calls gives: with writers that never
  pause the code's readers may indeed spin forever.
* `BcastFlow`: each worker's loop comes to polling, sending and acknowledging
  again and again, and the protocol retires what has its quorum. No fairness is
  given to the network's losses.
* `Startup`: every thread goes on while it can; none is waited for but by
  looking at what it has written. Sockets lose nothing.
* The data structures state no liveness, since the retry of one session is owed
  to the success of another: `RetryMeansProgress` says exactly this of the
  stacks, as a property of steps, and with it sessions that run out of work end
  all retries. The rings would need the protocol's promise to deliver.
* `SendFifo` and `SendQueue` state safety only.

## 4. What TLAPS proves

For every value of the constants that meets the module's assumption.

`ClientInterfaceProofs`: `TypeCorrect`, `PointersStayInStep`
(`PointersMatchSlots`), `AssertionsNeverFail` (`AssertionsHold`) and
`RequestsAreStable` (`RequestStable`). The inductive invariant is
`TypeOK /\ SessionInv`. `SessionInv` has two parts: `RingFits`, which is
`PointersMatchSlots` of a session, and `ControlFits`, which says what each
control state knows of the slot that it is about to touch (a client in `fill` has
found its push slot free; a worker past `scan` has found its slot active, and
nobody but the worker changes an active slot). The first part alone is not
inductive: `Activate` keeps it only because the slot is still free, which
`ControlFits` remembers from an earlier step. Each action moves one boundary of
the walk round the ring by one slot; the lemmas on `Offset` and `NextSlot` say
how that looks from the pull pointer.

`PipelineSteps` is `ImplementsPipeline` without its fairness (`Pipeline!Safety`).
Its invariant adds `RequestsFit`, which request lies in which slot: the one at
distance k from the pull pointer is number k + 1 after the last that was returned,
and the worker's copy is that of the slot. So the ring alone tells the phase of each
request (`PhasesKnown`), and a step that moves a pointer or changes a slot's state
advances one request: an activation the next one, a pick-up the oldest that is not
started, a poll the oldest of all.

`SeqlockProofs`: `TypeCorrect`, `LockIsExclusive` (`LockExcludes`) and
`PairIsARegister` (`Spec => Register!Spec`). The inductive invariant is
`TypeOK /\ LockExcludes /\ WorkerInv`. `WorkerInv` ties a worker's loaded
counter to the lock (`LoadFits`: what was loaded is never ahead of the
counter, is even where a copy or a swap relies on it, and is the counter itself
when the unlock is about to be stored), its control state to its call
(`CallFits`), and its words to the pair (`WordsMatch`: if the counter has not
moved since the load, the words copied are those of the pair). The last is what
lets a check of the counter alone accept a copy. The refinement maps each step
to a step of the register or a stutter, action by action.

`SendQueueProofs`: `PollsAreAnswered` (`PollAnswered`). The invariant is about
`sent_tx` against `br_i`: a flag that is not yet posted was set in this batch, so
`sent_tx <= br_i <= MAX_BCAST_BATCH`; the wait comes at
`sent_tx = ss_batch - 1 > MAX_BCAST_BATCH`; and from flag to wait there is a
flag or a posted signal. The code's `MAX_BCAST_BATCH + 2` is what makes the
middle inequality true; with `+ 1`, TLC finds the worker waiting for a message
that it holds in its own hands.

The same module proves `ListsAreBroadcasts` (`ChainIsBroadcast`), `QueueIsBounded`
and `QueueHolds` (`SendQueueFits`).

* `LinksInv`: in every broadcast of a batch the active machines are linked in
  order, whatever stale links the other work requests hold, and a forged
  broadcast is linked to the next. Nothing is said of the last link of a broadcast
  not forged, which may lead anywhere: it is written before it is followed. A walk
  along such links goes strictly up in rank, so that it ends, and leaves
  nothing out (`ChainIsList`).
* `QueueInv`: at most one signal is under way. What is behind it in the queue is
  what was forged since its batch began, what is before it is what the wait for
  the signal before has left, and broadcasts not posted are counted as if posted
  (`Due`). All is counted in broadcasts times machines; `QueueNumbers` turns the
  products into sums.
* The bound is `(2 * SsBatch + MAX_BCAST_BATCH - 3) * REM_MACH_NUM - 1`, for every
  value of the constants. It is within the depth that the code gives the queue
  if `(MAX_BCAST_BATCH - 3) * REM_MACH_NUM <= 11`, the hypothesis of `QueueHolds`:
  so with the defaults and up to 11 remote machines, and not with 12 (see 5).

`BcastFlowProofs`: `Types` (`TypeOK`), `CreditsSafe` (`CreditsAccounted`),
`ReceivesSafe` (`ReceivesSuffice`), `HonestAcks` (`AcksAreHonest`) and
`QuorumRetires` (`RetiredByQuorum`), the last two with the hypothesis
`EnableAssertions`: without it finding 3 refutes the first. The inductive
invariant is `IInv`:

* `Shape`, the types that each step keeps by itself; that no count wraps below
  zero is not among them, and follows from the other parts.
* `CreditsAccounted` needs no other part but is needed by them.
* `MesRecvsLeft`: the receives posted at a machine and the credits of the acks
  that it gathers are constant in sum. With `CreditsAccounted` this is why a
  message finds a receive.
* `AckRecvsLeft` and `AckRecvsFit`: a sender has a receive for each credit it has
  given away, and no more than there is room for. A sum over machines changes in
  one place at a time, which is what `SumTheorems` is for.
* `AcksReturnCredits`: every ack under way returns a credit at least. Without it an
  ack could use up a receive and give nothing back.
* `InOrder` and `ReceivedWereSent`: messages, the ack that gathers them and what has
  been acked follow one another by local id. The broadcasts of several machines
  are each in order, but nothing orders them with each other.

`HonestInv` adds `AcksSpeakTrue` (the ack that is gathered and those under way
speak only of operations received), which the assertion on gaps makes inductive.

`UnicastsProofs`: `CountsHold` (`CountsAgree`), `MessagesHold` (`MessagesFit`),
`SignalsAreAnswered` (`SignalsAnswered`) and `MirrorIsRight`
(`MirrorIsLeadersBuffer`), of a fifo under `ctx_send_unicasts`, and
`FifoIsAMailbox` (`ImplementsMailbox`).

* `FifoInv` is `FifoShape /\ CountsAgree /\ WaitingFit`. A waiting message fits its
  slot; the code charges a reply to the message before the one it goes into when
  it opens a new one, so that `respSize` bounds the replies to all but the first
  request (`SlotFits`). An insertion goes one of three ways (an empty fifo, an open
  message, a new message), and each is a lemma.
* `FifoIsAMailbox` (`ImplementsMailbox`) is a theorem of the fifo alone: what waits,
  its messages one behind the other, grows at its end by an insertion, whichever
  of the three ways that goes, and loses its beginning with a message. That the
  community modules' `FlattenSeq` joins sequences in order is proved by induction
  over their number (`FlattenLast`, `FlattenFirst`).
* `CardInv`: at most one signal is under way, in the card's queue or in the list not
  yet posted, at the distance that `sent_tx` says. A list is shorter than a period
  (`BatchSize`), so the flag is posted before the wait.
* `MirrorInv`, which holds while the counts fit: requests are numbered without a gap through the waiting messages
  (`Numbered`), the messages sent end at increasing ids (`Growing`), and the
  mirrored buffer holds from `pull` what is not committed of the messages that
  are not committed whole (`Mirrors`). `remove_from_the_mirrored_buffer` is a
  loop: the proof is by induction over its turns (`TurnKeeps`), each of which ends
  it or wins a credit, so that it ends in as many turns as there are slots
  and one, and never takes a message from an empty buffer. That the count of a
  message is stored as it is follows from `CountsFit` after the step (`LastFits`);
  counts that fit after a step have fitted before it (`CountsFitBefore`), which
  makes the conditional invariant inductive. A protocol can see that its counts
  always fit from `slot_size`, at most the MTU of 4096 bytes: requests of 16
  bytes or more do.

`StartupProofs`: `StartsComplete` (`StartsWithAllAddresses`), `LookupsAreRight`
(`LookupsFindTheirKey`), `CoresStayOwn` (`CoresAreOwn`), and what holds of ids and
timestamps.

* `CsInv`: the count of workers that have filled in their addresses is the number
  of those that have (`CsFilled`), what lies in a socket is complete for who sent
  it (`CsServed`), and worker 0 makes its address handles out of everything
  (`CsConnected`).
* `MiInv`: some slot of its bucket leads to every key inserted (`EveryKeyIsThere`), and
  the tags of a bucket differ (`TagsDiffer`). Both are kept because an insertion
  that would break them aborts. The log does not run over, since the code
  asserts the room that is left after each insertion.
* `CoresAreOwn` is arithmetic (`Placed`, `PinnedApart`), over the kinds of machine that
  `od_top.h` describes: two sockets, hyperthreads or not, cores numbered one by
  one or alternating. `StartupAssumption` asks that one core stay free (see 5).
* `GIdsReturn`, `RmIdsReturn`, `SessionIdsFit`: ids are found again from what they are
  packed into. Their hypotheses name the widths: a machine's global ids need
  `WORKERS_PER_MACHINE * MACHINE_NUM <= 2^16`, session ids
  `SESSIONS_PER_MACHINE * MACHINE_NUM <= 2^16`, which no assertion of the code
  checks. The argument is division with remainder (`Numbering`).
* The comparison of timestamps is total, antisymmetric and transitive, and carstamps
  are compared lexicographically. `compare_ts_generic` agrees with it for
  timestamps that come from messages (`GenericComparesMessages`); of two
  regular ones it takes both from the first and finds them equal
  (`GenericRegularsAreEqual`). Nothing in this library calls it.

`ClientModesProofs` is about whichever client `CLIENT_MODE` names; a program that
does not run keeps its initial state (`StacksIdle` and the like).

* The stacks: `StacksImplemented` (`ImplementsStacks`, for all three versions),
  `StacksAsserted` and `RetriesProgress` (`RetryMeansProgress`). The inductive
  invariant is `StacksInv`.
  `NodesPlaced` says that each node is in one place: on one stack, once, or in the
  hands of one session. It is stated of any sequences that begin at the tops and
  follow the pointers (`Placed`), and `ChainIsFound` shows that `Contents`,
  which walks the pointers for as many steps as there are nodes, finds them:
  there are no more nodes than that, so that a walk cannot be cut short.
  `StacksCount` ties the difference of the counters to the number of nodes, and that
  to the number of sessions that have pushed and not yet popped; this is why a
  pop finds a node.
  `StacksKnown` is what a session knows of what it has read. A push knows that its
  node points to the top it has read. A pop knows that as long as the count of
  pops has not moved, the node that was first is still on the stack and points
  where it pointed when it was read (`PopKnows`); more nodes may lie on it. The
  swap compares the whole top, so that when it succeeds both are current.
  That fails if the count is left out, since a node may come back with another
  pointer. `StacksDebug` adds the hints and marks of the debug version.
  Each step is the effect of one request, on the store and on one session.
* The queues: `QueuesImplemented` (`ImplementsQueues`), by `QueuesInv`. Each node is
  in one place, and each queue has its dummy (`ChainsPlaced`). A queue has one
  node more than there are sessions that have linked and not yet taken one
  (`ChainsCount`). The tail is at the last node, or at the one before while the
  session that has linked the last has yet to swing it (`TailNear`): so it never
  falls behind the head, and the code's branch for that case is never taken.
  `MsKnows` is what sessions know by the counters: a head or a tail with
  the counter that was read is the one that was read, and a node whose pointer has
  the counter that was read while the tail did not move is still the last. A
  node keeps its counter from queue to queue, which is what the list does not do.
* `ClientsAsserted` (`ClientsAssert`) puts the assertions of both together, and
  `ClientsTyped` (`ClientsTypeOK`) the types of all clients. For the list the types
  need an invariant (`HmInv`): a session that is about to read a node's pointer has
  been led to a node. For the rings they need the bounds on turns and releases
  (`FlagsBounded`).
* The rings: `TurnsStayOne` (`OneTurn`), `TurnsCarryWrites`
  (`ReadsPreviousMachine`), `ReleasesCarryNodes` (`ReadsReleasedNode`). The store may
  return any value that is not older than what a session has seen. What makes
  that harmless is the invariant: in `CircInv` one machine holds the turn or
  offers it (`HoldsTurn`, `OffersTurn`), the release of the flag carries a view of
  all that has been written before it, and who acquires the flag has seen the
  last value of each key (`MayRead`), so that a relaxed read has no choice. A
  flag is never raised twice before it is reset. In `PcInv` the same is said node
  by node (`NodeInv`): between a release and the next acquire a node is as it was
  released, and the reader has seen all of what it has yet to read (`Reading`).
  Whose turn it is follows from the counts of releases and acquires (`PcTurn`).

`SumTheorems`: the rules for induction of the library take an operator as a
parameter, so induction is stated of a set of numbers and derived from the
well-foundedness of `<`. The sums of the community modules are folds over a
function that is chosen; that it exists, and that a sum changes as its terms do,
is proved by induction over finite sets.

Not proved, but checked by TLC on the instances above:

* liveness (`CallsReturn`, `CallsFinish`, `BroadcastsGoOut`, `OpsRetire`,
  `AllWorkersStart`) and the fairness in `ImplementsPipeline`: the prover has no rule
  for it.
* `ReusedWhenUnlinked` and `ImplementsSets` of the list, which are checked for two
  sessions that do not come back. They are not to be had for every value of
  the constants: finding 4 is why.

## 5. Findings

1. `access_async` (`od_interface.c:253`): a weak call on a full ring runs
   `assert(false)` before the return that the comment at line 334 promises.
   `WeakCallReturns`, run `weak_call_aborts`.
2. `check_client_req_state_when_filling_op` (`od_debug_util.h:82-85`): the
   comment's claim on the previous slot fails when the client issues two
   requests between the two reads. `PrevInactiveIfNextInactive`, run
   `prev_slot_assert`.
3. `ctx_ack_insert` (`od_main_loop_api.c:307-328`): the test for a gap is
   compiled out in the default build, so that an ack grows over operations the
   machine was never sent. `AcksAreHonest`, run `ack_gap_default`. With
   `ENABLE_ASSERTIONS` the property holds (run `bcast_flow`).

4. `hm_fill_new_node_ptr_new_curr_ptr` (`od_client.c:2319`): the pointer of an
   inserted node starts at counter 0 each time, so that a node deleted and
   inserted again in the same list is, to a delayed swap, the old one; the list
   loses nodes and the assertion at line 2572 fails. `DeleteFindsOwnNode`, run
   `hm_list_aba`.

   With three sessions the assertions fail even if no session ever comes back to
   a list, since `hm_ptrs_are_equal` (lines 2155-2164) compares node, counter and
   mark but not the list. A session holds the pointer of a node of list 1; that
   node and the one behind it are deleted and both inserted in list 3, where the first
   again points to the second with counter 0; the second look at the pointer finds
   it equal, and the session goes on in list 3. The assertion at line 2414
   (`NextIsInList`) fails first, and the one at line 2572 some steps later. This is
   `MCHMListMoves.cfg`, which is not among the runs above: an action constraint
   (`MeetAtListOne`) brings sessions 2 and 3 to list 1 while session 1 waits there
   and leaves everything after that free, so that TLC comes within seconds to a
   counterexample of some 70 steps, all of them steps of the list.
   A queue's nodes keep their counters, and there the same look is proved right.

Observations that no run is about:

* The comment at `od_kvs.c:129-131` says that used slots are at the beginning of a
  bucket; the loop that follows takes the last free one, so that they are at its
  end. `LookupsFindTheirKey` holds all the same, since the loop looks at all.
* `pin_thread` treats the last core as out of range. As many threads as cores
  would share one (`StartupAssumption` asks for one core more).
* `ctx_can_send_unicasts` looks at the credits of machine 0 while
  `ctx_send_unicasts` takes one of the recipient's (`rm_id`), and with one
  recipient only one row is there: right only if machine 0 leads. The code calls
  this path not well tested.
* `add_to_the_mirrored_buffer` (`od_fifo.h:359`) takes as `uint8_t` what a slot
  counts in 16 bits. 256 requests of less than 16 bytes fit a message of 4096
  bytes; such a message is mirrored as one of no requests, and the first commit
  that comes to it gives its credit back while the leader still holds it. In `Unicasts`
  TLC finds `MirrorIsLeadersBuffer` violated when its condition `CountsFit` is
  taken away. Nothing in this repository sends such messages.
* `compare_ts_generic` reads both timestamps from its first argument where the
  second is regular (lines 317 and 319 of `od_generic_inline_util.h`).
* The trace client's sessions share one value buffer per worker.

Another, with numbers: the depth of the broadcast send queue
(`od_init_qp_meta.c:74`) is two periods of signals and ten entries, which is
not quite the worst case: the flag sits on the first message of a batch, not of
the broadcast that asked for it, and a batch may follow the wait. With the defaults (`MAX_BCAST_BATCH` 4, `MIN_SS_BATCH`
127) `SendQueue` with a fixed set of machines fits for 11 remote machines and
has 251 entries in a queue of 250 for 12.

## 6. Plan

Order of the work, most important behaviour first. All is done, but for what is
said there.

1. `ClientInterface`, `RequestPipeline` and proofs.
2. `Seqlock`, `AtomicRegister` and proofs.
3. `BcastFlow`: safety, liveness, loss.
4. `SendFifo`, `Mailbox`; `SendQueue` and the proof of `PollAnswered`.
5. Client data structures: `TreiberStack`, `TreiberDebug`, `TreiberBlocking`,
   `MSQueue`, `HMList`, the rings over `ReleaseStore`, `ClientModes`.
6. `MicaIndex`, `Identifiers`, `Timestamps`.
7. Unicasts, the mirrored buffer. Left: several broadcast queue pairs that share
   the quorum information, which only protocols in other repositories set up.
8. Connection setup and start. Left: session choice of the trace client.
9. Proofs, of everything that section 4 names. Left: the list for two sessions and
   no revisits, where a proof would say no more than the run.

No module that is or will be proved about declares a recursive operator.

## 7. Not modelled, and why

* Protocol code (commits, read-modify-writes, leases): not in this repository;
  it appears as nondeterminism (`SignalCompletion`, `Insert`, `Retire`).
* RDMA verbs, memory registration, `libhrd`, multicast set-up: device I/O. What
  the code relies on of them is external in the map: datagrams may be lost, a
  receive must be posted, a completion frees what was posted before it.
* Weak memory: the barriers in `od_generic_inline_util.h` and the C11 atomics of
  the slots are taken to order the accesses that they name.
* `treiber_push_multi_session` and `treiber_pop_multi_session`, which nothing in
  the repository calls, and the messages that the debug stack client prints.
* `ctx_insert_commit` (`od_main_loop_api.c:412-430`): it writes the slot before the
  push slot and counts in the push slot, which are the same only in a fifo of one
  slot; which fifos it is used with is decided by the protocols.
* The order in which the trace client visits sessions
  (`od_find_starting_session`, `od_find_next_working_session`).
* Multicast broadcasts (`ENABLE_MULTICAST`, off by default) in `SendQueue`; the
  adaptive inlining of messages, which changes flags that no property is about.
* Overflow of counters that nothing in the program lets overflow: the 16-bit
  `coalesce_num` (`SlotAssumption`); the 8-bit count of the mirrored buffer, which
  can, is modelled.
* Overflow of 64-bit counters (`sent_tx`, local ids, the lock's counter), which
  no run of the program reaches.
* Traces, statistics, latency counters, argument parsing, hash function, header glue: no protocol state.
