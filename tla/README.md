# A TLA+ development of CoTra

CoTra is a distributed vector search: a graph index is partitioned over
`MACHINE_NUM` machines, and a query is answered by all machines that hold a
large share of its neighbourhood.  The machines talk through one-sided RDMA
writes.  This directory models the protocols that make such a search correct,
checks them on small instances with TLC and proves some of them for all sizes
with TLAPS.  The modules are translated from the code; `PROJECT.json` names the
lines every definition stands for.

## The system and its parts

| Part | State | Operations | Module |
|---|---|---|---|
| Write channel (`rdma_comm.cc`) | free slots, slots to give back, writes in flight, per ordered pair of machines | take a slot, post, poll, RELEASE, CLEAR, reset between batches | `WriteFlow` |
| Sub-query search (`scala_search.h`, `task_manager.h`, `query_msg.h`) | per machine and query: pool, candidates, visited set, counters, token, queues | fork, expand, resume, steal, read, six message handlers, end | `SubQuery` |
| Batch driver (`exec_query.h`) | queries taken and answered, `term[]`, load sums | take, answer, send TERMINATION, check, stand by, reset | `BatchTerm`, `Serve`, `Deployment` |
| Read path, B1 and single machine search | read buffers of a thread, candidates that point into them | post, poll, release, one round of the search | `ReadCache` |
| Visited set (`hash_table.h`) | two blocks of a hash table | check and set, double, clear | `VisitHash` |
| B2 baselines | queries dispatched, answers merged | dispatch, search at a member, collect | `Baseline2` |
| Connection set-up (`server_connect.cc`, `rdma_context.cc`, `com_init`) | keys in memcached, queue pair states | register, exchange, barrier with deadline, connect | `Startup` |
| Partition (`partition.cc`, `math_utils.cc`) | pivots, cluster statistics, id and data files | sample, k-means, balanced assignment, random partition, retrieve | `Partition` |
| Index construction and loading (`scala_build.*`, `disk_utils.cc`, `top_index.*`, `scala_graph.h`) | graphs, maps, collected replicas, entries, remote lists, top index | build, swap information, collect, merge, reformat, sample, load | `IndexBuild` |
| Build barrier (`build_sync`) | round, machines seen, queue | enter, send, poll, wait, proceed, time out | `BuildSync`, `Barrier` |
| coromem: pool, loops, barrier | wake-up tree, ranges, barrier flags | on_each, do_all, steal, pause, restart | `Runtime` |
| coromem: topology, per-thread storage | CPUs and sockets, offsets and regions | read, renumber; allocate, split, give back | `Topology`, `PerThread` |
| Scala v1 to v4, ethernet handshake, older file formats, HNSW indexes, coromem termination detection and heaps, distance kernels, parameters | | | not modelled, see below |

How they interact: thread *t* of a machine has its own ordered, reliable queue
pair to thread *t* of every other machine.  All messages of the search and of
the build use the slots of `WriteFlow`.  A coroutine per query and machine
searches the graph; every thread alternates between resuming coroutines, polling
and stealing local tasks.  The driver runs a batch of queries, announces its end
and calls `reset_sendrecv`.  The build separates its phases with `build_sync`.
All processes first connect through memcached.  Searches and builds run their
threads on the pool of coromem.  The build leaves files that the search programs
load; who owns a vertex is found from the partition sizes in them.

What is hard here, and what the properties are about: nothing orders messages of
different senders; credits travel in messages that need credits; a query is
deleted by its origin while other machines still know it; termination is found
by a token that overtakes or is overtaken by work; `visit_hash` is shared by
threads without a lock; a barrier must survive machines that are a round ahead,
late or dead; a machine may be a batch ahead of another, or restarted while the
others still see the keys of its earlier process; two machines compute the same
file offset separately; a thread steals from one that has not started.
`PROJECT.json` lists these hazards with their lines.

## Modules

### WriteFlow: slots and credits

One slice (one thread per machine, not thread 0) of the write channel.
`buffIdList[i][j]` and `releaseIdList[i][j]` are the lists of the same names,
`chan[i][j]` the writes that *j* has not polled.

| Action | Code |
|---|---|
| `GetStart`, `PostWriteSend` | `get_write_send_buf` (which polls until more than `RELEASE_BLOCK` slots are free), `post_write_send` |
| `PollRecv` = `PollClear`, `PollNote`, `PollRelease` or `PollExit` | `poll_recv` of one completion with the `send_write_release` it ends with |
| `Finish`, `ResetStart` | `send_term`, `check_term` |
| `ResetStep` | end of an iteration of `reset_sendrecv` with `clear_write_release` |

A message keeps the slot content it was posted with.  That is sound while
`SlotsDistinct` holds: no two unread messages of a channel lie in the same slot.
It holds within a batch; between batches a CLEAR may share its slot with a message of
the next (see "What the passing runs leave out").  What the receiver then reads is not modelled:
`SlotOwnership` and `ReserveAvailable` speak of the numbers as they were posted.
`poll_send` only collects completions of the
sender's own writes and has no effect on the lists; it is left out.  When a
machine announces the end of its batch all its queries are answered, but
messages nobody waits for (SYNC) may be unread: `MaxLate` per pair.
`TERMINATION` itself travels on thread 0 and sets flags all threads share:
`fin`.

### SubQuery: one query on all machines

`q[m]` is the `QueryMsg` of the query on machine *m*, with the queues the task
manager keeps for it.  A vertex is a number that is also its distance; a
priority queue is a function from vertices to multiplicities; `chan[i][j]` are
the messages from *i* to *j* in order.  `Ngh`, `Owner` and `PreTop` (what the
search of the top index ends with) are constants.

| Action | Code |
|---|---|
| `Start` | `scala_search_sub` up to the first yield: PRE_STAGE, `filter_num`, leader, core machines, fork |
| `Resume` | `coro_sub_query_v5` from a yield to the next: `TakeIn`, then `Expand`, `Requeue`, `Yield`, `Pause` or `Conclude` |
| `Steal`, `StolenDone` | `work_steal` and `do_task` on another thread, in two steps because `CheckAndSet` is not atomic |
| `ReadDone` | an asynchronous read collected by `poll_task_result` |
| `RecvQuery`, `RecvSync`, `RecvNodeSync`, `RecvTask`, `RecvResult`, `RecvNodeResult` | the handlers of `scala_sub_proc_v5` and `TaskManager` |
| `RecvLate` | any of them for a query that has been deleted |
| `ProcRes` | `proc_res` of the driver: takes the result, deletes the query |

Counters are kept as differences: `due` is `post_cnt - recv_cnt`, `nodue` is
`nocore_post - nocore_recv`.  `queued` counts the entries of the query in
`subquery_queue` and `next_subquery_queue`.  A batch of messages handled in one
poll is a sequence of `Recv` steps; the handlers of one poll commute because
they only add to queues of the query.  `Merges` and `Passing` describe what the
order of entries inside a message may change.  An uninitialised
`sync_msg.lower_bound` is any value of `Garbage`.  `RoundsUp` says for which
machine numbers the float share `1/MACHINE_NUM` exceeds the double, from the rounding
of its 24 bits.  An END or a migrated query carries only the candidates below the
bound (`Kept`), as `serialize2` does.

Observations the model contains but no property is about: `ef_fill` filters by
the bound when the pool is *not* full (`ListAnswers`); the visited set is cleared
after the fork at an origin that is core, so results may contain a vertex twice.

### BuildSync and Barrier

`Barrier` states what callers rely on: a machine leaves its *k*-th barrier only
when all machines have entered theirs.  `BuildSync` is the code: `Enter`,
`SendSync` (one turn of the send loop), `Sent`, `Poll`, one turn of the wait loop
(`KeepWaiting`, `Proceed` or `TimeOut`), `Deadline` (time passes) and `Crash`.
`Refines` maps `entered` to `round` and `left` to the rounds that returned.

### Partition and IndexBuild: from the base data to a loaded index

`Partition` is what machine 0 does alone.  A vector is a point on a line.

| Action | Code |
|---|---|
| `GenRandomSlice`, `SelectPivot`, `RunLloyds` | sampling, `kmeanspp_selecting_pivots`, `run_lloyds` |
| `ComputeLambda`, `AssignPoint`, `MergeStats`, `WriteBlock` | a block of `shard_data_into_clusters`: parallel chunks that read shared statistics and add their own at the end |
| `RetrieveAllShards` | the data files of all shards from the id files |
| `ShardIntoRandom`, `RetrieveShard` | the random partition of `SharedNothing` |

`IndexBuild` extends it with the main program of every machine.  The barrier is the
abstract `Barrier`, which `BuildSync` is proved to implement.  `net[i][type][j]` is
the queue of messages of a type from *j* at *i*.

| Action | Code |
|---|---|
| `PartitionStep`, `PartitionEnd`, `PostPartitionInfo`, `PollPartitionInfo` | `partition()` at machine 0 and the message the others wait for |
| `Build` | `Index::build` of the shard: any graph in `BuildGraph` |
| `WritePartitionInfo`, `Checkpoint` | position maps, and the barrier behind them |
| `CollectReplicaPartition`, `StartCollect`, `PollBuild`, `SendDispatchMeta/Ids/Nghs`, `CollectFinish` | the exchange of replicated vertices |
| `MergeReplicaPartition`, `TransferToB1`, `TransToB2` | merge and cut to `MaxDegree`; renumber (`transfer_to_b1graph_format`, `trans_to_b2graph`) |
| `SendScalaMeta`, `PollScalaMeta`, `ReformatIndex`, `SendNgh`, `RecvNgh`, `NghRoundEnd`, `WriteScala` | the four steps to scala v3: lengths, entries, remote lists in rounds, data |
| `SampleWorker`, `AddPoint`, `SaveTopIndex` | the top index and its labels |
| `LoadIndex` | `load_index`, `loadIndex`; `GetMachineId` is what the search asks |

What only affects the quality of the index, such as which neighbours survive the
cut to `MaxDegree`, is a free choice of the model.  A machine that computes on
data of its own takes one step.

### Startup: memcached and queue pairs

A process has a configured machine id and takes an order id from a counter;
`AddMachine`, `SetMachineKey`, `GetServerNum`, `GetMachineKey`, `SetMeta`, `GetMeta`,
`BarrierAdd`, `BarrierArrive` and `BarrierWait` are one access to memcached each, in
the order of the code.  `CtxInit` opens the device (GID, MTU, memory regions, queue
pairs in INIT) and `Connect` takes the queue pairs to RTS.  `TimeOut` is a deadline of
the waiting loops, `Crash` stops a process anywhere, `Restart` starts another on the
same machine with what memcached holds.  `ClearMemcache` is the script; it does not
check that no process runs, but the launch scripts call it before the program is
started, and the action has this as its guard.

### Deployment, ReadCache, VisitHash, BatchTerm, Baseline2, Serve: a serving process

`Serve` is the switch of `exec_query` over the application in `dep`, chosen in the
initial state from `Deployments`.

| Action | Code |
|---|---|
| `InitTerm` | `load_cnt`, `initTerm`, `scala_search_init` |
| `SearchSingle`, `EndSingle`, `TakeB1`, `SearchB1`, `JoinB1` | the queries of a thread; `SyncRound`, `AsyncRound` and `LocalRound` of `ReadCache` are one round of `searchRemoteBaseLayerST`, `searchAsyncRemoteBaseLayerST`, `searchBaseLayerST` with their reads and releases |
| `TakeScala`, `Process`, `WaitFinish` | a query of `ScalaANN_v3`, reduced to an answer from every machine in `dep.need`, and the wait for the last |
| `SendTerm`, `PollWork`, `CheckTerm`, `ResetPoll`, `NextBatch` | `send_term`, `poll_recv`, `check_term`, `termStandBy`, `reset_sendrecv`, `reset_term` |
| `Dispatch`, `PollStart`, `MemberSearch`, `CollectEnd`, `NextRound` | B2 and `B2KmeansBatch`: machine 0 and the members, which never leave their loop |

A round of a search is one step because read buffers and hash table belong to the
thread.  The order in which a heap yields vertices at the same distance is not fixed by
the code; `dep.ties` chooses one of two.  The `assert` on the count of results in
`MemberSearch` is not compiled in a Release build, the default of `CMakeLists.txt`.  Slots are counted and not named, and a batch has fewer messages than
`RELEASE_BLOCK`; `WriteFlow` covers the rest.  `VisitHash` is `OptHashPosVector` with
its two blocks, its probing and `DoubleSize`.

### Runtime, Topology, PerThread: the threads underneath

| Action | Code |
|---|---|
| `InitThread`, `PoolReady`, `Shutdown`, `PoolPause`, `PoolContinue` | life of the pool |
| `Wait`, `Cascade`, `Decascade`, `Run` by `OnEach` and `DoAll`, `EndLoop` | `threadLoop`, `cascade`, `decascade`, `mainThread` |
| `SetRange`, `LoopInit`, `GetWork`, `Execute`, `Look`, `StealWork`, `AssignWork` | the loop with work stealing; a critical section under `work_mutex` is one step, `try_lock` may fail |
| `BarrierArrive`, `BarrierSense`, `BarrierSignal` | the MCS barrier |
| `ConstructStorage`, `DestructStorage` | per-thread storages of the main thread |

`Topology` computes threads and sockets of a host from `/proc` and sysfs; `PerThread`
the offsets (powers of two, split and given back) and the regions of threads and
sockets.  The pool may be paused while storages live; `made` of a storage are the
regions its objects were made in.

## Runs

| Run | Instance | Shows |
|---|---|---|
| `slots` | 2 machines, 8 slots, block 4, 8 messages per pair, 1 late | `TypeOK`, `SlotOwnership`, `SlotsDistinct`, `ReserveAvailable`, `SendCompletes`, `ResetCompletes` |
| `batches` | 2 machines, 4 slots, block 2, 2 batches | `ResetCompletes` **violated** |
| `four` | 4 machines, cores 0 and 1, origin 0, one thief | `TypeOK`, `AnswersDue`, `QueuedOnce`, `OneToken`, `SearchOver`, `ResultBest`, `NoFault`, `QueryReturned` |
| `fork` | cores 0 and 1, non-core 2, origin 2 | `ResultBest` **violated** |
| `via` | as `fork`, origin 0, a vertex reachable only through machine 2 | `SearchOver` **violated** |
| `ring` | three cores of four machines | `NoFault` **violated** |
| `barrier` | 3 machines, 2 rounds, 1 crash | `TypeOK`, `NoSyncLost`, `Refines`, `Completes`, `NeverStuck` |
| `index` | 3 machines, 6 points in 2 blocks, 3 graph types, degree 3, 2 top threads | `ShardsRight`, `IndexRight`, `LabelsRight`, `NoAbort`, `OffsetsAgree`, `LoadedRight`, no deadlock |
| `startup` | 3 machines, 1 fault, 2 processes per machine, 1 flush | `PeersMatch`, `NoMutualWait` |
| `serve` | 26 deployments: single machine, B1, B1_ASYNC (also with equal distances), B2, B2KmeansBatch, ScalaANN_v3 | `BatchOver`, `BuffersRight`, `VisitedRight`, `B2Merged`, no deadlock |
| `ahead` | ScalaANN_v3 with 2 threads and 2 batches | `TermKept` **violated** |
| `runtime` | 3 threads on 2 hosts (an offline CPU; two packages with a hyper-thread), loops of 0, 1 or 3 items, 2 loops, 1 pause, 2 storages | `ItemsOnce`, `BehindBarrier`, `AllBack`, `TopologyRight`, `SocketShared`, `StoragesApart`, no deadlock |


The violated runs are disagreements between the code and what its comments say; the
findings in `PROJECT.json` quote both.  In short:

- `batches`: the reset between two batches can hang when a peer is already in the next.
- `ahead`: a TERMINATION of the next batch that is polled in `reset_sendrecv` is
  forgotten by `reset_term`.  `exec_query` runs 21 values of ef with as many threads as
  it is given, so this is its ordinary deployment.  It also happens for B1 with two
  batches and any number of threads; it does not within one batch, nor for ScalaANN_v3
  with one thread, where a query needs every other machine and nobody can be a batch
  ahead.
- `fork`: a SYNC that overtakes a fork is lost.
- `via`: vertices that a non-core machine sends to a core machine are not part of
  termination detection.
- `ring`: a SYNC of the last token round can reach a deleted query.

The run `four` therefore says what holds outside those cases: two core machines, the
origin at the leader, and no vertex that is found only through a non-core machine.  It
exercises every message, reads, a thief, both colours of the token, a full pool, and a
nearest vertex that the leader learns from a SYNC only.  TLC finds the same properties
to hold with `CandGroup` and `SyncBar` 1 (228,576 states).

What the passing runs leave out, with what TLC says when it is put in:

- A second batch in `WriteFlow` (`MaxBatch` 2, six slots, block three, four messages
  per pair): `SlotsDistinct` fails.  The slot of a CLEAR is back in the free list when
  it is sent, `reset_sendrecv` ends when the own slots are home, and a message of the
  next batch overwrites the CLEAR before it is read.
- Two machines with one candidate each have equal shares and no core machine:
  `QueryReturned` fails.
- An uninitialised `sync_msg.lower_bound` that is small (`fork` with `Origin` 0,
  `Garbage` {0} and `SyncBar` 4, the value of the code): a token pass filters away the
  candidates it carries and `ResultBest` fails.
- Seven points on three machines, partitioned randomly (`SharedNothing`, `Garbage` {7}):
  the last point gets a shard that does not exist, and `NoAbort` fails.  So it does for
  one machine with SCALA_V3, which asks for two replicas of every point.
- A word behind the list of ids that equals a later point (`Garbage` {5}): a vector too
  many is retrieved and `NoAbort` fails.
- Weak compare-and-exchange that fails spuriously (`WeakFails = TRUE`, AArch64):
  `SocketShared` fails.

Three cases are in the passing runs, but the property that one would like to have
fails in them, and the run checks what is left of it:

- Equal distances, which are ordinary for integer data.  The buffer of a vertex that
  leaves the result at the distance of the bound is released although
  `searchAsyncRemoteBaseLayerST` still expands it (`scala_search.h:1447` against 1545 to
  1551): `CandidatesKept` fails for the deployments `Equal`.  `BuffersRight` is about the
  result and the candidates nearer than the bound.
- A host with an offline CPU.  The missing number in `/proc/cpuinfo` becomes a second
  CPU 0, and two threads are bound to it: `OneThreadPerCPU` fails for `Offline`.
  `TopologyRight` allows CPU 0, and no other, to be shared on such a host.
- `poolPause` while storages are alive (`tests/rdma/test_pool.cc`).  The regions of the
  new threads hold no objects of theirs: `ObjectsThere` fails.  `StoragesApart` is about
  the memory they occupy.

Outside of the models: `cumu_partition_num` is allocated three bytes short, and
`DoubleSize` starts again without end when an element has no place in the new table.

Bounds.  Eight slots with a block of four keep the relation the code has between
`MAX_WRITE_NUM` 512 and `RELEASE_BLOCK` 128 (at least two blocks, the reserve is
one) and let a pair run out of slots, release and wrap around.  `SlotsDistinct` is
checked within one batch, where it needs `MaxWriteNum / ReleaseBlock + MaxLate < ReleaseBlock`: 4 against 128 in
the code; it fails with blocks of three in twelve slots, and over two batches.  The graphs of
`MCSubQuery` have five or six vertices: enough for a vertex on every kind of
machine, for a neighbour on every other kind, and for candidates that are found,
dropped and found again.  Two rounds of the barrier let a machine be one round
ahead, which is the most it can be.  Six points on three machines give every machine
own vertices and replicas; with `MaxDegree` 3 and `InlineDegBar` 1 there are
inline and remote lists, and with `MaxTrans` 2 a list takes more than one message.
Two processes per machine and one fault are a restart next to running machines;
the flush separates two starts.  In `serve` three read buffers are fewer than the
vertices, tables double twice, and every application has either two threads or two
batches; with equal distances each vertex has a twin, in both orders of the heap.
Three threads make a wake-up tree with two children, and a barrier with
inner node and leaves; two loops and a pause let ranges, flags and storages be reused.

Deadlock is checked in `index`, `serve` and `runtime`, where a finished program
stutters: every behaviour of `serve` is finite, so that a batch always ends.  It is
not checked in the other runs: a finished batch, query or build stops, and in
`startup` a process may exit.

Fairness.  `WriteFlow` and `BuildSync` assume weak fairness of each step of a
running thread: every loop of the code polls and re-evaluates its condition, and
nothing is assumed about deadlines except in `NeverStuck`, which says so.
`SubQuery` assumes only that some step is taken while one is possible, weak fairness of
`Next`, which every scheduler gives; `Busy` is its enabling condition written out, which
TLC evaluates much faster than `ENABLED` (it was compared with `ENABLED` on the graph of
`fork`, and on that of `four` every busy state has a successor).  The other specifications state no
fairness; their runs show safety and that nothing deadlocks.

## Proofs

Seven modules hold theorems, and `SumProofs` the lemmas on induction, recursion and sums
that three of them share.  The theorems hold for every value of the constants that the
assumptions of the models allow; the one further hypothesis each of two theorems has
is stated in it and named below.

| Theorem | States |
|---|---|
| `WriteFlowProofs!TypeCorrect`, `OwnershipCorrect` | `TypeOK`, `SlotOwnership` |
| `WriteFlowProofs!ReserveEnough` | `SizesFit` implies `ReserveAvailable` |
| `BuildSyncProofs!TypeCorrect`, `BarrierRefined`, `SyncKept` | `TypeOK`, `Refines`, `NoSyncLost` |
| `SubQueryProofs!CoroutineQueuedOnce`, `TokenUnique` | `QueuedOnce`, `OneToken` |
| `SubQueryProofs!TypeCorrect`, `AnswersCounted` | `TypeOK`, `AnswersDue` |
| `IndexBuildProofs!ShardsAreRight`, `OffsetsAlwaysAgree` | `ShardsRight`, `OffsetsAgree` |
| `IndexBuildProofs!LabelsAlwaysRight`, `LoadedAlwaysRight` | `LabelsRight`, `LoadedRight` |
| `StartupProofs!PeersRight`, `NobodyStuck` | `PeersMatch`, `NoMutualWait` |
| `RuntimeProofs!AllReturned`, `RegionsShared` | `AllBack`; `~WeakFails` implies `SocketShared` |
| `RuntimeProofs!BarrierHolds`, `EachItemOnce` | `BehindBarrier`, `ItemsOnce` |

**WriteFlowProofs.**  `SlotOwnership` is inductive together with `TypeOK`: each action
is reduced to one of a few moves of slots (take the front, append to a list, hand a
list to a message, push it back), and a lemma per move shows that `Owned` survives it.
The only assumption on sizes is `RELEASE_BLOCK < MAX_WRITE_NUM`.

For `ReserveEnough`: `get_write_send_buf` asserts that a RELEASE finds a free slot.  This
needs a relation of the sizes, `SizesFit`: `MAX_WRITE_NUM < RELEASE_BLOCK *
(RELEASE_BLOCK + 1)`; 512 and 128 satisfy it.  The invariant `Duplex` counts, for both
directions of a pair: every slot is free, under way or noted (`Counted`); behind every
data message a block of slots is left but for RELEASE messages (`Spared`); and for
every prefix of the unread messages the RELEASEs their reading will cause are fewer
than the slots free by then (`Covered`).  Sums over the unread messages are given by a
function of suffix weights (`Sums`), so that no induction over sequences is needed.

**BuildSyncProofs.**  `Refines` alone is not inductive: it does not say why a machine
that was seen has entered.  `IInv` adds that a message of round *r* exists only if its
sender has entered *r* (`MessagesHonest`), that everyone in `seen` has entered the
round of the caller (`SeenEntered`), and that `seen` is empty exactly outside of a call
(`SeenInside`).  `Enter` maps to `Enter`, `Proceed` (and `Sent` for a single machine) to
`Leave`, every other action to a stutter.  `NoSyncLost` speaks of the round a receiver
is in; `RoundsKept` says the same of all rounds still ahead of it, which the queue
holds back until it gets there.

**SubQueryProofs.**  The token of a query is lost if a machine drops the SYNC that
carries it, which a machine does once the query is deleted.  So `TokenInv` has to say
when that can be: a query is deleted only after its leader ended it, with the token in
its hands for good (`Ended`); an END comes from the leader alone, a fork finds a
machine that has not started and is the only one for it (`Mail`); all start after the
origin (`Begun`).  `Token` then is: none before the leader starts, afterwards one, with
a core machine or on its way from one core machine to another.  `Local` says where a
coroutine is for each value of `state`, which gives `QueuedOnce`.

`AnswersDue` is a conservation law.  Every message weighs, for each machine *x*, the
answers to *x* that it is or asks for: `CW(x)` those that `recv_cnt` counts, `NW(x)`
those of `nocore_recv`, where a NODE_RESULT weighs *minus* what it announces.  `Flight` is
the sum of the weights of all messages under way, and `Bal` says that what a query waits
for is `Flight` and what is queued, stolen or being read on its machine.  A machine that
answers a request moves weight from one message to others and changes no `Flight`, also
when it asks a third machine in the name of *x*: what it asks for is what its NODE_RESULT
announces, so that it does not matter which of the two arrives first.  `DueInv` needs two
facts that `AnswersDue` does not mention.  The query of a machine that has not started
has nothing due, or the reset of the counters at its start would lose answers.  And
`TypeOK` says that a NODE_RESULT answers at least one request, so that none is on its way
to a machine that has nothing due: it could not announce anything there.  A message that meets a deleted query
(`fault` is "late", the finding of `ring`) stops the model, and `AnswersDue` says nothing
of that last state.  All four theorems hold also in the instances of `fork`, `via` and
`ring`, where other properties fail.

**SumProofs.**  The library states induction for an operator, which the provers cannot
instantiate.  `AllNaturals` and `AllSubsets` state it for a set, from the well-founded
order of the naturals, and `RecursionExists` gives the function that a recursion defines.
From these follows what the sums of the community modules yield: how a sum changes when
a term changes or is added, and the sum of two lists laid one behind the other.

**PartitionProofs.**  From `SumProofs` follows what the folds of `Partition` compute:
sums over sets, the ascending list of a set, the pass over the base file that picks the
vectors of a list of ids.
`PartInv` is the invariant: at each stage the files hold, in ascending order, exactly
the points of the blocks written so far that were assigned to the shard
(`BlocksWritten`); a chunk that merges its statistics has assigned all of its points
(`ChunkMerged`), whatever it read of the statistics of other chunks; at the end every
point is filed once as owned, and twice with replicas (`FilesRight`).
`PartitionAssumption` says that sizes, blocks, threads and the least size of the sample
are positive and the balance factors not negative: `ComputeLambda` computes the latter
from squared distances and counts, and k-means of an empty sample has no result.

**IndexBuildProofs.**  `OffsetsAgree` does not follow from the numbers in the entries:
one has to know that every machine was told the same by each other one.  `BuildInv`
adds that to `PartInv`: a machine has told nobody yet, or everyone the same
(`TellsSame`), and it lays out entries only when it has been told by all
(`NumbersKnown`).  `NumInv` follows points through the files.  The shards laid behind
each other list every point once (`Numbered`, the position of a point is its place
there); `write_partition_info` writes this list, its inverse and the sizes (`Mapped`);
what a machine has written at each place of its program (`Reached`) carries the vector
and label of the position, and so does what a search program reads (`Loads`).
`LoadedRight` then needs that `get_machine_id`, which compares a position with the sums
of sizes, finds the one shard the position is in (sums of sizes ascend).  `NumInv` was
checked with TLC on the constants of `index` before it was proved.

**StartupProofs.**  What memcached holds was written once, by the process that owned
the order id (`Orders`, `Names`, `Metas`); a process has exchanged data with all order
ids below the one it is at (`Exchange`).  The barrier counts order ids and not
processes, so a restart might be counted twice; it is not, since at most the order ids
with a full row of data have been counted (`Counted`), so that the barrier opens only
over a full table, and in a full table no machine has two order ids.  `NobodyStuck`
takes, among machines that wait for data, the one with the smallest sum of its own and
the awaited order id: whoever it waits for waits with a smaller sum.

**RuntimeProofs.**  In the pool, the threads a busy thread has still to wake
are asleep and nobody else's (`Reserved`), and every busy worker was woken by a busy
thread with a smaller number, which waits for it (`Woken`): the smallest busy worker
was woken by the main thread inside of `run`.  `SocketShared` needs that a weak
compare-and-exchange does not fail spuriously, as on x86.  In a loop, the flags of the
MCS barrier are those of the threads that have arrived (`Episode`), or ready for the
next sense between loops (`Resting`); every item that has not been executed belongs to
exactly one thread, in its part of the range, its context or its hands (`Shared`), and
a thread leaves with nothing (`Hands`).  `RuntimeAssumption` says that a host has as
many usable CPUs as threads are asked for.

`TokenInv` and `DueInv` were also checked with TLC, on the instances of `MCSubQuery`.
Only model-checked:

- Liveness: `SendCompletes`, `ResetCompletes`, `QueryReturned`, `Completes`,
  `NeverStuck`.
- `SlotsDistinct`: false over two batches, and within one it depends on the sizes.
- `SearchOver`, `ResultBest`, `NoFault`: false for some graphs and origins (`via`,
  `fork`, `ring`); which instances are safe has no simple description.
- `TermKept`, `CandidatesKept`, `OneThreadPerCPU` and `ObjectsThere` are false, see above.
- `TopologyRight`: what `SortSeq` yields is opaque to the provers.  `StoragesApart`: sizes
  are powers of two, of which the provers know nothing.
- `IndexRight` and `NoAbort`: `NoAbort` depends on the words behind the lists of ids
  (`Garbage`) and on the number of points; `IndexRight` on what the greedy merge of two
  graphs yields.
- `BatchOver`: false where a TERMINATION is forgotten; `BuffersRight`, `VisitedRight` and
  `B2Merged`: for the search of one thread, over small graphs.

## Plan

The modules are complete; what is left are proofs, in this order:

1. `BatchOver` of `BatchTerm` within one batch, which needs `TermKept` there.
2. `SlotsDistinct` of `WriteFlow` within one batch, from a relation of the sizes.
3. `IndexRight` of `IndexBuild`, with the lemmas of `SumProofs` and `PartitionProofs`.

## Not modelled, and why

- The sub-query searches v1 to v4 are commented out or not called, and use the
  channel of `WriteFlow`.  The handshake over ethernet is never called.
- The converters of older formats (`transfer_b1_to_scala_v*`, `verify_scala`,
  `vamana.h`), `single_build`, `single_merge` and the HNSW indexes have no caller.
- coromem's termination detection is initialised and never asked (`USE_TERM` is
  false), and the heaps of `mem.h` have no protocol with the search.  The lock-free queue
  `con_task_queue`, through which a thief hands its chunk back, is used by the search; in
  `SubQuery` it is `found`, with an atomic push and pop.
- Pivots for more than 2^23 samples, distance kernels, objects inside a per-thread
  storage, the recall that the driver prints, parameters and the profiler are data
  without a protocol.
- Verbs errors abort the program and leave nothing to check, except that the result of
  `modify_qp_to_init` is ignored, which `Crash` of `Startup` covers in effect.
- Liveness and `ENABLED` are outside of what TLAPS can do with the provers at hand and
  stay with TLC.
