# A TLA+ model of torcc

torcc is a C++20 port of the TORC tasking runtime. An application creates tasks
and waits for them; worker threads on one or several MPI nodes execute them. This
directory models the runtime, its task layer on one node and its messages between
nodes, checks the models with TLC and proves the main properties of the task layer,
of the queues, of the cluster and of start and end with TLAPS. Paths below are relative to the repository's root.

Contents: [the system](#the-system) · [the modules](#the-modules) ·
[the runs](#the-runs) · [the proofs](#the-proofs) · [findings](#findings) ·
[what is left out](#what-is-not-modelled) · [the plan](#plan).

## The system

| Component | Source | State | Operations |
|---|---|---|---|
| descriptor and its queue | `include/torcc_base.h` | per descriptor: `ndep`, `parent`, `level`, `next`, placement, arguments; per queue: `head_`, `tail_`, mutex | `enqueue_head`, `enqueue_tail`, `dequeue` |
| intra-node queues | `src/torcc_queue.cpp` | `private_grq`, `public_grq[10]`, `reuse_q`, round-robin target | put and take at each end, by nesting level; recycling of descriptors; placement on nodes and workers |
| task API | `src/torcc.cpp`, `include/torcc.h` | (that of the calling descriptor) | `task`, `task_ex`, `task_direct`, `task_detached`, `wait_all`, `wait_all2`, `wait_all3`, `scheduler_loop`, `fetch_work` |
| scheduler, dependencies | `src/torcc_runtime.cpp` | `currt_key` per thread, the C++ stack of each worker | `dep_add`, `dep_satisfy`, `block`, `block2`, `execute`, `cleanup`, `get_next_task`, `scheduler_loop` |
| worker threads | `src/torcc_thread.cpp` | `work_created`, `active_workers`, `appl_finished`, thread keys | `torc_worker`, `md_init`, `md_end` |
| server thread | `src/torcc_server.cpp` | `termination_flag`, `no_work_desc` | `server_loop`, `process_a_received_descriptor` |
| stealing, prefetching | `src/torcc_server.cpp`, `src/torcc_runtime.cpp` | `internode_stealing`, `prefetching`, steal statistics | steal request and reply, prefetch request, the switches |
| MPI transport | `src/torcc_comm.cpp` | channels by (source, tag), `comm_lock` | `send_descriptor`, `direct_send_descriptor`, `receive_descriptor`, arguments |
| thread numbering, function table, broadcast | `src/torcc_comm.cpp` | `node_info`, the table | id arithmetic, `register_task`, `torc_broadcast` |
| statistics, options | `src/torcc_runtime.cpp` | counters, environment | printing, `opt` |

How they interact. `task` updates the creator's counter, fills a descriptor and
puts it in a queue of this or another node. A worker's `scheduler_loop` takes a
descriptor from the queues (or from another node, through that node's server
thread) and `execute` runs it **on the stack of whatever the worker was doing**.
When it returns, `cleanup` decrements the parent's counter, directly or with an
ANSWER message to the parent's node. A wait is a loop around `scheduler_loop(1)`
on the counter. So workers share the queues and the counters (each with a mutex,
but with two reads outside of it: `block2`'s of `ndep` and `dequeue`'s of
`head_`), and one worker interleaves several tasks on one stack.

What is hard, and what makes each part correct:

* **counters**: creator, waiter and finishing children update `ndep` in several
  critical sections; it has to equal the unfinished children plus a token;
* **joins**: a wait returns only after every child, and does return, although it
  may have to finish unrelated tasks first;
* **stacks**: `self()` has to be the running task after any nesting of waits;
* **queues**: a task is in one queue, is taken once, and is found in the end;
* **the list inside a queue**: the pointers stay a list although one test is
  made without the lock;
* **descriptors**: a recycled descriptor is nobody's parent;
* **placement**: a rotating target that threads share without a lock, and flags in
  the descriptor that one function sets and another node's server reads;
* **messages**: a descriptor, its arguments and its results are separate messages;
  tags have to keep those of several senders and tasks apart, and each receive has to
  find the message it waits for, also when it waits with `comm_lock` held;
* **arguments**: six passing modes, three sizes and two copies of every argument; sender
  and receiver decide separately what travels, and every node must read the right copy;
* **start and end**: threads, nodes and the server wait for each other in an order that is
  spread over four files, while steal requests and requests to prefetch may be under way.

`PROJECT.json` lists these hazards line by line.

## The modules

| Module | What it is |
|---|---|
| `ForkJoin` | abstract: what an application is promised about its tasks |
| `TaskRuntime` | detailed: task API, counters, scheduler and queues on one node |
| `MCTaskRuntime` | `TaskRuntime` with the symmetry its runs use |
| `TaskRuntimeProofs` | the theorems about `TaskRuntime` |
| `Deque` | abstract: a queue of descriptors as a sequence |
| `DescriptorQueue` | detailed: the pointers of one `descriptor_queue` |
| `DescriptorQueueProofs` | the theorems about `DescriptorQueue` |
| `Facts` | facts about numbers and sequences that the proofs share |
| `NodeComm` | several nodes: creating, sending, stealing, prefetching and answering tasks, the switches, one server thread per node |
| `Broadcast` | extends `NodeComm` by `torc_broadcast` and states the specification of the cluster |
| `ClusterProofs` | the theorems about the tasks and thefts of `NodeComm` and `Broadcast` |
| `MessageProofs` | extends `ClusterProofs` by the theorems about what their messages say |
| `MCCluster` | the clusters that TLC runs `Broadcast` and `NodeComm` on |
| `Placement`, `MCPlacement` | which node and queue a task goes to; thread numbering |
| `PlacementProofs` | the theorems about `Placement` |
| `Arguments` | the arguments of one task, from creation to the results |
| `ArgumentsProofs` | the theorems about `Arguments` |
| `Lifecycle`, `MCLifecycle` | how a cluster starts and ends |
| `LifecycleProofs` | the theorems about `Lifecycle` |

A module about several nodes has a variable `setup`, a record that `Init` chooses from
the constant `Setups` and no action changes: the number of nodes and workers, what the
application does, the kind of MPI library, bounds. One run then covers all setups, and
each state belongs to one of them. The records are in the `MC` modules.

### TaskRuntime

Every worker thread has a root descriptor, named by the worker; every task has
its own. `Main` is virtual processor 0, where the application's `main` runs; the
other roots are in `scheduler_loop(0)` from the start. `curr[w]` is what `self()`
returns on worker `w`, the top of its stack of descriptors; `pc[d]` says where
the code of descriptor `d` is:

| `pc[d]` | the code |
|---|---|
| `unborn`, `new`, `queued`, `held`, `lost`, `done` | a task before and after it is active: not created; being filled in by `task()`; in a queue; taken but not started; unlinked by a dequeue that gave it to nobody; returned |
| `run` | application code |
| `token`, `added` | in `task()`, after its first and after its second critical section |
| `blocked`, `recheck`, `idle`, `spin` | in `block`/`block2` before a test of the counter; in `block2` between the unlocked and the locked test; after a search without result; in the loop of `wait_all3` |
| `poll`, `repoll` | in the first or a repeated `get_next_task` of a `scheduler_loop` |
| `found` | `get_next_task` has a task |
| `exec` | in `execute`, with another descriptor above it |

`caller[d]` is who called the scheduler (`worker`, `block`, `block2`, the
application's `scheduler_loop(1)` as `once`, `fetch_work` as `fetch`), `me[t]` the
descriptor that `execute` suspended for `t`, `rte[w]` the pointer the innermost
call of `w` holds, `cursor[w]` the queue it looks at next. An action is one
critical section, or one unlocked read, of the code, with everything the thread
does up to the next one. `unjoined` is the application's own state: who has
created tasks since its last wait. Queue operations are atomic here and are
opened up in `DescriptorQueue`.

Which code an action stands for is in `PROJECT.json` (`map`). Some deserve a word:

* `Task`, `DepAdd`, `ToRqEnd` are the three parts of `task()`: token, dependency,
  filled descriptor into its queue. `torc_task_ex` and `task_direct` differ from
  it in `rte_type` only, which on one node only counts statistics.
* `Block2Peek`, `Block2Recheck`, `Block2Idle` are the three reads of `block2`. The
  first and the last are data races; an aligned `int` read between two lock
  operations yields a value the counter has, so each is an atomic read.
* `NextQueue` is `get_next_task`'s walk from the private queue over the public ones
  from the deepest level to level 0, one dequeue per step, so queues can change
  while a search is under way. `NothingFound` is what each caller does next.
* `Finish` is the end of a task: `dep_satisfy` on its parent and `set_curr_thread`.

Two switches:

* `Dequeues`. In the code `dequeue(descriptor* thr)` assigns to a copy of the caller's
  pointer, so its caller sees null and the task is gone (`"loses"`, action
  `DequeueDrop`). Every caller is written for a dequeue that hands the descriptor
  over (`"delivers"`, action `Dequeue`), and the rest of the runtime never runs otherwise.
  The constant says which of the two may happen; with both, each dequeue may do either.
  The theorems hold for every choice. A dequeue that delivers would also have to clear
  `next` and to test `head_` under the lock before a queue were as atomic as it is
  here; see DescriptorQueue. The modules about several nodes take a dequeue that delivers.
* `JoinBeforeReturn`. Nothing in the runtime makes a task wait before it returns;
  all demos do. TRUE restricts the application to that, FALSE does not.

Properties of `TaskRuntime`:

* `TypeOK`, and with `StackInv`, `QueueInv`, `HandsInv`, `FieldsInv`, `DepCount` the
  inductive invariant `IInv`;
* `DepCount`: `ndep[d]` = unfinished children + what `d` itself contributes
  (`OwnShare`: a token between its first task and its next wait, one more while
  `task()` is under way, -1 when `wait_all3` gave back a token never taken);
* `JoinSound`: a wait ends only when all children have finished;
* `StackInv`: the executing descriptors form one stack per worker, `self()` on top;
* `QueueInv`: a queued task is in exactly one place of one queue;
* `NoWaitCycle`: no set of descriptors whose members each need another one, either
  above them on a stack or as a child, to go on;
* `NoStaleParent`: with `JoinBeforeReturn`, no unfinished task has a recycled parent;
* `RefinesForkJoin`: the runtime implements `ForkJoin`, with `pc` mapped to a task's
  status and the waiting descriptors to `joining`;
* `JoinReturns`, `TasksFinish`: liveness;
* `Block2MeansNoWork`: the comment on `block2` (violated, see Findings).

### DescriptorQueue

One queue with `head_`, `tail_` and the `next` pointers. Everything under the
mutex is one action; `dequeue` is two, its test of `head_` (`DequeueTest`) and its
locked part (`DequeueTake`), which sets `crashed` when it dereferences null. `prev`
is written and never read, and left out. Because `dequeue` loses what it takes, a
descriptor enters a queue once, with `next` null (`new descriptor()` or `memset`
before); the model puts in `fresh` descriptors only. `ListShape` says that the
pointers are one list, `RefinesDeque` that every step is a step of `Deque`,
`NoNullDeref` that one dequeuing thread is safe.

### NodeComm and Broadcast

A thread is `<<node, vp>>`, the server of a node has number `MaxNvps`, as `thread_id()`
has it. `chan[n][m][tag]` is a FIFO: MPI keeps the order of messages with one source,
destination and tag. `MPI_Send` ends at once (descriptors and arguments are small enough
to be sent eagerly), `MPI_Ssend` when its message has been received.

`lock[n]` is `comm_lock` of `torcc_comm.cpp`. The lock is declared `static` in a header,
so every source file has its own: that of `torcc_server.cpp` is only taken by the server
thread, and does not exclude the senders of `torcc_comm.cpp`. A critical section that
cannot wait is one action with the guard that the lock is free; a receive that waits
with the lock held is two, and in between the lock stops all other threads of the node.
With a library that is not thread-safe a worker polls for the reply to its steal
request, each `MPI_Test` under the lock.

`pc[th]` says where a thread is: `app` (application code), `wait`, `poll` and `repoll` (the
two searches of `scheduler_loop`), `ask`/`await`/`held` and `reask`/`reawait`/`reheld`
(a steal attempt in the first and the second search), `send`, `push`, `reply`, `send_args`,
`send_results` (sending), `get_args`/`held_args` (receiving arguments, also with
`_private`), `execute`, `run`, `switch` (a switch call), `bcast`/`offer`/`ssend` (a broadcast),
and for the server `serve`, `get_results`, `get_data`. Creators are the workers whose root
descriptor runs application code; the others are in `scheduler_loop(0)`. Tasks do not
create tasks here, and one public queue stands for the ten: nesting and levels are the
subject of `TaskRuntime` and `Placement`.

Two steps are coarser than the code. `Create` is one step for the two critical sections of the
counter and the put in a queue, which `TaskRuntime` splits. And a thief gives `sl` up when it
has its descriptor, where the code holds it until the arguments of a stolen task have come too: more
thieves of a node may overlap here than in the program.

`Apply` is what a switch does to a node, by a call, a local call or a message. A failed
round of steal attempts clears `stealing` too (`StealReply`). `prefetch_decision` depends on
timings and is a free choice. `made` records the calls.

`Broadcast` adds three steps per node for the sender and two for the receiving server,
on the channels and locks of `NodeComm`. `sendsAddress` FALSE is the code as written,
which sends the first word of the data where the address is meant.

Properties: `DepCount` (counters against tasks in queues, messages, hands and under way
home), `OnePlace` (an unfinished task is in one place of the cluster), `RightMessage` (the
message a receive takes is the one it is for), `RepliesInOrder` (one request or reply per
thief and victim), `Agreement` (switches), `Arrived` (broadcasts), `RefinesForkJoin` (the whole
cluster keeps the promise of `ForkJoin`), `CallsReturn` and `StealsReturn` (liveness).

### Placement

The nine functions of `torcc_queue.cpp` that choose a node, a queue and an end of it, the id
arithmetic of `torcc_comm.cpp`, and the part of the server that reads the flags in the
descriptor. The three rotating functions have static variables without a lock: each
read and each write is an action, and the two stores of the first call may be seen in
either order. The loop that looks for a task to prefetch runs to index `kthreads` of an array
of ten queues: `SearchAssumption` says that there are fewer workers than queues.

Properties: `TargetExists`, `OneCopy`, `RoundRobin` (a single creator of a node deals tasks
out evenly to workers that exist), `CreationOrder` (tasks put at the end of one queue stay
in order, also when they travel), `LandsWhereAsked` (the flags and their reader agree; a prefetched
task has been placed twice, and since nobody clears `insert_in_front` it goes to the front of
the private queue if it was ever placed at a front).

### Arguments

One task, its arguments in every passing mode and with zero, one or several elements,
through the four creating calls and up to `MaxHops` moves (sent by placement, prefetched,
stolen). Memory is a set of cells, one for each variable, private copy and buffer; an address is
wild on a node that does not have its cell. The loops over the arguments are one action per
iteration, on the sending and on the receiving side. `CALL_BY_VAL` and `CALL_BY_COP` are the same
constant in `torcc.h`.

Properties: `SeesCallerData`, `ResultsBeforeJoin`, `PayloadMatches` (the messages under way
are the ones the receiver's loop will take, in its order), `CopiesFreedOnce`.

### Lifecycle

From `opt`'s barrier to the last one of `md_end`: `EnterCollective` and `LeaveCollective` for every
`MPI_Barrier` and `MPI_Allgather`, in the order in which vp 0 of a node meets them; the rendezvous on
`work_created`; searches that find nothing, with the requests to prefetch they begin with and the
steal attempts they end with, which may be under way when the application ends; `torc_finalize`, `TERMINATE_WORKER_THREADS`, `md_end`, and the server's end by
message (thread-safe library) or by flag. `exitUnlocks` says whether `pthread_exit` runs the
destructor of the `lock_guard` in `md_end`: it does with unwind tables.

A search first asks the other nodes, one after another, to prefetch: `target_node[w]` is whom it asks
next, `PrefetchRequest` sends, and `NoRequest` passes a node by, as `prefetch_request` does when
`termination_flag` is set or `prefetch_decision` is against it. When `target_node` has come round
to the own node the search looks at the queues (`Looked`), and steals or gives up. Prefetching is on
or off for the whole of a setup: `setup.requests` is 0 where it is off, otherwise the bound of the
requests under way from one node to another, which the code does not bound. The server takes a request
and has nothing to give (`ServePrefetch`). A round of steal attempts has one victim here, the next node;
`NodeComm` has the whole round.

Nothing waits for a request to prefetch, and nothing stops them before the workers exit: on
node 0 with a thread-safe library `termination_flag` is never set. They reach a server from other
MPI sources than the message of its own node that ends it, so that a server may end with one
unreceived. `NobodyLeftBehind` therefore says that every *other* message has been received
(`Due` of a channel is empty).

Properties: `StartsTogether`, `NobodyLeftBehind`, `AnsweredOrOver` (no thief waits for a server
that is gone), `Starts` and `EveryoneLeaves` (liveness).

## The runs

| Run | Instance | Shows |
|---|---|---|
| `join` | 3 workers, 3 tasks, 2 public queues; `task`, `wait_all`; structured | all safety properties of structured fork/join |
| `all_calls` | 2 workers, 2 tasks; all calls; unstructured; dequeues may deliver or lose | `IInv` and the join guarantees for every mix of the calls |
| `live` | 2 workers, 3 tasks; `task`, `wait_all`; fair | waits return, queued tasks finish |
| `as_written_wait` | 2 workers, 2 tasks; fair; dequeue loses | finding: a wait never returns |
| `block2` | 2 workers, 2 tasks; `task`, `wait_all2` | finding: `wait_all2` leaves work behind |
| `queue` | 3 threads, up to two dequeue; 4 descriptors | list shape, refinement, no null dereference with one dequeuer |
| `cluster` | twelve setups, below; fair | everything stated about several nodes |
| `steal_holding` | 2 nodes, thread-safe library, stealing; fair | finding: thieves wait for each other |
| `broadcast_as_written` | 3 nodes, one broadcast of one creator | finding: the value does not arrive |
| `placement` | five setups on two nodes of one or two workers, 3 queues | everything stated about placement |
| `arguments` | 3 nodes, 2 arguments, 2 moves | everything stated about arguments |
| `lifecycle` | six setups, below; fair | everything stated about start and end |

The setups of `cluster` (`MCCluster`): `Transfer` (two tasks with argument and result messages, to a
node with two workers), `TwoCreators` (both nodes create tasks on each other, with results),
`Direct` (tasks executed by the server), `StealPolling` (two nodes, library not thread-safe),
`StealThree` (three nodes, two of which switch stealing on: a stolen task may be stolen
again and a thief goes from one victim to the next), `Thieves` (thread-safe library, two thieves of
one node), `Prefetch`, `Switches` (three nodes, two switch calls of one creator), `LocalSteal` (local
switches on both nodes), `Broadcasts` (three nodes, two broadcasts), `BroadcastTask` (broadcasts beside
a task with arguments and results), `TwoBroadcasters` (two nodes broadcast at once). One or two tasks
are enough: messages are mistaken for each other in pairs, and a counter of two shows a
decrement too many or too few. What the setups avoid is listed under Limits.

The setups of `placement`: `OneCreator` (three tasks of two levels, prefetching), `Race` (two
creators of one node, four tasks, so that the target passes the end of the cluster),
`EveryFunction` (all nine functions from two nodes), `Rounds` (four tasks of one creator: a round and
more over up to four workers), `Twice` (tasks placed at the front of a queue or on a node, which a
prefetch places again). All numbers of workers from one to two per node are initial states.

The setups of `lifecycle`: `Safe` (2 + 2 workers, thread-safe library, stealing on node 1),
`Polling` (2 + 1 workers, library not thread-safe, stealing on both), `ThreeNodes` (1 + 2 + 2
workers), `NoUnwinding` (`exitUnlocks` FALSE), `Prefetching` (2 + 1 workers, thread-safe library,
stealing on node 1, one request to prefetch under way per direction), `PollingPrefetch` (the same
without a thread-safe library). One request per direction is enough for one to be left when a server ends,
and for one to be ahead of a message that matters.

Bounds of the runs about `TaskRuntime`. `Tasks` bounds how often tasks are created; three are enough for a task
with two children, a chain of three levels, siblings on different workers, and a
worker that runs an unrelated task on top of a waiting one. Three workers let two
of them race on the counter of a task that waits on the third. `NumLevels` = 2
instead of 10: level 1, level 2 and, with three tasks, level 3 exist, so the last
level is folded into the last queue as levels above 10 are. A descriptor is created once in
the model; recycling is not modelled. `ndep` and `level` need no
bound of their own: they are limited by the number of tasks. Four descriptors let
a queue become empty, have one and have several elements, and become empty again.

Symmetry is used over `Tasks` for safety only: no definition chooses between two
tasks except by their state. The liveness runs do not use it.

Deadlock is checked in every run about `TaskRuntime` except `all_calls`. There all
workers may be in `wait_all3`, whose loop (a stutter of the model) executes no
task: a real hang, and the reason why `live` leaves `wait_all3` out. The other runs
really stop: `queue` when all descriptors have been used or a thread has crashed, `placement` and
`arguments` when every task is where it goes, `lifecycle` when everybody has left, and in
the cluster runs thieves really hang with a thread-safe library (finding `steal_holding`).

Fairness. Workers are preemptive threads, and no lock of the task layer is held
while another one is awaited or while a thread sleeps, so each worker's next step
happens eventually (`WF` of `Step(w)`). `SF` of `Finish(w)` says that an application
whose task could return again and again does return from it, instead of calling
`task` or `wait_all` for ever. Neither says which task a worker takes. In the cluster and in
`Lifecycle` every thread is scheduled (`WF` of its step as a whole), messages are delivered and
collectives complete. A server takes messages of any source (`MPI_ANY_SOURCE`), and `WF` of its step
does not promise each source its turn: the setups with prefetching have two nodes, where the message
that must not starve follows the requests in their own channel or comes after the last of them. On three
nodes `EveryoneLeaves` would need an MPI library that is fair between sources. What the application
does (creating, waiting, switching, broadcasting, finalizing) is not fair, it may stop at any point.
`Placement` and `Arguments` have no liveness properties and no fairness.

## The proofs

The theorems about `TaskRuntime` hold for every finite set of workers and tasks, every
number of queue levels, every set of API calls and every choice of `Dequeues` and
`JoinBeforeReturn`; those about `DescriptorQueue` for every finite set of descriptors and
threads; those about `Lifecycle` for every number of nodes, of workers on each node and
of steal attempts, every bound of requests to prefetch, both kinds of MPI library and both kinds of build; those about the cluster
for every number of nodes, of workers, creators and tasks, every set of calls, every bound of a
setup, both kinds of library, with and without messages for arguments and results; those about
`Arguments` for every number of nodes, arguments and moves; those about `Placement` for every number
of nodes from two, of workers on each, of tasks and queues, every set of creators and every choice
of placement functions. They use the named
assumptions of these modules (the sets are finite and disjoint, `Main` is a worker,
`NumLevels` is positive; at least one worker on each node, at least two nodes in `Lifecycle` and
`Placement`, fewer workers than queues in `Placement`, at most 99 worker numbers) and nothing else, with two exceptions.

The first is `PayloadsApart`, the premise of every theorem about the cluster: not both
prefetching and argument messages, not both `task_direct` and result messages. Under these
calls the code gives a server's payloads the tag of its descriptors (see
[Limits](#limits)), a server may take one for the other, and the types of the model are
violated together with those of the program. The premise is about the setup, which no step
changes; all twelve setups of run `cluster` satisfy it.

The second, `setup.sendsAddress`, is a premise of `ClusterArrived` alone: the broadcast sends the
address of the variable, which is what its receiver takes. As written it sends the first word
of the data, and run `broadcast_as_written` shows that `Arrived` then fails.

| Theorem | Statement |
|---|---|
| `Invariance` | `Spec => []IInv` |
| `TypeCorrect`, `CounterCorrect`, `StacksCorrect`, `QueuesCorrect` | its parts that matter by themselves |
| `JoinsAreSound` | `Spec => JoinSound` |
| `ParentsStay` | `Spec => []NoStaleParent` |
| `RuntimeImplementsForkJoin` | `Spec => RefinesForkJoin` |
| `NobodyWaitsInACircle` | `Spec => []NoWaitCycle` |
| `OneDequeuerIsSafe` | `DescriptorQueue`: `Spec => []NoNullDeref` |
| `ListIsSound` | `DescriptorQueue`: `Spec => []ListShape` |
| `QueueImplementsDeque` | `DescriptorQueue`: `Spec => RefinesDeque` |
| `ClusterStartsTogether` | `Lifecycle`: `Spec => []StartsTogether` |
| `NobodyAsksInVain` | `Lifecycle`: `Spec => []AnsweredOrOver` |
| `NothingIsLeft` | `Lifecycle`: `Spec => []NobodyLeftBehind` |
| `LifecycleTypes` | `Lifecycle`: `Spec => []TypeOK` |
| `MessagesAreSound` | `Lifecycle`: `Spec => [](CrewInv /\ MailInv)`, the invariant behind these |
| `ClusterTypes` | cluster: `ClusterSpec /\ PayloadsApart => []TypeOK` |
| `ClusterCounts` | cluster: the same for `DepCount` |
| `ClusterPlaces` | cluster: the same for `OnePlace` |
| `ClusterReplies` | cluster: the same for `RepliesInOrder` |
| `ClusterSwitchesAgree` | cluster: the same for `Agreement` |
| `ClusterRightMessage` | cluster: the same for `RightMessage` |
| `ClusterArrived` | cluster: `ClusterSpec /\ PayloadsApart /\ setup.sendsAddress => []Arrived` |
| `ClusterForksAndJoins` | cluster: `ClusterSpec /\ PayloadsApart => RefinesForkJoin` |
| `ArgumentsReachTheFunction` | `Arguments`: `Spec => []SeesCallerData` |
| `ResultsReachTheCaller` | `Arguments`: `Spec => []ResultsBeforeJoin` |
| `SenderAndReceiverAgree` | `Arguments`: `Spec => []PayloadMatches` |
| `CopiesAndBuffersFreed` | `Arguments`: `Spec => []CopiesFreedOnce` |
| `TargetAlwaysExists` | `Placement`: `Spec => []TargetExists` |
| `OneCopyAlways` | `Placement`: `Spec => []OneCopy` |
| `RoundRobinAlways` | `Placement`: `Spec => []RoundRobin` |
| `CreationOrderAlways` | `Placement`: `Spec => []CreationOrder` |
| `LandsWhereAskedAlways` | `Placement`: `Spec => LandsWhereAsked` |

The argument. `DepCount` alone is not inductive. That a finishing task was counted
needs its parent to be right, that `curr[w]` is the task that calls needs
`StackInv`, that a task is started once needs `QueueInv` (one place in one queue)
and `HandsInv` (a task outside the queues is in one worker's hands), and both need
`FieldsInv` (the scheduler's caller agrees with `pc`). Most actions only move the
descriptor on top of one stack; `LocalMove` says so once, and each conjunct then
has one lemma for such moves and one case per remaining action. The counter's
lemmas (`CountMove`, `CountStep`) need the cardinality of the set of children to change by one
when a task is put in the queue or returns.

`JoinSound` follows step by step: a wait ends only in a step of its own worker
that has just seen a counter of at most 0 (`EndOfJoin`), and then `DepCount` leaves
no room for a child. `ParentsStay` adds that a descriptor that has returned has
joined (`DoneJoined`). The refinement uses all of it: each action is a spawn, a
start, a begin or end of a join, a return, or invisible.

`NobodyWaitsInACircle` numbers the tasks in the order in which `execute` starts them
(`StartOrder`). A task is suspended only under one that was started later, and waits
only for its children, which are started later than it, because a parent runs when it
creates them (`ParentsStarted`). So a descriptor waits only for higher numbers, and of a
group that waits for itself the one with the highest number would wait for nobody. The
numbers are an existential of the invariant; no code keeps them.

`QueueIsAList`, the inductive invariant of `DescriptorQueue`, carries the sequence that
the pointers spell out as an existential, and needs that fresh descriptors have a null
`next`: this is exactly what `enqueue_tail` relies on by not clearing it.
`ContentIsSpelling` shows that the walk along the pointers, a recursive function, finds
this sequence; `ListShape` follows, and each locked operation changes the sequence as
`Deque` says. A step of that lemma is an induction on the length of the walk: the library's
induction theorems cannot be instantiated, so `Facts` proves that a nonempty set of
numbers has a least element, and the proof looks at the first place where the walk goes wrong.

The invariant of `Lifecycle` has three parts. `CrewInv` ties the place of each main thread to the
number of collectives its node has entered (`Phase`), so that a node that has left a
collective is ahead of nobody (`OthersFollow`), and says that `work_created` and
`active_workers` are the cardinalities of the workers that have arrived and that remain; a
main thread that has passed the rendezvous, or `md_end`'s loop, then knows that all its
workers have started, or exited. `MailInv` follows the messages. Servers are told to stop only
when the application has finished (`OverInv`, all that holds without a thread-safe library).
With a thread-safe library, `TheftInv` says that the one steal attempt of a node, which
`sl` guards, is in one place: a request, a server about to reply, or a reply with the tag
of the thief; and `ReleaseInv` that each node is told once to finish and each server once to
stop. At the last barrier every main thread is past its server, so that no thief is left,
and with it no message but requests to prefetch: `NothingIsLeft`. Of these `MailInv` knows only
that they are on the channels of the servers; `TargetInv`, in `CrewInv`, that they are sent
to nodes that exist.

`BoundInv`, the third part, is there for `TypeOK`, which bounds the messages of every channel,
requests to prefetch apart (`Owed` counts the others).
Without a thread-safe library a thief gives up and may ask again while its reply is still under way,
so that replies pile up, and a node has more than one steal attempt about. But each attempt needs
stealing to be enabled and clears it when it fails: what a node may begin, its requests,
a server about to reply to it and the replies with one tag are together (`Attempts`) at most the
calls of `local_enable_stealing` that were made (`Allowed`). The remaining messages are those of the
end (`EndInv`), which node 0 sends each node once.

The invariant of the cluster, `ClusterInv` in `ClusterProofs`, has four parts.

* `ShapeInv`: every channel carries the messages that its tag is for, every
  thread remembers what its place in the code needs (a task in hand, a peer, a tag that is
  its own), and a queue holds tasks. `TypeOK` follows from it, and it is what tells a later
  step which messages a receive can find. It needs `PayloadsApart`.
* `PlaceInv`: for every task there is one `Location` (nowhere, a queue, a message, an answer, a thread)
  where it is once, and its stage fits that place. `OnePlace` speaks of unfinished tasks only and is
  not inductive: that a returned task comes home once needs its answer and the thread that waits
  for its results to be places as well. Occurrences are counted with `Num`, how many elements of a
  sequence are in a set, whose laws for `Append`, `Tail` and a put at the front are in `Facts`; a step
  then moves one task from a place to a place (`Goes`), or none, and `Relocate` says once what this
  does to the invariant.
* `StealInv`: for each thief and victim, the requests, replies and a server about to reply add
  up to one while the thief waits and to none otherwise. `RepliesInOrder` is its first part;
  the argument messages that follow a stolen task on the same channel have to be counted too, because a
  thief that waits for them must not find a reply, nor the next attempt find an argument.
* `Counts`: `DepCount`, and when a creator holds its token: never in a wait, and in the application
  whenever its counter is not 0. So the wait that ends, or the first task after it, finds the
  counter it expects.

`MessageProofs` puts four more beside these, each inductive together with `ClusterInv`.
`AgreeInv` is for `Agreement`, which speaks of the moments when no message of a
switch call is under way and is not inductive: what a node will be told matters before. `Told` is
the setting that a node will have when it has taken all messages it has been sent, `Latest` what
the calls in those messages (`SentTo` says how many they are) asked for last. For prefetching the
two are equivalent; for stealing the first implies the second, since a failed round clears the switch.
A call appends to the calls and sets the own node, its loop appends to one channel after the
other, a server takes a head: `LatestAppend`, `ToldAppend` and `ToldTail` are these three steps.

`RightMessage` says that the message a thread finds is the one it waits for, and needs two more
invariants, because messages with payloads come in two kinds. A task that is sent, an answer and the header
of a broadcast announce their payload on one channel (tag `MAX_NVPS`) and the payload follows on another (the
sender's tag), where those of several announcements may be queued at once.
`MatchInv` says that the two lists match in order: `Announced`, what the server has taken and still
waits for (`Pending`) and the announcements under way, and `Owed`, the payloads under way and the one that the
sender has announced and not sent yet (`Debt`). An announcement and its debt are appended together, a payload
takes the place of its debt, and a server takes the head of either list. A stolen task and its arguments
travel on one channel instead: `LoadInv` says that whatever is between a victim and a thief is of one task,
the task that either has in hand.

`SpreadInv` is for `Arrived`. While a broadcast runs, the value is at every node that its loop has passed;
at the node where `MPI_Ssend` waits it is there or under way (`Spread`). The data under way is
the value and a header, or a server that waits for data, has the address of the variable
(`UnderWay`); nobody else broadcasts the same variable (`OwnVariable`). That a creator which is
back in its application has no header or data left under way is `MatchInv` again.

Each action has one lemma per part. The refinement uses all of `ClusterInv`: a task starts where it was
spawned and in one place, it returns once, its answer finds it returned, and a wait ends with a
counter of zero.

`ArgumentsInv` follows one task's arguments. `Caller` and `Buffers` say where the caller's data is
until the task has been executed: in its variable, in the private copy, in the buffers of the node
the task is on. `Sender` says the same of what the sender's loop has still to send, because the
task may be received, and even be queued, while that loop goes on; it is why a sender reads the cells of the
hop before. `Mail` compares two loops: the messages under way are, in order, one for each argument
that the sender's loop has passed, the receiver's has not, and that travels (`UnderWay`); what
travels the sender decides with `Sent` and the receiver with `Receives`, which `Now` shows to be
equivalent for what `Marshal` can put in a descriptor. `Results` and `Freed` follow the way back. One
loop step appends to the list (`MailGrows`) or takes its head (`MailShrinks`).

The invariant of `Placement` starts from the numbering: `sum_vp` is a number of workers, hence
monotone, and a global number below the total has one node and one worker
(`NodeOf`, `ThreadOf`). On this rest the ranges in `JobInv`, from which `TargetExists` follows:
a target is read and written in separate steps, so what a creator has read and what it is about
to write are in range too. The other parts:

* `PlaceInv`: a task is at most once in at most one slot, and in none exactly while it is fresh or in the
  hands of its creator, who is its only one. A slot changes by an append, a put at the front or a
  removal of the head, and `Moved` and `Stored` say so for all slots at once.
* `FlagInv`: a fresh descriptor's flags are clear and those of a placed one say which functions
  have placed it. It is what the server that receives it reads.
* `CreatedInv`, `OrderInv`: the order in a queue alone is not inductive, since a message is appended
  to it. So messages are in order as well, and none is older than a task that is already in
  the queue it leads to; a node sends no message to itself; and a task that was only placed at
  ends of public queues travels from its home, because prefetching changes `asked`.
* `RoundInv`: the workers from the creator's own up to the target, round the cluster, have had one task more than the
  others (`Dealt`). Before the first call has set its static variables nobody has had one, and while
  it sets them, in either order, the creator must remember which store is missing.

Only model-checked: the liveness properties, which TLAPS does not prove. Every invariant and
every action property of the passing runs is stated by a theorem.

## Findings

* **A dequeued task is lost** (`include/torcc_base.h:82`, run `as_written_wait`).
  `dequeue` takes the pointer by value. The first task that is created is unlinked
  by the next search and never run, and the wait polls for ever.
* **`wait_all2` is not a barrier** (`src/torcc_runtime.cpp:211`, run `block2`). Its
  comment promises to block until no more work exists. It returns when its own
  counter is 0 and its own search found nothing, while another worker is about to
  put a task in a queue the search has passed.

* **Thieves wait for each other** (`src/torcc_comm.cpp:247`, run `steal_holding`). With a
  thread-safe library a thief waits for its reply with `comm_lock` held, and its node's
  server needs this lock to reply. Two nodes that ask each other at once hang.
* **A broadcast sends the value as the address** (`src/torcc_comm.cpp:348`, run
  `broadcast_as_written`). `mydata.localarg[1] = *a` where the receiver takes an address.

### Limits

Modelling led to more places where the code goes wrong or promises little. The properties are
stated so as not to claim them, and no run is devoted to them:

* Two racing dequeuers may dereference null (`include/torcc_base.h:86`): the limit of
  `NoNullDeref`.
* Two nodes that send each other tasks with array arguments may hang: both servers wait in
  `receive_arguments` with `comm_lock` held, between the two critical sections of a sender
  (`src/torcc_comm.cpp:231`). `TwoCreators` has no argument messages.
* A server that forwards a prefetched task sends its arguments with tag `MAX_NVPS`
  (`src/torcc_server.cpp:133`), and the results of a task that a server executed itself travel with this tag
  too (line 81). It is the tag on which servers receive descriptors, so that one may be taken for the
  other. `Prefetch` has no argument messages and `Direct` no result messages.
* In a build with `-fno-unwind-tables`, as `src/CMakeLists.txt:28` asks for, `al` stays locked when
  the first worker leaves with `pthread_exit` (`src/torcc_thread.cpp:86`), and vp 0 waits for
  ever. `EveryoneLeaves` excuses it.
* Two threads of one node that broadcast at once may hang, and so may a broadcast while the other
  node's server waits for the lock that a broadcast holds there. Two callers of the switches may leave the nodes
  disagreeing, and `Agreement` is claimed for one. An enable that arrives during a failed round of steal attempts is lost.
* Without a thread-safe library a reply may arrive after its thief has given up.
* While prefetching is on idle workers send requests to prefetch without bound, and on node 0 with a
  thread-safe library even after `torc_finalize` (`src/torcc_runtime.cpp:306`, `torcc_server.cpp:211`).
  A server may end with such requests unreceived. `NobodyLeftBehind` and the bound in `TypeOK`
  leave them out; `setup.requests` bounds them.
* The last element of the public queues that the search for a task to prefetch visits is out of
  range with ten workers or more (`src/torcc_server.cpp:129`): `SearchAssumption` excludes it.
* A task that has been dequeued and is put in another queue keeps its `next` pointer
  (`include/torcc_base.h:71`): `DescriptorQueue` puts fresh descriptors in.
* A worker that finds the application finished exits with the tasks suspended on its stack
  (`src/torcc_runtime.cpp:372`): `Lifecycle` has no tasks, its application finalizes after joining them.
* The buffers of single-element results, and copies on nodes a task only passed through, are never
  freed.
* `get_vpid` dereferences the number stored under its key; the models take the number.
* Functions registered after `torc::init` are missing from the tables of the other nodes, as in
  `demo/mergesort.c:151`; and in that demo the midpoint in `sort` (line 62) leaves its range, and
  `verify_sort` (line 141) rejects ascending arrays. `demo/async.c` increments `taskid` in main
  outside the mutex that its callbacks take (line 201).

## What is not modelled

* Recycling of descriptors: with the code as written `reuse_q` never returns one.
* Statistics, timing and their reset message: nothing depends on them but
  `prefetch_decision`, a free choice in `NodeComm`.
* MPI itself (external), its types, errors and finite buffers; messages are not lost.
* Options: their values are the parameters of the setups; only `opt`'s barrier is modelled.
* The function table: one thread fills it before the others exist.
* Nested task creation across nodes, and the scheduler's stack there: `TaskRuntime` has them on
  one node.
* The demos: users of the API, which the models let make any sequence of calls.

`src/torcc_runtime.cpp` is missing from `CMakeLists.txt`, and the README warns that
the port may not compile; the models follow the source text as it stands.

## Plan

What would come next, in this order:

1. `DescriptorPool`: `reuse_q` and `fetch_work` on top of two queues with a dequeue
   that delivers: stale `next` pointers, recycling in `cleanup` before the worker
   has left it, the parent pointer of a late child.
2. Nested tasks in `NodeComm`: `TaskRuntime`'s stacks on every node.
